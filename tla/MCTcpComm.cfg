SPECIFICATION FairSpec
CONSTANTS
    MaxSends = 3
    MaxInbound = 1
    MaxReady = 4
INVARIANTS
    TypeOK
    OneWriteAtATime
    PumpNeverStalls
    OneErrorPerDirection
    ReadErrorIsFinal
PROPERTIES
    FlushWritesEverything
    ImplementsLink
    FlushCloses
