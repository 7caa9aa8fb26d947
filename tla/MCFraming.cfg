CONSTANTS
    HeaderSize = 2
    TrailerSize = 1
    W = 8
    InitialBuffer = 4
    Sizes = {0, 2, 6}
    MaxFrames = 3
SPECIFICATION Spec
INVARIANTS
    NoStaleBytes
    InSync
    RefusalMeansDamage
    HandledInOrder
CHECK_DEADLOCK FALSE
