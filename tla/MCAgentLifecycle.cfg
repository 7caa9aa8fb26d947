SPECIFICATION FairSpec
CHECK_DEADLOCK FALSE
CONSTANT MaxRetries = 3
INVARIANTS TypeOK ReportingContinues OneConnection GivingUpIsFinal
PROPERTY Reconnects
