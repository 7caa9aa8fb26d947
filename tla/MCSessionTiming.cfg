SPECIFICATION Spec
CONSTANTS
    TicksPerSecond = 2
    MaxRetries = 5
    MaxDelay = 2
    Commands = {c1, c2}
INVARIANTS TypeOK DroppedWithinFiveSeconds GivesUpOnTime
PROPERTY ReportingAgentStays
