SPECIFICATION FairSpec
CONSTANTS
    Agents = {a1}
    Policies <- MCPolicies
    Loads <- MCLoads
    IdSpace = 4
    MaxRetries = 1
    MaxCommands = 3
INVARIANTS
    TypeOK
    DuplicateIsHarmless
    AnsweredMeansInMode
    PendingIsUnderWay
PROPERTIES
    AppliesInOrder
    PendingIsResolved
