SPECIFICATION FairSpec
CHECK_DEADLOCK FALSE
CONSTANTS
    Conns = {c1, c2}
    AgentIds = {0, 1}
    MaxSessions = 2
INVARIANTS
    TypeOK
    ContextsAgree
    NoDeafSession
PROPERTIES
    OnlyOwnErrors
    SilentSessionIsDropped
