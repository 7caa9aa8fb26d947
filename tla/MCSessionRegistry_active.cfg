SPECIFICATION Spec
CHECK_DEADLOCK FALSE
CONSTANTS
    Conns = {c1, c2}
    AgentIds = {1}
    MaxSessions = 2
INVARIANT ActiveConnectionsCounts
