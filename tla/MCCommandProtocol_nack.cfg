SPECIFICATION Spec
CONSTANTS
    Agents = {a1}
    Policies <- MCPolicies
    Loads <- MCLoads
    IdSpace = 4
    MaxRetries = 1
    MaxCommands = 2
PROPERTY NackCountsAsFailure
