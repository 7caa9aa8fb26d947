SPECIFICATION AnsweringSpec
CONSTANTS
    Agents = {a1}
    Policies <- MCPolicies
    Loads <- MCLoads
    IdSpace = 4
    MaxRetries = 1
    MaxCommands = 1
PROPERTY EveryAgentFollows
