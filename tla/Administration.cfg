SPECIFICATION Spec
CONSTANTS
    r1 = r1
    r2 = r2
    keep = keep
    unset = unset
    Keep = keep
    Unset = unset
    Requests = {r1, r2}
    Keys = {1, 2}
    Configs = {1, 2}
    Default = 1
    Fields = {"api_key", "webhook_secret"}
    Required = {"api_key"}
    Values = {1}
    Resources = {"id", "phone"}
    Agents = {"agent"}
    Docs = {"doc"}
    MaxBindings = 2
    MaxRequests = 4
CHECK_DEADLOCK FALSE
INVARIANTS ConfiguredIsTested LinesAsListed
PROPERTIES LockedUntilReentered AgentAsAsked
