SPECIFICATION Spec
CONSTANTS
    c1 = c1
    c2 = c2
    r1 = r1
    r2 = r2
    Calls = {c1, c2}
    Requests = {r1, r2}
    NoCall = NoCall
    NoRequest = NoRequest
    Cap = 1
    Production = FALSE
    Configs = {{"vapi", "direct"}}
    Serial = TRUE
    Traffic = {"status-update", "end-of-call-report"}
    Stages = {"in-progress"}
    MaxFaults = 0
CHECK_DEADLOCK FALSE
INVARIANTS CapHolds
PROPERTIES ImplementsCallStatus EndNoticed
