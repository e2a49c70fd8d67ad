SPECIFICATION Spec
CONSTANTS
    c1 = c1
    c2 = c2
    r1 = r1
    r2 = r2
    Calls = {c1}
    Requests = {r1, r2}
    NoCall = NoCall
    NoRequest = NoRequest
    Cap = 1
    Production = FALSE
    Configs = {{}, {"vapi"}, {"direct"}, {"vapi", "direct"}}
    Serial = FALSE
    Traffic = {"end-of-call-report", "hang", "transfer-destination-request"}
    Stages = {"in-progress"}
    MaxFaults = 1
CHECK_DEADLOCK FALSE
INVARIANTS StopHeard OneLeg
PROPERTIES SettledStays
