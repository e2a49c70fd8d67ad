SPECIFICATION MCSpec
CONSTANTS
    w1 = w1
    w2 = w2
    w3 = w3
    s1 = s1
    s2 = s2
    Workers = {w1, w2, w3}
    Sessions = {s1, s2}
    Late = s1
    Stopped = w3
    NoWorker = NoWorker
    NoSession = NoSession
    LockTTL = 3
    MaxFaults = 0
CHECK_DEADLOCK FALSE
PROPERTIES EachOrphanVisited
