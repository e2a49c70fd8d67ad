SPECIFICATION Spec
CONSTANTS
    e1 = e1
    e2 = e2
    r1 = r1
    r2 = r2
    Events = {e1, e2}
    Requests = {r1, r2}
    Inbound = {"in1", "in2"}
    Kinds <- MCKinds
    NoKind = NoKind
    NoEvent = NoEvent
    NoCall = NoCall
    MaxCopies = 2
    MaxFaults = 1
SYMMETRY Symmetry
CHECK_DEADLOCK FALSE
INVARIANTS OneSessionAlways
