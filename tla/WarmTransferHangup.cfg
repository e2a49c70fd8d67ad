SPECIFICATION Spec
CONSTANTS
    f1 = f1
    f2 = f2
    c1 = c1
    Flows = {f1, f2}
    Calls = {c1}
    Managers = {1, 2}
    Departments = {{2}}
    NoFlow = NoFlow
    NoCall = NoCall
    NoManager = NoManager
    MaxAttempts = 1
    PoolSize = 3
    MaxFaults = 1
CHECK_DEADLOCK FALSE
PROPERTIES HangupDetected
