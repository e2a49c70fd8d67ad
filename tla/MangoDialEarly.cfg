SPECIFICATION DialSpec
CONSTANTS
    MaxHooks = 1
    MaxWire = 1
    MaxChild = 1
    ChildStates = {"INITIATING", "ANSWERED", "TERMINATED"}
CHECK_DEADLOCK FALSE
INVARIANTS AnswerIsConfirmed
