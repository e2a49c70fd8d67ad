SPECIFICATION Spec
CONSTANTS
    MaxSessions = 1
    MaxHeard = 1
    MaxTts = 1
    MaxHangups = 1
    MaxTalk = 1
CHECK_DEADLOCK FALSE
INVARIANTS FailureKept SpokenIsSettled ConnectionsGone
PROPERTIES SessionEnds
