SPECIFICATION Spec
CONSTANTS
    s1 = s1
    u1 = u1
    Sessions = {s1}
    Origin <- OneOrigin
    Ports = {1}
    NoPort = 0
    NoUuid = NoUuid
    QueueMax = 2
    BufferMax = 1
    Frames = 2
    Attempts = 1
    MaxFaults = 1
CHECK_DEADLOCK FALSE
INVARIANTS FramesInOrder DetachedIsGone
PROPERTIES HangupNoticed CloseReleases
