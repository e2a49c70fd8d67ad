SPECIFICATION BrowserFairSpec
CHECK_DEADLOCK FALSE
CONSTANTS
    c1 = c1
    c2 = c2
    Clients = {c1, c2}
    AudioMax = 1
    ControlMax = 1
    ToneChunks = 1
    MaxIn = 2
    MaxOut = 1
    MaxNotes = 1
    Proxied = FALSE
INVARIANTS OneVoice TailHeard
PROPERTIES EndReleasesTasks FailedSendEnds
