SPECIFICATION Spec
CONSTANTS
    InMax = 1
    OutMax = 2
    InBatch = 1
    OutBatch = 2
    InstrBatch = 1
    MaxSteer = 1
    MaxTts = 1
    MaxEpoch = 1
CHECK_DEADLOCK FALSE
INVARIANTS NoStaleSpeech QuietAfterHandover
PROPERTIES VoicedUnlessFellBack
