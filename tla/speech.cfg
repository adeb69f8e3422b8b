SPECIFICATION FairSpec
CONSTANTS
    Slices = {1, 2}
    SegMax = 8
    Window = 4
    Step = 2
    Workers = 1
    Retries = 1
    Threshold = 2
    OpenFor = 2
    MaxSegs = 2
    MaxFaults = 4
INVARIANTS
    SpeechTypeOK
    NoStaleState
    HeardFromFirstWindow
PROPERTIES
    RefusalJustified
    CallsEnd
CHECK_DEADLOCK FALSE
