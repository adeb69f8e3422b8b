SPECIFICATION Spec
CONSTANTS
    People = {1, 2}
    Emotions = {"happy"}
    MaxTextEvents = 1
    MaxBuckets = 1
    Settings <- MCSettings
    Widths = {13, 24}
    Lefts <- MCLefts
    Sides = {20}
    MinSide = 8
    MinFace = 10
    Alpha = 35
    Cap = 3
    MaxMsgs = 3
    MaxBucket = 1
    MaxFails = 1
INVARIANTS
    AnalysisTypeOK
    BoxInFrame
    TrackingMatchesEmotions
    SectionsAgree
CHECK_DEADLOCK FALSE
