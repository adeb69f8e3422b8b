SPECIFICATION FairSpec
CONSTANTS
    Calls = {c1, c2}
    Tokens = {t1, t2, t3}
    NoToken = NoToken
    DBErrors = TRUE
    NetworkLoss = TRUE
INVARIANTS
    TypeOK
    SessionSurvives
    RotatedOnce
PROPERTIES
    RefusedOnlyIfDead
    Answered
CHECK_DEADLOCK FALSE
