SPECIFICATION Spec
CONSTANTS
    Calls = {c1, c2}
    Tokens = {t1, t2, t3}
    NoToken = NoToken
    DBErrors = FALSE
    NetworkLoss = FALSE
PROPERTIES
    NeverRefusedAlive
CHECK_DEADLOCK FALSE
