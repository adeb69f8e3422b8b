SPECIFICATION Spec
CONSTANTS
    Calls = {c1, c2}
    Users = {u1}
    JoinRoles = {"host"}
    Times = {t1, t2}
    NoTime = NoTime
    NoUser = NoUser
    DBErrors = FALSE
    MaxRows = 2
    MaxEvents = 3
INVARIANTS
    NeverRevived
CHECK_DEADLOCK FALSE
