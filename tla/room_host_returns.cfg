SPECIFICATION RoomSpec
CONSTANTS
    c1 = c1
    c2 = c2
    u1 = u1
    u2 = u2
    Calls = {c1, c2}
    Users = {u1, u2}
    UsersOf <- HostTwice
    RolesOf <- HostTwiceRoles
    JoinRoles = {"host", "co-host", "participant"}
    Times = {t1}
    NoTime = NoTime
    NoUser = NoUser
    DBErrors = FALSE
    MaxRows = 12
    MaxEvents = 16
INVARIANTS
    HostLeftMeansGone
CHECK_DEADLOCK FALSE
