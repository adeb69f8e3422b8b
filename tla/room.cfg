SPECIFICATION FairRoomSpec
CONSTANTS
    c1 = c1
    c2 = c2
    u1 = u1
    u2 = u2
    Calls = {c1, c2}
    Users = {u1, u2}
    UsersOf <- HostAndAnyone
    RolesOf <- HostAndRoles
    JoinRoles = {"host", "co-host", "participant"}
    Times = {t1}
    NoTime = NoTime
    NoUser = NoUser
    DBErrors = FALSE
    MaxRows = 12
    MaxEvents = 16
INVARIANTS
    RoomTypeOK
    NoOrphanRow
    HubMatchesDb
    EveryoneTold
    EmptyRoomEnded
PROPERTIES
    ExitCompletes
CHECK_DEADLOCK FALSE
