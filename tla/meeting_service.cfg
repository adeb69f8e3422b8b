SPECIFICATION FairSpec
CONSTANTS
    Calls = {c1, c2}
    Users = {u1}
    JoinRoles = {"host"}
    Times = {t1, t2}
    NoTime = NoTime
    NoUser = NoUser
    DBErrors = TRUE
    MaxRows = 2
    MaxEvents = 2
INVARIANTS
    TypeOK
    OneActiveRow
    StampsAgree
    AuditSound
    LeavesAccounted
PROPERTIES
    StampsSetOnce
    EndedIsFinal
    ImplementsLifecycle
    CallsReturn
CHECK_DEADLOCK FALSE
