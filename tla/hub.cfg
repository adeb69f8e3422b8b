SPECIFICATION Spec
CONSTANTS
    Conns = {c1, c2}
    Gateways = {g1}
    Pids = {c1, c2}
    PidOf <- OwnPid
    MaxFrames = 1
SYMMETRY AnyOrder
INVARIANTS
    TypeOK
    TablesTogether
    LateSeesEarly
    TilesExact
CHECK_DEADLOCK FALSE
