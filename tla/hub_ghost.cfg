SPECIFICATION Spec
CONSTANTS
    Conns = {c1, c2}
    Gateways = {}
    Pids = {c1, c2}
    PidOf <- OwnPid
    MaxFrames = 0
SYMMETRY AnyOrder
INVARIANTS
    NoGhostTile
CHECK_DEADLOCK FALSE
