SPECIFICATION FairSpec
CONSTANTS
    Sessions = {1, 2}
    Homes = {0, 1}
    Asked <- AskedSets
    Cap = 2
    MaxMsgs = 2
    MaxConns = 2
    MaxTicks = 2
    MaxBroken = 1
INVARIANTS
    GatewayTypeOK
    LeakOnlyAfterLoss
    NotedOnce
    FinalOnLeave
    JoinRespected
PROPERTIES
    ImplementsFeed
    ComesBack
CHECK_DEADLOCK FALSE
