SPECIFICATION NetSpec
CONSTANTS
    u = u
    Uids <- OnePlayer
    LinkCount = 1
    kMaxSendQueueDepth = 1
    MaxAccepts = 2
    MaxPackets = 2
    MaxTasks = 1
INVARIANTS
    RouteNamesItsLink
CHECK_DEADLOCK FALSE
