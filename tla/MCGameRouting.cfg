SPECIFICATION GSSpec
CONSTANTS
    a = a
    b = b
    d = d
    s1 = s1
    s2 = s2
    l1 = l1
    l2 = l2
    n1 = n1
    n2 = n2
    Uids <- TwoUids
    Sessions <- MCSessions
    SessionOf <- TwoSessionOf
    Routes <- TwoLinks
    NetShards <- MCNetShards
    NetShardOf <- MCNetShardOf
    Requests <- RoutingRequests
    RoomSizes = {1, 2}
    ShardCount = 2
    MaxRooms = 3
    MaxPending = 3
    MaxRequests = 3
    MaxInFlight = 1
    MaxLogins = 1
    MaxBreaks = 1
VIEW GSView
SYMMETRY ClientSymmetry
INVARIANTS
    GSTypeOK
    RoomIdsOfShard
    RequestsReachTheirRoom
PROPERTIES
    RefinesLogic
