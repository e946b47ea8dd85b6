SPECIFICATION GSFairSpec
CONSTANTS
    a = a
    b = b
    d = d
    s1 = s1
    s2 = s2
    l1 = l1
    l2 = l2
    n1 = n1
    n2 = n2
    Uids <- ThreeUids
    Sessions <- MCSessions
    SessionOf <- ThreeSessionOf
    Routes <- OneLink
    NetShards <- MCNetShards
    NetShardOf <- OneNetShardOf
    Requests <- EveryRequest
    RoomSizes = {1, 2}
    ShardCount = 2
    MaxRooms = 2
    MaxPending = 2
    MaxRequests = 2
    MaxInFlight = 2
    MaxLogins = 2
    MaxBreaks = 0
PROPERTIES
    DisconnectedIsForgotten
