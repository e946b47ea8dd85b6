SPECIFICATION GSFairSpec
CONSTANTS
    a = a
    b = b
    d = d
    s1 = s1
    s2 = s2
    l1 = l1
    l2 = l2
    n1 = n1
    n2 = n2
    Uids <- TwoUids
    Sessions <- MCSessions
    SessionOf <- TwoSessionOf
    Routes <- TwoLinks
    NetShards <- MCNetShards
    NetShardOf <- MCNetShardOf
    Requests <- CreateOnly
    RoomSizes = {1, 2}
    ShardCount = 2
    MaxRooms = 1
    MaxPending = 1
    MaxRequests = 1
    MaxInFlight = 2
    MaxLogins = 1
    MaxBreaks = 0
PROPERTIES
    DisconnectedIsForgotten
