SPECIFICATION GateSpec
CONSTANTS
    s1 = s1
    a1 = a1
    a2 = a2
    Sessions <- MCSessions
    Accounts <- MCAccounts
    ShardCount = 2
    kMaxSendQueueDepth = 2
    MaxPackets = 4
    MaxReplies = 2
CHECK_DEADLOCK FALSE
INVARIANTS
    GateTypeOK
    LiveSessionIsReachable
    FoundSessionIsLive
    RegistryEntryIsCurrent
    SessionQueueIsWritten
PROPERTIES
    SilentSessionIsClosed
