SPECIFICATION PoolFairSpec
CONSTANTS
    ConnCount = 1
    kMaxSendQueueDepth = 1
    TimeoutIntervals = 1
    MaxConns = 2
    MaxStops = 0
    MaxMessages = 0
PROPERTIES
    DeadSlotIsRebuilt
    SilentLinkIsClosed
CHECK_DEADLOCK FALSE
