SPECIFICATION PoolSpec
CONSTANTS
    ConnCount = 1
    kMaxSendQueueDepth = 1
    TimeoutIntervals = 1
    MaxConns = 2
    MaxStops = 1
    MaxMessages = 1
INVARIANTS
    PoolTypeOK
    ReplacedIsClosed
    AvailableIsWatched
    BackendQueueIsWritten
PROPERTIES
    ClosedStaysClosed
CHECK_DEADLOCK FALSE
