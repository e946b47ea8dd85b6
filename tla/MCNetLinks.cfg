SPECIFICATION NetFairSpec
CONSTANTS
    u = u
    Uids <- OnePlayer
    LinkCount = 2
    kMaxSendQueueDepth = 1
    MaxAccepts = 2
    MaxPackets = 2
    MaxTasks = 1
INVARIANTS
    NetTypeOK
    LiveLinksOwnTheirSlots
    OneAcceptAtATime
    QueuedPacketsAreBeingWritten
    OnlyOwnPacketsQueued
PROPERTIES
    FreeSlotIsOffered
    StopDrains
CHECK_DEADLOCK FALSE
