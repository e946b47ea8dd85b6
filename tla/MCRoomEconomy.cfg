SPECIFICATION RoomSpec
CONSTANTS
    p1 = p1
    p2 = p2
    Uids <- MCUids
    team <- MCTeam
    Fields <- OneField
    BuildingPrice <- MCPrices
    kStartUnitsPerPlayer = 1
    kVillagerCarryCapacity = 2
    kStartFood = 1
    kStartWood = 1
    kStartGold = 0
    UnitStrikes = 1
    CrystalStrikes = 1
    BuildingStrikes = 2
    UnitPrice = 1
    TrainTicks = 2
    ConstructTicks = 2
    kFullSnapshotInterval = 2
    Orders <- EconomyOrders
    kAggroScanTicks = 1
    MaxPending = 1
    MaxCommands = 3
    MaxLosses = 0
VIEW RoomView
CHECK_DEADLOCK FALSE
INVARIANTS
    RoomTypeOK
    ViewFollowsWorld
PROPERTIES
    WealthIsConserved
