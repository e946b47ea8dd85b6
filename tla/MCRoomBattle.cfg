SPECIFICATION RoomSpec
CONSTANTS
    p1 = p1
    p2 = p2
    Uids <- MCUids
    team <- MCTeam
    Fields <- NoFields
    BuildingPrice <- MCPrices
    kStartUnitsPerPlayer = 1
    kVillagerCarryCapacity = 2
    kStartFood = 2
    kStartWood = 1
    kStartGold = 0
    UnitStrikes = 1
    CrystalStrikes = 1
    BuildingStrikes = 2
    UnitPrice = 1
    TrainTicks = 2
    ConstructTicks = 2
    kFullSnapshotInterval = 2
    Orders <- BattleOrders
    kAggroScanTicks = 2
    MaxPending = 1
    MaxCommands = 2
    MaxLosses = 1
CHECK_DEADLOCK FALSE
PROPERTIES
    ViewIsRealigned
    TrainingCompletes
    ImplementsLogicRoom
    WealthIsConserved
