SPECIFICATION LogicSpec
CONSTANTS
    a = a
    b = b
    c = c
    link = link
    Uids <- MCUids
    Routes <- MCRoutes
    RoomSizes = {0}
    ShardCount = 1
    MaxRooms = 1
    MaxPending = 0
VIEW LogicView
SYMMETRY UidSymmetry
INVARIANTS
    TeamsDistinct
