SPECIFICATION LogicSpec
CONSTANTS
    a = a
    b = b
    c = c
    link = link
    Uids <- MCUids
    Routes <- MCRoutes
    RoomSizes = {0, 1, 3, 5}
    ShardCount = 1
    MaxRooms = 2
    MaxPending = 0
VIEW LogicView
SYMMETRY UidSymmetry
INVARIANTS
    LogicTypeOK
    MembershipAgrees
    NoEmptyRoom
    MembersRoutable
    ActiveRoomIsFull
PROPERTIES
    ErasedRoomStaysErased
    RosterChangeIsAnnounced
    GameOverOnceForAll
