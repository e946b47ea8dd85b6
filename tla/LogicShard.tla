----------------------------- MODULE LogicShard -----------------------------
(***************************************************************************)
(* The logic shards of the game server: rooms, their membership, the ready *)
(* protocol that starts a battle and the ways a battle ends.               *)
(*                                                                         *)
(* A logic shard is one thread with its own io_context, so a handler runs  *)
(* to completion before the next one: every handler is one action, and the *)
(* shards share nothing.  All state is a function of the shard.            *)
(*                                                                         *)
(* What a request asks for comes in as a parameter of its action; the      *)
(* specification of this module lets every request happen at any time, and *)
(* module GameServer feeds the same actions from the shards' task queues.  *)
(***************************************************************************)
EXTENDS Integers, FiniteSets, Sequences

CONSTANTS
    Uids,          \* the players (uid 0 never reaches a shard)
    Routes,        \* coordinates of a gateway link: net shard, link, generation
    RoomSizes,     \* the max_players values requests carry
    ShardCount,    \* number of logic shards
    MaxRooms,      \* bound: rooms a shard creates in a run
    MaxPending     \* bound: commands queued in one room

ASSUME UidsFinite == IsFiniteSet(Uids)
ASSUME ShardCountPositive == ShardCount \in Nat \ {0}
ASSUME RoomSizesNat == RoomSizes \subseteq Nat
ASSUME BoundsNat == MaxRooms \in Nat /\ MaxPending \in Nat

Shards == 0 .. ShardCount - 1

kDefaultMaxPlayers == 2
kMaxRoomPlayers == 4

Teams == 0 .. kMaxRoomPlayers - 1
NoTeam == kMaxRoomPlayers          \* winner 0xFFFFFFFF, sent as TEAM_NONE

VARIABLES
    rooms,          \* rooms_         shard -> (room id -> room)
    uid_to_room,    \* uid_to_room_   shard -> (uid -> room id)
    uid_route,      \* uid_route_     shard -> (uid -> route)
    next_room_id,   \* next_room_id_  shard -> counter
    sent            \* what the last handler handed to SendToPlayers

vars == <<rooms, uid_to_room, uid_route, next_room_id, sent>>

-----------------------------------------------------------------------------
(* The unordered_maps of the code are functions with a finite domain.      *)

Put(f, k, v) == [x \in DOMAIN f \cup {k} |-> IF x = k THEN v ELSE f[x]]

Erase(f, k) == [x \in DOMAIN f \ {k} |-> f[x]]

EmptyMap == [x \in {} |-> 0]

-----------------------------------------------------------------------------
(* DungeonRoom, as far as the lobby and the end of a battle go.  The world *)
(* is abstracted to the set of teams that still own a living crystal.      *)

RoomIds == Nat \ {0}

Rosters == UNION {[P -> Teams] : P \in SUBSET Uids}

Room == [max_players : 1 .. kMaxRoomPlayers,
         team : Rosters,                     \* players_: uid -> team
         ready : SUBSET Uids,
         started : BOOLEAN,
         game_over : BOOLEAN,
         crystals : SUBSET Teams,
         initial_crystal_team_count : Nat,
         pending : Seq(Uids)]                \* issuers of the queued commands

NewRoom(max_players) ==
    [max_players |-> IF max_players = 0 THEN 2 ELSE max_players,
     team |-> EmptyMap,
     ready |-> {},
     started |-> FALSE,
     game_over |-> FALSE,
     crystals |-> {},
     initial_crystal_team_count |-> 0,
     pending |-> <<>>]

Players(room) == DOMAIN room.team

IsFull(room) == Cardinality(Players(room)) >= room.max_players

AllReady(room) == Players(room) # {} /\ Players(room) \subseteq room.ready

Active(room) == room.started /\ ~room.game_over

\* The room after AddPlayer(uid) succeeded: a player already in it keeps its
\* team, a new one gets the number of players as its team.
AddPlayer(room, uid) ==
    IF uid \in Players(room) \/ IsFull(room)
    THEN room
    ELSE [room EXCEPT !.team = Put(@, uid, Cardinality(Players(room)))]

\* AddPlayer answers true: the uid is in the room already or there is space.
Admits(rs, room_id, uid) ==
    room_id \in DOMAIN rs /\ (uid \in Players(rs[room_id]) \/ ~IsFull(rs[room_id]))

SetReady(room, uid, ready) ==
    [room EXCEPT !.ready = IF ready THEN @ \cup {uid} ELSE @ \ {uid}]

RemovePlayer(room, uid) ==
    [room EXCEPT !.team = Erase(@, uid), !.ready = @ \ {uid}]

EnqueueCommand(room, uid) == [room EXCEPT !.pending = Append(@, uid)]

\* One crystal per player, of its team; the units are left out.
SpawnInitialUnits(room) == [room EXCEPT !.crystals = {room.team[u] : u \in Players(room)}]

\* SetStarted, SpawnInitialUnits and BeginBattle, which counts the sides.
BeginBattle(room) ==
    LET spawned == SpawnInitialUnits(room) IN
    [spawned EXCEPT !.started = TRUE,
                    !.initial_crystal_team_count = Cardinality(spawned.crystals)]

\* CheckGameOver.  Players' units have the teams of their crystals, so with
\* fewer than two crystal teams there are fewer than two unit teams as well
\* and the second half of the function answers no.
CheckGameOver(room) ==
    /\ room.started
    /\ room.initial_crystal_team_count >= 2
    /\ Cardinality(room.crystals) <= 1

WinnerByCrystals(room) ==
    IF room.crystals = {} THEN NoTeam ELSE CHOOSE t \in room.crystals : TRUE

-----------------------------------------------------------------------------
(* Messages to clients.  SendToPlayers skips a uid whose route the shard   *)
(* does not know.                                                          *)

Notifications ==
    {"CreateRoomRsp", "JoinRoomRsp", "EnterBattleRsp", "RoomStateNtf", "GameStartNtf",
     "SnapshotNtf", "CommandRejectedNtf", "GameOverNtf"}

Message == [to : Uids, msg : Notifications, room : Nat, arg : Nat]

SendToPlayers(routes, uids, msg, room_id, arg) ==
    {[to |-> u, msg |-> msg, room |-> room_id, arg |-> arg] :
        u \in uids \cap DOMAIN routes}

SendToPlayer(routes, uid, msg, room_id, arg) ==
    SendToPlayers(routes, {uid}, msg, room_id, arg)

BroadcastRoomState(routes, room_id, room) ==
    SendToPlayers(routes, Players(room), "RoomStateNtf", room_id, 0)

BroadcastGameOver(routes, room_id, room, winner) ==
    SendToPlayers(routes, Players(room), "GameOverNtf", room_id, winner)

\* A reply with an error code has no room payload of interest.
Fail(routes, uid, msg, room_id) == SendToPlayer(routes, uid, msg, room_id, 1)

-----------------------------------------------------------------------------
(* Leaving a room: the common part of LeaveRoomInternal and                *)
(* HandleLeaveRoom, on the room map rs of a shard.                         *)

Depart_BattleGoesOn(rs, room_id, uid) ==
    LET room == RemovePlayer(rs[room_id], uid) IN
    IF Players(room) = {} THEN Erase(rs, room_id) ELSE Put(rs, room_id, room)

Depart_KeepEmptyRoom(rs, room_id, uid) ==
    LET room == RemovePlayer(rs[room_id], uid) IN
    Put(rs, room_id, [room EXCEPT !.game_over = @ \/ Active(rs[room_id])])

\* An empty room is erased; a battle somebody walks out of is over.
Depart(rs, room_id, uid) ==
    LET room == RemovePlayer(rs[room_id], uid) IN
    IF Players(room) = {}
    THEN Erase(rs, room_id)
    ELSE Put(rs, room_id, [room EXCEPT !.game_over = @ \/ Active(rs[room_id])])

DepartMessages_Silent(rs, routes, room_id, uid, winner) ==
    LET room == RemovePlayer(rs[room_id], uid) IN
    IF Active(rs[room_id])
    THEN BroadcastGameOver(routes, room_id, room, winner)
    ELSE {}

DepartMessages(rs, routes, room_id, uid, winner) ==
    LET room == RemovePlayer(rs[room_id], uid) IN
    IF Active(rs[room_id])
    THEN BroadcastGameOver(routes, room_id, room, winner)
    ELSE BroadcastRoomState(routes, room_id, room)

\* The team of whichever remaining player the hash map lists first.
ForfeitWinners(rs, room_id, uid) ==
    LET room == RemovePlayer(rs[room_id], uid) IN
    IF Players(room) = {} THEN {NoTeam} ELSE {room.team[u] : u \in Players(room)}

InRoom(rs, index, uid) == uid \in DOMAIN index /\ index[uid] \in DOMAIN rs

\* LeaveRoomInternal(uid) on a shard with room map rs and index uid_to_room_:
\* the room map, the winner candidates and the messages when uid leaves the
\* room the shard has it in, if any.  The index entry is erased in any case.
RoomsAfterLeave(rs, index, uid) ==
    IF InRoom(rs, index, uid) THEN Depart(rs, index[uid], uid) ELSE rs

LeaveWinners(rs, index, uid) ==
    IF InRoom(rs, index, uid) THEN ForfeitWinners(rs, index[uid], uid) ELSE {NoTeam}

LeaveMessages(rs, index, routes, uid, winner) ==
    IF InRoom(rs, index, uid)
    THEN DepartMessages(rs, routes, index[uid], uid, winner)
    ELSE {}

-----------------------------------------------------------------------------
(* The handlers.  handleTask records the route of the sender first, so     *)
(* every reply, an error reply too, goes back the way the request came.    *)

RouteAfter(s, uid, route) == Put(uid_route[s], uid, route)

NormalizeMaxPlayers_NoCap(n) == IF n = 0 THEN kDefaultMaxPlayers ELSE n

NormalizeMaxPlayers(n) ==
    IF n = 0 THEN kDefaultMaxPlayers
    ELSE IF n > kMaxRoomPlayers THEN kMaxRoomPlayers ELSE n

RoomIdOf_NoShard(s, n) == s + ShardCount + n

\* Ids of shard s are the congruence class of s modulo the shard count.
RoomIdOf(s, n) == s + ShardCount * n

NextRoomId_Stays(n) == n

\* next_room_id_++
NextRoomId(n) == n + 1

HandleCreateRoom(s, uid, route, max_players) ==
    /\ next_room_id[s] <= MaxRooms
    /\ LET routes == RouteAfter(s, uid, route)
           rs == RoomsAfterLeave(rooms[s], uid_to_room[s], uid)
           room_id == RoomIdOf(s, next_room_id[s])
           room == AddPlayer(NewRoom(NormalizeMaxPlayers(max_players)), uid)
       IN  /\ uid_route' = [uid_route EXCEPT ![s] = routes]
           /\ rooms' = [rooms EXCEPT ![s] = Put(rs, room_id, room)]
           /\ uid_to_room' = [uid_to_room EXCEPT ![s] = Put(@, uid, room_id)]
           /\ next_room_id' = [next_room_id EXCEPT ![s] = NextRoomId(@)]
           /\ \E winner \in LeaveWinners(rooms[s], uid_to_room[s], uid) :
                sent' = LeaveMessages(rooms[s], uid_to_room[s], routes, uid, winner)
                        \cup SendToPlayer(routes, uid, "CreateRoomRsp", room_id, 0)
                        \cup BroadcastRoomState(routes, room_id, room)

\* A uid in another room leaves it first, also when the join then fails.
HandleJoinRoom(s, uid, route, room_id) ==
    LET moves == uid \in DOMAIN uid_to_room[s] /\ uid_to_room[s][uid] # room_id
        routes == RouteAfter(s, uid, route)
        rs == IF moves THEN RoomsAfterLeave(rooms[s], uid_to_room[s], uid) ELSE rooms[s]
        index == IF moves THEN Erase(uid_to_room[s], uid) ELSE uid_to_room[s]
    IN  \E winner \in LeaveWinners(rooms[s], uid_to_room[s], uid) :
          LET left == IF moves THEN LeaveMessages(rooms[s], uid_to_room[s], routes, uid, winner) ELSE {} IN
          /\ uid_route' = [uid_route EXCEPT ![s] = routes]
          /\ UNCHANGED next_room_id
          /\ \/ /\ ~Admits(rs, room_id, uid)
                /\ rooms' = [rooms EXCEPT ![s] = rs]
                /\ uid_to_room' = [uid_to_room EXCEPT ![s] = index]
                /\ sent' = left \cup Fail(routes, uid, "JoinRoomRsp", room_id)
             \/ /\ Admits(rs, room_id, uid)
                /\ LET room == AddPlayer(rs[room_id], uid) IN
                   /\ rooms' = [rooms EXCEPT ![s] = Put(rs, room_id, room)]
                   /\ uid_to_room' = [uid_to_room EXCEPT ![s] = Put(index, uid, room_id)]
                   /\ sent' = left
                        \cup SendToPlayer(routes, uid, "JoinRoomRsp", room_id, 0)
                        \cup BroadcastRoomState(routes, room_id, room)

\* ResolveRoomId: the gateway never fills in the envelope's room id, so a
\* request without a room id means the room this shard has the uid in.
ResolveRoomId(s, uid) ==
    IF uid \in DOMAIN uid_to_room[s] THEN uid_to_room[s][uid] ELSE 0

RequestedRoom(s, uid, room_id) ==
    IF room_id = 0 THEN ResolveRoomId(s, uid) ELSE room_id

IsMember(rs, uid, room_id) == room_id \in DOMAIN rs /\ uid \in Players(rs[room_id])

HandleLeaveRoom(s, uid, route, req_room_id) ==
    LET room_id == RequestedRoom(s, uid, req_room_id)
        routes == RouteAfter(s, uid, route)
    IN  /\ uid_route' = [uid_route EXCEPT ![s] = routes]
        /\ UNCHANGED next_room_id
        /\ \/ /\ ~IsMember(rooms[s], uid, room_id)
              /\ sent' = {}
              /\ UNCHANGED <<rooms, uid_to_room>>
           \/ /\ IsMember(rooms[s], uid, room_id)
              /\ rooms' = [rooms EXCEPT ![s] = Depart(@, room_id, uid)]
              /\ uid_to_room' = [uid_to_room EXCEPT ![s] = Erase(@, uid)]
              /\ \E winner \in ForfeitWinners(rooms[s], room_id, uid) :
                   sent' = DepartMessages(rooms[s], routes, room_id, uid, winner)

CanStart_NotFull(room) == AllReady(room) /\ ~room.started

CanStart(room) == IsFull(room) /\ AllReady(room) /\ ~room.started

HandlePlayerReady(s, uid, route, req_room_id, ready) ==
    LET room_id == RequestedRoom(s, uid, req_room_id)
        routes == RouteAfter(s, uid, route)
    IN  /\ uid_route' = [uid_route EXCEPT ![s] = routes]
        /\ UNCHANGED <<uid_to_room, next_room_id>>
        /\ \/ /\ ~IsMember(rooms[s], uid, room_id)
              /\ sent' = {}
              /\ UNCHANGED rooms
           \/ /\ IsMember(rooms[s], uid, room_id)
              /\ LET room == SetReady(rooms[s][room_id], uid, ready)
                     starts == CanStart(room)
                     uids == Players(room)
                 IN  /\ rooms' = [rooms EXCEPT ![s] =
                            Put(@, room_id, IF starts THEN BeginBattle(room) ELSE room)]
                     /\ sent' = BroadcastRoomState(routes, room_id, room)
                          \cup IF starts
                               THEN SendToPlayers(routes, uids, "GameStartNtf", room_id, 0)
                                    \cup SendToPlayers(routes, uids, "SnapshotNtf", room_id, 0)
                               ELSE {}

HandleEnterBattle(s, uid, route, req_room_id) ==
    LET room_id == RequestedRoom(s, uid, req_room_id)
        routes == RouteAfter(s, uid, route)
    IN  /\ uid_route' = [uid_route EXCEPT ![s] = routes]
        /\ sent' = IF IsMember(rooms[s], uid, room_id)
                   THEN SendToPlayer(routes, uid, "EnterBattleRsp", room_id, 0)
                   ELSE Fail(routes, uid, "EnterBattleRsp", room_id)
        /\ UNCHANGED <<rooms, uid_to_room, next_room_id>>

\* A command is only queued here; a room applies it at its next tick.  There
\* is no check that the battle has begun or that it is not over.  SkillCmd is
\* accepted and ignored.
Commands == {"valid", "skill", "unparsable"}

HandlePlayerCommand(s, uid, route, cmd) ==
    LET room_id == ResolveRoomId(s, uid)
        routes == RouteAfter(s, uid, route)
    IN  /\ uid_route' = [uid_route EXCEPT ![s] = routes]
        /\ UNCHANGED <<uid_to_room, next_room_id>>
        /\ \/ /\ ~IsMember(rooms[s], uid, room_id)
              /\ sent' = Fail(routes, uid, "CommandRejectedNtf", room_id)
              /\ UNCHANGED rooms
           \/ /\ IsMember(rooms[s], uid, room_id) /\ cmd = "valid"
              /\ Len(rooms[s][room_id].pending) < MaxPending
              /\ rooms' = [rooms EXCEPT ![s] =
                     Put(@, room_id, EnqueueCommand(@[room_id], uid))]
              /\ sent' = {}
           \/ /\ IsMember(rooms[s], uid, room_id) /\ cmd \in {"skill", "unparsable"}
              /\ sent' = IF cmd = "skill" THEN {}
                         ELSE Fail(routes, uid, "CommandRejectedNtf", room_id)
              /\ UNCHANGED rooms

Rejections == {"CreateRoomRsp", "JoinRoomRsp", "EnterBattleRsp", "CommandRejectedNtf", ""}

\* A request that does not parse: only the route is recorded.  LeaveRoomReq,
\* PlayerReadyReq and an unknown message id ("") are not answered.
HandleMalformed(s, uid, route, reply) ==
    LET routes == RouteAfter(s, uid, route) IN
    /\ uid_route' = [uid_route EXCEPT ![s] = routes]
    /\ sent' = IF reply = "" THEN {} ELSE Fail(routes, uid, reply, 0)
    /\ UNCHANGED <<rooms, uid_to_room, next_room_id>>

HandleClientDisconnected_RouteOnly(s, uid) ==
    /\ uid_route' = [uid_route EXCEPT ![s] = Erase(@, uid)]
    /\ sent' = {}
    /\ UNCHANGED <<rooms, uid_to_room, next_room_id>>

HandleClientDisconnected_KeepIndex(s, uid) ==
    /\ uid_route' = [uid_route EXCEPT ![s] = Erase(@, uid)]
    /\ rooms' = [rooms EXCEPT ![s] = RoomsAfterLeave(rooms[s], uid_to_room[s], uid)]
    /\ \E winner \in LeaveWinners(rooms[s], uid_to_room[s], uid) :
         sent' = LeaveMessages(rooms[s], uid_to_room[s], Erase(uid_route[s], uid), uid, winner)
    /\ UNCHANGED <<uid_to_room, next_room_id>>

HandleClientDisconnected(s, uid) ==
    LET routes == Erase(uid_route[s], uid) IN
    /\ uid_route' = [uid_route EXCEPT ![s] = routes]
    /\ rooms' = [rooms EXCEPT ![s] = RoomsAfterLeave(rooms[s], uid_to_room[s], uid)]
    /\ uid_to_room' = [uid_to_room EXCEPT ![s] = Erase(@, uid)]
    /\ \E winner \in LeaveWinners(rooms[s], uid_to_room[s], uid) :
         sent' = LeaveMessages(rooms[s], uid_to_room[s], routes, uid, winner)
    /\ UNCHANGED next_room_id

-----------------------------------------------------------------------------
(* TickRooms: every active room applies its commands, simulates one step,  *)
(* sends a snapshot or a delta and is checked for the end of the battle.   *)

ActiveRooms(s) == {r \in DOMAIN rooms[s] : Active(rooms[s][r])}

\* The battle of one room in one tick: alive are the teams with a crystal
\* left after Step.  Only a team that has an enemy can lose its crystal.
CanLoseCrystals(room, alive) ==
    /\ alive \subseteq room.crystals
    /\ alive # room.crystals => room.initial_crystal_team_count >= 2

Stepped(room, alive) == [room EXCEPT !.pending = <<>>, !.crystals = alive]

TickRoom(room, alive) ==
    LET next == Stepped(room, alive) IN
    [next EXCEPT !.game_over = CheckGameOver(next)]

\* A tick that is not due for a snapshot and changed nothing sends no state:
\* told are the players, or nobody.
TickMessages(s, room_id, room, alive, rejected, told) ==
    LET next == Stepped(room, alive) IN
    SendToPlayers(uid_route[s], rejected, "CommandRejectedNtf", room_id, 1)
    \cup SendToPlayers(uid_route[s], told, "SnapshotNtf", room_id, 0)
    \cup IF CheckGameOver(next)
         THEN BroadcastGameOver(uid_route[s], room_id, next, WinnerByCrystals(next))
         ELSE {}

Issuers(room) == {room.pending[i] : i \in 1 .. Len(room.pending)}

TickRooms(s) ==
    \E alive \in [ActiveRooms(s) -> SUBSET Teams] :
      /\ \A r \in ActiveRooms(s) : CanLoseCrystals(rooms[s][r], alive[r])
      /\ rooms' = [rooms EXCEPT ![s] = [r \in DOMAIN rooms[s] |->
                       IF r \in ActiveRooms(s) THEN TickRoom(rooms[s][r], alive[r])
                                               ELSE rooms[s][r]]]
      /\ UNCHANGED <<uid_to_room, uid_route, next_room_id>>
      /\ \E rejected, told \in [ActiveRooms(s) -> SUBSET Uids] :
           /\ \A r \in ActiveRooms(s) : /\ rejected[r] \subseteq Issuers(rooms[s][r])
                                        /\ told[r] \in {{}, Players(rooms[s][r])}
           /\ sent' = UNION {TickMessages(s, r, rooms[s][r], alive[r], rejected[r], told[r]) :
                                r \in ActiveRooms(s)}

-----------------------------------------------------------------------------
LogicInit ==
    /\ rooms = [s \in Shards |-> EmptyMap]
    /\ uid_to_room = [s \in Shards |-> EmptyMap]
    /\ uid_route = [s \in Shards |-> EmptyMap]
    /\ next_room_id = [s \in Shards |-> 1]
    /\ sent = {}

\* Room ids a request can carry: none, or the id of a room some shard has
\* made or could make next.
RequestIds == 0 .. ShardCount * (MaxRooms + 1) + 1

LogicRequest(s, uid, route) ==
    \/ \E n \in RoomSizes : HandleCreateRoom(s, uid, route, n)
    \/ \E r \in RequestIds : \/ HandleJoinRoom(s, uid, route, r)
                             \/ HandleLeaveRoom(s, uid, route, r)
                             \/ \E b \in BOOLEAN : HandlePlayerReady(s, uid, route, r, b)
                             \/ HandleEnterBattle(s, uid, route, r)
    \/ \E cmd \in Commands : HandlePlayerCommand(s, uid, route, cmd)
    \/ \E reply \in Rejections : HandleMalformed(s, uid, route, reply)

LogicNext ==
    \E s \in Shards :
      \/ \E uid \in Uids, route \in Routes : LogicRequest(s, uid, route)
      \/ \E uid \in Uids : HandleClientDisconnected(s, uid)
      \/ TickRooms(s)

LogicSpec == LogicInit /\ [][LogicNext]_vars

-----------------------------------------------------------------------------
(* Properties.                                                             *)

PartialMap(f, D, R) == f = [x \in DOMAIN f |-> f[x]] /\ DOMAIN f \subseteq D
                       /\ \A x \in DOMAIN f : f[x] \in R

\* The maps of a shard hold what their declarations say.
LogicTypeOK ==
    /\ DOMAIN rooms = Shards /\ DOMAIN uid_to_room = Shards /\ DOMAIN uid_route = Shards
    /\ \A s \in Shards : /\ PartialMap(rooms[s], RoomIds, Room)
                         /\ PartialMap(uid_to_room[s], Uids, RoomIds)
                         /\ PartialMap(uid_route[s], Uids, Routes)
    /\ next_room_id \in [Shards -> Nat \ {0}]
    /\ sent \in SUBSET Message

\* The two views of membership agree on every shard: uid_to_room_ maps a
\* player to a room exactly when that room's players_ holds it.  The maps are
\* updated separately by create, join, leave and disconnect, in that order or
\* in the other; the implicit leave of create and join is in between.
MembershipAgrees ==
    \A s \in Shards, u \in Uids :
      /\ u \in DOMAIN uid_to_room[s] => IsMember(rooms[s], u, uid_to_room[s][u])
      /\ \A r \in DOMAIN rooms[s] : u \in Players(rooms[s][r]) =>
           u \in DOMAIN uid_to_room[s] /\ uid_to_room[s][u] = r

\* A room without players is gone: nothing would ever erase it later.
NoEmptyRoom ==
    \A s \in Shards : \A r \in DOMAIN rooms[s] : Players(rooms[s][r]) # {}

\* Room ids lie in the congruence class of their shard, which is what lets
\* ResolveLogicShard find the shard again from the id, and below the counter,
\* so that the next emplace never meets an existing room.
RoomIdsOfShard ==
    \A s \in Shards : \A r \in DOMAIN rooms[s] :
      /\ r % ShardCount = s
      /\ r < RoomIdOf(s, next_room_id[s])

\* Every member of a room can be reached: the shard has a route for it, so no
\* broadcast skips it.
MembersRoutable ==
    \A s \in Shards : DOMAIN uid_to_room[s] \subseteq DOMAIN uid_route[s]

\* A battle is fought by a full room: whoever leaves ends it, and nobody gets
\* in while it runs.
ActiveRoomIsFull ==
    \A s \in Shards : \A r \in DOMAIN rooms[s] :
      /\ Cardinality(Players(rooms[s][r])) <= rooms[s][r].max_players
      /\ Active(rooms[s][r]) =>
           Cardinality(Players(rooms[s][r])) = rooms[s][r].max_players

\* The id of an erased room never comes back, so a late request for it can
\* only be refused: the counter never goes back and a room that appears lies
\* between its old and its new value.
ErasedRoomStaysErased ==
    [][\A s \in Shards :
         /\ next_room_id'[s] >= next_room_id[s]
         /\ \A r \in DOMAIN rooms'[s] \ DOMAIN rooms[s] :
              /\ r >= RoomIdOf(s, next_room_id[s])
              /\ r < RoomIdOf(s, next_room_id'[s])]_vars

\* Nobody's room changes silently: when the roster of a room changes, every
\* player in it afterwards is told about that room in the same handler.
RosterChangeIsAnnounced ==
    [][\A s \in Shards : \A r \in DOMAIN rooms[s] \cap DOMAIN rooms'[s] :
         Players(rooms[s][r]) # Players(rooms'[s][r]) =>
           \A u \in Players(rooms'[s][r]) :
             \E m \in sent' : /\ m.to = u /\ m.room = r
                              /\ m.msg \in {"RoomStateNtf", "GameOverNtf"}]_vars

\* A battle ends once, for good, and audibly: a room whose battle is over
\* never fights again, and in the step that ends the battle (the players'
\* departure or the last crystals' fall) every remaining player, and nobody
\* else, is sent GameOverNtf; no other step sends it.
GameOverOnceForAll ==
    [][/\ \A s \in Shards : \A r \in DOMAIN rooms[s] \cap DOMAIN rooms'[s] :
            /\ rooms[s][r].game_over => ~Active(rooms'[s][r])
            /\ Active(rooms[s][r]) /\ ~Active(rooms'[s][r]) =>
                 {m.to : m \in {x \in sent' : x.msg = "GameOverNtf" /\ x.room = r}}
                   = Players(rooms'[s][r])
       /\ \A m \in sent' : m.msg = "GameOverNtf" =>
            \E s \in Shards :
              /\ m.room \in DOMAIN rooms[s] /\ Active(rooms[s][m.room])
              /\ m.room \in DOMAIN rooms'[s] => ~Active(rooms'[s][m.room])]_vars

\* Two players of a room are never on the same team: teams are handed out in
\* sequence as players enter (AddPlayer).
TeamsDistinct ==
    \A s \in Shards : \A r \in DOMAIN rooms[s] :
      \A u, v \in Players(rooms[s][r]) :
        u # v => rooms[s][r].team[u] # rooms[s][r].team[v]
=============================================================================
