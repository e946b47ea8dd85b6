-------------------------- MODULE LogicShardProofs --------------------------
(***************************************************************************)
(* Proofs about LogicShard for every set of players and number of shards.  *)
(*                                                                         *)
(* The invariants of a shard are proved together: that the two views of    *)
(* membership agree needs the congruence and freshness of room ids, that   *)
(* an active room is full needs the capacity bound, and so on.  ShardInv   *)
(* states them of the maps of one shard, so that the lemmas about leaving, *)
(* joining and creating are about maps and not about steps.                *)
(***************************************************************************)
EXTENDS LogicShard, TLAPS, FiniteSetTheorems

RoomOK(room) ==
    /\ room \in Room
    /\ Players(room) # {}
    /\ Cardinality(Players(room)) <= room.max_players
    /\ Active(room) => Cardinality(Players(room)) = room.max_players

ShardInv(s, rs, index, routes, next) ==
    /\ PartialMap(rs, RoomIds, Room)
    /\ PartialMap(index, Uids, RoomIds)
    /\ PartialMap(routes, Uids, Routes)
    /\ next \in Nat \ {0}
    /\ \A u \in Uids :
         /\ u \in DOMAIN index => IsMember(rs, u, index[u])
         /\ \A r \in DOMAIN rs : u \in Players(rs[r]) => u \in DOMAIN index /\ index[u] = r
    /\ \A r \in DOMAIN rs : RoomOK(rs[r])
    /\ \A r \in DOMAIN rs : r % ShardCount = s /\ r < RoomIdOf(s, next)
    /\ DOMAIN index \subseteq DOMAIN routes

IInv ==
    /\ LogicTypeOK
    /\ MembershipAgrees
    /\ NoEmptyRoom
    /\ RoomIdsOfShard
    /\ MembersRoutable
    /\ ActiveRoomIsFull

-----------------------------------------------------------------------------
(* Maps.                                                                   *)

\* Inserting a well-typed entry (operator[] of an unordered_map) keeps the
\* type of the map, adds the key and changes no other entry.
LEMMA PutMap ==
    ASSUME NEW f, NEW D, NEW R, NEW k \in D, NEW v \in R, PartialMap(f, D, R)
    PROVE  /\ PartialMap(Put(f, k, v), D, R)
           /\ DOMAIN Put(f, k, v) = DOMAIN f \cup {k}
           /\ Put(f, k, v)[k] = v
           /\ \A x \in DOMAIN f \ {k} : Put(f, k, v)[x] = f[x]
  BY DEF PartialMap, Put

\* erase(key) keeps the type of the map and every other entry.
LEMMA EraseMap ==
    ASSUME NEW f, NEW D, NEW R, NEW k, PartialMap(f, D, R)
    PROVE  /\ PartialMap(Erase(f, k), D, R)
           /\ DOMAIN Erase(f, k) = DOMAIN f \ {k}
           /\ \A x \in DOMAIN f \ {k} : Erase(f, k)[x] = f[x]
  BY DEF PartialMap, Erase

-----------------------------------------------------------------------------
(* Rooms.                                                                  *)

\* The roster of a room is a finite map from players to teams.
LEMMA RosterFacts ==
    ASSUME NEW room \in Room
    PROVE  /\ PartialMap(room.team, Uids, Teams)
           /\ Players(room) \subseteq Uids
           /\ IsFiniteSet(Players(room))
           /\ Cardinality(Players(room)) \in Nat
  <1>1. PICK P \in SUBSET Uids : room.team \in [P -> Teams]
    BY DEF Room, Rosters
  <1>2. PartialMap(room.team, Uids, Teams) /\ Players(room) \subseteq Uids
    BY <1>1 DEF PartialMap, Players
  <1>3. IsFiniteSet(Players(room))
    BY <1>2, UidsFinite, FS_Subset
  <1> QED
    BY <1>2, <1>3, FS_CardinalityType

\* A partial map from players to teams is a roster.
LEMMA RosterOf ==
    ASSUME NEW f, PartialMap(f, Uids, Teams)
    PROVE  f \in Rosters
  <1>1. f \in [DOMAIN f -> Teams]
    BY DEF PartialMap
  <1> QED
    BY <1>1 DEF Rosters, PartialMap

\* RemovePlayer keeps a room a room, takes exactly uid out of players_ and
\* does not let the player count grow.
LEMMA RemovePlayerFacts ==
    ASSUME NEW room \in Room, NEW uid
    PROVE  /\ RemovePlayer(room, uid) \in Room
           /\ Players(RemovePlayer(room, uid)) = Players(room) \ {uid}
           /\ RemovePlayer(room, uid).max_players = room.max_players
           /\ Active(RemovePlayer(room, uid)) <=> Active(room)
           /\ Cardinality(Players(RemovePlayer(room, uid))) <= Cardinality(Players(room))
  <1> DEFINE after == RemovePlayer(room, uid)
  <1>1. PartialMap(Erase(room.team, uid), Uids, Teams)
    BY RosterFacts, EraseMap
  <1>2. Erase(room.team, uid) \in Rosters
    BY <1>1, RosterOf
  <1>3. after \in Room /\ after.team = Erase(room.team, uid)
        /\ after.max_players = room.max_players /\ (Active(after) <=> Active(room))
    BY <1>2 DEF RemovePlayer, Room, Active
  <1>4. Players(after) = Players(room) \ {uid}
    BY <1>3 DEF Players, Erase
  <1>5. Cardinality(Players(after)) <= Cardinality(Players(room))
    BY <1>4, RosterFacts, FS_Subset
  <1> QED
    BY <1>3, <1>4, <1>5

\* A player AddPlayer lets in does not overfill the room, gets a team the map
\* has a base for, and nothing else about the room changes.
LEMMA AddPlayerFacts ==
    ASSUME NEW room \in Room, NEW uid \in Uids,
           Cardinality(Players(room)) <= room.max_players,
           uid \in Players(room) \/ ~IsFull(room)
    PROVE  /\ AddPlayer(room, uid) \in Room
           /\ Players(AddPlayer(room, uid)) = Players(room) \cup {uid}
           /\ AddPlayer(room, uid).max_players = room.max_players
           /\ Active(AddPlayer(room, uid)) <=> Active(room)
           /\ Cardinality(Players(AddPlayer(room, uid))) <= room.max_players
           /\ uid \notin Players(room) => Cardinality(Players(room)) # room.max_players
  <1> DEFINE after == AddPlayer(room, uid)
             n == Cardinality(Players(room))
  <1>0. n \in Nat /\ room.max_players \in 1 .. kMaxRoomPlayers
    BY RosterFacts DEF Room
  <1>1. CASE uid \in Players(room)
    BY <1>1 DEF AddPlayer
  <1>2. CASE uid \notin Players(room)
    <2>1. n < room.max_players
      BY <1>0, <1>2 DEF IsFull
    <2>2. n \in Teams
      BY <1>0, <2>1 DEF Teams, kMaxRoomPlayers
    <2>3. after = [room EXCEPT !.team = Put(room.team, uid, n)]
      BY <1>2 DEF AddPlayer
    <2>4. PartialMap(Put(room.team, uid, n), Uids, Teams)
      BY <2>2, RosterFacts, PutMap
    <2>5. Put(room.team, uid, n) \in Rosters
      BY <2>4, RosterOf
    <2>6. after \in Room /\ after.team = Put(room.team, uid, n)
          /\ after.max_players = room.max_players /\ (Active(after) <=> Active(room))
      BY <2>3, <2>5 DEF Room, Active
    <2>7. Players(after) = Players(room) \cup {uid}
      BY <2>6 DEF Players, Put
    <2>8. Cardinality(Players(after)) = n + 1
      BY <1>2, <2>7, RosterFacts, FS_AddElement
    <2> QED
      BY <1>0, <2>1, <2>6, <2>7, <2>8
  <1> QED
    BY <1>1, <1>2

-----------------------------------------------------------------------------
(* The invariant of one shard under the changes the handlers make.         *)

\* A room some player remains in is in order after a departure: the battle,
\* if there was one, is over.
LEMMA DepartedRoomOK ==
    ASSUME NEW room, RoomOK(room), NEW uid, Players(room) # {uid},
           uid \in Players(room)
    PROVE  LET after == [RemovePlayer(room, uid) EXCEPT !.game_over = @ \/ Active(room)]
           IN  RoomOK(after) /\ Players(after) = Players(room) \ {uid}
  <1> DEFINE gone == RemovePlayer(room, uid)
             after == [gone EXCEPT !.game_over = gone.game_over \/ Active(room)]
  <1>1. room \in Room
    BY DEF RoomOK
  <1>2. gone \in Room /\ Players(gone) = Players(room) \ {uid}
        /\ gone.max_players = room.max_players /\ (Active(gone) <=> Active(room))
        /\ Cardinality(Players(gone)) <= Cardinality(Players(room))
    BY <1>1, RemovePlayerFacts
  <1>3. after \in Room /\ after.team = gone.team /\ after.max_players = gone.max_players
        /\ ~Active(after)
    <2>1. (gone.game_over \/ Active(room)) \in BOOLEAN
      BY <1>2 DEF Room, Active
    <2>2. after \in Room /\ after.team = gone.team /\ after.max_players = gone.max_players
          /\ after.started = gone.started /\ after.game_over = (gone.game_over \/ Active(room))
      BY <1>2, <2>1 DEF Room
    <2> QED
      BY <1>2, <2>2 DEF Active
  <1>4. Players(after) = Players(room) \ {uid}
    BY <1>2, <1>3 DEF Players
  <1>5. Cardinality(Players(after)) <= after.max_players
    <2>1. Cardinality(Players(after)) = Cardinality(Players(gone))
      BY <1>2, <1>4
    <2>2. Cardinality(Players(gone)) \in Nat /\ Cardinality(Players(room)) \in Nat
      BY <1>1, <1>2, RosterFacts
    <2>3. room.max_players \in Nat
      BY <1>1 DEF Room, kMaxRoomPlayers
    <2> QED
      BY <1>2, <1>3, <2>1, <2>2, <2>3 DEF RoomOK
  <1> QED
    BY <1>3, <1>4, <1>5 DEF RoomOK

\* Leaving the room a shard has a player in, by request, by disconnect or on
\* the way to another room, keeps the shard in order and the player in none of
\* its rooms.
LEMMA DepartKeepsShardInv ==
    ASSUME NEW s \in Shards, NEW rs, NEW index, NEW routes, NEW next,
           ShardInv(s, rs, index, routes, next),
           NEW uid \in DOMAIN index
    PROVE  ShardInv(s, Depart(rs, index[uid], uid), Erase(index, uid), routes, next)
  <1> DEFINE r == index[uid]
             after == [RemovePlayer(rs[r], uid) EXCEPT
                         !.game_over = RemovePlayer(rs[r], uid).game_over \/ Active(rs[r])]
             rs2 == Depart(rs, r, uid)
             index2 == Erase(index, uid)
  <1>1. uid \in Uids /\ r \in RoomIds /\ r \in DOMAIN rs /\ uid \in Players(rs[r])
        /\ RoomOK(rs[r]) /\ rs[r] \in Room
    BY DEF ShardInv, PartialMap, IsMember, RoomOK
  <1>2. PartialMap(index2, Uids, RoomIds) /\ DOMAIN index2 = DOMAIN index \ {uid}
        /\ \A x \in DOMAIN index2 : index2[x] = index[x]
    BY DEF ShardInv, PartialMap, Erase
  <1>3. Players(RemovePlayer(rs[r], uid)) = Players(rs[r]) \ {uid}
    BY <1>1, RemovePlayerFacts
  <1>4. CASE Players(rs[r]) = {uid}
    <2>1. rs2 = Erase(rs, r)
      BY <1>3, <1>4 DEF Depart
    <2>2. PartialMap(rs2, RoomIds, Room) /\ DOMAIN rs2 = DOMAIN rs \ {r}
          /\ \A x \in DOMAIN rs2 : rs2[x] = rs[x]
      BY <2>1 DEF ShardInv, PartialMap, Erase
    <2> HIDE DEF rs2, index2
    <2>3. \A u \in Uids :
           /\ u \in DOMAIN index2 => IsMember(rs2, u, index2[u])
           /\ \A q \in DOMAIN rs2 : u \in Players(rs2[q]) => u \in DOMAIN index2 /\ index2[u] = q
      BY <1>1, <1>2, <1>4, <2>2 DEF ShardInv, IsMember
    <2> QED
      BY <1>2, <2>2, <2>3 DEF ShardInv, rs2, index2
  <1>5. CASE Players(rs[r]) # {uid}
    <2>1. RoomOK(after) /\ Players(after) = Players(rs[r]) \ {uid}
      BY <1>1, <1>5, DepartedRoomOK
    <2>2. rs2 = Put(rs, r, after)
      BY <1>1, <1>3, <1>5 DEF Depart
    <2> HIDE DEF after
    <2>3. PartialMap(rs2, RoomIds, Room) /\ DOMAIN rs2 = DOMAIN rs /\ rs2[r] = after
          /\ \A x \in DOMAIN rs \ {r} : rs2[x] = rs[x]
      <3>1. after \in Room /\ PartialMap(rs, RoomIds, Room)
        BY <2>1 DEF RoomOK, ShardInv
      <3> QED
        BY <1>1, <2>2, <3>1 DEF PartialMap, Put
    <2> HIDE DEF rs2, index2
    <2>4. \A u \in Uids :
           /\ u \in DOMAIN index2 => IsMember(rs2, u, index2[u])
           /\ \A q \in DOMAIN rs2 : u \in Players(rs2[q]) => u \in DOMAIN index2 /\ index2[u] = q
      BY <1>1, <1>2, <2>1, <2>3 DEF ShardInv, IsMember
    <2>5. \A q \in DOMAIN rs2 : RoomOK(rs2[q])
      BY <2>1, <2>3 DEF ShardInv
    <2> QED
      BY <1>2, <2>3, <2>4, <2>5 DEF ShardInv, rs2, index2
  <1> QED
    BY <1>4, <1>5

\* LeaveRoomInternal as a whole, whether or not the shard has the player in a
\* room.
LEMMA LeaveKeepsShardInv ==
    ASSUME NEW s \in Shards, NEW rs, NEW index, NEW routes, NEW next,
           ShardInv(s, rs, index, routes, next), NEW uid
    PROVE  ShardInv(s, RoomsAfterLeave(rs, index, uid), Erase(index, uid), routes, next)
  <1>1. CASE uid \in DOMAIN index
    <2>1. InRoom(rs, index, uid)
      BY <1>1 DEF InRoom, ShardInv, IsMember, PartialMap
    <2> QED
      BY <1>1, <2>1, DepartKeepsShardInv DEF RoomsAfterLeave
  <1>2. CASE uid \notin DOMAIN index
    <2>1. Erase(index, uid) = index
      <3>1. DOMAIN index \ {uid} = DOMAIN index
        BY <1>2
      <3>2. index = [x \in DOMAIN index |-> index[x]]
        BY DEF ShardInv, PartialMap
      <3> QED
        BY <3>1, <3>2 DEF Erase
    <2>2. RoomsAfterLeave(rs, index, uid) = rs
      BY <1>2 DEF RoomsAfterLeave, InRoom
    <2> QED
      BY <2>1, <2>2
  <1> QED
    BY <1>1, <1>2

\* Recording the route of a request (handleTask) keeps the shard in order and
\* makes the sender reachable.
LEMMA RouteKeepsShardInv ==
    ASSUME NEW s \in Shards, NEW rs, NEW index, NEW routes, NEW next,
           ShardInv(s, rs, index, routes, next), NEW uid \in Uids, NEW route \in Routes
    PROVE  /\ ShardInv(s, rs, index, Put(routes, uid, route), next)
           /\ uid \in DOMAIN Put(routes, uid, route)
  <1>1. PartialMap(routes, Uids, Routes)
    BY DEF ShardInv
  <1>2. /\ PartialMap(Put(routes, uid, route), Uids, Routes)
        /\ DOMAIN Put(routes, uid, route) = DOMAIN routes \cup {uid}
    BY <1>1 DEF PartialMap, Put
  <1> QED
    BY <1>2 DEF ShardInv

\* A player that is in none of the shard's rooms enters a room (its own new
\* one or another player's): put room, which has exactly one player more, and
\* point the index at it.
LEMMA EnterKeepsShardInv ==
    ASSUME NEW s \in Shards, NEW rs, NEW index, NEW routes, NEW next,
           ShardInv(s, rs, index, routes, next),
           NEW uid \in DOMAIN routes, uid \in Uids, uid \notin DOMAIN index,
           NEW r \in RoomIds, r % ShardCount = s, r < RoomIdOf(s, next),
           NEW room, RoomOK(room),
           r \in DOMAIN rs => Players(room) = Players(rs[r]) \cup {uid},
           r \notin DOMAIN rs => Players(room) = {uid}
    PROVE  ShardInv(s, Put(rs, r, room), Put(index, uid, r), routes, next)
  <1> DEFINE rs2 == Put(rs, r, room)
             index2 == Put(index, uid, r)
  <1>1. PartialMap(rs2, RoomIds, Room) /\ DOMAIN rs2 = DOMAIN rs \cup {r}
        /\ rs2[r] = room /\ \A x \in DOMAIN rs \ {r} : rs2[x] = rs[x]
    <2>1. PartialMap(rs, RoomIds, Room) /\ room \in Room
      BY DEF ShardInv, RoomOK
    <2> QED
      BY <2>1 DEF PartialMap, Put
  <1>2. PartialMap(index2, Uids, RoomIds) /\ DOMAIN index2 = DOMAIN index \cup {uid}
        /\ index2[uid] = r /\ \A x \in DOMAIN index : index2[x] = index[x]
    <2>1. PartialMap(index, Uids, RoomIds)
      BY DEF ShardInv
    <2> QED
      BY <2>1 DEF PartialMap, Put
  <1> HIDE DEF rs2, index2
  <1>3. \A u \in Uids :
          /\ u \in DOMAIN index2 => IsMember(rs2, u, index2[u])
          /\ \A q \in DOMAIN rs2 : u \in Players(rs2[q]) => u \in DOMAIN index2 /\ index2[u] = q
    BY <1>1, <1>2 DEF ShardInv, IsMember
  <1>4. \A q \in DOMAIN rs2 : RoomOK(rs2[q])
    BY <1>1 DEF ShardInv
  <1> QED
    BY <1>1, <1>2, <1>3, <1>4 DEF ShardInv, rs2, index2

\* Replacing a room by one with the same players (ready, start, commands) is
\* harmless.
LEMMA UpdateKeepsShardInv ==
    ASSUME NEW s \in Shards, NEW rs, NEW index, NEW routes, NEW next,
           ShardInv(s, rs, index, routes, next),
           NEW r \in DOMAIN rs, NEW room, RoomOK(room), Players(room) = Players(rs[r])
    PROVE  ShardInv(s, Put(rs, r, room), index, routes, next)
  <1> DEFINE rs2 == Put(rs, r, room)
  <1>1. PartialMap(rs2, RoomIds, Room) /\ DOMAIN rs2 = DOMAIN rs
        /\ rs2[r] = room /\ \A x \in DOMAIN rs \ {r} : rs2[x] = rs[x]
    <2>1. PartialMap(rs, RoomIds, Room) /\ room \in Room /\ r \in RoomIds
      BY DEF ShardInv, RoomOK, PartialMap
    <2>2. DOMAIN rs \cup {r} = DOMAIN rs
      OBVIOUS
    <2> QED
      BY <2>1, <2>2 DEF PartialMap, Put
  <1> HIDE DEF rs2
  <1>2. \A q \in DOMAIN rs2 : Players(rs2[q]) = Players(rs[q]) /\ RoomOK(rs2[q])
    BY <1>1 DEF ShardInv
  <1>3. \A u \in Uids :
          /\ u \in DOMAIN index => IsMember(rs2, u, index[u])
          /\ \A q \in DOMAIN rs2 : u \in Players(rs2[q]) => u \in DOMAIN index /\ index[u] = q
    BY <1>1, <1>2 DEF ShardInv, IsMember
  <1> QED
    BY <1>1, <1>2, <1>3 DEF ShardInv, rs2

-----------------------------------------------------------------------------
(* What the handlers do to a room they leave its players in.               *)

\* The room a CreateRoomReq makes, with its owner in it.
LEMMA NewRoomOK ==
    ASSUME NEW n \in Nat, NEW uid \in Uids
    PROVE  LET room == AddPlayer(NewRoom(NormalizeMaxPlayers(n)), uid)
           IN  RoomOK(room) /\ Players(room) = {uid}
  <1> DEFINE max == NormalizeMaxPlayers(n)
             empty == NewRoom(max)
             room == AddPlayer(empty, uid)
  <1>1. max \in 1 .. kMaxRoomPlayers
    BY DEF NormalizeMaxPlayers, kMaxRoomPlayers, kDefaultMaxPlayers
  <1>2. PartialMap(EmptyMap, Uids, Teams) /\ DOMAIN EmptyMap = {}
    BY DEF PartialMap, EmptyMap
  <1>3. EmptyMap \in Rosters
    BY <1>2, RosterOf
  <1> HIDE DEF max
  <1>4. empty \in Room
    BY <1>1, <1>3 DEF NewRoom, Room, kMaxRoomPlayers
  <1>5. empty.team = EmptyMap /\ empty.max_players = max /\ ~Active(empty)
    BY <1>1 DEF NewRoom, Active
  <1>6. Players(empty) = {} /\ Cardinality(Players(empty)) = 0
    BY <1>2, <1>5, FS_EmptySet DEF Players
  <1>7. ~IsFull(empty) /\ Cardinality(Players(empty)) <= empty.max_players
    BY <1>1, <1>5, <1>6 DEF IsFull, kMaxRoomPlayers
  <1>8. room \in Room /\ Players(room) = Players(empty) \cup {uid}
        /\ room.max_players = empty.max_players /\ (Active(room) <=> Active(empty))
        /\ Cardinality(Players(room)) <= empty.max_players
    <2> HIDE DEF empty
    <2> QED BY <1>4, <1>7, AddPlayerFacts
  <1>9. Players(room) = {uid}
    BY <1>6, <1>8
  <1> QED
    BY <1>5, <1>8, <1>9 DEF RoomOK, max

\* SetReady changes only the ready flags.
LEMMA SetReadyOK ==
    ASSUME NEW room, RoomOK(room), NEW uid \in Uids, NEW ready \in BOOLEAN
    PROVE  /\ RoomOK(SetReady(room, uid, ready))
           /\ Players(SetReady(room, uid, ready)) = Players(room)
  <1> DEFINE flags == IF ready THEN room.ready \cup {uid} ELSE room.ready \ {uid}
             after == [room EXCEPT !.ready = flags]
  <1>1. room \in Room
    BY DEF RoomOK
  <1>2. flags \in SUBSET Uids
    BY <1>1 DEF Room
  <1> HIDE DEF flags
  <1>3. after \in Room /\ after.team = room.team /\ after.max_players = room.max_players
        /\ after.started = room.started /\ after.game_over = room.game_over
    BY <1>1, <1>2 DEF Room
  <1>4. Players(after) = Players(room) /\ (Active(after) <=> Active(room))
    BY <1>3 DEF Players, Active
  <1>5. SetReady(room, uid, ready) = after
    BY DEF SetReady, flags
  <1> HIDE DEF after
  <1> QED
    BY <1>3, <1>4, <1>5 DEF RoomOK

\* A room that may start is full, so the battle begins with a full room.
LEMMA BeginBattleOK ==
    ASSUME NEW room, RoomOK(room), CanStart(room)
    PROVE  RoomOK(BeginBattle(room)) /\ Players(BeginBattle(room)) = Players(room)
  <1> DEFINE owners == {room.team[u] : u \in Players(room)}
             after == BeginBattle(room)
  <1>1. room \in Room
    BY DEF RoomOK
  <1>2. owners \in SUBSET Teams
    BY <1>1, RosterFacts DEF PartialMap, Players
  <1>3. Cardinality(owners) \in Nat
    <2> HIDE DEF owners
    <2>1. owners \in SUBSET Nat /\ 3 \in Nat /\ \A x \in owners : x <= 3
      BY <1>2 DEF Teams, kMaxRoomPlayers
    <2>2. IsFiniteSet(owners)
      BY <2>1, FS_BoundedSetOfNaturals
    <2> QED
      BY <2>2, FS_CardinalityType
  <1> HIDE DEF owners
  <1>4. after = [room EXCEPT !.started = TRUE, !.crystals = owners,
                             !.initial_crystal_team_count = Cardinality(owners)]
    <2> DEFINE spawned == SpawnInitialUnits(room)
    <2>1. spawned = [room EXCEPT !.crystals = owners]
      BY DEF SpawnInitialUnits, owners
    <2>2. spawned.crystals = owners
      BY <1>1, <2>1 DEF Room
    <2>3. after = [spawned EXCEPT !.started = TRUE,
                                  !.initial_crystal_team_count = Cardinality(spawned.crystals)]
      BY DEF BeginBattle
    <2> HIDE DEF spawned, after
    <2> QED
      BY <1>1, <2>1, <2>2, <2>3 DEF Room
  <1> HIDE DEF after
  <1>5. after \in Room /\ after.team = room.team /\ after.max_players = room.max_players
    BY <1>1, <1>2, <1>3, <1>4 DEF Room
  <1>6. Players(after) = Players(room)
    BY <1>5 DEF Players
  <1>7. Cardinality(Players(room)) = room.max_players
    <2>1. Cardinality(Players(room)) \in Nat
      BY <1>1, RosterFacts
    <2>2. room.max_players \in Nat
      BY <1>1 DEF Room, kMaxRoomPlayers
    <2> QED
      BY <2>1, <2>2 DEF CanStart, IsFull, RoomOK
  <1> QED
    BY <1>5, <1>6, <1>7 DEF RoomOK, after

\* A queued command changes nothing but the queue.
LEMMA EnqueueCommandOK ==
    ASSUME NEW room, RoomOK(room), NEW uid \in Uids
    PROVE  RoomOK(EnqueueCommand(room, uid)) /\ Players(EnqueueCommand(room, uid)) = Players(room)
  <1> DEFINE queue == Append(room.pending, uid)
             after == [room EXCEPT !.pending = queue]
  <1>1. room \in Room
    BY DEF RoomOK
  <1>2. queue \in Seq(Uids)
    BY <1>1 DEF Room
  <1> HIDE DEF queue
  <1>3. after \in Room /\ after.team = room.team /\ after.max_players = room.max_players
        /\ after.started = room.started /\ after.game_over = room.game_over
    BY <1>1, <1>2 DEF Room
  <1>4. Players(after) = Players(room) /\ (Active(after) <=> Active(room))
    BY <1>3 DEF Players, Active
  <1>5. EnqueueCommand(room, uid) = after
    BY DEF EnqueueCommand, queue
  <1> HIDE DEF after
  <1> QED
    BY <1>3, <1>4, <1>5 DEF RoomOK

\* A tick of an active room, whichever crystals fall and whether or not it
\* ends the battle, keeps the roster.
LEMMA TickRoomOK ==
    ASSUME NEW room, RoomOK(room), Active(room), NEW alive \in SUBSET Teams
    PROVE  RoomOK(TickRoom(room, alive)) /\ Players(TickRoom(room, alive)) = Players(room)
  <1> DEFINE mid == [room EXCEPT !.pending = <<>>, !.crystals = alive]
             over == CheckGameOver(mid)
             after == [mid EXCEPT !.game_over = over]
  <1>1. room \in Room
    BY DEF RoomOK
  <1>2. mid \in Room /\ mid.team = room.team /\ mid.max_players = room.max_players
    <2> DEFINE none == <<>>
    <2>1. none \in Seq(Uids)
      OBVIOUS
    <2> HIDE DEF none
    <2>2. mid = [room EXCEPT !.pending = none, !.crystals = alive]
      BY DEF none
    <2> QED
      BY <1>1, <2>1, <2>2 DEF Room
  <1>3. over \in BOOLEAN
    BY Zenon DEF CheckGameOver
  <1>4. TickRoom(room, alive) = after
    BY DEF TickRoom, Stepped
  <1> HIDE DEF mid, over
  <1>5. after \in Room /\ after.team = room.team /\ after.max_players = room.max_players
    BY <1>2, <1>3 DEF Room
  <1> HIDE DEF after
  <1>6. Players(after) = Players(room)
    BY <1>5 DEF Players
  <1> QED
    BY <1>4, <1>5, <1>6 DEF RoomOK

-----------------------------------------------------------------------------
(* Joining and creating.                                                   *)

\* A successful AddPlayer, for a player in no room of the shard or in this
\* very room already.
LEMMA JoinKeepsShardInv ==
    ASSUME NEW s \in Shards, NEW rs, NEW index, NEW routes, NEW next,
           ShardInv(s, rs, index, routes, next),
           NEW uid \in DOMAIN routes, uid \in Uids, NEW r, Admits(rs, r, uid),
           uid \in DOMAIN index => index[uid] = r
    PROVE  ShardInv(s, Put(rs, r, AddPlayer(rs[r], uid)), Put(index, uid, r), routes, next)
  <1> DEFINE room == AddPlayer(rs[r], uid)
  <1>1. r \in DOMAIN rs /\ r \in RoomIds /\ RoomOK(rs[r]) /\ rs[r] \in Room
        /\ r % ShardCount = s /\ r < RoomIdOf(s, next)
    BY DEF Admits, ShardInv, PartialMap, RoomOK
  <1>2. uid \in Players(rs[r]) \/ ~IsFull(rs[r])
    BY DEF Admits
  <1>3. room \in Room /\ Players(room) = Players(rs[r]) \cup {uid}
        /\ room.max_players = rs[r].max_players /\ (Active(room) <=> Active(rs[r]))
        /\ Cardinality(Players(room)) <= rs[r].max_players
        /\ (uid \notin Players(rs[r]) => Cardinality(Players(rs[r])) # rs[r].max_players)
    BY <1>1, <1>2, AddPlayerFacts DEF RoomOK
  <1>4. CASE uid \in DOMAIN index
    <2>1. uid \in Players(rs[r])
      BY <1>4 DEF ShardInv, IsMember
    <2>2. room = rs[r]
      BY <2>1 DEF AddPlayer
    <2>3. Put(index, uid, r) = index
      <3>1. index = [x \in DOMAIN index |-> index[x]] /\ DOMAIN index \cup {uid} = DOMAIN index
        BY <1>4 DEF ShardInv, PartialMap
      <3> QED
        BY <1>4, <3>1 DEF Put
    <2> QED
      BY <1>1, <2>2, <2>3, UpdateKeepsShardInv
  <1>5. CASE uid \notin DOMAIN index
    <2>1. uid \notin Players(rs[r])
      BY <1>1, <1>5 DEF ShardInv
    <2>2. ~Active(rs[r])
      BY <1>1, <1>3, <2>1 DEF RoomOK
    <2>3. RoomOK(room)
      BY <1>3, <2>2 DEF RoomOK
    <2> HIDE DEF room
    <2> QED
      BY <1>1, <1>3, <1>5, <2>3, EnterKeepsShardInv DEF room
  <1> QED
    BY <1>4, <1>5

\* Ids handed out by shard s are congruent to s: RoomIdOf is what makes
\* room_id % shard_count lead back to the shard (ResolveLogicShard).
LEMMA RoomIdCongruence ==
    ASSUME NEW s \in Shards, NEW n \in Nat
    PROVE  RoomIdOf(s, n) % ShardCount = s
  <1> DEFINE x == s + ShardCount * n
             q == x \div ShardCount
             m == x % ShardCount
  <1>0. ShardCount \in Nat \ {0} /\ s \in 0 .. ShardCount - 1
    BY ShardCountPositive DEF Shards
  <1>1. x \in Nat /\ ShardCount * n \in Nat
    BY <1>0
  <1>2. q \in Int /\ m \in 0 .. ShardCount - 1 /\ x = ShardCount * q + m
    BY <1>0, <1>1
  <1> HIDE DEF q, m
  <1>3. ASSUME q < n PROVE FALSE
    <2>1. ShardCount * q + ShardCount <= ShardCount * n
      BY <1>0, <1>2, <1>3
    <2> QED
      BY <1>0, <1>1, <1>2, <2>1
  <1>4. ASSUME q > n PROVE FALSE
    <2>1. ShardCount * n + ShardCount <= ShardCount * q
      BY <1>0, <1>2, <1>4
    <2> QED
      BY <1>0, <1>1, <1>2, <2>1
  <1>5. q = n
    BY <1>2, <1>3, <1>4
  <1>6. m = s
    BY <1>0, <1>1, <1>2, <1>5
  <1> QED
    BY <1>6 DEF RoomIdOf, m

\* The counter only grows, and so do the ids it stands for.
LEMMA RoomIdGrows ==
    ASSUME NEW s \in Shards, NEW n \in Nat \ {0}
    PROVE  /\ RoomIdOf(s, n) \in RoomIds
           /\ RoomIdOf(s, n + 1) \in RoomIds
           /\ RoomIdOf(s, n) < RoomIdOf(s, n + 1)
  <1>1. ShardCount \in Nat \ {0} /\ s \in Nat
    BY ShardCountPositive DEF Shards
  <1>2. ShardCount * n \in Nat \ {0} /\ ShardCount * (n + 1) = ShardCount * n + ShardCount
    BY <1>1
  <1> QED
    BY <1>1, <1>2 DEF RoomIdOf, RoomIds

\* Creating a room for a player in no room of the shard: the id is fresh and
\* stays below the advanced counter.
LEMMA CreateKeepsShardInv ==
    ASSUME NEW s \in Shards, NEW rs, NEW index, NEW routes, NEW next,
           ShardInv(s, rs, index, routes, next),
           NEW uid \in DOMAIN routes, uid \in Uids, uid \notin DOMAIN index,
           NEW room, RoomOK(room), Players(room) = {uid}
    PROVE  ShardInv(s, Put(rs, RoomIdOf(s, next), room),
                    Put(index, uid, RoomIdOf(s, next)), routes, next + 1)
  <1> DEFINE r == RoomIdOf(s, next)
  <1>1. next \in Nat \ {0} /\ next + 1 \in Nat \ {0}
    BY DEF ShardInv
  <1>2. r \in RoomIds /\ r < RoomIdOf(s, next + 1) /\ RoomIdOf(s, next + 1) \in RoomIds
        /\ r % ShardCount = s
    BY <1>1, RoomIdGrows, RoomIdCongruence
  <1> HIDE DEF r
  <1>3. \A q \in DOMAIN rs : q \in RoomIds /\ q < r /\ q % ShardCount = s
    BY DEF ShardInv, PartialMap, r
  <1>4. r \notin DOMAIN rs
    BY <1>2, <1>3 DEF RoomIds
  <1>5. \A q \in DOMAIN rs : q < RoomIdOf(s, next + 1)
    BY <1>2, <1>3 DEF RoomIds
  <1>6. ShardInv(s, rs, index, routes, next + 1)
    BY <1>1, <1>3, <1>5 DEF ShardInv
  <1> QED
    BY <1>2, <1>4, <1>6, EnterKeepsShardInv DEF r

-----------------------------------------------------------------------------
(* Messages.                                                               *)

\* Only players are sent to.
LEMMA SendType ==
    ASSUME NEW routes, PartialMap(routes, Uids, Routes), NEW uids,
           NEW msg \in Notifications, NEW r \in Nat, NEW arg \in Nat
    PROVE  SendToPlayers(routes, uids, msg, r, arg) \in SUBSET Message
  BY DEF SendToPlayers, PartialMap, Message

\* The replies and broadcasts built from it.
LEMMA ReplyType ==
    ASSUME NEW routes, PartialMap(routes, Uids, Routes), NEW uid, NEW room,
           NEW msg \in Notifications, NEW r \in Nat, NEW arg \in Nat
    PROVE  /\ SendToPlayer(routes, uid, msg, r, arg) \in SUBSET Message
           /\ Fail(routes, uid, msg, r) \in SUBSET Message
           /\ BroadcastRoomState(routes, r, room) \in SUBSET Message
           /\ BroadcastGameOver(routes, r, room, arg) \in SUBSET Message
  <1>1. SendToPlayer(routes, uid, msg, r, arg) \in SUBSET Message
    BY SendType DEF SendToPlayer
  <1>2. Fail(routes, uid, msg, r) \in SUBSET Message
    <2>1. 1 \in Nat
      OBVIOUS
    <2> QED
      BY <2>1, SendType DEF Fail, SendToPlayer
  <1>3. BroadcastRoomState(routes, r, room) \in SUBSET Message
    <2>1. 0 \in Nat /\ "RoomStateNtf" \in Notifications
      BY DEF Notifications
    <2> QED
      BY <2>1, SendType DEF BroadcastRoomState
  <1>4. BroadcastGameOver(routes, r, room, arg) \in SUBSET Message
    <2>1. "GameOverNtf" \in Notifications
      BY DEF Notifications
    <2> QED
      BY <2>1, SendType DEF BroadcastGameOver
  <1> QED
    BY <1>1, <1>2, <1>3, <1>4

\* What the players left behind are sent when uid departs.
LEMMA DepartMessagesType ==
    ASSUME NEW rs, PartialMap(rs, RoomIds, Room), NEW routes, PartialMap(routes, Uids, Routes),
           NEW r \in DOMAIN rs, NEW uid, NEW winner \in ForfeitWinners(rs, r, uid)
    PROVE  DepartMessages(rs, routes, r, uid, winner) \in SUBSET Message
  <1> DEFINE room == RemovePlayer(rs[r], uid)
  <1>1. r \in Nat /\ rs[r] \in Room
    BY DEF PartialMap, RoomIds
  <1>2. room \in Room
    BY <1>1, RemovePlayerFacts
  <1>3. PartialMap(room.team, Uids, Teams)
    BY <1>2, RosterFacts
  <1>4. winner \in Nat
    BY <1>3 DEF ForfeitWinners, NoTeam, Teams, kMaxRoomPlayers, PartialMap, Players
  <1>5. "RoomStateNtf" \in Notifications
    BY DEF Notifications
  <1>6. /\ BroadcastRoomState(routes, r, room) \in SUBSET Message
        /\ BroadcastGameOver(routes, r, room, winner) \in SUBSET Message
    BY <1>1, <1>4, <1>5, ReplyType
  <1> QED
    BY <1>6 DEF DepartMessages

\* The same for LeaveRoomInternal.
LEMMA LeaveMessagesType ==
    ASSUME NEW rs, PartialMap(rs, RoomIds, Room), NEW routes, PartialMap(routes, Uids, Routes),
           NEW index, NEW uid, NEW winner \in LeaveWinners(rs, index, uid)
    PROVE  LeaveMessages(rs, index, routes, uid, winner) \in SUBSET Message
  <1>1. CASE InRoom(rs, index, uid)
    <2>1. index[uid] \in DOMAIN rs /\ winner \in ForfeitWinners(rs, index[uid], uid)
      BY <1>1 DEF InRoom, LeaveWinners
    <2> QED
      BY <1>1, <2>1, DepartMessagesType DEF LeaveMessages
  <1>2. CASE ~InRoom(rs, index, uid)
    BY <1>2 DEF LeaveMessages
  <1> QED
    BY <1>1, <1>2

-----------------------------------------------------------------------------
(* Steps.                                                                  *)

GlobalTypes ==
    /\ DOMAIN rooms = Shards /\ DOMAIN uid_to_room = Shards /\ DOMAIN uid_route = Shards
    /\ next_room_id \in [Shards -> Nat \ {0}]
    /\ sent \in SUBSET Message

ShardOK(s) == ShardInv(s, rooms[s], uid_to_room[s], uid_route[s], next_room_id[s])

AllShardsOK == \A s \in Shards : ShardOK(s)

\* IInv is the conjunction of the properties, ShardOK the same shard by shard.
LEMMA IInvByShard == IInv <=> GlobalTypes /\ AllShardsOK
  <1>1. IInv => GlobalTypes /\ AllShardsOK
    <2> SUFFICES ASSUME IInv
                 PROVE  GlobalTypes /\ AllShardsOK
      OBVIOUS
    <2>1. GlobalTypes
      BY DEF IInv, LogicTypeOK, GlobalTypes
    <2>2. ASSUME NEW s \in Shards PROVE ShardOK(s)
      <3>1. \A r \in DOMAIN rooms[s] : RoomOK(rooms[s][r])
        BY DEF IInv, LogicTypeOK, NoEmptyRoom, ActiveRoomIsFull, RoomOK, PartialMap
      <3> QED
        BY <3>1 DEF IInv, LogicTypeOK, MembershipAgrees, RoomIdsOfShard,
                    MembersRoutable, ShardOK, ShardInv
    <2> QED
      BY <2>1, <2>2 DEF AllShardsOK
  <1>2. GlobalTypes /\ AllShardsOK => IInv
    <2> SUFFICES ASSUME GlobalTypes, AllShardsOK
                 PROVE  IInv
      OBVIOUS
    <2>1. LogicTypeOK
      BY DEF GlobalTypes, LogicTypeOK, AllShardsOK, ShardOK, ShardInv
    <2>2. MembershipAgrees
      BY DEF MembershipAgrees, AllShardsOK, ShardOK, ShardInv
    <2>3. NoEmptyRoom /\ ActiveRoomIsFull
      BY DEF NoEmptyRoom, ActiveRoomIsFull, RoomOK, AllShardsOK, ShardOK, ShardInv
    <2>4. RoomIdsOfShard /\ MembersRoutable
      BY DEF RoomIdsOfShard, MembersRoutable, AllShardsOK, ShardOK, ShardInv
    <2> QED
      BY <2>1, <2>2, <2>3, <2>4 DEF IInv
  <1> QED
    BY <1>1, <1>2

\* Handlers touch the maps of their own shard only.
LEMMA StepOfOneShard ==
    ASSUME IInv, NEW s \in Shards, NEW rs, NEW index, NEW routes, NEW next,
           rooms' = [rooms EXCEPT ![s] = rs] \/ (rooms' = rooms /\ rs = rooms[s]),
           uid_to_room' = [uid_to_room EXCEPT ![s] = index]
             \/ (uid_to_room' = uid_to_room /\ index = uid_to_room[s]),
           uid_route' = [uid_route EXCEPT ![s] = routes]
             \/ (uid_route' = uid_route /\ routes = uid_route[s]),
           next_room_id' = [next_room_id EXCEPT ![s] = next]
             \/ (next_room_id' = next_room_id /\ next = next_room_id[s]),
           sent' \in SUBSET Message,
           ShardInv(s, rs, index, routes, next)
    PROVE  IInv'
  <1>1. GlobalTypes /\ AllShardsOK
    BY IInvByShard
  <1>2. next \in Nat \ {0}
    BY DEF ShardInv
  <1>3. GlobalTypes'
    BY <1>1, <1>2 DEF GlobalTypes
  <1>4. /\ rooms'[s] = rs /\ uid_to_room'[s] = index
        /\ uid_route'[s] = routes /\ next_room_id'[s] = next
    BY <1>1 DEF GlobalTypes
  <1>5. \A x \in Shards \ {s} :
          /\ rooms'[x] = rooms[x] /\ uid_to_room'[x] = uid_to_room[x]
          /\ uid_route'[x] = uid_route[x] /\ next_room_id'[x] = next_room_id[x]
    BY <1>1 DEF GlobalTypes
  <1>6. AllShardsOK'
    BY <1>1, <1>4, <1>5 DEF AllShardsOK, ShardOK
  <1> QED
    BY <1>3, <1>6, IInvByShard, PTL

\* CreateRoomReq: the implicit leave, then the new room.
LEMMA CreateRoomStep ==
    ASSUME IInv, NEW s \in Shards, NEW uid \in Uids, NEW route \in Routes, NEW n \in Nat,
           HandleCreateRoom(s, uid, route, n)
    PROVE  IInv'
  <1> DEFINE routes == RouteAfter(s, uid, route)
             rs == RoomsAfterLeave(rooms[s], uid_to_room[s], uid)
             index == Erase(uid_to_room[s], uid)
             room_id == RoomIdOf(s, next_room_id[s])
             room == AddPlayer(NewRoom(NormalizeMaxPlayers(n)), uid)
  <1>1. ShardOK(s)
    BY IInvByShard DEF AllShardsOK
  <1>2. ShardInv(s, rooms[s], uid_to_room[s], routes, next_room_id[s]) /\ uid \in DOMAIN routes
    BY <1>1, RouteKeepsShardInv DEF ShardOK, RouteAfter
  <1> HIDE DEF routes
  <1>3. ShardInv(s, rs, index, routes, next_room_id[s])
    BY <1>2, LeaveKeepsShardInv
  <1>4. RoomOK(room) /\ Players(room) = {uid}
    BY NewRoomOK
  <1>5. uid \notin DOMAIN index
    BY DEF Erase
  <1>6. Put(uid_to_room[s], uid, room_id) = Put(index, uid, room_id)
    <2>1. DOMAIN index = DOMAIN uid_to_room[s] \ {uid}
          /\ \A x \in DOMAIN index : index[x] = uid_to_room[s][x]
      BY DEF Erase
    <2>2. DOMAIN index \cup {uid} = DOMAIN uid_to_room[s] \cup {uid}
      BY <2>1
    <2> HIDE DEF index, room_id
    <2>3. \A x \in DOMAIN index \cup {uid} :
            (IF x = uid THEN room_id ELSE uid_to_room[s][x])
              = (IF x = uid THEN room_id ELSE index[x])
      BY <2>1
    <2> QED
      BY <2>2, <2>3 DEF Put
  <1> HIDE DEF room, rs, index
  <1>7. ShardInv(s, Put(rs, room_id, room), Put(index, uid, room_id), routes, next_room_id[s] + 1)
    BY <1>2, <1>3, <1>4, <1>5, CreateKeepsShardInv
  <1>8. sent' \in SUBSET Message
    <2>1. PICK winner \in LeaveWinners(rooms[s], uid_to_room[s], uid) :
            sent' = LeaveMessages(rooms[s], uid_to_room[s], routes, uid, winner)
                    \cup SendToPlayer(routes, uid, "CreateRoomRsp", room_id, 0)
                    \cup BroadcastRoomState(routes, room_id, room)
      BY DEF HandleCreateRoom, routes, room
    <2>2. PartialMap(routes, Uids, Routes) /\ PartialMap(rooms[s], RoomIds, Room)
          /\ next_room_id[s] \in Nat \ {0}
      BY <1>2 DEF ShardInv
    <2>3. room_id \in Nat /\ 0 \in Nat /\ "CreateRoomRsp" \in Notifications
      BY <2>2, RoomIdGrows DEF RoomIds, Notifications
    <2>4. LeaveMessages(rooms[s], uid_to_room[s], routes, uid, winner) \in SUBSET Message
      BY <2>2, LeaveMessagesType
    <2>5. /\ SendToPlayer(routes, uid, "CreateRoomRsp", room_id, 0) \in SUBSET Message
          /\ BroadcastRoomState(routes, room_id, room) \in SUBSET Message
      BY <2>2, <2>3, ReplyType
    <2> QED
      BY <2>1, <2>4, <2>5
  <1>9. /\ rooms' = [rooms EXCEPT ![s] = Put(rs, room_id, room)]
        /\ uid_to_room' = [uid_to_room EXCEPT ![s] = Put(index, uid, room_id)]
        /\ uid_route' = [uid_route EXCEPT ![s] = routes]
        /\ next_room_id' = [next_room_id EXCEPT ![s] = next_room_id[s] + 1]
    BY <1>6 DEF HandleCreateRoom, NextRoomId, routes, rs, room
  <1> HIDE DEF room_id
  <1> QED
    BY <1>7, <1>8, <1>9, StepOfOneShard

\* JoinRoomReq, with or without the implicit leave, refused or not.
LEMMA JoinRoomStep ==
    ASSUME IInv, NEW s \in Shards, NEW uid \in Uids, NEW route \in Routes, NEW room_id \in Nat,
           HandleJoinRoom(s, uid, route, room_id)
    PROVE  IInv'
  <1> DEFINE moves == uid \in DOMAIN uid_to_room[s] /\ uid_to_room[s][uid] # room_id
             routes == RouteAfter(s, uid, route)
             rs == IF moves THEN RoomsAfterLeave(rooms[s], uid_to_room[s], uid) ELSE rooms[s]
             index == IF moves THEN Erase(uid_to_room[s], uid) ELSE uid_to_room[s]
             left(winner) == IF moves
                             THEN LeaveMessages(rooms[s], uid_to_room[s], routes, uid, winner)
                             ELSE {}
  <1>1. ShardOK(s)
    BY IInvByShard DEF AllShardsOK
  <1>2. ShardInv(s, rooms[s], uid_to_room[s], routes, next_room_id[s]) /\ uid \in DOMAIN routes
    BY <1>1, RouteKeepsShardInv DEF ShardOK, RouteAfter
  <1>3. ShardInv(s, rs, index, routes, next_room_id[s])
    BY <1>2, LeaveKeepsShardInv
  <1>4. uid \in DOMAIN index => index[uid] = room_id
    BY DEF Erase
  <1>5. PICK winner \in LeaveWinners(rooms[s], uid_to_room[s], uid) :
          /\ uid_route' = [uid_route EXCEPT ![s] = routes]
          /\ UNCHANGED next_room_id
          /\ \/ /\ ~Admits(rs, room_id, uid)
                /\ rooms' = [rooms EXCEPT ![s] = rs]
                /\ uid_to_room' = [uid_to_room EXCEPT ![s] = index]
                /\ sent' = left(winner) \cup Fail(routes, uid, "JoinRoomRsp", room_id)
             \/ /\ Admits(rs, room_id, uid)
                /\ rooms' = [rooms EXCEPT ![s] = Put(rs, room_id, AddPlayer(rs[room_id], uid))]
                /\ uid_to_room' = [uid_to_room EXCEPT ![s] = Put(index, uid, room_id)]
                /\ sent' = left(winner)
                     \cup SendToPlayer(routes, uid, "JoinRoomRsp", room_id, 0)
                     \cup BroadcastRoomState(routes, room_id, AddPlayer(rs[room_id], uid))
    BY DEF HandleJoinRoom
  <1>6. PartialMap(routes, Uids, Routes) /\ PartialMap(rooms[s], RoomIds, Room)
    BY <1>2 DEF ShardInv
  <1>7. left(winner) \in SUBSET Message
    BY <1>6, LeaveMessagesType
  <1>8. 0 \in Nat /\ "JoinRoomRsp" \in Notifications
    BY DEF Notifications
  <1> HIDE DEF moves, routes, rs, index, left
  <1>9. CASE ~Admits(rs, room_id, uid)
    <2>1. sent' \in SUBSET Message
      BY <1>5, <1>6, <1>7, <1>8, <1>9, ReplyType
    <2> QED
      BY <1>3, <1>5, <1>9, <2>1, StepOfOneShard
  <1>10. CASE Admits(rs, room_id, uid)
    <2> DEFINE room == AddPlayer(rs[room_id], uid)
    <2>1. ShardInv(s, Put(rs, room_id, room), Put(index, uid, room_id), routes, next_room_id[s])
      BY <1>2, <1>3, <1>4, <1>10, JoinKeepsShardInv
    <2> HIDE DEF room
    <2>2. /\ SendToPlayer(routes, uid, "JoinRoomRsp", room_id, 0) \in SUBSET Message
          /\ BroadcastRoomState(routes, room_id, room) \in SUBSET Message
      BY <1>6, <1>8, ReplyType
    <2>3. /\ rooms' = [rooms EXCEPT ![s] = Put(rs, room_id, room)]
          /\ uid_to_room' = [uid_to_room EXCEPT ![s] = Put(index, uid, room_id)]
          /\ uid_route' = [uid_route EXCEPT ![s] = routes]
          /\ next_room_id' = next_room_id
          /\ sent' = left(winner) \cup SendToPlayer(routes, uid, "JoinRoomRsp", room_id, 0)
                     \cup BroadcastRoomState(routes, room_id, room)
      BY <1>5, <1>10 DEF room
    <2>4. sent' \in SUBSET Message
      BY <1>7, <2>2, <2>3
    <2> QED
      BY <2>1, <2>3, <2>4, StepOfOneShard
  <1> QED
    BY <1>9, <1>10

\* LeaveRoomReq: the room is named by the request or looked up in the index.
LEMMA LeaveRoomStep ==
    ASSUME IInv, NEW s \in Shards, NEW uid \in Uids, NEW route \in Routes, NEW req \in Nat,
           HandleLeaveRoom(s, uid, route, req)
    PROVE  IInv'
  <1> DEFINE routes == RouteAfter(s, uid, route)
             room_id == RequestedRoom(s, uid, req)
  <1>1. ShardOK(s)
    BY IInvByShard DEF AllShardsOK
  <1>2. ShardInv(s, rooms[s], uid_to_room[s], routes, next_room_id[s]) /\ uid \in DOMAIN routes
    BY <1>1, RouteKeepsShardInv DEF ShardOK, RouteAfter
  <1>3. /\ uid_route' = [uid_route EXCEPT ![s] = routes]
        /\ next_room_id' = next_room_id
    BY DEF HandleLeaveRoom
  <1> HIDE DEF routes, room_id
  <1>4. CASE ~IsMember(rooms[s], uid, room_id)
    <2>1. sent' = {} /\ rooms' = rooms /\ uid_to_room' = uid_to_room
      BY <1>4 DEF HandleLeaveRoom, room_id
    <2>2. sent' \in SUBSET Message
      BY <2>1
    <2> QED
      BY <1>2, <1>3, <2>1, <2>2, StepOfOneShard
  <1>5. CASE IsMember(rooms[s], uid, room_id)
    <2>1. PICK winner \in ForfeitWinners(rooms[s], room_id, uid) :
            /\ rooms' = [rooms EXCEPT ![s] = Depart(rooms[s], room_id, uid)]
            /\ uid_to_room' = [uid_to_room EXCEPT ![s] = Erase(uid_to_room[s], uid)]
            /\ sent' = DepartMessages(rooms[s], routes, room_id, uid, winner)
      BY <1>5 DEF HandleLeaveRoom, room_id, routes
    <2>2. uid \in DOMAIN uid_to_room[s] /\ uid_to_room[s][uid] = room_id
          /\ room_id \in DOMAIN rooms[s]
      BY <1>2, <1>5 DEF ShardInv, IsMember
    <2>3. ShardInv(s, Depart(rooms[s], room_id, uid), Erase(uid_to_room[s], uid),
                   routes, next_room_id[s])
      BY <1>2, <2>2, DepartKeepsShardInv
    <2>4. sent' \in SUBSET Message
      <3>1. PartialMap(rooms[s], RoomIds, Room) /\ PartialMap(routes, Uids, Routes)
        BY <1>2 DEF ShardInv
      <3> QED
        BY <2>1, <2>2, <3>1, DepartMessagesType
    <2> QED
      BY <1>3, <2>1, <2>3, <2>4, StepOfOneShard
  <1> QED
    BY <1>4, <1>5

\* PlayerReadyReq: the flag, and the start of the battle when it was the last.
LEMMA PlayerReadyStep ==
    ASSUME IInv, NEW s \in Shards, NEW uid \in Uids, NEW route \in Routes, NEW req \in Nat,
           NEW ready \in BOOLEAN, HandlePlayerReady(s, uid, route, req, ready)
    PROVE  IInv'
  <1> DEFINE routes == RouteAfter(s, uid, route)
             room_id == RequestedRoom(s, uid, req)
             room == SetReady(rooms[s][room_id], uid, ready)
             after == IF CanStart(room) THEN BeginBattle(room) ELSE room
  <1>1. ShardOK(s)
    BY IInvByShard DEF AllShardsOK
  <1>2. ShardInv(s, rooms[s], uid_to_room[s], routes, next_room_id[s]) /\ uid \in DOMAIN routes
    BY <1>1, RouteKeepsShardInv DEF ShardOK, RouteAfter
  <1>3. /\ uid_route' = [uid_route EXCEPT ![s] = routes]
        /\ uid_to_room' = uid_to_room /\ next_room_id' = next_room_id
    BY DEF HandlePlayerReady
  <1>4. CASE ~IsMember(rooms[s], uid, room_id)
    <2>1. sent' = {} /\ rooms' = rooms
      BY <1>4 DEF HandlePlayerReady
    <2>2. sent' \in SUBSET Message
      BY <2>1
    <2> HIDE DEF routes
    <2> QED
      BY <1>2, <1>3, <2>1, <2>2, StepOfOneShard
  <1>5. CASE IsMember(rooms[s], uid, room_id)
    <2>1. /\ rooms' = [rooms EXCEPT ![s] = Put(rooms[s], room_id, after)]
          /\ sent' = BroadcastRoomState(routes, room_id, room)
               \cup IF CanStart(room)
                    THEN SendToPlayers(routes, Players(room), "GameStartNtf", room_id, 0)
                         \cup SendToPlayers(routes, Players(room), "SnapshotNtf", room_id, 0)
                    ELSE {}
      BY <1>5 DEF HandlePlayerReady
    <2> HIDE DEF routes, room_id
    <2>2. room_id \in DOMAIN rooms[s] /\ room_id \in Nat /\ RoomOK(rooms[s][room_id])
      BY <1>2, <1>5 DEF IsMember, ShardInv, PartialMap, RoomIds
    <2>3. RoomOK(room) /\ Players(room) = Players(rooms[s][room_id])
      BY <2>2, SetReadyOK
    <2> HIDE DEF room
    <2>4. RoomOK(after) /\ Players(after) = Players(room)
      BY <2>3, BeginBattleOK
    <2> HIDE DEF after
    <2>5. ShardInv(s, Put(rooms[s], room_id, after), uid_to_room[s], routes, next_room_id[s])
      BY <1>2, <2>2, <2>3, <2>4, UpdateKeepsShardInv
    <2>6. sent' \in SUBSET Message
      <3>1. PartialMap(routes, Uids, Routes) /\ 0 \in Nat
        BY <1>2 DEF ShardInv
      <3>2. "GameStartNtf" \in Notifications /\ "SnapshotNtf" \in Notifications
        BY DEF Notifications
      <3>3. BroadcastRoomState(routes, room_id, room) \in SUBSET Message
        BY <2>2, <3>1, <3>2, ReplyType
      <3>4. /\ SendToPlayers(routes, Players(room), "GameStartNtf", room_id, 0) \in SUBSET Message
            /\ SendToPlayers(routes, Players(room), "SnapshotNtf", room_id, 0) \in SUBSET Message
        BY <2>2, <3>1, <3>2, SendType
      <3> QED
        BY <2>1, <3>3, <3>4
    <2> QED
      BY <1>3, <2>1, <2>5, <2>6, StepOfOneShard
  <1> QED
    BY <1>4, <1>5

\* Requests that leave rooms and index alone: EnterBattleReq and requests that
\* do not parse.
LEMMA ReplyOnlyStep ==
    ASSUME IInv, NEW s \in Shards, NEW uid \in Uids, NEW route \in Routes,
           uid_route' = [uid_route EXCEPT ![s] = RouteAfter(s, uid, route)],
           UNCHANGED <<rooms, uid_to_room, next_room_id>>, sent' \in SUBSET Message
    PROVE  IInv'
  <1>1. ShardOK(s)
    BY IInvByShard DEF AllShardsOK
  <1>2. ShardInv(s, rooms[s], uid_to_room[s], RouteAfter(s, uid, route), next_room_id[s])
    BY <1>1, RouteKeepsShardInv DEF ShardOK, RouteAfter
  <1> QED
    BY <1>2, StepOfOneShard

\* The room a request means is a number.
LEMMA RequestedRoomNat ==
    ASSUME IInv, NEW s \in Shards, NEW uid \in Uids, NEW req \in Nat
    PROVE  ResolveRoomId(s, uid) \in Nat /\ RequestedRoom(s, uid, req) \in Nat
  <1>1. PartialMap(uid_to_room[s], Uids, RoomIds)
    BY DEF IInv, LogicTypeOK
  <1> QED
    BY <1>1 DEF ResolveRoomId, RequestedRoom, PartialMap, RoomIds

\* The route table after handleTask recorded a sender.
LEMMA RoutesAfterType ==
    ASSUME IInv, NEW s \in Shards, NEW uid \in Uids, NEW route \in Routes
    PROVE  PartialMap(RouteAfter(s, uid, route), Uids, Routes)
  <1>1. PartialMap(uid_route[s], Uids, Routes)
    BY DEF IInv, LogicTypeOK
  <1> QED
    BY <1>1 DEF PartialMap, RouteAfter, Put

\* EnterBattleReq only answers.
LEMMA EnterBattleStep ==
    ASSUME IInv, NEW s \in Shards, NEW uid \in Uids, NEW route \in Routes, NEW req \in Nat,
           HandleEnterBattle(s, uid, route, req)
    PROVE  IInv'
  <1> DEFINE routes == RouteAfter(s, uid, route)
             room_id == RequestedRoom(s, uid, req)
  <1>1. room_id \in Nat /\ PartialMap(routes, Uids, Routes)
    BY RequestedRoomNat, RoutesAfterType
  <1>2. sent' = SendToPlayer(routes, uid, "EnterBattleRsp", room_id, 0)
        \/ sent' = Fail(routes, uid, "EnterBattleRsp", room_id)
    BY DEF HandleEnterBattle
  <1> HIDE DEF routes, room_id
  <1>3. 0 \in Nat /\ "EnterBattleRsp" \in Notifications
    BY DEF Notifications
  <1>4. /\ SendToPlayer(routes, uid, "EnterBattleRsp", room_id, 0) \in SUBSET Message
        /\ Fail(routes, uid, "EnterBattleRsp", room_id) \in SUBSET Message
    BY <1>1, <1>3, ReplyType
  <1>5. sent' \in SUBSET Message
    BY <1>2, <1>4
  <1> QED
    BY <1>5, ReplyOnlyStep DEF HandleEnterBattle

\* A request that does not parse is answered or ignored.
LEMMA MalformedStep ==
    ASSUME IInv, NEW s \in Shards, NEW uid \in Uids, NEW route \in Routes,
           NEW reply \in Rejections, HandleMalformed(s, uid, route, reply)
    PROVE  IInv'
  <1> DEFINE routes == RouteAfter(s, uid, route)
  <1>1. PartialMap(routes, Uids, Routes)
    BY RoutesAfterType
  <1>2. sent' = IF reply = "" THEN {} ELSE Fail(routes, uid, reply, 0)
    BY DEF HandleMalformed
  <1> HIDE DEF routes
  <1>3. sent' \in SUBSET Message
    <2>1. CASE reply = ""
      BY <1>2, <2>1
    <2>2. CASE reply # ""
      <3>1. reply \in Notifications /\ 0 \in Nat
        BY <2>2 DEF Rejections, Notifications
      <3> QED
        BY <1>1, <1>2, <2>2, <3>1, ReplyType
    <2> QED
      BY <2>1, <2>2
  <1> QED
    BY <1>3, ReplyOnlyStep DEF HandleMalformed

\* A command of a member is queued in its room, any other is refused.
LEMMA PlayerCommandStep ==
    ASSUME IInv, NEW s \in Shards, NEW uid \in Uids, NEW route \in Routes,
           NEW cmd \in Commands, HandlePlayerCommand(s, uid, route, cmd)
    PROVE  IInv'
  <1> DEFINE routes == RouteAfter(s, uid, route)
             room_id == ResolveRoomId(s, uid)
  <1>1. 0 \in Nat
    OBVIOUS
  <1>2. room_id \in Nat /\ PartialMap(routes, Uids, Routes)
    BY <1>1, RequestedRoomNat, RoutesAfterType
  <1>3. uid_route' = [uid_route EXCEPT ![s] = routes]
        /\ uid_to_room' = uid_to_room /\ next_room_id' = next_room_id
    BY DEF HandlePlayerCommand
  <1>4. \/ /\ rooms' = rooms
           /\ sent' = {} \/ sent' = Fail(routes, uid, "CommandRejectedNtf", room_id)
        \/ /\ IsMember(rooms[s], uid, room_id) /\ sent' = {}
           /\ rooms' = [rooms EXCEPT ![s] =
                           Put(rooms[s], room_id, EnqueueCommand(rooms[s][room_id], uid))]
    BY DEF HandlePlayerCommand, Commands
  <1>5. "CommandRejectedNtf" \in Notifications
    BY DEF Notifications
  <1> HIDE DEF room_id
  <1>6. Fail(routes, uid, "CommandRejectedNtf", room_id) \in SUBSET Message
    <2> HIDE DEF routes
    <2> QED BY <1>1, <1>2, <1>5, ReplyType
  <1>7. sent' \in SUBSET Message
    BY <1>4, <1>6
  <1>8. CASE rooms' = rooms
    BY <1>3, <1>7, <1>8, ReplyOnlyStep
  <1>9. CASE /\ IsMember(rooms[s], uid, room_id)
             /\ rooms' = [rooms EXCEPT ![s] =
                             Put(rooms[s], room_id, EnqueueCommand(rooms[s][room_id], uid))]
    <2> DEFINE room == EnqueueCommand(rooms[s][room_id], uid)
    <2>1. ShardOK(s)
      BY IInvByShard DEF AllShardsOK
    <2>2. ShardInv(s, rooms[s], uid_to_room[s], routes, next_room_id[s])
      BY <2>1, RouteKeepsShardInv DEF ShardOK, RouteAfter
    <2> HIDE DEF routes
    <2>3. room_id \in DOMAIN rooms[s] /\ RoomOK(rooms[s][room_id])
      BY <1>9, <2>2 DEF IsMember, ShardInv
    <2>4. RoomOK(room) /\ Players(room) = Players(rooms[s][room_id])
      BY <2>3, EnqueueCommandOK
    <2> HIDE DEF room
    <2>5. ShardInv(s, Put(rooms[s], room_id, room), uid_to_room[s], routes, next_room_id[s])
      BY <2>2, <2>3, <2>4, UpdateKeepsShardInv
    <2>6. rooms' = [rooms EXCEPT ![s] = Put(rooms[s], room_id, room)]
      BY <1>9 DEF room
    <2> QED
      BY <1>3, <1>7, <2>5, <2>6, StepOfOneShard
  <1> QED
    BY <1>4, <1>8, <1>9

\* ClientDisconnectedNtf: route, index entry and membership go together.
LEMMA ClientDisconnectedStep ==
    ASSUME IInv, NEW s \in Shards, NEW uid \in Uids, HandleClientDisconnected(s, uid)
    PROVE  IInv'
  <1> DEFINE routes == Erase(uid_route[s], uid)
             rs == RoomsAfterLeave(rooms[s], uid_to_room[s], uid)
             index == Erase(uid_to_room[s], uid)
  <1>1. ShardOK(s)
    BY IInvByShard DEF AllShardsOK
  <1>2. ShardInv(s, rs, index, uid_route[s], next_room_id[s])
    BY <1>1, LeaveKeepsShardInv DEF ShardOK
  <1>3. PartialMap(routes, Uids, Routes) /\ PartialMap(rooms[s], RoomIds, Room)
        /\ DOMAIN routes = DOMAIN uid_route[s] \ {uid}
    BY <1>1 DEF ShardOK, ShardInv, PartialMap, Erase
  <1>4. uid \notin DOMAIN index
    BY DEF Erase
  <1>5. PICK winner \in LeaveWinners(rooms[s], uid_to_room[s], uid) :
          sent' = LeaveMessages(rooms[s], uid_to_room[s], routes, uid, winner)
    BY DEF HandleClientDisconnected
  <1>6. /\ rooms' = [rooms EXCEPT ![s] = rs]
        /\ uid_to_room' = [uid_to_room EXCEPT ![s] = index]
        /\ uid_route' = [uid_route EXCEPT ![s] = routes]
        /\ next_room_id' = next_room_id
    BY DEF HandleClientDisconnected
  <1> HIDE DEF rs, index, routes
  <1>7. ShardInv(s, rs, index, routes, next_room_id[s])
    BY <1>2, <1>3, <1>4 DEF ShardInv
  <1>8. sent' \in SUBSET Message
    BY <1>3, <1>5, LeaveMessagesType
  <1> QED
    BY <1>6, <1>7, <1>8, StepOfOneShard

\* TickRooms: every active room of the shard at once.
LEMMA TickRoomsStep ==
    ASSUME IInv, NEW s \in Shards, TickRooms(s)
    PROVE  IInv'
  <1>0. PICK alive \in [ActiveRooms(s) -> SUBSET Teams] :
          /\ rooms' = [rooms EXCEPT ![s] = [r \in DOMAIN rooms[s] |->
                 IF r \in ActiveRooms(s) THEN TickRoom(rooms[s][r], alive[r]) ELSE rooms[s][r]]]
          /\ UNCHANGED <<uid_to_room, uid_route, next_room_id>>
          /\ \E rejected, told \in [ActiveRooms(s) -> SUBSET Uids] :
               /\ \A r \in ActiveRooms(s) : /\ rejected[r] \subseteq Issuers(rooms[s][r])
                                            /\ told[r] \in {{}, Players(rooms[s][r])}
               /\ sent' = UNION {TickMessages(s, r, rooms[s][r], alive[r], rejected[r], told[r]) :
                                    r \in ActiveRooms(s)}
    BY Zenon DEF TickRooms
  <1>1. PICK rejected \in [ActiveRooms(s) -> SUBSET Uids], told \in [ActiveRooms(s) -> SUBSET Uids] :
          sent' = UNION {TickMessages(s, r, rooms[s][r], alive[r], rejected[r], told[r]) :
                            r \in ActiveRooms(s)}
    BY <1>0, Zenon
  <1> DEFINE rs == [r \in DOMAIN rooms[s] |->
                      IF r \in ActiveRooms(s) THEN TickRoom(rooms[s][r], alive[r])
                                              ELSE rooms[s][r]]
  <1>2. ShardInv(s, rooms[s], uid_to_room[s], uid_route[s], next_room_id[s])
    BY IInvByShard DEF AllShardsOK, ShardOK
  <1>3. \A r \in DOMAIN rooms[s] : RoomOK(rs[r]) /\ Players(rs[r]) = Players(rooms[s][r])
    <2> SUFFICES ASSUME NEW r \in DOMAIN rooms[s]
                 PROVE  RoomOK(rs[r]) /\ Players(rs[r]) = Players(rooms[s][r])
      OBVIOUS
    <2>1. RoomOK(rooms[s][r])
      BY <1>2 DEF ShardInv
    <2>2. CASE r \in ActiveRooms(s)
      <3>1. Active(rooms[s][r]) /\ alive[r] \in SUBSET Teams
        BY <2>2 DEF ActiveRooms
      <3> QED
        BY <2>1, <2>2, <3>1, TickRoomOK
    <2>3. CASE r \notin ActiveRooms(s)
      BY <2>1, <2>3
    <2> QED
      BY <2>2, <2>3
  <1>4. DOMAIN rs = DOMAIN rooms[s] /\ rs = [r \in DOMAIN rs |-> rs[r]]
    OBVIOUS
  <1>5. rooms' = [rooms EXCEPT ![s] = rs]
    BY <1>0
  <1>6. sent' \in SUBSET Message
    <2> SUFFICES ASSUME NEW r \in ActiveRooms(s)
                 PROVE  TickMessages(s, r, rooms[s][r], alive[r], rejected[r], told[r]) \in SUBSET Message
      BY <1>1
    <2> DEFINE next == Stepped(rooms[s][r], alive[r])
               winner == WinnerByCrystals(next)
    <2>1. PartialMap(uid_route[s], Uids, Routes) /\ r \in Nat /\ rooms[s][r] \in Room
      BY <1>2 DEF ShardInv, PartialMap, ActiveRooms, RoomIds
    <2>2. 0 \in Nat /\ 1 \in Nat /\ "CommandRejectedNtf" \in Notifications
          /\ "SnapshotNtf" \in Notifications
      BY DEF Notifications
    <2>3. next.crystals = alive[r] /\ alive[r] \in SUBSET Teams
      BY <2>1 DEF Stepped, Room
    <2> HIDE DEF next
    <2>4. winner \in Nat
      BY <2>3 DEF WinnerByCrystals, Teams, NoTeam, kMaxRoomPlayers
    <2> HIDE DEF winner
    <2>5. /\ SendToPlayers(uid_route[s], rejected[r], "CommandRejectedNtf", r, 1) \in SUBSET Message
          /\ SendToPlayers(uid_route[s], told[r], "SnapshotNtf", r, 0) \in SUBSET Message
      BY <2>1, <2>2, SendType
    <2>6. BroadcastGameOver(uid_route[s], r, next, winner) \in SUBSET Message
      BY <2>1, <2>2, <2>4, ReplyType
    <2> QED
      BY <2>5, <2>6 DEF TickMessages, next, winner
  <1> HIDE DEF rs
  <1>7. PartialMap(rs, RoomIds, Room)
    BY <1>2, <1>3, <1>4 DEF ShardInv, PartialMap, RoomOK
  <1>8. ShardInv(s, rs, uid_to_room[s], uid_route[s], next_room_id[s])
    BY <1>2, <1>3, <1>4, <1>7 DEF ShardInv, IsMember
  <1> QED
    BY <1>0, <1>5, <1>6, <1>8, StepOfOneShard

-----------------------------------------------------------------------------
(* The theorems.                                                           *)

\* The invariants hold when a shard has just been built.
LEMMA InitIInv == LogicInit => IInv
  <1> SUFFICES ASSUME LogicInit PROVE IInv
    OBVIOUS
  <1>1. GlobalTypes
    BY DEF LogicInit, GlobalTypes
  <1>2. ASSUME NEW s \in Shards PROVE ShardOK(s)
    <2>1. rooms[s] = EmptyMap /\ uid_to_room[s] = EmptyMap /\ uid_route[s] = EmptyMap
          /\ next_room_id[s] = 1
      BY DEF LogicInit
    <2>2. DOMAIN EmptyMap = {} /\ EmptyMap = [x \in DOMAIN EmptyMap |-> EmptyMap[x]]
      BY DEF EmptyMap
    <2> QED
      BY <2>1, <2>2 DEF ShardOK, ShardInv, PartialMap
  <1> QED
    BY <1>1, <1>2, IInvByShard DEF AllShardsOK

\* Every handler and every tick preserves them.
LEMMA NextIInv == IInv /\ [LogicNext]_vars => IInv'
  <1> SUFFICES ASSUME IInv, [LogicNext]_vars PROVE IInv'
    OBVIOUS
  <1>1. ASSUME NEW s \in Shards, NEW uid \in Uids, NEW route \in Routes,
               LogicRequest(s, uid, route)
        PROVE  IInv'
    <2>1. RequestIds \subseteq Nat
      BY ShardCountPositive, BoundsNat DEF RequestIds
    <2>2. CASE \E n \in RoomSizes : HandleCreateRoom(s, uid, route, n)
      BY <2>2, CreateRoomStep, RoomSizesNat
    <2>3. ASSUME NEW r \in RequestIds, HandleJoinRoom(s, uid, route, r) PROVE IInv'
      BY <2>1, <2>3, JoinRoomStep
    <2>4. ASSUME NEW r \in RequestIds, HandleLeaveRoom(s, uid, route, r) PROVE IInv'
      BY <2>1, <2>4, LeaveRoomStep
    <2>5. ASSUME NEW r \in RequestIds, NEW b \in BOOLEAN, HandlePlayerReady(s, uid, route, r, b)
          PROVE  IInv'
      BY <2>1, <2>5, PlayerReadyStep
    <2>6. ASSUME NEW r \in RequestIds, HandleEnterBattle(s, uid, route, r) PROVE IInv'
      BY <2>1, <2>6, EnterBattleStep
    <2>7. CASE \E cmd \in Commands : HandlePlayerCommand(s, uid, route, cmd)
      BY <2>7, PlayerCommandStep
    <2>8. CASE \E reply \in Rejections : HandleMalformed(s, uid, route, reply)
      BY <2>8, MalformedStep
    <2> QED
      BY <1>1, <2>2, <2>3, <2>4, <2>5, <2>6, <2>7, <2>8 DEF LogicRequest
  <1>2. ASSUME NEW s \in Shards, NEW uid \in Uids, HandleClientDisconnected(s, uid) PROVE IInv'
    BY <1>2, ClientDisconnectedStep
  <1>3. ASSUME NEW s \in Shards, TickRooms(s) PROVE IInv'
    BY <1>3, TickRoomsStep
  <1>4. CASE UNCHANGED vars
    BY <1>4 DEF vars, IInv, LogicTypeOK, MembershipAgrees, NoEmptyRoom, RoomIdsOfShard,
                MembersRoutable, ActiveRoomIsFull, IsMember, PartialMap
  <1> QED
    BY <1>1, <1>2, <1>3, <1>4 DEF LogicNext

\* The inductive invariant.
THEOREM LogicInvariant == LogicSpec => []IInv
  <1> QED
    BY InitIInv, NextIInv, PTL DEF LogicSpec

\* The maps of every shard keep their types.
THEOREM LogicTypeCorrect == LogicSpec => []LogicTypeOK
  <1>1. IInv => LogicTypeOK
    BY DEF IInv
  <1> QED
    BY <1>1, LogicInvariant, PTL

\* uid_to_room_ and the rooms' players_ agree on every shard, for any number
\* of players, rooms and shards.
THEOREM MembershipAlwaysAgrees == LogicSpec => []MembershipAgrees
  <1>1. IInv => MembershipAgrees
    BY DEF IInv
  <1> QED
    BY <1>1, LogicInvariant, PTL

\* No room without players is ever kept.
THEOREM NeverAnEmptyRoom == LogicSpec => []NoEmptyRoom
  <1>1. IInv => NoEmptyRoom
    BY DEF IInv
  <1> QED
    BY <1>1, LogicInvariant, PTL

\* A room id always leads back to the shard that made the room.
THEOREM RoomIdsLeadToShard == LogicSpec => []RoomIdsOfShard
  <1>1. IInv => RoomIdsOfShard
    BY DEF IInv
  <1> QED
    BY <1>1, LogicInvariant, PTL

\* Every member of every room has a route.
THEOREM MembersAlwaysRoutable == LogicSpec => []MembersRoutable
  <1>1. IInv => MembersRoutable
    BY DEF IInv
  <1> QED
    BY <1>1, LogicInvariant, PTL

\* Rooms are never overfull and a battle is only ever fought by a full room.
THEOREM ActiveRoomAlwaysFull == LogicSpec => []ActiveRoomIsFull
  <1>1. IInv => ActiveRoomIsFull
    BY DEF IInv
  <1> QED
    BY <1>1, LogicInvariant, PTL
=============================================================================
