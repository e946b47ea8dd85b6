----------------------- MODULE LogicShardActionProofs -----------------------
(***************************************************************************)
(* What a step of LogicShard may never do, for every set of players and    *)
(* number of shards: bring a room id back, change a roster silently, end a *)
(* battle unheard or twice.                                                *)
(*                                                                         *)
(* A handler changes the rooms of one shard.  RoomChange says what it may  *)
(* do to a room that stays, Heard when GameOverNtf may be sent; Change is  *)
(* both for a whole room map, and is shown of a departure first, then of   *)
(* what create, join, ready, commands and the tick do after it.  That      *)
(* every member is reached rests on the invariant of LogicShardProofs: a   *)
(* broadcast skips a player whose route the shard does not know.           *)
(***************************************************************************)
EXTENDS LogicShardProofs

\* Who is told in out that the battle of room r is over.
OverTo(out, r) == {m.to : m \in {x \in out : x.msg = "GameOverNtf" /\ x.room = r}}

\* Every player of room is told about room r in out.
Announced(room, r, out) ==
    \A u \in Players(room) :
      \E m \in out : m.to = u /\ m.room = r /\ m.msg \in {"RoomStateNtf", "GameOverNtf"}

\* What a step that sends out may make of room r.
RoomChange(r, before, after, out) ==
    /\ Players(before) # Players(after) => Announced(after, r, out)
    /\ before.game_over => ~Active(after)
    /\ Active(before) /\ ~Active(after) => OverTo(out, r) = Players(after)

\* GameOverNtf is about a battle that ends in this step.
Heard(rs, rs2, out) ==
    \A m \in out : m.msg = "GameOverNtf" =>
      /\ m.room \in DOMAIN rs /\ Active(rs[m.room])
      /\ m.room \in DOMAIN rs2 => ~Active(rs2[m.room])

\* A step of a shard from the rooms rs to the rooms rs2.
Change(rs, rs2, out) ==
    /\ \A r \in DOMAIN rs \cap DOMAIN rs2 : RoomChange(r, rs[r], rs2[r], out)
    /\ Heard(rs, rs2, out)

\* The rooms that appear lie between the old and the new counter.
FreshIds(s, rs, rs2, n, n2) ==
    /\ n2 >= n
    /\ \A r \in DOMAIN rs2 \ DOMAIN rs : r >= RoomIdOf(s, n) /\ r < RoomIdOf(s, n2)

\* The three action properties, of one step.
StepOK ==
    /\ \A s \in Shards : FreshIds(s, rooms[s], rooms'[s], next_room_id[s], next_room_id'[s])
    /\ \A s \in Shards : \A r \in DOMAIN rooms[s] \cap DOMAIN rooms'[s] :
         RoomChange(r, rooms[s][r], rooms'[s][r], sent')
    /\ \A m \in sent' : m.msg = "GameOverNtf" =>
         \E s \in Shards : /\ m.room \in DOMAIN rooms[s] /\ Active(rooms[s][m.room])
                           /\ m.room \in DOMAIN rooms'[s] => ~Active(rooms'[s][m.room])

\* out holds the messages M of a departure, and no other GameOverNtf.
Tells(out, M) == M \subseteq out /\ \A m \in out : m.msg = "GameOverNtf" => m \in M

\* Rooms other than the one that uid is in stay as they are.
Elsewhere(rs, rs2, index, uid) ==
    \A r \in DOMAIN rs : (uid \in DOMAIN index => index[uid] # r)
                           => r \in DOMAIN rs2 /\ rs2[r] = rs[r]

-----------------------------------------------------------------------------
(* Messages.                                                               *)

\* SendToPlayers reaches exactly the players it has a route for.
LEMMA SendFacts ==
    ASSUME NEW routes, NEW uids, NEW msg, NEW r, NEW arg
    PROVE  /\ \A m \in SendToPlayers(routes, uids, msg, r, arg) : m.msg = msg /\ m.room = r
           /\ \A m \in SendToPlayers(routes, uids, msg, r, arg) : m.to \in uids
           /\ \A u \in uids \cap DOMAIN routes :
                \E m \in SendToPlayers(routes, uids, msg, r, arg) :
                  m.to = u /\ m.msg = msg /\ m.room = r
  <1> DEFINE to(u) == [to |-> u, msg |-> msg, room |-> r, arg |-> arg]
  <1>1. \A u : to(u).to = u /\ to(u).msg = msg /\ to(u).room = r
    OBVIOUS
  <1>2. SendToPlayers(routes, uids, msg, r, arg) = {to(u) : u \in uids \cap DOMAIN routes}
    BY DEF SendToPlayers
  <1> HIDE DEF to
  <1>3. \A u \in uids \cap DOMAIN routes : to(u) \in SendToPlayers(routes, uids, msg, r, arg)
    BY <1>2
  <1>4. \A m \in SendToPlayers(routes, uids, msg, r, arg) :
          \E u \in uids \cap DOMAIN routes : m = to(u)
    BY <1>2
  <1> QED
    BY <1>1, <1>3, <1>4

\* A room state that every player can be sent announces the room.
LEMMA RoomStateAnnounces ==
    ASSUME NEW routes, NEW r, NEW room, Players(room) \subseteq DOMAIN routes,
           NEW out, BroadcastRoomState(routes, r, room) \subseteq out
    PROVE  Announced(room, r, out)
  <1> DEFINE B == SendToPlayers(routes, Players(room), "RoomStateNtf", r, 0)
  <1>1. \A u \in Players(room) \cap DOMAIN routes :
          \E m \in B : m.to = u /\ m.msg = "RoomStateNtf" /\ m.room = r
    BY SendFacts
  <1>2. B \subseteq out
    BY DEF BroadcastRoomState
  <1> HIDE DEF B
  <1> QED
    BY <1>1, <1>2 DEF Announced

\* The end of a battle is told to the players of the room and to nobody else.
LEMMA GameOverTells ==
    ASSUME NEW routes, NEW r, NEW room, NEW w, Players(room) \subseteq DOMAIN routes,
           NEW out, BroadcastGameOver(routes, r, room, w) \subseteq out,
           \A m \in out : m.msg = "GameOverNtf" /\ m.room = r =>
                            m \in BroadcastGameOver(routes, r, room, w)
    PROVE  OverTo(out, r) = Players(room) /\ Announced(room, r, out)
  <1> DEFINE B == SendToPlayers(routes, Players(room), "GameOverNtf", r, w)
  <1>1. /\ \A u \in Players(room) \cap DOMAIN routes :
             \E m \in B : m.to = u /\ m.msg = "GameOverNtf" /\ m.room = r
        /\ \A m \in B : m.msg = "GameOverNtf" /\ m.room = r /\ m.to \in Players(room)
    BY SendFacts
  <1>2. B \subseteq out /\ \A m \in out : m.msg = "GameOverNtf" /\ m.room = r => m \in B
    BY DEF BroadcastGameOver
  <1> HIDE DEF B
  <1> QED
    BY <1>1, <1>2 DEF Announced, OverTo

\* A message set without GameOverNtf.
NoGameOver(out) == \A m \in out : m.msg # "GameOverNtf"

\* The other messages.
LEMMA OtherMessages ==
    ASSUME NEW routes, NEW uid, NEW uids, NEW r, NEW room, NEW arg,
           NEW msg \in Notifications \ {"GameOverNtf"}
    PROVE  /\ NoGameOver(SendToPlayers(routes, uids, msg, r, arg))
           /\ NoGameOver(SendToPlayer(routes, uid, msg, r, arg))
           /\ NoGameOver(Fail(routes, uid, msg, r))
           /\ NoGameOver(BroadcastRoomState(routes, r, room))
           /\ NoGameOver({})
  <1>1. \A us, a : NoGameOver(SendToPlayers(routes, us, msg, r, a))
    BY SendFacts DEF NoGameOver
  <1>2. NoGameOver(BroadcastRoomState(routes, r, room))
    BY SendFacts DEF NoGameOver, BroadcastRoomState
  <1> QED
    BY <1>1, <1>2 DEF Fail, SendToPlayer, NoGameOver

-----------------------------------------------------------------------------
(* Rooms.                                                                  *)

\* A room that is not touched.
LEMMA SameRoom ==
    ASSUME NEW r, NEW room, NEW out
    PROVE  RoomChange(r, room, room, out)
  BY DEF RoomChange, Active

\* A room whose roster and whose end of battle stay as they are.
LEMMA QuietRoom ==
    ASSUME NEW r, NEW before, NEW after, NEW out,
           Players(after) = Players(before), after.game_over = before.game_over,
           Active(before) => Active(after)
    PROVE  RoomChange(r, before, after, out)
  BY DEF RoomChange, Active

\* The player who leaves: the others are told, of the end of the battle if
\* there was one.
LEMMA DepartChange ==
    ASSUME NEW s \in Shards, NEW rs, NEW index, NEW routes, NEW next, NEW known, NEW w, NEW out,
           ShardInv(s, rs, index, routes, next), NEW uid \in DOMAIN index,
           DOMAIN index \ {uid} \subseteq DOMAIN known,
           Tells(out, DepartMessages(rs, known, index[uid], uid, w))
    PROVE  LET rs2 == Depart(rs, index[uid], uid)
           IN  /\ Change(rs, rs2, out) /\ DOMAIN rs2 \subseteq DOMAIN rs
               /\ Elsewhere(rs, rs2, index, uid)
  <1> DEFINE d == index[uid]
             before == rs[d]
             room == RemovePlayer(before, uid)
             over == room.game_over \/ Active(before)
             after == [room EXCEPT !.game_over = over]
             rs2 == Depart(rs, d, uid)
  <1>1. /\ uid \in Uids /\ d \in DOMAIN rs /\ before \in Room /\ uid \in Players(before)
        /\ PartialMap(rs, RoomIds, Room) /\ Players(before) \subseteq DOMAIN index
    <2>1. uid \in Uids /\ PartialMap(rs, RoomIds, Room)
      BY DEF ShardInv, PartialMap
    <2>2. d \in DOMAIN rs /\ uid \in Players(before) /\ before \in Room
      BY <2>1 DEF ShardInv, PartialMap, IsMember
    <2>3. Players(before) \subseteq Uids
      BY <2>2, RosterFacts
    <2> QED
      BY <2>1, <2>2, <2>3 DEF ShardInv
  <1>2. room \in Room /\ Players(room) = Players(before) \ {uid}
        /\ room.game_over = before.game_over /\ room.started = before.started
    <2>1. room \in Room /\ Players(room) = Players(before) \ {uid}
      BY <1>1, RemovePlayerFacts
    <2>2. room.game_over = before.game_over /\ room.started = before.started
      BY <1>1 DEF RemovePlayer, Room
    <2> QED
      BY <2>1, <2>2
  <1>3. /\ after.game_over = over /\ after.started = room.started
        /\ Players(after) = Players(room)
    BY <1>2 DEF Players, Room
  <1>4. \A r \in DOMAIN rs2 : r \in DOMAIN rs /\ (rs2[r] = rs[r] \/ (r = d /\ rs2[r] = after))
        /\ (r = d => rs2[r] = after)
    BY <1>1 DEF Depart, Erase, Put
  <1>5. \A r \in DOMAIN rs \ {d} : r \in DOMAIN rs2 /\ rs2[r] = rs[r]
    BY DEF Depart, Erase, Put
  <1>6. Players(room) \subseteq DOMAIN known
    BY <1>1, <1>2
  <1>7. DepartMessages(rs, known, d, uid, w) =
          IF Active(before) THEN BroadcastGameOver(known, d, room, w)
                            ELSE BroadcastRoomState(known, d, room)
    BY DEF DepartMessages
  <1>d. d = index[uid] /\ before = rs[d] /\ over = (room.game_over \/ Active(before))
    OBVIOUS
  <1> HIDE DEF d, before, room, after, rs2, over
  <1>8. /\ RoomChange(d, before, after, out) /\ ~Active(after)
        /\ \A m \in out : m.msg = "GameOverNtf" => m.room = d /\ Active(before)
    <2>1. CASE Active(before)
      <3>1. /\ BroadcastGameOver(known, d, room, w) \subseteq out
            /\ \A m \in out : m.msg = "GameOverNtf" => m \in BroadcastGameOver(known, d, room, w)
        BY <1>7, <1>d, <2>1 DEF Tells
      <3>2. OverTo(out, d) = Players(room) /\ Announced(room, d, out)
        BY <1>6, <3>1, GameOverTells
      <3>3. ~Active(after)
        BY <1>3, <1>d, <2>1 DEF Active
      <3>4. \A m \in out : m.msg = "GameOverNtf" => m.room = d
        BY <3>1, SendFacts DEF BroadcastGameOver
      <3> QED
        BY <1>3, <2>1, <3>2, <3>3, <3>4 DEF RoomChange, Announced
    <2>2. CASE ~Active(before)
      <3>1. /\ BroadcastRoomState(known, d, room) \subseteq out
            /\ \A m \in out : m.msg = "GameOverNtf" => m \in BroadcastRoomState(known, d, room)
        BY <1>7, <1>d, <2>2 DEF Tells
      <3>2. Announced(room, d, out)
        BY <1>6, <3>1, RoomStateAnnounces
      <3>3. ~Active(after)
        BY <1>2, <1>3, <1>d, <2>2 DEF Active
      <3>4. \A m \in out : m.msg # "GameOverNtf"
        <4>1. "RoomStateNtf" \in Notifications \ {"GameOverNtf"}
          BY DEF Notifications
        <4> QED
          BY <3>1, <4>1, OtherMessages DEF NoGameOver
      <3> QED
        BY <1>3, <2>2, <3>2, <3>3, <3>4 DEF RoomChange, Announced
    <2> QED
      BY <2>1, <2>2
  <1>9. \A r \in DOMAIN rs \cap DOMAIN rs2 : RoomChange(r, rs[r], rs2[r], out)
    BY <1>4, <1>8, <1>d, SameRoom
  <1>10. Heard(rs, rs2, out)
    BY <1>1, <1>4, <1>8, <1>d DEF Heard
  <1> QED
    BY <1>4, <1>5, <1>9, <1>10, <1>d DEF Change, Elsewhere, rs2

\* LeaveRoomInternal, of whoever it is called for.
LEMMA LeaveChange ==
    ASSUME NEW s \in Shards, NEW rs, NEW index, NEW routes, NEW next, NEW known, NEW w, NEW out,
           ShardInv(s, rs, index, routes, next), NEW uid,
           DOMAIN index \ {uid} \subseteq DOMAIN known,
           Tells(out, LeaveMessages(rs, index, known, uid, w))
    PROVE  LET rs2 == RoomsAfterLeave(rs, index, uid)
           IN  /\ Change(rs, rs2, out) /\ DOMAIN rs2 \subseteq DOMAIN rs
               /\ Elsewhere(rs, rs2, index, uid)
  <1>1. CASE uid \in DOMAIN index
    <2>1. InRoom(rs, index, uid)
      BY <1>1 DEF InRoom, ShardInv, IsMember, PartialMap
    <2>2. RoomsAfterLeave(rs, index, uid) = Depart(rs, index[uid], uid)
          /\ LeaveMessages(rs, index, known, uid, w) = DepartMessages(rs, known, index[uid], uid, w)
      BY <2>1 DEF RoomsAfterLeave, LeaveMessages
    <2> DEFINE rs2 == Depart(rs, index[uid], uid)
    <2>3. /\ Change(rs, rs2, out) /\ DOMAIN rs2 \subseteq DOMAIN rs
          /\ Elsewhere(rs, rs2, index, uid)
      <3>1. Tells(out, DepartMessages(rs, known, index[uid], uid, w))
        BY <2>2
      <3> QED
        BY <1>1, <3>1, DepartChange
    <2> HIDE DEF rs2
    <2> QED
      BY <1>1, <2>2, <2>3 DEF rs2
  <1>2. CASE uid \notin DOMAIN index
    <2>1. RoomsAfterLeave(rs, index, uid) = rs /\ LeaveMessages(rs, index, known, uid, w) = {}
      BY <1>2 DEF RoomsAfterLeave, LeaveMessages, InRoom
    <2>2. Heard(rs, rs, out)
      BY <2>1 DEF Heard, Tells
    <2> QED
      BY <2>1, <2>2, SameRoom DEF Change, Elsewhere
  <1> QED
    BY <1>1, <1>2

\* A room of its own, after the player left another.
LEMMA CreateChange ==
    ASSUME NEW rs, NEW rs1, NEW r, NEW room, NEW out, Change(rs, rs1, out), r \notin DOMAIN rs
    PROVE  Change(rs, Put(rs1, r, room), out)
  <1>1. \A x \in DOMAIN rs : /\ x \in DOMAIN Put(rs1, r, room) <=> x \in DOMAIN rs1
                             /\ x \in DOMAIN rs1 => Put(rs1, r, room)[x] = rs1[x]
    BY DEF Put
  <1>2. Heard(rs, Put(rs1, r, room), out)
    BY <1>1 DEF Change, Heard
  <1> QED
    BY <1>1, <1>2 DEF Change

\* One of the rooms changes after the player left another.
LEMMA UpdateChange ==
    ASSUME NEW rs, NEW rs1, NEW r \in DOMAIN rs1, NEW room, NEW out, Change(rs, rs1, out),
           r \in DOMAIN rs => RoomChange(r, rs[r], room, out),
           NoGameOver({m \in out : m.room = r}) \/ ~Active(room)
    PROVE  Change(rs, Put(rs1, r, room), out)
  <1>1. /\ DOMAIN Put(rs1, r, room) = DOMAIN rs1 /\ Put(rs1, r, room)[r] = room
        /\ \A x \in DOMAIN rs1 \ {r} : Put(rs1, r, room)[x] = rs1[x]
    BY DEF Put
  <1>2. \A x \in DOMAIN rs \cap DOMAIN rs1 : RoomChange(x, rs[x], Put(rs1, r, room)[x], out)
    BY <1>1 DEF Change
  <1>3. Heard(rs, Put(rs1, r, room), out)
    BY <1>1 DEF Change, Heard, NoGameOver
  <1> QED
    BY <1>1, <1>2, <1>3 DEF Change

\* A step that sends no GameOverNtf and touches no room.
LEMMA NoChange ==
    ASSUME NEW rs, NEW out, NoGameOver(out)
    PROVE  Change(rs, rs, out)
  BY SameRoom DEF Change, Heard, NoGameOver

\* Handlers touch the rooms of their own shard only.
LEMMA ChangeOfOneShard ==
    ASSUME IInv, NEW s \in Shards, NEW rs, NEW next \in Nat \ {0},
           rooms' = [rooms EXCEPT ![s] = rs] \/ (rooms' = rooms /\ rs = rooms[s]),
           next_room_id' = [next_room_id EXCEPT ![s] = next]
             \/ (next_room_id' = next_room_id /\ next = next_room_id[s]),
           Change(rooms[s], rs, sent'),
           FreshIds(s, rooms[s], rs, next_room_id[s], next)
    PROVE  StepOK
  <1>1. DOMAIN rooms = Shards /\ next_room_id \in [Shards -> Nat \ {0}]
    BY IInvByShard DEF GlobalTypes
  <1>2. rooms'[s] = rs /\ next_room_id'[s] = next
    BY <1>1
  <1>3. \A x \in Shards \ {s} : rooms'[x] = rooms[x] /\ next_room_id'[x] = next_room_id[x]
                                /\ next_room_id[x] \in Nat
    BY <1>1
  <1>4. \A x \in Shards : FreshIds(x, rooms[x], rooms'[x], next_room_id[x], next_room_id'[x])
    BY <1>2, <1>3 DEF FreshIds
  <1>5. \A x \in Shards : \A r \in DOMAIN rooms[x] \cap DOMAIN rooms'[x] :
          RoomChange(r, rooms[x][r], rooms'[x][r], sent')
    BY <1>2, <1>3, SameRoom DEF Change
  <1>6. \A m \in sent' : m.msg = "GameOverNtf" =>
          /\ m.room \in DOMAIN rooms[s] /\ Active(rooms[s][m.room])
          /\ m.room \in DOMAIN rooms'[s] => ~Active(rooms'[s][m.room])
    BY <1>2 DEF Change, Heard
  <1> QED
    BY <1>4, <1>5, <1>6 DEF StepOK

\* The counter stays and no room appears.
LEMMA SameIds ==
    ASSUME NEW s, NEW rs, NEW rs2, NEW n \in Nat, DOMAIN rs2 \subseteq DOMAIN rs
    PROVE  FreshIds(s, rs, rs2, n, n)
  BY DEF FreshIds

-----------------------------------------------------------------------------
(* Handlers.                                                               *)

\* What a handler has once the route of its request is recorded.
LEMMA RouteRecorded ==
    ASSUME IInv, NEW s \in Shards, NEW uid \in Uids, NEW route \in Routes
    PROVE  /\ ShardInv(s, rooms[s], uid_to_room[s], RouteAfter(s, uid, route), next_room_id[s])
           /\ DOMAIN uid_to_room[s] \subseteq DOMAIN RouteAfter(s, uid, route)
           /\ uid \in DOMAIN RouteAfter(s, uid, route)
           /\ next_room_id[s] \in Nat \ {0}
  <1>1. ShardInv(s, rooms[s], uid_to_room[s], uid_route[s], next_room_id[s])
    BY IInvByShard DEF AllShardsOK, ShardOK
  <1>2. ShardInv(s, rooms[s], uid_to_room[s], RouteAfter(s, uid, route), next_room_id[s])
        /\ uid \in DOMAIN RouteAfter(s, uid, route)
    BY <1>1, RouteKeepsShardInv DEF RouteAfter
  <1> QED
    BY <1>2 DEF ShardInv

\* CreateRoomReq.
LEMMA CreateRoomChange ==
    ASSUME IInv, NEW s \in Shards, NEW uid \in Uids, NEW route \in Routes, NEW n \in Nat,
           HandleCreateRoom(s, uid, route, n)
    PROVE  StepOK
  <1> DEFINE routes == RouteAfter(s, uid, route)
             rs == RoomsAfterLeave(rooms[s], uid_to_room[s], uid)
             room_id == RoomIdOf(s, next_room_id[s])
             room == AddPlayer(NewRoom(NormalizeMaxPlayers(n)), uid)
             leave(w) == LeaveMessages(rooms[s], uid_to_room[s], routes, uid, w)
  <1>1. /\ ShardInv(s, rooms[s], uid_to_room[s], routes, next_room_id[s])
        /\ DOMAIN uid_to_room[s] \subseteq DOMAIN routes /\ next_room_id[s] \in Nat \ {0}
    BY RouteRecorded
  <1>2. PICK w \in LeaveWinners(rooms[s], uid_to_room[s], uid) :
          sent' = leave(w) \cup SendToPlayer(routes, uid, "CreateRoomRsp", room_id, 0)
                  \cup BroadcastRoomState(routes, room_id, room)
    BY DEF HandleCreateRoom
  <1>3. /\ rooms' = [rooms EXCEPT ![s] = Put(rs, room_id, room)]
        /\ next_room_id' = [next_room_id EXCEPT ![s] = next_room_id[s] + 1]
    BY DEF HandleCreateRoom, NextRoomId
  <1>4. Tells(sent', leave(w))
    <2>1. "CreateRoomRsp" \in Notifications \ {"GameOverNtf"}
      BY DEF Notifications
    <2>2. /\ NoGameOver(SendToPlayer(routes, uid, "CreateRoomRsp", room_id, 0))
          /\ NoGameOver(BroadcastRoomState(routes, room_id, room))
      BY <2>1, OtherMessages
    <2> HIDE DEF leave, routes, room_id, room
    <2> QED
      BY <1>2, <2>2 DEF NoGameOver, Tells
  <1>k. DOMAIN uid_to_room[s] \ {uid} \subseteq DOMAIN routes
    BY <1>1
  <1> HIDE DEF routes, room
  <1>5. Change(rooms[s], rs, sent') /\ DOMAIN rs \subseteq DOMAIN rooms[s]
    BY <1>1, <1>4, <1>k, LeaveChange
  <1> HIDE DEF rs
  <1>6. /\ room_id \in RoomIds /\ RoomIdOf(s, next_room_id[s] + 1) \in RoomIds
        /\ room_id < RoomIdOf(s, next_room_id[s] + 1)
    BY <1>1, RoomIdGrows
  <1>7. room_id \notin DOMAIN rooms[s]
    BY <1>1, <1>6 DEF ShardInv, PartialMap, RoomIds
  <1>8. Change(rooms[s], Put(rs, room_id, room), sent')
    BY <1>5, <1>7, CreateChange
  <1>9. FreshIds(s, rooms[s], Put(rs, room_id, room), next_room_id[s], next_room_id[s] + 1)
    <2>1. DOMAIN Put(rs, room_id, room) = DOMAIN rs \cup {room_id}
      BY DEF Put
    <2>2. room_id >= RoomIdOf(s, next_room_id[s]) /\ next_room_id[s] + 1 >= next_room_id[s]
      BY <1>1, <1>6 DEF RoomIds
    <2> QED
      BY <1>5, <1>6, <2>1, <2>2 DEF FreshIds
  <1>10. next_room_id[s] + 1 \in Nat \ {0}
    BY <1>1
  <1> HIDE DEF room_id
  <1> QED
    BY <1>3, <1>8, <1>9, <1>10, ChangeOfOneShard

\* A player joins a room, and all of its players are told.
LEMMA JoinedRoomChange ==
    ASSUME NEW s \in Shards, NEW rs, NEW index, NEW routes, NEW next,
           ShardInv(s, rs, index, routes, next), NEW r \in DOMAIN rs, NEW uid \in Uids,
           uid \in DOMAIN routes, uid \in Players(rs[r]) \/ ~IsFull(rs[r]),
           NEW out, BroadcastRoomState(routes, r, AddPlayer(rs[r], uid)) \subseteq out
    PROVE  /\ RoomChange(r, rs[r], AddPlayer(rs[r], uid), out)
           /\ Active(AddPlayer(rs[r], uid)) <=> Active(rs[r])
  <1> DEFINE room == AddPlayer(rs[r], uid)
  <1>1. /\ rs[r] \in Room /\ Cardinality(Players(rs[r])) <= rs[r].max_players
        /\ Players(rs[r]) \subseteq Uids
    BY RosterFacts DEF ShardInv, RoomOK
  <1>2. Players(rs[r]) \subseteq DOMAIN routes
    BY <1>1 DEF ShardInv
  <1>3. Players(room) = Players(rs[r]) \cup {uid} /\ (Active(room) <=> Active(rs[r]))
    BY <1>1, AddPlayerFacts
  <1>4. room.game_over = rs[r].game_over
    BY <1>1 DEF AddPlayer, Room
  <1> HIDE DEF room
  <1>5. Announced(room, r, out)
    BY <1>2, <1>3, RoomStateAnnounces DEF room
  <1> QED
    BY <1>3, <1>4, <1>5 DEF RoomChange, Active, room

\* JoinRoomReq.
LEMMA JoinRoomChange ==
    ASSUME IInv, NEW s \in Shards, NEW uid \in Uids, NEW route \in Routes, NEW room_id \in Nat,
           HandleJoinRoom(s, uid, route, room_id)
    PROVE  StepOK
  <1> DEFINE moves == uid \in DOMAIN uid_to_room[s] /\ uid_to_room[s][uid] # room_id
             routes == RouteAfter(s, uid, route)
             rs == IF moves THEN RoomsAfterLeave(rooms[s], uid_to_room[s], uid) ELSE rooms[s]
             room == AddPlayer(rs[room_id], uid)
             left(w) == IF moves THEN LeaveMessages(rooms[s], uid_to_room[s], routes, uid, w)
                                 ELSE {}
  <1>1. /\ ShardInv(s, rooms[s], uid_to_room[s], routes, next_room_id[s])
        /\ DOMAIN uid_to_room[s] \subseteq DOMAIN routes /\ next_room_id[s] \in Nat \ {0}
        /\ uid \in DOMAIN routes
    BY RouteRecorded
  <1>2. PICK w \in LeaveWinners(rooms[s], uid_to_room[s], uid) :
          /\ UNCHANGED next_room_id
          /\ \/ /\ ~Admits(rs, room_id, uid)
                /\ rooms' = [rooms EXCEPT ![s] = rs]
                /\ sent' = left(w) \cup Fail(routes, uid, "JoinRoomRsp", room_id)
             \/ /\ Admits(rs, room_id, uid)
                /\ rooms' = [rooms EXCEPT ![s] = Put(rs, room_id, room)]
                /\ sent' = left(w) \cup SendToPlayer(routes, uid, "JoinRoomRsp", room_id, 0)
                           \cup BroadcastRoomState(routes, room_id, room)
    BY DEF HandleJoinRoom
  <1>3. Tells(sent', left(w))
    <2>1. "JoinRoomRsp" \in Notifications \ {"GameOverNtf"}
      BY DEF Notifications
    <2>2. /\ NoGameOver(SendToPlayer(routes, uid, "JoinRoomRsp", room_id, 0))
          /\ NoGameOver(Fail(routes, uid, "JoinRoomRsp", room_id))
          /\ NoGameOver(BroadcastRoomState(routes, room_id, room))
      BY <2>1, OtherMessages
    <2> HIDE DEF left, routes, room, rs
    <2> QED
      BY <1>2, <2>2 DEF NoGameOver, Tells
  <1>k. DOMAIN uid_to_room[s] \ {uid} \subseteq DOMAIN routes
    BY <1>1
  <1>4. /\ Change(rooms[s], rs, sent') /\ DOMAIN rs \subseteq DOMAIN rooms[s]
        /\ room_id \in DOMAIN rs => rs[room_id] = rooms[s][room_id]
    <2>1. CASE moves
      <3>1. Tells(sent', LeaveMessages(rooms[s], uid_to_room[s], routes, uid, w))
        BY <1>3, <2>1
      <3> DEFINE rs2 == RoomsAfterLeave(rooms[s], uid_to_room[s], uid)
      <3> HIDE DEF routes
      <3>2. /\ Change(rooms[s], rs2, sent') /\ DOMAIN rs2 \subseteq DOMAIN rooms[s]
            /\ Elsewhere(rooms[s], rs2, uid_to_room[s], uid)
        BY <1>1, <1>k, <3>1, LeaveChange
      <3>3. rs = rs2
        BY <2>1
      <3> HIDE DEF rs2, rs
      <3> QED
        BY <2>1, <3>2, <3>3 DEF Elsewhere
    <2>2. CASE ~moves
      <3>1. rs = rooms[s] /\ NoGameOver(sent')
        BY <1>3, <2>2 DEF NoGameOver, Tells
      <3> HIDE DEF rs
      <3> QED
        BY <3>1, NoChange
    <2> QED
      BY <2>1, <2>2
  <1> HIDE DEF moves, rs, left, routes
  <1>5. CASE ~Admits(rs, room_id, uid)
    <2>1. FreshIds(s, rooms[s], rs, next_room_id[s], next_room_id[s])
      BY <1>1, <1>4, SameIds
    <2> QED
      BY <1>1, <1>2, <1>4, <1>5, <2>1, ChangeOfOneShard
  <1>6. CASE Admits(rs, room_id, uid)
    <2>1. /\ room_id \in DOMAIN rs /\ room_id \in DOMAIN rooms[s]
          /\ rs[room_id] = rooms[s][room_id]
          /\ uid \in Players(rooms[s][room_id]) \/ ~IsFull(rooms[s][room_id])
      BY <1>4, <1>6 DEF Admits
    <2>2. /\ rooms' = [rooms EXCEPT ![s] = Put(rs, room_id, room)]
          /\ BroadcastRoomState(routes, room_id, room) \subseteq sent' /\ UNCHANGED next_room_id
      BY <1>2, <1>6
    <2>3. room = AddPlayer(rooms[s][room_id], uid)
      BY <2>1
    <2> HIDE DEF room
    <2>4. /\ RoomChange(room_id, rooms[s][room_id], room, sent')
          /\ Active(room) <=> Active(rooms[s][room_id])
      BY <1>1, <2>1, <2>2, <2>3, JoinedRoomChange
    <2>5. NoGameOver({m \in sent' : m.room = room_id}) \/ ~Active(room)
      BY <1>4, <2>1, <2>4 DEF NoGameOver, Change, Heard
    <2>6. Change(rooms[s], Put(rs, room_id, room), sent')
      BY <1>4, <2>1, <2>4, <2>5, UpdateChange
    <2>7. DOMAIN Put(rs, room_id, room) \subseteq DOMAIN rooms[s]
      BY <1>4, <2>1 DEF Put
    <2>8. FreshIds(s, rooms[s], Put(rs, room_id, room), next_room_id[s], next_room_id[s])
      BY <1>1, <2>7, SameIds
    <2> QED
      BY <1>1, <2>2, <2>6, <2>8, ChangeOfOneShard
  <1> QED
    BY <1>5, <1>6

\* A handler that sends no GameOverNtf and touches no room.
LEMMA NothingChanges ==
    ASSUME IInv, rooms' = rooms, next_room_id' = next_room_id, NoGameOver(sent')
    PROVE  StepOK
  <1>1. Shards # {} /\ \A s \in Shards : next_room_id[s] \in Nat \ {0}
    BY IInvByShard, ShardCountPositive DEF GlobalTypes, Shards
  <1>2. PICK s \in Shards : TRUE
    BY <1>1
  <1>3. Change(rooms[s], rooms[s], sent')
    BY NoChange
  <1>4. FreshIds(s, rooms[s], rooms[s], next_room_id[s], next_room_id[s])
    BY <1>1, SameIds
  <1> QED
    BY <1>1, <1>3, <1>4, ChangeOfOneShard

\* A handler that changes one room and not its roster, and sends no
\* GameOverNtf.
LEMMA RoomUpdated ==
    ASSUME IInv, NEW s \in Shards, NEW r \in DOMAIN rooms[s], NEW room,
           rooms' = [rooms EXCEPT ![s] = Put(rooms[s], r, room)], next_room_id' = next_room_id,
           NoGameOver(sent'), Players(room) = Players(rooms[s][r]),
           room.game_over = rooms[s][r].game_over, Active(rooms[s][r]) => Active(room)
    PROVE  StepOK
  <1> DEFINE rs2 == Put(rooms[s], r, room)
  <1>1. next_room_id[s] \in Nat \ {0}
    BY IInvByShard DEF GlobalTypes
  <1>2. Change(rooms[s], rooms[s], sent')
    BY NoChange
  <1>3. RoomChange(r, rooms[s][r], room, sent')
    BY QuietRoom
  <1>4. NoGameOver({m \in sent' : m.room = r})
    BY DEF NoGameOver
  <1>5. Change(rooms[s], rs2, sent')
    BY <1>2, <1>3, <1>4, UpdateChange
  <1>6. DOMAIN rs2 \subseteq DOMAIN rooms[s]
    BY DEF Put
  <1> HIDE DEF rs2
  <1>7. FreshIds(s, rooms[s], rs2, next_room_id[s], next_room_id[s])
    BY <1>1, <1>6, SameIds
  <1> QED
    BY <1>1, <1>5, <1>7, ChangeOfOneShard DEF rs2

\* LeaveRoomReq.
LEMMA LeaveRoomChange ==
    ASSUME IInv, NEW s \in Shards, NEW uid \in Uids, NEW route \in Routes, NEW req \in Nat,
           HandleLeaveRoom(s, uid, route, req)
    PROVE  StepOK
  <1> DEFINE routes == RouteAfter(s, uid, route)
             room_id == RequestedRoom(s, uid, req)
  <1>1. /\ ShardInv(s, rooms[s], uid_to_room[s], routes, next_room_id[s])
        /\ DOMAIN uid_to_room[s] \ {uid} \subseteq DOMAIN routes /\ next_room_id[s] \in Nat \ {0}
    BY RouteRecorded
  <1>2. next_room_id' = next_room_id
    BY DEF HandleLeaveRoom
  <1>3. CASE ~IsMember(rooms[s], uid, room_id)
    <2>1. sent' = {} /\ rooms' = rooms
      BY <1>3 DEF HandleLeaveRoom
    <2>2. NoGameOver(sent')
      BY <2>1 DEF NoGameOver
    <2> QED
      BY <1>2, <2>1, <2>2, NothingChanges
  <1>4. CASE IsMember(rooms[s], uid, room_id)
    <2>1. PICK w \in ForfeitWinners(rooms[s], room_id, uid) :
            /\ rooms' = [rooms EXCEPT ![s] = Depart(rooms[s], room_id, uid)]
            /\ sent' = DepartMessages(rooms[s], routes, room_id, uid, w)
      BY <1>4 DEF HandleLeaveRoom
    <2> HIDE DEF routes, room_id
    <2>2. uid \in DOMAIN uid_to_room[s] /\ uid_to_room[s][uid] = room_id
      BY <1>1, <1>4 DEF ShardInv, IsMember
    <2>3. Tells(sent', DepartMessages(rooms[s], routes, uid_to_room[s][uid], uid, w))
      BY <2>1, <2>2 DEF Tells
    <2> DEFINE rs2 == Depart(rooms[s], uid_to_room[s][uid], uid)
    <2>4. Change(rooms[s], rs2, sent') /\ DOMAIN rs2 \subseteq DOMAIN rooms[s]
      BY <1>1, <2>2, <2>3, DepartChange
    <2>5. rooms' = [rooms EXCEPT ![s] = rs2]
      BY <2>1, <2>2
    <2> HIDE DEF rs2
    <2>6. FreshIds(s, rooms[s], rs2, next_room_id[s], next_room_id[s])
      BY <1>1, <2>4, SameIds
    <2> QED
      BY <1>1, <1>2, <2>4, <2>5, <2>6, ChangeOfOneShard
  <1> QED
    BY <1>3, <1>4

\* ClientDisconnected: the route is gone before the others are told.
LEMMA ClientDisconnectedChange ==
    ASSUME IInv, NEW s \in Shards, NEW uid \in Uids, HandleClientDisconnected(s, uid)
    PROVE  StepOK
  <1> DEFINE routes == Erase(uid_route[s], uid)
             rs2 == RoomsAfterLeave(rooms[s], uid_to_room[s], uid)
  <1>1. /\ ShardInv(s, rooms[s], uid_to_room[s], uid_route[s], next_room_id[s])
        /\ next_room_id[s] \in Nat \ {0}
    BY IInvByShard DEF AllShardsOK, ShardOK, GlobalTypes
  <1>2. DOMAIN uid_to_room[s] \ {uid} \subseteq DOMAIN routes
    BY <1>1 DEF ShardInv, Erase
  <1>3. PICK w \in LeaveWinners(rooms[s], uid_to_room[s], uid) :
          sent' = LeaveMessages(rooms[s], uid_to_room[s], routes, uid, w)
    BY DEF HandleClientDisconnected
  <1>4. rooms' = [rooms EXCEPT ![s] = rs2] /\ next_room_id' = next_room_id
    BY DEF HandleClientDisconnected
  <1>5. Tells(sent', LeaveMessages(rooms[s], uid_to_room[s], routes, uid, w))
    BY <1>3 DEF Tells
  <1> HIDE DEF routes
  <1>6. Change(rooms[s], rs2, sent') /\ DOMAIN rs2 \subseteq DOMAIN rooms[s]
    BY <1>1, <1>2, <1>5, LeaveChange
  <1> HIDE DEF rs2
  <1>7. FreshIds(s, rooms[s], rs2, next_room_id[s], next_room_id[s])
    BY <1>1, <1>6, SameIds
  <1> QED
    BY <1>1, <1>4, <1>6, <1>7, ChangeOfOneShard

\* SetReady and the start of a battle leave the roster and game_over alone.
LEMMA ReadyRoom ==
    ASSUME NEW before, RoomOK(before), NEW uid \in Uids, NEW ready \in BOOLEAN
    PROVE  LET room == SetReady(before, uid, ready)
               after == IF CanStart(room) THEN BeginBattle(room) ELSE room
           IN  /\ Players(after) = Players(before) /\ after.game_over = before.game_over
               /\ Active(before) => Active(after)
  <1> DEFINE room == SetReady(before, uid, ready)
  <1>1. before \in Room /\ RoomOK(room) /\ Players(room) = Players(before)
    BY SetReadyOK DEF RoomOK
  <1>2. room.game_over = before.game_over /\ room.started = before.started
    BY <1>1 DEF SetReady, Room
  <1> HIDE DEF room
  <1>3. CASE ~CanStart(room)
    BY <1>1, <1>2, <1>3 DEF room, Active
  <1>4. CASE CanStart(room)
    <2>1. Players(BeginBattle(room)) = Players(room)
      BY <1>1, <1>4, BeginBattleOK
    <2>2. BeginBattle(room).game_over = room.game_over
      BY <1>1 DEF RoomOK, BeginBattle, SpawnInitialUnits, Room
    <2>3. ~Active(before)
      BY <1>2, <1>4 DEF CanStart, Active
    <2> QED
      BY <1>1, <1>2, <1>4, <2>1, <2>2, <2>3 DEF room
  <1> QED
    BY <1>3, <1>4

\* PlayerReadyReq.
LEMMA PlayerReadyChange ==
    ASSUME IInv, NEW s \in Shards, NEW uid \in Uids, NEW route \in Routes, NEW req \in Nat,
           NEW ready \in BOOLEAN, HandlePlayerReady(s, uid, route, req, ready)
    PROVE  StepOK
  <1> DEFINE routes == RouteAfter(s, uid, route)
             room_id == RequestedRoom(s, uid, req)
             before == rooms[s][room_id]
             room == SetReady(before, uid, ready)
             uids == Players(room)
             after == IF CanStart(room) THEN BeginBattle(room) ELSE room
  <1>1. next_room_id' = next_room_id
    BY DEF HandlePlayerReady
  <1>2. CASE ~IsMember(rooms[s], uid, room_id)
    <2>1. sent' = {} /\ rooms' = rooms
      BY <1>2 DEF HandlePlayerReady
    <2>2. NoGameOver(sent')
      BY <2>1 DEF NoGameOver
    <2> QED
      BY <1>1, <2>1, <2>2, NothingChanges
  <1>3. CASE IsMember(rooms[s], uid, room_id)
    <2>1. /\ rooms' = [rooms EXCEPT ![s] = Put(rooms[s], room_id, after)]
          /\ sent' = BroadcastRoomState(routes, room_id, room)
                     \cup IF CanStart(room)
                          THEN SendToPlayers(routes, uids, "GameStartNtf", room_id, 0)
                               \cup SendToPlayers(routes, uids, "SnapshotNtf", room_id, 0)
                          ELSE {}
      BY <1>3 DEF HandlePlayerReady
    <2>2. room_id \in DOMAIN rooms[s]
      BY <1>3 DEF IsMember
    <2>3. RoomOK(before)
      <3>1. ShardInv(s, rooms[s], uid_to_room[s], uid_route[s], next_room_id[s])
        BY IInvByShard DEF AllShardsOK, ShardOK
      <3> QED
        BY <2>2, <3>1 DEF ShardInv
    <2>4. NoGameOver(sent')
      <3>1. {"GameStartNtf", "SnapshotNtf"} \subseteq Notifications \ {"GameOverNtf"}
        BY DEF Notifications
      <3>2. /\ NoGameOver(BroadcastRoomState(routes, room_id, room))
            /\ NoGameOver(SendToPlayers(routes, uids, "GameStartNtf", room_id, 0))
            /\ NoGameOver(SendToPlayers(routes, uids, "SnapshotNtf", room_id, 0))
        BY <3>1, OtherMessages
      <3> HIDE DEF routes, room_id, room, uids, after
      <3> QED
        BY <2>1, <3>2 DEF NoGameOver
    <2> HIDE DEF routes, room_id, uids, before
    <2>5. /\ Players(after) = Players(before) /\ after.game_over = before.game_over
          /\ Active(before) => Active(after)
      BY <2>3, ReadyRoom
    <2> HIDE DEF after, room
    <2> QED
      BY <1>1, <2>1, <2>2, <2>4, <2>5, RoomUpdated DEF before
  <1> QED
    BY <1>2, <1>3

\* EnterBattleReq.
LEMMA EnterBattleChange ==
    ASSUME IInv, NEW s \in Shards, NEW uid \in Uids, NEW route \in Routes, NEW req \in Nat,
           HandleEnterBattle(s, uid, route, req)
    PROVE  StepOK
  <1>1. "EnterBattleRsp" \in Notifications \ {"GameOverNtf"}
    BY DEF Notifications
  <1>2. NoGameOver(sent')
    BY <1>1, OtherMessages DEF HandleEnterBattle
  <1> QED
    BY <1>2, NothingChanges DEF HandleEnterBattle

\* A request that does not parse.
LEMMA MalformedChange ==
    ASSUME IInv, NEW s \in Shards, NEW uid \in Uids, NEW route \in Routes,
           NEW reply \in Rejections, HandleMalformed(s, uid, route, reply)
    PROVE  StepOK
  <1>1. reply # "" => reply \in Notifications \ {"GameOverNtf"}
    BY DEF Notifications, Rejections
  <1>2. NoGameOver(sent')
    <2>1. CASE reply = ""
      BY <2>1 DEF HandleMalformed, NoGameOver
    <2>2. CASE reply # ""
      BY <1>1, <2>2, OtherMessages DEF HandleMalformed
    <2> QED
      BY <2>1, <2>2
  <1> QED
    BY <1>2, NothingChanges DEF HandleMalformed

\* A command is queued or refused.
LEMMA PlayerCommandChange ==
    ASSUME IInv, NEW s \in Shards, NEW uid \in Uids, NEW route \in Routes,
           NEW cmd \in Commands, HandlePlayerCommand(s, uid, route, cmd)
    PROVE  StepOK
  <1> DEFINE routes == RouteAfter(s, uid, route)
             room_id == ResolveRoomId(s, uid)
             room == EnqueueCommand(rooms[s][room_id], uid)
  <1>1. next_room_id' = next_room_id
    BY DEF HandlePlayerCommand
  <1>2. "CommandRejectedNtf" \in Notifications \ {"GameOverNtf"}
    BY DEF Notifications
  <1>3. NoGameOver(Fail(routes, uid, "CommandRejectedNtf", room_id)) /\ NoGameOver({})
    BY <1>2, OtherMessages
  <1>4. \/ rooms' = rooms /\ NoGameOver(sent')
        \/ /\ IsMember(rooms[s], uid, room_id) /\ sent' = {}
           /\ rooms' = [rooms EXCEPT ![s] = Put(rooms[s], room_id, room)]
    BY <1>3 DEF HandlePlayerCommand
  <1>5. CASE rooms' = rooms /\ NoGameOver(sent')
    BY <1>1, <1>5, NothingChanges
  <1>6. CASE /\ IsMember(rooms[s], uid, room_id) /\ sent' = {}
             /\ rooms' = [rooms EXCEPT ![s] = Put(rooms[s], room_id, room)]
    <2>1. room_id \in DOMAIN rooms[s] /\ NoGameOver(sent')
      BY <1>3, <1>6 DEF IsMember
    <2>2. RoomOK(rooms[s][room_id])
      <3>1. ShardInv(s, rooms[s], uid_to_room[s], uid_route[s], next_room_id[s])
        BY IInvByShard DEF AllShardsOK, ShardOK
      <3> QED
        BY <2>1, <3>1 DEF ShardInv
    <2>3. Players(room) = Players(rooms[s][room_id])
      BY <2>2, EnqueueCommandOK
    <2>4. /\ room.game_over = rooms[s][room_id].game_over
          /\ room.started = rooms[s][room_id].started
      BY <2>2 DEF RoomOK, EnqueueCommand, Room
    <2>5. Active(rooms[s][room_id]) => Active(room)
      BY <2>4 DEF Active
    <2> HIDE DEF room, room_id
    <2> QED
      BY <1>1, <1>6, <2>1, <2>3, <2>4, <2>5, RoomUpdated
  <1> QED
    BY <1>4, <1>5, <1>6

\* The messages of a room in a tick: GameOverNtf is to its players, and only
\* if the battle ends.
LEMMA TickSends ==
    ASSUME NEW s, NEW r, NEW room, NEW alive, NEW rejected, NEW told
    PROVE  LET M == TickMessages(s, r, room, alive, rejected, told)
               next == Stepped(room, alive)
               B == BroadcastGameOver(uid_route[s], r, next, WinnerByCrystals(next))
           IN  /\ \A m \in M : m.msg = "GameOverNtf" =>
                    m \in B /\ m.room = r /\ CheckGameOver(next)
               /\ \A m \in M : m.room = r
               /\ CheckGameOver(next) => B \subseteq M
  <1> DEFINE next == Stepped(room, alive)
             B == BroadcastGameOver(uid_route[s], r, next, WinnerByCrystals(next))
             R == SendToPlayers(uid_route[s], rejected, "CommandRejectedNtf", r, 1)
             T == SendToPlayers(uid_route[s], told, "SnapshotNtf", r, 0)
             M == TickMessages(s, r, room, alive, rejected, told)
  <1>1. M = R \cup T \cup IF CheckGameOver(next) THEN B ELSE {}
    BY DEF TickMessages
  <1>2. /\ \A m \in R : m.msg = "CommandRejectedNtf" /\ m.room = r
        /\ \A m \in T : m.msg = "SnapshotNtf" /\ m.room = r
        /\ \A m \in B : m.msg = "GameOverNtf" /\ m.room = r
    BY SendFacts DEF BroadcastGameOver
  <1> HIDE DEF next, B, R, T, M
  <1> QED
    BY <1>1, <1>2 DEF next, B, M

\* A room that ticks: its battle ends when CheckGameOver says so.
LEMMA TickedRoom ==
    ASSUME NEW room, RoomOK(room), Active(room), NEW alive \in SUBSET Teams
    PROVE  LET next == Stepped(room, alive)
               after == TickRoom(room, alive)
           IN  /\ Players(after) = Players(room) /\ Players(next) = Players(room)
               /\ Active(after) <=> ~CheckGameOver(next)
               /\ ~room.game_over
  <1> DEFINE next == Stepped(room, alive)
             over == CheckGameOver(next)
             after == TickRoom(room, alive)
  <1>1. room \in Room /\ Players(after) = Players(room)
    BY TickRoomOK DEF RoomOK
  <1>2. next \in Room /\ next.started = room.started /\ next.team = room.team
    <2>1. <<>> \in Seq(Uids)
      OBVIOUS
    <2>2. next = [room EXCEPT !.pending = <<>>, !.crystals = alive]
      BY DEF Stepped
    <2> QED
      BY <1>1, <2>1, <2>2 DEF Room
  <1>3. after = [next EXCEPT !.game_over = over]
    BY DEF TickRoom
  <1> HIDE DEF next, over, after
  <1>4. after.game_over = over /\ after.started = room.started
    BY <1>2, <1>3 DEF Room
  <1>5. Players(next) = Players(room)
    BY <1>2 DEF Players
  <1>6. Active(after) <=> ~over
    BY <1>4 DEF Active
  <1>7. ~room.game_over
    BY DEF Active
  <1> QED
    BY <1>1, <1>5, <1>6, <1>7 DEF next, after, over

\* TickRooms: a battle ends in a tick for all its players.
LEMMA TickRoomsChange == ASSUME IInv, NEW s \in Shards, TickRooms(s) PROVE StepOK
  <1>0. PICK alive \in [ActiveRooms(s) -> SUBSET Teams] :
          /\ rooms' = [rooms EXCEPT ![s] = [r \in DOMAIN rooms[s] |->
                 IF r \in ActiveRooms(s) THEN TickRoom(rooms[s][r], alive[r]) ELSE rooms[s][r]]]
          /\ UNCHANGED <<uid_to_room, uid_route, next_room_id>>
          /\ \E rejected, told \in [ActiveRooms(s) -> SUBSET Uids] :
               /\ \A r \in ActiveRooms(s) : /\ rejected[r] \subseteq Issuers(rooms[s][r])
                                            /\ told[r] \in {{}, Players(rooms[s][r])}
               /\ sent' = UNION {TickMessages(s, r, rooms[s][r], alive[r], rejected[r], told[r]) :
                                    r \in ActiveRooms(s)}
    BY Zenon DEF TickRooms
  <1>1. PICK rejected \in [ActiveRooms(s) -> SUBSET Uids], told \in [ActiveRooms(s) -> SUBSET Uids] :
          sent' = UNION {TickMessages(s, r, rooms[s][r], alive[r], rejected[r], told[r]) :
                            r \in ActiveRooms(s)}
    BY <1>0, Zenon
  <1> DEFINE rs == [r \in DOMAIN rooms[s] |->
                      IF r \in ActiveRooms(s) THEN TickRoom(rooms[s][r], alive[r])
                                              ELSE rooms[s][r]]
             M(r) == TickMessages(s, r, rooms[s][r], alive[r], rejected[r], told[r])
             next(r) == Stepped(rooms[s][r], alive[r])
             B(r) == BroadcastGameOver(uid_route[s], r, next(r), WinnerByCrystals(next(r)))
  <1>2. ShardInv(s, rooms[s], uid_to_room[s], uid_route[s], next_room_id[s])
        /\ next_room_id[s] \in Nat \ {0}
    BY IInvByShard DEF AllShardsOK, ShardOK, GlobalTypes
  <1>3. /\ DOMAIN rs = DOMAIN rooms[s] /\ rooms' = [rooms EXCEPT ![s] = rs]
        /\ next_room_id' = next_room_id
        /\ \A r \in DOMAIN rooms[s] : r \notin ActiveRooms(s) => rs[r] = rooms[s][r]
        /\ \A r \in ActiveRooms(s) : /\ r \in DOMAIN rooms[s] /\ Active(rooms[s][r])
                                     /\ rs[r] = TickRoom(rooms[s][r], alive[r])
    BY <1>0 DEF ActiveRooms
  <1>4. \A m : m \in sent' <=> \E r \in ActiveRooms(s) : m \in M(r)
    BY <1>1
  <1>5. \A r \in ActiveRooms(s) :
          /\ \A m \in M(r) : m.msg = "GameOverNtf" => m \in B(r) /\ m.room = r /\ CheckGameOver(next(r))
          /\ \A m \in M(r) : m.room = r
          /\ CheckGameOver(next(r)) => B(r) \subseteq M(r)
    BY TickSends
  <1>6. ASSUME NEW r \in ActiveRooms(s)
        PROVE  /\ Players(rs[r]) = Players(rooms[s][r]) /\ Players(next(r)) = Players(rooms[s][r])
               /\ Active(rs[r]) <=> ~CheckGameOver(next(r))
               /\ ~rooms[s][r].game_over
               /\ Players(rooms[s][r]) \subseteq DOMAIN uid_route[s]
    <2>1. RoomOK(rooms[s][r]) /\ alive[r] \in SUBSET Teams /\ Active(rooms[s][r])
      BY <1>2, <1>3 DEF ShardInv
    <2>2. Players(rooms[s][r]) \subseteq Uids
      BY <2>1, RosterFacts DEF RoomOK
    <2>3. Players(rooms[s][r]) \subseteq DOMAIN uid_route[s]
      BY <1>2, <1>3, <2>2 DEF ShardInv
    <2>4. rs[r] = TickRoom(rooms[s][r], alive[r])
      BY <1>3
    <2> HIDE DEF rs
    <2> QED
      BY <2>1, <2>3, <2>4, TickedRoom
  <1> HIDE DEF rs, M, next
  <1>7. ASSUME NEW r \in DOMAIN rooms[s]
        PROVE  RoomChange(r, rooms[s][r], rs[r], sent')
    <2>1. CASE r \notin ActiveRooms(s)
      BY <1>3, <2>1, SameRoom
    <2>2. CASE r \in ActiveRooms(s) /\ ~CheckGameOver(next(r))
      BY <1>6, <2>2 DEF RoomChange
    <2>3. CASE r \in ActiveRooms(s) /\ CheckGameOver(next(r))
      <3>1. B(r) \subseteq sent'
        BY <1>4, <1>5, <2>3
      <3>2. \A m \in sent' : m.msg = "GameOverNtf" /\ m.room = r => m \in B(r)
        BY <1>4, <1>5, <2>3
      <3>3. Players(next(r)) \subseteq DOMAIN uid_route[s]
        BY <1>6, <2>3
      <3>4. OverTo(sent', r) = Players(next(r))
        BY <3>1, <3>2, <3>3, GameOverTells
      <3> QED
        BY <1>6, <2>3, <3>4 DEF RoomChange
    <2> QED
      BY <2>1, <2>2, <2>3
  <1> HIDE DEF B
  <1>8. Heard(rooms[s], rs, sent')
    BY <1>3, <1>4, <1>5, <1>6 DEF Heard
  <1>9. Change(rooms[s], rs, sent')
    BY <1>7, <1>8 DEF Change
  <1>10. FreshIds(s, rooms[s], rs, next_room_id[s], next_room_id[s])
    BY <1>2, <1>3, SameIds
  <1> QED
    BY <1>2, <1>3, <1>9, <1>10, ChangeOfOneShard

-----------------------------------------------------------------------------
(* The theorems.                                                           *)

\* Every handler and every tick is such a step.
LEMMA NextStepOK == IInv /\ LogicNext => StepOK
  <1> SUFFICES ASSUME IInv, LogicNext PROVE StepOK
    OBVIOUS
  <1>1. ASSUME NEW s \in Shards, NEW uid \in Uids, NEW route \in Routes,
               LogicRequest(s, uid, route)
        PROVE  StepOK
    <2>1. RequestIds \subseteq Nat
      BY ShardCountPositive, BoundsNat DEF RequestIds
    <2>2. CASE \E n \in RoomSizes : HandleCreateRoom(s, uid, route, n)
      BY <2>2, CreateRoomChange, RoomSizesNat
    <2>3. ASSUME NEW r \in RequestIds, HandleJoinRoom(s, uid, route, r) PROVE StepOK
      BY <2>1, <2>3, JoinRoomChange
    <2>4. ASSUME NEW r \in RequestIds, HandleLeaveRoom(s, uid, route, r) PROVE StepOK
      BY <2>1, <2>4, LeaveRoomChange
    <2>5. ASSUME NEW r \in RequestIds, NEW b \in BOOLEAN, HandlePlayerReady(s, uid, route, r, b)
          PROVE  StepOK
      BY <2>1, <2>5, PlayerReadyChange
    <2>6. ASSUME NEW r \in RequestIds, HandleEnterBattle(s, uid, route, r) PROVE StepOK
      BY <2>1, <2>6, EnterBattleChange
    <2>7. CASE \E cmd \in Commands : HandlePlayerCommand(s, uid, route, cmd)
      BY <2>7, PlayerCommandChange
    <2>8. CASE \E reply \in Rejections : HandleMalformed(s, uid, route, reply)
      BY <2>8, MalformedChange
    <2> QED
      BY <1>1, <2>2, <2>3, <2>4, <2>5, <2>6, <2>7, <2>8 DEF LogicRequest
  <1>2. ASSUME NEW s \in Shards, NEW uid \in Uids, HandleClientDisconnected(s, uid) PROVE StepOK
    BY <1>2, ClientDisconnectedChange
  <1>3. ASSUME NEW s \in Shards, TickRooms(s) PROVE StepOK
    BY <1>3, TickRoomsChange
  <1> QED
    BY <1>1, <1>2, <1>3 DEF LogicNext

\* next_room_id_ never goes back and a room that appears has an id no room had
\* before: a late request for an erased room meets no other room.
THEOREM RoomIdsNeverReused == LogicSpec => ErasedRoomStaysErased
  <1>1. StepOK => \A s \in Shards :
                    /\ next_room_id'[s] >= next_room_id[s]
                    /\ \A r \in DOMAIN rooms'[s] \ DOMAIN rooms[s] :
                         /\ r >= RoomIdOf(s, next_room_id[s])
                         /\ r < RoomIdOf(s, next_room_id'[s])
    BY DEF StepOK, FreshIds
  <1>2. IInv /\ [LogicNext]_vars =>
          [\A s \in Shards :
             /\ next_room_id'[s] >= next_room_id[s]
             /\ \A r \in DOMAIN rooms'[s] \ DOMAIN rooms[s] :
                  /\ r >= RoomIdOf(s, next_room_id[s])
                  /\ r < RoomIdOf(s, next_room_id'[s])]_vars
    BY <1>1, NextStepOK
  <1> QED
    BY <1>2, LogicInvariant, PTL DEF LogicSpec, ErasedRoomStaysErased

\* Whoever is in a room after its roster changed is told so by the handler
\* that changed it, also by a create or join that leaves the room on the way,
\* and by a disconnect, which forgets the route of the one who went.
THEOREM RosterChangesAnnounced == LogicSpec => RosterChangeIsAnnounced
  <1>1. StepOK => \A s \in Shards : \A r \in DOMAIN rooms[s] \cap DOMAIN rooms'[s] :
                    Players(rooms[s][r]) # Players(rooms'[s][r]) =>
                      \A u \in Players(rooms'[s][r]) :
                        \E m \in sent' : /\ m.to = u /\ m.room = r
                                         /\ m.msg \in {"RoomStateNtf", "GameOverNtf"}
    BY DEF StepOK, RoomChange, Announced
  <1>2. IInv /\ [LogicNext]_vars =>
          [\A s \in Shards : \A r \in DOMAIN rooms[s] \cap DOMAIN rooms'[s] :
             Players(rooms[s][r]) # Players(rooms'[s][r]) =>
               \A u \in Players(rooms'[s][r]) :
                 \E m \in sent' : /\ m.to = u /\ m.room = r
                                  /\ m.msg \in {"RoomStateNtf", "GameOverNtf"}]_vars
    BY <1>1, NextStepOK
  <1> QED
    BY <1>2, LogicInvariant, PTL DEF LogicSpec, RosterChangeIsAnnounced

\* A battle that is over stays over, the step that ends it tells exactly the
\* players who remain, and GameOverNtf is sent by no other step.
THEOREM BattlesEndOnce == LogicSpec => GameOverOnceForAll
  <1> DEFINE Body ==
        /\ \A s \in Shards : \A r \in DOMAIN rooms[s] \cap DOMAIN rooms'[s] :
             /\ rooms[s][r].game_over => ~Active(rooms'[s][r])
             /\ Active(rooms[s][r]) /\ ~Active(rooms'[s][r]) =>
                  {m.to : m \in {x \in sent' : x.msg = "GameOverNtf" /\ x.room = r}}
                    = Players(rooms'[s][r])
        /\ \A m \in sent' : m.msg = "GameOverNtf" =>
             \E s \in Shards :
               /\ m.room \in DOMAIN rooms[s] /\ Active(rooms[s][m.room])
               /\ m.room \in DOMAIN rooms'[s] => ~Active(rooms'[s][m.room])
  <1>1. StepOK => Body
    BY DEF StepOK, RoomChange, OverTo
  <1>2. IInv /\ [LogicNext]_vars => [Body]_vars
    BY <1>1, NextStepOK
  <1> QED
    BY <1>2, LogicInvariant, PTL DEF LogicSpec, GameOverOnceForAll
=============================================================================
