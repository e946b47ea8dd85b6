-------------------------- MODULE GameServerProofs --------------------------
(***************************************************************************)
(* Proofs about GameServer for any number of links, network shards and     *)
(* logic shards, with links breaking and messages lost at any time.        *)
(*                                                                         *)
(* The queues only hold what the protocol can carry (GSTypeOK), and a task *)
(* that names a room is queued at the shard the id belongs to.  From the   *)
(* first, every step of the game server is a step of LogicShard or leaves  *)
(* the shards alone; so all that is proved of LogicShard holds here too.   *)
(***************************************************************************)
EXTENDS GameServer, LogicShardProofs

\* The tasks that may wait at shard s.
TasksOf(s) ==
    {t \in Task : t.m.msg \in RequestMsgs \ {"CreateRoomReq"} => t.m.room % ShardCount = s}

\* The inductive invariant: types, and every queued task at a shard it may
\* wait at.
GSInv == GSTypeOK /\ \A s \in Shards : mailbox[s] \in Seq(TasksOf(s))

-----------------------------------------------------------------------------
(* Messages.                                                               *)

\* The shard ids are what a remainder modulo the shard count can be.
LEMMA RemainderIsShard ==
    ASSUME NEW n \in Nat
    PROVE  n % ShardCount \in Shards
  <1>1. ShardCount \in Nat /\ ShardCount > 0
    BY ShardCountPositive
  <1>2. n % ShardCount \in 0 .. ShardCount - 1
    BY <1>1
  <1> QED
    BY <1>2 DEF Shards

\* Room id 0, "no room", may be in any request.
LEMMA RequestIdsFacts == RequestIds \subseteq Nat /\ 0 \in RequestIds
  BY ShardCountPositive, BoundsNat DEF RequestIds

\* What a client asks for becomes a well-typed message.
LEMMA EnvelopeType ==
    ASSUME NEW uid \in Uids, NEW q \in Requests
    PROVE  Envelope(uid, q) \in GateMessage
  <1>1. q \in Request /\ (q.msg = "CreateRoomReq" => q.arg \in RoomSizes)
    BY RequestsAssumption
  <1> QED
    BY <1>1 DEF Envelope, GateMessage, Request

\* So does the end of a session.
LEMMA DisconnectedType ==
    ASSUME NEW uid \in Uids
    PROVE  DisconnectedNtf(uid) \in GateMessage
  BY RequestIdsFacts DEF DisconnectedNtf, GateMessage

\* ResolveLogicShard and the round robin stay within the shards.
LEMMA ResolveType ==
    ASSUME GSTypeOK, NEW n \in NetShards, NEW m \in GateMessage
    PROVE  /\ ResolveLogicShard(n, m) \in Shards
           /\ NextLogicIdx(n, m) \in Shards
           /\ m.msg # "CreateRoomReq" => m.room % ShardCount = ResolveLogicShard(n, m)
  <1>1. next_logic_idx[n] \in Shards /\ next_logic_idx[n] + 1 \in Nat
    BY ShardCountPositive DEF GSTypeOK, Shards
  <1>2. m.room \in Nat
    BY RequestIdsFacts DEF GateMessage
  <1>3. m.room % ShardCount \in Shards /\ (next_logic_idx[n] + 1) % ShardCount \in Shards
    BY <1>1, <1>2, RemainderIsShard
  <1> QED
    BY <1>1, <1>3 DEF ResolveLogicShard, NextLogicIdx

\* A session is logged in as a player, and as no other than its own.
LEMMA BoundType ==
    ASSUME GSTypeOK, NEW c \in Sessions, NEW uid \in bound[c]
    PROVE  uid \in Uids
  <1>1. bound[c] \in {{}} \cup {{u} : u \in Uids}
    BY DEF GSTypeOK
  <1> QED
    BY <1>1

\* A message handed to a link keeps the links well typed.
LEMMA PostMessageType ==
    ASSUME GSTypeOK, NEW m \in GateMessage, PostMessage(m)
    PROVE  link' \in [Routes -> Seq(GateMessage)]
  <1>1. link \in [Routes -> Seq(GateMessage)]
    BY DEF GSTypeOK
  <1>2. CASE UNCHANGED link
    BY <1>1, <1>2
  <1>3. ASSUME NEW l \in Routes, link' = [link EXCEPT ![l] = Append(@, m)]
        PROVE  link' \in [Routes -> Seq(GateMessage)]
    BY <1>1, <1>3
  <1> QED
    BY <1>2, <1>3 DEF PostMessage

\* A task posted to the shard it belongs to keeps the mailboxes well typed.
LEMMA PostKeepsMailboxes ==
    ASSUME GSInv, NEW s \in Shards, NEW t \in TasksOf(s),
           mailbox' = [mailbox EXCEPT ![s] = Append(@, t)]
    PROVE  /\ mailbox' \in [Shards -> Seq(Task)]
           /\ \A x \in Shards : mailbox'[x] \in Seq(TasksOf(x))
  <1>1. mailbox \in [Shards -> Seq(Task)] /\ \A x \in Shards : mailbox[x] \in Seq(TasksOf(x))
    BY DEF GSInv, GSTypeOK
  <1>2. t \in Task
    BY DEF TasksOf
  <1>3. mailbox' \in [Shards -> Seq(Task)]
    BY <1>1, <1>2
  <1>4. ASSUME NEW x \in Shards PROVE mailbox'[x] \in Seq(TasksOf(x))
    BY <1>1
  <1> QED
    BY <1>3, <1>4

-----------------------------------------------------------------------------
(* The invariant, one lemma per kind of step.                              *)

\* Links coming up and breaking, clients coming, asking and going.
LEMMA GatewayStep ==
    ASSUME GSInv,
           \/ \E l \in Routes : LinkUp(l) \/ LinkBreaks(l)
           \/ \E uid \in Uids : ClientLogin(uid)
           \/ \E c \in Sessions : \/ ClientClose(c)
                                  \/ \E q \in Requests : ClientRequest(c, q)
    PROVE  GSInv'
  <1> USE DEF GSInv, GSTypeOK, gateVars
  <1>1. ASSUME NEW l \in Routes, LinkUp(l) PROVE GSInv'
    BY <1>1 DEF LinkUp
  <1>2. ASSUME NEW l \in Routes, LinkBreaks(l) PROVE GSInv'
    <2>1. PICK n \in 0 .. Len(link[l]) : link' = [link EXCEPT ![l] = SubSeq(@, 1, n)]
      BY <1>2 DEF LinkBreaks
    <2>2. SubSeq(link[l], 1, n) \in Seq(GateMessage)
      BY <2>1
    <2>3. link' \in [Routes -> Seq(GateMessage)]
      BY <2>1, <2>2
    <2> QED
      BY <1>2, <2>3 DEF LinkBreaks
  <1>3. ASSUME NEW uid \in Uids, ClientLogin(uid) PROVE GSInv'
    <2>1. SessionOf[uid] \in Sessions
      BY SessionsAssumption
    <2>2. client' \in [Sessions -> {"open", "late", "closed"}]
      BY <1>3, <2>1 DEF ClientLogin, AfterPacket
    <2>3. bound' = [bound EXCEPT ![SessionOf[uid]] = {uid}] /\ logins' \in Nat
      BY <1>3 DEF ClientLogin
    <2>4. bound' \in [Sessions -> {{}} \cup {{u} : u \in Uids}]
      BY <2>1, <2>3
    <2>5. \A c \in Sessions : \A u \in bound'[c] : SessionOf[u] = c
      BY <2>1, <2>3
    <2>6. UNCHANGED <<told, state, link, fanout, next_logic_idx, mailbox, requests>>
      BY <1>3 DEF ClientLogin
    <2> QED
      BY <2>2, <2>3, <2>4, <2>5, <2>6
  <1>4. ASSUME NEW c \in Sessions, ClientClose(c) PROVE GSInv'
    <2>1. PICK uid \in bound[c] : ClientClose(c)!(uid)
      BY <1>4 DEF ClientClose
    <2>2. uid \in Uids
      BY BoundType
    <2>3. link' \in [Routes -> Seq(GateMessage)]
      <3>1. DisconnectedNtf(uid) \in GateMessage /\ PostMessage(DisconnectedNtf(uid))
        BY <2>1, <2>2, DisconnectedType
      <3> QED
        BY <3>1, PostMessageType
    <2>4. client' \in [Sessions -> {"open", "late", "closed"}]
      BY <2>1
    <2>5. told' \in [Uids -> {"nothing", "request", "disconnect"}]
      BY <2>1, <2>2
    <2>6. UNCHANGED <<bound, state, fanout, next_logic_idx, mailbox, requests, logins>>
      BY <2>1
    <2> QED
      BY <2>3, <2>4, <2>5, <2>6
  <1>5. ASSUME NEW c \in Sessions, NEW q \in Requests, ClientRequest(c, q) PROVE GSInv'
    <2>1. PICK uid \in bound[c] : ClientRequest(c, q)!(uid)
      BY <1>5 DEF ClientRequest
    <2>2. uid \in Uids
      BY BoundType
    <2>3. link' \in [Routes -> Seq(GateMessage)]
      <3>1. Envelope(uid, q) \in GateMessage /\ PostMessage(Envelope(uid, q))
        BY <2>1, <2>2, EnvelopeType
      <3> QED
        BY <3>1, PostMessageType
    <2>4. client' \in [Sessions -> {"open", "late", "closed"}]
      BY <2>1 DEF AfterPacket
    <2>5. told' \in [Uids -> {"nothing", "request", "disconnect"}]
      BY <2>1, <2>2
    <2>6. /\ requests' \in Nat
          /\ UNCHANGED <<bound, state, fanout, next_logic_idx, mailbox, logins>>
      BY <2>1
    <2> QED
      BY <2>3, <2>4, <2>5, <2>6
  <1> QED
    BY <1>1, <1>2, <1>3, <1>4, <1>5

\* A network shard reads a message: a request is posted to its shard, a
\* disconnect begins a fan-out.
LEMMA OnPacketStep ==
    ASSUME GSInv, NEW l \in Routes, OnPacket(l)
    PROVE  GSInv'
  <1> DEFINE n == NetShardOf[l]
             m == Head(link[l])
             s == ResolveLogicShard(n, m)
  <1>1. n \in NetShards
    BY NetShardsAssumption
  <1>2. link[l] \in Seq(GateMessage) /\ link[l] # <<>>
    BY DEF OnPacket, GSInv, GSTypeOK
  <1>3. m \in GateMessage /\ Tail(link[l]) \in Seq(GateMessage)
    BY <1>2
  <1>4. link' \in [Routes -> Seq(GateMessage)]
    BY <1>3 DEF OnPacket, GSInv, GSTypeOK
  <1>5. /\ s \in Shards /\ NextLogicIdx(n, m) \in Shards
        /\ m.msg # "CreateRoomReq" => m.room % ShardCount = s
    BY <1>1, <1>3, ResolveType DEF GSInv
  <1>6. CASE m.msg # "ClientDisconnectedNtf"
    <2>1. [m |-> m, origin |-> l] \in TasksOf(s)
      BY <1>3, <1>5, <1>6 DEF TasksOf, Task
    <2>2. /\ mailbox' = [mailbox EXCEPT ![s] = Append(@, [m |-> m, origin |-> l])]
          /\ next_logic_idx' = [next_logic_idx EXCEPT ![n] = NextLogicIdx(n, m)]
          /\ UNCHANGED <<fanout, gateVars, state>>
      BY <1>6 DEF OnPacket, PostToLogic
    <2>3. /\ mailbox' \in [Shards -> Seq(Task)]
          /\ \A x \in Shards : mailbox'[x] \in Seq(TasksOf(x))
      BY <1>5, <2>1, <2>2, PostKeepsMailboxes
    <2>4. next_logic_idx' \in [NetShards -> Shards]
      BY <1>1, <1>5, <2>2 DEF GSInv, GSTypeOK
    <2> QED
      BY <1>4, <2>2, <2>3, <2>4 DEF GSInv, GSTypeOK, gateVars
  <1>7. CASE m.msg = "ClientDisconnectedNtf"
    <2>1. /\ fanout' = [fanout EXCEPT ![n] = [uid |-> {m.uid}, next |-> 0]]
          /\ UNCHANGED <<mailbox, next_logic_idx, gateVars, state>>
      BY <1>7 DEF OnPacket
    <2>2. [uid |-> {m.uid}, next |-> 0] \in [uid : {{u} : u \in Uids}, next : Shards]
      BY <1>3, ShardCountPositive DEF GateMessage, Shards
    <2>3. /\ DOMAIN fanout' = NetShards
          /\ \A x \in NetShards :
               fanout'[x] \in {Idle} \cup [uid : {{u} : u \in Uids}, next : Shards]
      BY <2>1, <2>2 DEF GSInv, GSTypeOK
    <2> QED
      BY <1>4, <2>1, <2>3 DEF GSInv, GSTypeOK, gateVars
  <1> QED
    BY <1>6, <1>7

\* One round of the fan-out of a disconnect.
LEMMA FanOutStep ==
    ASSUME GSInv, NEW n \in NetShards, FanOut(n)
    PROVE  GSInv'
  <1> DEFINE i == fanout[n].next
  <1>1. PICK uid \in fanout[n].uid :
          /\ mailbox' = [mailbox EXCEPT
                 ![i] = Append(@, [m |-> DisconnectedNtf(uid), origin |-> NoRoute])]
          /\ fanout' = [fanout EXCEPT ![n] =
                 IF i + 1 >= FanOutLimit THEN Idle ELSE [@ EXCEPT !.next = i + 1]]
          /\ UNCHANGED <<gateVars, state, link, next_logic_idx>>
    BY DEF FanOut
  <1>2. fanout[n] # Idle
    BY <1>1 DEF Idle
  <1>3. fanout[n] \in [uid : {{u} : u \in Uids}, next : Shards]
    BY <1>2 DEF GSInv, GSTypeOK
  <1>4. uid \in Uids /\ i \in Shards
    BY <1>1, <1>3
  <1>5. [m |-> DisconnectedNtf(uid), origin |-> NoRoute] \in TasksOf(i)
    <2>1. DisconnectedNtf(uid) \in GateMessage
      BY <1>4, DisconnectedType
    <2> QED
      BY <2>1 DEF TasksOf, Task, DisconnectedNtf, RequestMsgs
  <1>6. /\ mailbox' \in [Shards -> Seq(Task)]
        /\ \A x \in Shards : mailbox'[x] \in Seq(TasksOf(x))
    BY <1>1, <1>4, <1>5, PostKeepsMailboxes
  <1>7. /\ DOMAIN fanout' = NetShards
        /\ \A x \in NetShards :
             fanout'[x] \in {Idle} \cup [uid : {{u} : u \in Uids}, next : Shards]
    <2>1. CASE i + 1 >= FanOutLimit
      BY <1>1, <2>1 DEF GSInv, GSTypeOK
    <2>2. CASE ~(i + 1 >= FanOutLimit)
      <3>1. i + 1 \in Shards
        BY <1>4, <2>2, ShardCountPositive DEF Shards, FanOutLimit
      <3>2. [fanout[n] EXCEPT !.next = i + 1] \in [uid : {{u} : u \in Uids}, next : Shards]
        BY <1>3, <3>1
      <3> QED
        BY <1>1, <2>2, <3>2 DEF GSInv, GSTypeOK
    <2> QED
      BY <2>1, <2>2
  <1> QED
    BY <1>1, <1>6, <1>7 DEF GSInv, GSTypeOK, gateVars

\* A logic shard takes the next task.
LEMMA HandleTaskStep ==
    ASSUME GSInv, NEW s \in Shards, HandleTask(s)
    PROVE  GSInv'
  <1>1. /\ mailbox[s] # <<>>
        /\ mailbox' = [mailbox EXCEPT ![s] = Tail(@)]
        /\ UNCHANGED <<gateVars, state, link, fanout, next_logic_idx>>
    BY DEF HandleTask
  <1>2. mailbox[s] \in Seq(Task) /\ mailbox[s] \in Seq(TasksOf(s))
    BY DEF GSInv, GSTypeOK
  <1>3. Tail(mailbox[s]) \in Seq(Task) /\ Tail(mailbox[s]) \in Seq(TasksOf(s))
    BY <1>1, <1>2
  <1>4. mailbox' \in [Shards -> Seq(Task)]
    BY <1>1, <1>3 DEF GSInv, GSTypeOK
  <1>5. \A x \in Shards : mailbox'[x] \in Seq(TasksOf(x))
    BY <1>1, <1>3 DEF GSInv, GSTypeOK
  <1> QED
    BY <1>1, <1>4, <1>5 DEF GSInv, GSTypeOK, gateVars

\* The queues are empty at first.
LEMMA GSInitInv == GSInit => GSInv
  BY ShardCountPositive DEF GSInit, GSInv, GSTypeOK, Shards

\* Every step keeps the invariant.
LEMMA GSNextInv == GSInv /\ [GSNext]_gsVars => GSInv'
  <1> SUFFICES ASSUME GSInv, [GSNext]_gsVars PROVE GSInv'
    OBVIOUS
  <1>1. CASE NetNext
    BY <1>1, GatewayStep, OnPacketStep, FanOutStep DEF NetNext
  <1>2. ASSUME NEW s \in Shards, HandleTask(s) PROVE GSInv'
    BY <1>2, HandleTaskStep
  <1>3. CASE UNCHANGED netVars
    BY <1>3 DEF netVars, gateVars, GSInv, GSTypeOK
  <1>4. ASSUME NEW s \in Shards, Tick(s) PROVE GSInv'
    BY <1>3, <1>4 DEF Tick
  <1>5. CASE UNCHANGED gsVars
    BY <1>3, <1>5 DEF gsVars
  <1> QED
    BY <1>1, <1>2, <1>4, <1>5 DEF GSNext

-----------------------------------------------------------------------------
(* The refinement.                                                         *)

\* A task from the mailbox makes the shard do one of LogicShard's actions.
LEMMA DispatchStep ==
    ASSUME NEW s \in Shards, NEW t \in Task, Dispatch(s, t)
    PROVE  LogicNext
  <1> DEFINE m == t.m
  <1>1. /\ m.uid \in Uids /\ m.room \in RequestIds
        /\ m.msg = "CreateRoomReq" => m.arg \in RoomSizes
        /\ m.msg # "ClientDisconnectedNtf" => t.origin \in Routes
    BY DEF Task, GateMessage
  <1>2. CASE m.msg = "ClientDisconnectedNtf" /\ HandleClientDisconnected(s, m.uid)
    BY <1>1, <1>2 DEF LogicNext
  <1>3. CASE m.msg # "ClientDisconnectedNtf" /\ LogicRequest(s, m.uid, t.origin)
    BY <1>1, <1>3 DEF LogicNext
  <1>4. CASE m.msg = "CreateRoomReq" /\ HandleCreateRoom(s, m.uid, t.origin, m.arg)
    BY <1>1, <1>3, <1>4 DEF LogicRequest
  <1>5. CASE m.msg = "JoinRoomReq" /\ HandleJoinRoom(s, m.uid, t.origin, m.room)
    BY <1>1, <1>3, <1>5 DEF LogicRequest
  <1>6. CASE m.msg = "LeaveRoomReq" /\ HandleLeaveRoom(s, m.uid, t.origin, m.room)
    BY <1>1, <1>3, <1>6 DEF LogicRequest
  <1>7. CASE m.msg = "PlayerReadyReq"
             /\ HandlePlayerReady(s, m.uid, t.origin, m.room, m.arg = 1)
    <2>1. (m.arg = 1) \in BOOLEAN
      OBVIOUS
    <2>2. \E b \in BOOLEAN : HandlePlayerReady(s, m.uid, t.origin, m.room, b)
      BY <1>7, <2>1
    <2> QED
      BY <1>1, <1>3, <1>7, <2>2 DEF LogicRequest
  <1>8. CASE m.msg = "EnterBattleReq" /\ HandleEnterBattle(s, m.uid, t.origin, m.room)
    BY <1>1, <1>3, <1>8 DEF LogicRequest
  <1>9. ASSUME m.msg \in {"MoveCmd", "SkillCmd"}, NEW cmd \in Commands,
               HandlePlayerCommand(s, m.uid, t.origin, cmd)
        PROVE  LogicNext
    BY <1>1, <1>3, <1>9 DEF LogicRequest
  <1>10. ASSUME m.msg \in RequestMsgs, NEW reply \in Rejections,
                HandleMalformed(s, m.uid, t.origin, reply)
         PROVE  LogicNext
    BY <1>1, <1>3, <1>10 DEF LogicRequest, RequestMsgs
  <1>11. (IF ~m.ok THEN "unparsable" ELSE IF m.msg = "SkillCmd" THEN "skill" ELSE "valid")
           \in Commands
    BY DEF Commands
  <1>12. RejectionOf(m.msg) \in Rejections
    BY DEF RejectionOf, Rejections
  <1> QED
    BY <1>2, <1>4, <1>5, <1>6, <1>7, <1>8, <1>9, <1>10, <1>11, <1>12
    DEF Dispatch, HandleDisconnectTask

\* A step of the game server is a step of LogicShard or leaves it alone.
LEMMA GSStepRefines == GSInv /\ [GSNext]_gsVars => [LogicNext]_vars
  <1> SUFFICES ASSUME GSInv, [GSNext]_gsVars PROVE [LogicNext]_vars
    OBVIOUS
  <1>1. ASSUME NEW s \in Shards, HandleTask(s) PROVE LogicNext
    <2>1. Head(mailbox[s]) \in Task
      BY <1>1 DEF HandleTask, GSInv, GSTypeOK
    <2> QED
      BY <1>1, <2>1, DispatchStep DEF HandleTask
  <1>2. ASSUME NEW s \in Shards, Tick(s) PROVE LogicNext
    BY <1>2 DEF Tick, LogicNext
  <1>3. CASE UNCHANGED gsVars
    BY <1>3 DEF gsVars
  <1> QED
    BY <1>1, <1>2, <1>3 DEF GSNext

-----------------------------------------------------------------------------
\* The queues stay well typed and every task waits at a shard it may wait at.
THEOREM GSInvariant == GSSpec => []GSInv
  <1> QED
    BY GSInitInv, GSNextInv, PTL DEF GSSpec

\* The queues of the game server only ever hold messages of the protocol.
THEOREM GSTypeCorrect == GSSpec => []GSTypeOK
  <1>1. GSInv => GSTypeOK
    BY DEF GSInv
  <1> QED
    BY <1>1, GSInvariant, PTL

\* The game server implements LogicShard, whatever the links lose or delay.
THEOREM GameServerImplementsLogic == GSSpec => RefinesLogic
  <1>1. GSInit => LogicInit
    BY DEF GSInit
  <1> QED
    BY <1>1, GSStepRefines, GSInvariant, PTL DEF GSSpec, RefinesLogic, LogicSpec

\* A queued request that names a room is at the only shard that can have it.
THEOREM RequestsAlwaysReachTheirRoom == GSSpec => []RequestsReachTheirRoom
  <1>1. GSInv /\ RoomIdsOfShard => RequestsReachTheirRoom
    <2> SUFFICES ASSUME GSInv, RoomIdsOfShard,
                        NEW s \in Shards, NEW i \in 1 .. Len(mailbox[s]),
                        mailbox[s][i].m.msg \in RequestMsgs \ {"CreateRoomReq"},
                        NEW t \in Shards \ {s}
                 PROVE  mailbox[s][i].m.room \notin DOMAIN rooms[t]
      BY DEF RequestsReachTheirRoom
    <2>1. mailbox[s] \in Seq(TasksOf(s))
      BY DEF GSInv
    <2>2. mailbox[s][i] \in TasksOf(s)
      BY <2>1
    <2>3. mailbox[s][i].m.room % ShardCount = s
      BY <2>2 DEF TasksOf
    <2>4. \A r \in DOMAIN rooms[t] : r % ShardCount = t
      BY DEF RoomIdsOfShard
    <2> QED
      BY <2>3, <2>4
  <1>2. GSSpec => []RoomIdsOfShard
    BY GameServerImplementsLogic, RoomIdsLeadToShard, PTL DEF RefinesLogic
  <1> QED
    BY <1>1, <1>2, GSInvariant, PTL
=============================================================================
