----------------------------- MODULE GameServer -----------------------------
(***************************************************************************)
(* The game server between the gateway links and the logic shards.         *)
(*                                                                         *)
(* A gateway forwards what its clients ask over one of its links, in turn. *)
(* The network shard that owns the link picks a logic shard for a request, *)
(* or fans a disconnect out to all of them, and posts the task to the      *)
(* shard's io_context; the shard's thread handles the tasks in order.      *)
(* The handlers are the actions of module LogicShard.                      *)
(*                                                                         *)
(* Of a client's session at the gateway this module keeps what the game    *)
(* server can notice: whether it is open, and the uid it speaks for.  The  *)
(* rest of it is module GateSessions.                                      *)
(*                                                                         *)
(* A route is one incarnation of a link (net shard, slot, generation): it  *)
(* comes up once and, when it breaks, loses what it has not delivered.     *)
(***************************************************************************)
EXTENDS LogicShard

CONSTANTS
    Sessions,        \* the client sessions at the gateway
    SessionOf,       \* the session whose uuid went into a uid
    NetShards,       \* the network shards
    NetShardOf,      \* the network shard that accepted a link
    Requests,        \* what clients ask for
    MaxRequests,     \* bound: requests the clients send in a run
    MaxInFlight,     \* bound: messages on one link
    MaxLogins,       \* bound: logins in a run
    MaxBreaks        \* bound: links that break in a run

RequestMsgs ==
    {"CreateRoomReq", "JoinRoomReq", "LeaveRoomReq", "PlayerReadyReq", "EnterBattleReq",
     "MoveCmd", "SkillCmd"}          \* MoveCmd stands for every other command

\* room is field 1 of the payload, arg the room size or the ready flag, and
\* ok tells whether the payload parses as the message it claims to be (a
\* SkillCmd is never parsed: whether it has a payload at all).
Request == [msg : RequestMsgs, room : RequestIds, arg : Nat, ok : BOOLEAN]

\* MakeLoginUid mixes the uuid of the session into every uid: two sessions
\* never have the same one.
ASSUME SessionsAssumption == SessionOf \in [Uids -> Sessions]
ASSUME NetShardsAssumption == NetShardOf \in [Routes -> NetShards]
ASSUME RequestsAssumption ==
    /\ Requests \subseteq Request
    /\ \A q \in Requests : q.msg = "CreateRoomReq" => q.arg \in RoomSizes
\* A handler never meets the bounds of module LogicShard.
ASSUME BudgetAssumption ==
    /\ MaxRequests \in Nat /\ MaxRequests <= MaxRooms /\ MaxRequests <= MaxPending
    /\ MaxInFlight \in Nat /\ MaxLogins \in Nat /\ MaxBreaks \in Nat

VARIABLES
    client,          \* session -> "open", "late" or "closed"
    bound,           \* uid_: session -> the uid it is logged in as, {} for none
    told,            \* history: uid -> what the gateway posted about it last
    state,           \* route -> "idle", "up" or "down"
    link,            \* route -> messages sent and not yet received
    fanout,          \* net shard -> the disconnect it is posting to the shards
    next_logic_idx,  \* next_logic_idx_: net shard -> counter, modulo the count
    mailbox,         \* shard -> tasks posted to its io_context
    requests,        \* requests sent so far
    logins           \* logins so far

gateVars == <<client, bound, told, requests, logins>>
netVars == <<gateVars, state, link, fanout, next_logic_idx, mailbox>>
gsVars == <<vars, netVars>>

NoRoute == {}
Idle == [uid |-> {}, next |-> ShardCount]

-----------------------------------------------------------------------------
(* The gateway.                                                            *)

\* LogicTask and ClientDisconnectedNtf: what a link and a mailbox hold.
Envelope(uid, q) == [uid |-> uid, msg |-> q.msg, room |-> q.room, arg |-> q.arg, ok |-> q.ok]

DisconnectedNtf(uid) ==
    [uid |-> uid, msg |-> "ClientDisconnectedNtf", room |-> 0, arg |-> 0, ok |-> TRUE]

\* PostMessage: some available link takes the message; without one it is lost.
PostMessage(m) ==
    \/ \E l \in Routes : /\ state[l] = "up" /\ Len(link[l]) < MaxInFlight
                         /\ link' = [link EXCEPT ![l] = Append(@, m)]
    \/ /\ \A l \in Routes : state[l] # "up"
       /\ UNCHANGED link

LinkUp(l) ==
    /\ state[l] = "idle"
    /\ state' = [state EXCEPT ![l] = "up"]
    /\ UNCHANGED <<gateVars, link, fanout, next_logic_idx, mailbox>>

\* What was not delivered from some message on is lost.  The rest is in the
\* receive buffer of the game server and is read before the end of stream.
LinkBreaks(l) ==
    /\ state[l] = "up"
    /\ Cardinality({x \in Routes : state[x] = "down"}) < MaxBreaks
    /\ state' = [state EXCEPT ![l] = "down"]
    /\ \E n \in 0 .. Len(link[l]) : link' = [link EXCEPT ![l] = SubSeq(@, 1, n)]
    /\ UNCHANGED <<gateVars, fanout, next_logic_idx, mailbox>>

\* handle_read looks at the state of the session before the body only: a body
\* that had arrived when close ran is handled like any other.  Then the loop
\* ends.
Handles(c) == client[c] \in {"open", "late"}

AfterPacket(c) == IF client[c] = "late" THEN "closed" ELSE client[c]

\* HandleLoginReq.  A session that was logged in as another uid changes over,
\* and nobody tells the game server.
ClientLogin(uid) ==
    LET c == SessionOf[uid] IN
    /\ Handles(c) /\ logins < MaxLogins
    /\ client' = [client EXCEPT ![c] = AfterPacket(c)]
    /\ bound' = [bound EXCEPT ![c] = {uid}]
    /\ logins' = logins + 1
    /\ UNCHANGED <<told, state, link, fanout, next_logic_idx, mailbox, requests>>

\* ForwardClientMsgToGame.  Without a login the request is refused here.
ClientRequest(c, q) ==
    \E uid \in bound[c] :
      /\ Handles(c) /\ requests < MaxRequests
      /\ client' = [client EXCEPT ![c] = AfterPacket(c)]
      /\ told' = [told EXCEPT ![uid] = "request"]
      /\ requests' = requests + 1
      /\ PostMessage(Envelope(uid, q))
      /\ UNCHANGED <<bound, state, fanout, next_logic_idx, mailbox, logins>>

\* close of a session that is logged in; one that is not tells nobody, and is
\* as if it stayed silent.  uid_ is left as it is, and a body may be queued.
ClientClose(c) ==
    \E uid \in bound[c] :
      /\ client[c] = "open"
      /\ \E after \in {"late", "closed"} : client' = [client EXCEPT ![c] = after]
      /\ told' = [told EXCEPT ![uid] = "disconnect"]
      /\ PostMessage(DisconnectedNtf(uid))
      /\ UNCHANGED <<bound, state, fanout, next_logic_idx, mailbox, requests, logins>>

-----------------------------------------------------------------------------
(* The network shards.                                                     *)

ResolveLogicShard_First(n, m) == IF m.msg = "CreateRoomReq" THEN next_logic_idx[n] ELSE 0

\* A room is created wherever the round robin points; any other request goes
\* to the shard its room id belongs to, and to shard 0 without a room id.
ResolveLogicShard(n, m) ==
    IF m.msg = "CreateRoomReq" THEN next_logic_idx[n] ELSE m.room % ShardCount

NextLogicIdx_NoWrap(n, m) ==
    IF m.msg = "CreateRoomReq" THEN next_logic_idx[n] + 1 ELSE next_logic_idx[n]

NextLogicIdx(n, m) ==
    IF m.msg = "CreateRoomReq" THEN (next_logic_idx[n] + 1) % ShardCount ELSE next_logic_idx[n]

PostToLogic(s, m, l) ==
    mailbox' = [mailbox EXCEPT ![s] = Append(@, [m |-> m, origin |-> l])]

\* OnPacket for the next message of a link.  The shard has one thread: it
\* finishes a fan-out before it reads on.
OnPacket(l) ==
    LET n == NetShardOf[l]
        m == Head(link[l])
    IN  /\ link[l] # <<>> /\ fanout[n] = Idle
        /\ link' = [link EXCEPT ![l] = Tail(@)]
        /\ \/ /\ m.msg # "ClientDisconnectedNtf"
              /\ PostToLogic(ResolveLogicShard(n, m), m, l)
              /\ next_logic_idx' = [next_logic_idx EXCEPT ![n] = NextLogicIdx(n, m)]
              /\ UNCHANGED fanout
           \/ /\ m.msg = "ClientDisconnectedNtf"
              /\ fanout' = [fanout EXCEPT ![n] = [uid |-> {m.uid}, next |-> 0]]
              /\ UNCHANGED <<mailbox, next_logic_idx>>
        /\ UNCHANGED <<gateVars, state>>

FanOutLimit_First == 1

FanOutLimit == ShardCount

\* One round of the loop of NetworkShard::HandleClientDisconnected; other
\* network shards post and logic shards run between two rounds.
FanOut(n) ==
    \E uid \in fanout[n].uid :
      LET i == fanout[n].next IN
      /\ mailbox' = [mailbox EXCEPT ![i] = Append(@, [m |-> DisconnectedNtf(uid), origin |-> NoRoute])]
      /\ fanout' = [fanout EXCEPT ![n] =
             IF i + 1 >= FanOutLimit THEN Idle ELSE [@ EXCEPT !.next = i + 1]]
      /\ UNCHANGED <<gateVars, state, link, next_logic_idx>>

-----------------------------------------------------------------------------
(* The logic shards: handleTask, LogicRouter and the tick.                 *)

RejectionOf(msg) ==
    CASE msg = "CreateRoomReq" -> "CreateRoomRsp"
      [] msg = "JoinRoomReq" -> "JoinRoomRsp"
      [] msg = "EnterBattleReq" -> "EnterBattleRsp"
      [] OTHER -> ""

HandleDisconnectTask_RecordsRoute(s, uid) ==
    /\ uid_route' = [uid_route EXCEPT ![s] = Put(@, uid, NoRoute)]
    /\ rooms' = [rooms EXCEPT ![s] = RoomsAfterLeave(rooms[s], uid_to_room[s], uid)]
    /\ uid_to_room' = [uid_to_room EXCEPT ![s] = Erase(@, uid)]
    /\ \E winner \in LeaveWinners(rooms[s], uid_to_room[s], uid) :
         sent' = LeaveMessages(rooms[s], uid_to_room[s], Erase(uid_route[s], uid), uid, winner)
    /\ UNCHANGED next_room_id

\* A disconnect task has uid 0, so that handleTask records no route for it.
HandleDisconnectTask(s, uid) == HandleClientDisconnected(s, uid)

Dispatch(s, t) ==
    LET m == t.m IN
    \/ /\ m.msg = "CreateRoomReq" /\ m.ok
       /\ HandleCreateRoom(s, m.uid, t.origin, m.arg)
    \/ /\ m.msg = "JoinRoomReq" /\ m.ok
       /\ HandleJoinRoom(s, m.uid, t.origin, m.room)
    \/ /\ m.msg = "LeaveRoomReq" /\ m.ok
       /\ HandleLeaveRoom(s, m.uid, t.origin, m.room)
    \/ /\ m.msg = "PlayerReadyReq" /\ m.ok
       /\ HandlePlayerReady(s, m.uid, t.origin, m.room, m.arg = 1)
    \/ /\ m.msg = "EnterBattleReq" /\ m.ok
       /\ HandleEnterBattle(s, m.uid, t.origin, m.room)
    \/ /\ m.msg \in {"MoveCmd", "SkillCmd"}
       /\ HandlePlayerCommand(s, m.uid, t.origin,
              IF ~m.ok THEN "unparsable" ELSE IF m.msg = "SkillCmd" THEN "skill" ELSE "valid")
    \/ /\ m.msg \in RequestMsgs \ {"MoveCmd", "SkillCmd"} /\ ~m.ok
       /\ HandleMalformed(s, m.uid, t.origin, RejectionOf(m.msg))
    \/ /\ m.msg = "ClientDisconnectedNtf"
       /\ HandleDisconnectTask(s, m.uid)

HandleTask(s) ==
    /\ mailbox[s] # <<>>
    /\ mailbox' = [mailbox EXCEPT ![s] = Tail(@)]
    /\ Dispatch(s, Head(mailbox[s]))
    /\ UNCHANGED <<gateVars, state, link, fanout, next_logic_idx>>

Tick(s) == TickRooms(s) /\ UNCHANGED netVars

-----------------------------------------------------------------------------
GSInit ==
    /\ LogicInit
    /\ client = [c \in Sessions |-> "open"]
    /\ bound = [c \in Sessions |-> {}]
    /\ told = [u \in Uids |-> "nothing"]
    /\ state = [l \in Routes |-> "idle"]
    /\ link = [l \in Routes |-> <<>>]
    /\ fanout = [n \in NetShards |-> Idle]
    /\ next_logic_idx = [n \in NetShards |-> 0]
    /\ mailbox = [s \in Shards |-> <<>>]
    /\ requests = 0
    /\ logins = 0

NetNext ==
    \/ \E l \in Routes : LinkUp(l) \/ LinkBreaks(l) \/ OnPacket(l)
    \/ \E uid \in Uids : ClientLogin(uid)
    \/ \E c \in Sessions : \/ ClientClose(c)
                           \/ \E q \in Requests : ClientRequest(c, q)
    \/ \E n \in NetShards : FanOut(n)

GSNext ==
    \/ NetNext /\ UNCHANGED vars
    \/ \E s \in Shards : HandleTask(s) \/ Tick(s)

GSSpec == GSInit /\ [][GSNext]_gsVars

\* Every io_context has a thread that keeps running its queue.
GSFairness ==
    /\ \A l \in Routes : WF_gsVars(OnPacket(l) /\ UNCHANGED vars)
    /\ \A n \in NetShards : WF_gsVars(FanOut(n) /\ UNCHANGED vars)
    /\ \A s \in Shards : WF_gsVars(HandleTask(s))

GSFairSpec == GSSpec /\ GSFairness

-----------------------------------------------------------------------------
(* Properties.                                                             *)

GateMessage ==
    {m \in [uid : Uids, msg : RequestMsgs \cup {"ClientDisconnectedNtf"},
            room : RequestIds, arg : Nat, ok : BOOLEAN] :
       m.msg = "CreateRoomReq" => m.arg \in RoomSizes}

\* A request carries the route it came by; a disconnect carries none.
Task ==
    {t \in [m : GateMessage, origin : Routes \cup {NoRoute}] :
       t.m.msg # "ClientDisconnectedNtf" => t.origin \in Routes}

\* The queues hold messages of the protocol, a fan-out in progress points at
\* a shard and a session only speaks for uids made from its uuid.
GSTypeOK ==
    /\ client \in [Sessions -> {"open", "late", "closed"}]
    /\ bound \in [Sessions -> {{}} \cup {{u} : u \in Uids}]
    /\ \A c \in Sessions : \A u \in bound[c] : SessionOf[u] = c
    /\ told \in [Uids -> {"nothing", "request", "disconnect"}]
    /\ state \in [Routes -> {"idle", "up", "down"}]
    /\ link \in [Routes -> Seq(GateMessage)]
    /\ DOMAIN fanout = NetShards
    /\ \A n \in NetShards :
         fanout[n] \in {Idle} \cup [uid : {{u} : u \in Uids}, next : Shards]
    /\ next_logic_idx \in [NetShards -> Shards]
    /\ mailbox \in [Shards -> Seq(Task)]
    /\ requests \in Nat /\ logins \in Nat

\* A request that names a room waits at the only shard that can have it:
\* ResolveLogicShard's room_id % count undoes the id a shard gave the room,
\* whatever rooms the other shards make while the request is queued.
RequestsReachTheirRoom ==
    \A s \in Shards : \A i \in 1 .. Len(mailbox[s]) :
      LET m == mailbox[s][i].m IN
      m.msg \in RequestMsgs \ {"CreateRoomReq"} =>
        \A t \in Shards \ {s} : m.room \notin DOMAIN rooms[t]

\* The queues between gateway, network shards and logic shards, under any
\* order of delivery and any loss, only ever make the shards do what module
\* LogicShard allows.
RefinesLogic == LogicSpec

Forgotten(uid) ==
    \A s \in Shards : uid \notin DOMAIN uid_to_room[s] /\ uid \notin DOMAIN uid_route[s]

\* Once the gateway has told the game server that a client is gone, and has
\* nothing more to say of it, every shard forgets the client: it is in no room
\* and has no route.  A request handled after the close, or a login as another
\* uid, is the gateway's own omission and not in the claim; that the links and
\* the fan-out carry the disconnect behind every request it follows is.
DisconnectedIsForgotten ==
    \A uid \in Uids :
      (told[uid] = "disconnect") ~> (told[uid] # "disconnect" \/ Forgotten(uid))
=============================================================================
