---------------------------- MODULE GateSessions ----------------------------
(***************************************************************************)
(* The client side of the gateway: the sessions of the clients (Csession), *)
(* the maps of the work shards that own them, the process-wide             *)
(* GateSessionRegistry, login, and the way of a message in both            *)
(* directions.                                                             *)
(*                                                                         *)
(* A session lives on the thread of its work shard.  An action is one      *)
(* completion handler of that thread up to its next co_await, or the world *)
(* completing an operation, which queues the handler; a result that is     *)
(* queued is still delivered after the session was closed.  Only the       *)
(* registry, which has a lock, and the posted sends cross shards.          *)
(***************************************************************************)
EXTENDS Integers, FiniteSets

CONSTANTS
    Sessions,             \* the Csession objects of a run
    Accounts,             \* account and token of a LoginReq
    ShardCount,           \* WORK_SHARD_NUMBER
    kMaxSendQueueDepth,
    MaxPackets,           \* bound: packets the clients send in a run
    MaxReplies            \* bound: packets the game server sends in a run

ASSUME GateShardsPositive == ShardCount \in Nat \ {0}
ASSUME GateDepthPositive == kMaxSendQueueDepth \in Nat \ {0}
ASSUME GateBoundsNat == MaxPackets \in Nat /\ MaxReplies \in Nat

Shards == 0 .. ShardCount - 1

\* MakeLoginUid hashes account, token and the session's uuid, so that no two
\* sessions share a uid, and one session has a uid per account.
MakeLoginUid(s, account) == <<s, account>>
Uids == Sessions \X Accounts
NoUid == <<>>

VARIABLES
    sess,              \* the Csession objects
    user_session_mgr,  \* shard -> the sessions it owns
    user_id_mgr,       \* shard -> (uid -> session)
    registry,          \* GateSessionRegistry: uid -> session, by weak_ptr
    posted,            \* session -> SendData tasks posted to its shard
    told,              \* uid -> the last thing the pool was given about it
    idx,               \* shard of the accept that is pending
    packets,           \* complete packets the clients have sent
    replies            \* packets the game server has sent

gateVars == <<sess, user_session_mgr, user_id_mgr, registry, posted, told, idx, packets, replies>>

-----------------------------------------------------------------------------
(* Maps, and the state of one session.                                     *)

MapPut(f, k, v) == [x \in DOMAIN f \cup {k} |-> IF x = k THEN v ELSE f[x]]
MapErase(f, K) == [x \in DOMAIN f \ K |-> f[x]]

ReaderStates == {"none", "head", "head_ok", "head_err", "body", "body_ok", "body_err", "end"}
TimerStates == {"none", "armed", "cancelled", "expired", "end"}
WriterStates == {"none", "spawned", "writing", "write_ok", "write_err"}

Session == [state : {"Invalid", "Conected", "Closed"},
            shard : Shards,
            uid : Uids \cup {NoUid},
            reader : ReaderStates,            \* handle_read
            timer : TimerStates,              \* start_heartbeat
            writer : WriterStates,            \* start_write_loop
            send_que : 0 .. kMaxSendQueueDepth,
            is_writing : BOOLEAN]

NewSession == [state |-> "Invalid", shard |-> 0, uid |-> NoUid, reader |-> "none",
               timer |-> "none", writer |-> "none", send_que |-> 0, is_writing |-> FALSE]

Live(s) == sess[s].state = "Conected"

\* timer_.cancel() reaches a wait that has not expired.
CancelTimer(x) == [x EXCEPT !.timer = IF @ = "armed" THEN "cancelled" ELSE @]

\* The socket and the timer of a closed session: waiting operations are
\* aborted, results that are queued stay.
Aborted(x) ==
    [CancelTimer(x) EXCEPT
       !.state = "Closed",
       !.reader = IF @ = "head" THEN "head_err" ELSE IF @ = "body" THEN "body_err" ELSE @,
       !.writer = IF @ = "writing" THEN "write_err" ELSE @]

Min(a, b) == IF a <= b THEN a ELSE b

SendData_Unbounded(x) ==
    IF x.state = "Closed" THEN x
    ELSE [x EXCEPT !.send_que = @ + 1, !.is_writing = TRUE,
                   !.writer = IF x.is_writing THEN @ ELSE "spawned"]

\* SendData drops the oldest packet of a full queue, and starts the write
\* loop unless one is under way.
SendData(x) ==
    IF x.state = "Closed" THEN x
    ELSE [x EXCEPT !.send_que = Min(@ + 1, kMaxSendQueueDepth),
                   !.is_writing = TRUE,
                   !.writer = IF x.is_writing THEN @ ELSE "spawned"]

-----------------------------------------------------------------------------
(* The maps: what close and BindUid leave in them.                         *)

\* Unregister only removes the entry of the session that asks.
Unregister(reg, uid, s) ==
    IF uid \in DOMAIN reg /\ reg[uid] = s THEN MapErase(reg, {uid}) ELSE reg

Register(reg, uid, s) == MapPut(reg, uid, s)

\* delete_user_session also drops every uid that leads to the session.
delete_user_session(index, s) ==
    MapErase(index, {u \in DOMAIN index : index[u] = s})

\* close() of session s whose object is x afterwards; a session that is
\* closed already is left alone.
Close(s, x) ==
    LET w == sess[s].shard
        uid == sess[s].uid
    IN  IF ~Live(s)
        THEN /\ sess' = [sess EXCEPT ![s] = x]
             /\ UNCHANGED <<user_session_mgr, user_id_mgr, registry, told>>
        ELSE /\ sess' = [sess EXCEPT ![s] = Aborted(x)]
             /\ registry' = Unregister(registry, uid, s)
             /\ told' = IF uid = NoUid THEN told ELSE [told EXCEPT ![uid] = "disconnect"]
             /\ user_id_mgr' = [user_id_mgr EXCEPT ![w] =
                                  delete_user_session(MapErase(@, {uid}), s)]
             /\ user_session_mgr' = [user_session_mgr EXCEPT ![w] = @ \ {s}]

BoundRegistry_KeepOld(s, uid) == Register(registry, uid, s)

\* BindUid of session s, for a uid that is not 0.
BoundRegistry(s, uid) ==
    LET old == sess[s].uid IN
    Register(IF old # uid THEN Unregister(registry, old, s) ELSE registry, uid, s)

BoundIndex_KeepOld(s, uid) == MapPut(user_id_mgr[sess[s].shard], uid, s)

BoundIndex_EraseLast(s, uid) ==
    MapErase(MapPut(user_id_mgr[sess[s].shard], uid, s), {sess[s].uid})

BoundIndex(s, uid) ==
    LET old == sess[s].uid
        index == user_id_mgr[sess[s].shard]
    IN  MapPut(IF old # uid THEN MapErase(index, {old}) ELSE index, uid, s)

-----------------------------------------------------------------------------
(* Cserver: the acceptor hands the next connection to the shard whose turn *)
(* it is; a failed accept uses up a turn as well.                          *)

get_shard == idx' = (idx + 1) % ShardCount

Accept(s) ==
    /\ sess[s].state = "Invalid"
    /\ sess' = [sess EXCEPT ![s] = [NewSession EXCEPT !.state = "Conected", !.shard = idx,
                                                      !.reader = "head", !.timer = "armed"]]
    /\ user_session_mgr' = [user_session_mgr EXCEPT ![idx] = @ \cup {s}]
    /\ get_shard
    /\ UNCHANGED <<user_id_mgr, registry, posted, told, packets, replies>>

AcceptFails ==
    /\ \E s \in Sessions : sess[s].state = "Invalid"
    /\ get_shard
    /\ UNCHANGED <<sess, user_session_mgr, user_id_mgr, registry, posted, told, packets, replies>>

-----------------------------------------------------------------------------
(* The world: reads and writes complete or fail, a wait of 30 s expires.   *)

ReadCompletes(s) ==
    /\ sess[s].reader \in {"head", "body"}
    /\ \/ /\ sess[s].reader = "head" /\ packets < MaxPackets
          /\ sess' = [sess EXCEPT ![s].reader = "head_ok"]
          /\ packets' = packets + 1
       \/ /\ sess[s].reader = "body"
          /\ sess' = [sess EXCEPT ![s].reader = "body_ok"]
          /\ UNCHANGED packets
       \/ /\ sess' = [sess EXCEPT ![s].reader = IF @ = "head" THEN "head_err" ELSE "body_err"]
          /\ UNCHANGED packets
    /\ UNCHANGED <<user_session_mgr, user_id_mgr, registry, posted, told, idx, replies>>

WriteCompletes(s) ==
    /\ sess[s].writer = "writing"
    /\ \E r \in {"write_ok", "write_err"} : sess' = [sess EXCEPT ![s].writer = r]
    /\ UNCHANGED <<user_session_mgr, user_id_mgr, registry, posted, told, idx, packets, replies>>

TimerExpires(s) ==
    /\ sess[s].timer = "armed"
    /\ sess' = [sess EXCEPT ![s].timer = "expired"]
    /\ UNCHANGED <<user_session_mgr, user_id_mgr, registry, posted, told, idx, packets, replies>>

-----------------------------------------------------------------------------
(* ClientIngressRouter: what a complete packet of session s does.  x is    *)
(* the session object when the handler reaches it.                         *)

HandleLoginReq(s, x) ==
    \/ \E account \in Accounts :
         LET uid == MakeLoginUid(s, account) IN
         /\ sess' = [sess EXCEPT ![s] = SendData([x EXCEPT !.uid = uid])]
         /\ registry' = BoundRegistry(s, uid)
         /\ user_id_mgr' = [user_id_mgr EXCEPT ![x.shard] = BoundIndex(s, uid)]
         /\ UNCHANGED told
    \/ /\ sess' = [sess EXCEPT ![s] = SendData(x)]     \* it does not parse
       /\ UNCHANGED <<registry, user_id_mgr, told>>

HandlePingReq(s, x) ==
    /\ sess' = [sess EXCEPT ![s] = SendData(x)]
    /\ UNCHANGED <<registry, user_id_mgr, told>>

\* A request before login is answered here; every other one goes to the pool.
ForwardClientMsgToGame(s, x) ==
    /\ sess' = [sess EXCEPT ![s] = IF x.uid = NoUid THEN SendData(x) ELSE x]
    /\ told' = IF x.uid = NoUid THEN told ELSE [told EXCEPT ![x.uid] = "request"]
    /\ UNCHANGED <<registry, user_id_mgr>>

UnknownMsg(s, x) ==
    /\ sess' = [sess EXCEPT ![s] = x]
    /\ UNCHANGED <<registry, user_id_mgr, told>>

\* The packet is complete: the heartbeat starts again, the router runs, and
\* the loop of handle_read goes on unless the session is closed.
PacketRead(x) ==
    [CancelTimer(x) EXCEPT !.reader = IF x.state = "Closed" THEN "end" ELSE "head"]

HandleMsg(s) ==
    LET x == PacketRead(sess[s]) IN
    \/ HandleLoginReq(s, x)
    \/ HandlePingReq(s, x)
    \/ ForwardClientMsgToGame(s, x)
    \/ UnknownMsg(s, x)

-----------------------------------------------------------------------------
(* Csession: the handlers of its three coroutines.                         *)

\* The header is bad (magic, id or length): close.  A header that comes after
\* the session was closed ends the loop; a packet without a body is complete.
OnHead(s) ==
    /\ sess[s].reader = "head_ok"
    /\ \/ /\ Close(s, [sess[s] EXCEPT !.reader = "end"])
       \/ /\ Live(s)
          /\ sess' = [sess EXCEPT ![s].reader = "body"]
          /\ UNCHANGED <<user_session_mgr, user_id_mgr, registry, told>>
       \/ /\ Live(s)
          /\ HandleMsg(s)
          /\ UNCHANGED user_session_mgr
    /\ UNCHANGED <<posted, idx, packets, replies>>

\* There is no look at the state between the body and the router.
OnBody(s) ==
    /\ sess[s].reader = "body_ok"
    /\ HandleMsg(s)
    /\ UNCHANGED <<user_session_mgr, posted, idx, packets, replies>>

OnReadError(s) ==
    /\ sess[s].reader \in {"head_err", "body_err"}
    /\ Close(s, [sess[s] EXCEPT !.reader = "end"])
    /\ UNCHANGED <<posted, idx, packets, replies>>

OnTimer_EndsWhenCancelled(s) ==
    /\ \/ /\ sess[s].timer = "cancelled"
          /\ sess' = [sess EXCEPT ![s].timer = "end"]
          /\ UNCHANGED <<user_session_mgr, user_id_mgr, registry, told>>
       \/ /\ sess[s].timer = "expired"
          /\ Close(s, [sess[s] EXCEPT !.timer = "end"])
    /\ UNCHANGED <<posted, idx, packets, replies>>

\* A cancelled wait starts the next one; an expired one closes the session.
OnTimer(s) ==
    /\ \/ /\ sess[s].timer = "cancelled"
          /\ sess' = [sess EXCEPT ![s].timer = IF Live(s) THEN "armed" ELSE "end"]
          /\ UNCHANGED <<user_session_mgr, user_id_mgr, registry, told>>
       \/ /\ sess[s].timer = "expired"
          /\ Close(s, [sess[s] EXCEPT !.timer = "end"])
    /\ UNCHANGED <<posted, idx, packets, replies>>

WriteLoop_KeepFlag(x) ==
    IF x.state = "Conected" /\ x.send_que > 0
    THEN [x EXCEPT !.send_que = @ - 1, !.writer = "writing"]
    ELSE [x EXCEPT !.writer = "none"]

\* start_write_loop from its head: take the next packet or stop.
WriteLoop(x) ==
    IF x.state = "Conected" /\ x.send_que > 0
    THEN [x EXCEPT !.send_que = @ - 1, !.writer = "writing"]
    ELSE [x EXCEPT !.is_writing = FALSE, !.writer = "none"]

OnWritten(s) ==
    /\ \/ /\ sess[s].writer \in {"spawned", "write_ok"}
          /\ sess' = [sess EXCEPT ![s] = WriteLoop(@)]
          /\ UNCHANGED <<user_session_mgr, user_id_mgr, registry, told>>
       \/ /\ sess[s].writer = "write_err"
          /\ Close(s, [sess[s] EXCEPT !.is_writing = FALSE, !.writer = "none"])
    /\ UNCHANGED <<posted, idx, packets, replies>>

-----------------------------------------------------------------------------
(* Replies: ForwardGameToClients on the work shard that read the packet.   *)

\* FindSessionByUid, as the set of what it finds.
FindSessionByUid(w, uid) ==
    {s \in user_session_mgr[w] : uid \in DOMAIN user_id_mgr[w] /\ user_id_mgr[w][uid] = s}

\* Somebody still holds the object, so that the registry's weak_ptr locks.
Alive(s) ==
    \/ s \in user_session_mgr[sess[s].shard]
    \/ sess[s].reader # "end" \/ sess[s].timer # "end" \/ sess[s].writer # "none"
    \/ posted[s] > 0

\* SendToUid: directly to a session of this shard, else through the registry,
\* which forgets a session that is gone and posts to the shard of any other.
SendToUid(w, uid) ==
    LET found == FindSessionByUid(w, uid) IN
    IF found # {}
    THEN /\ sess' = [s \in Sessions |-> IF s \in found THEN SendData(sess[s]) ELSE sess[s]]
         /\ UNCHANGED <<registry, posted>>
    ELSE /\ UNCHANGED sess
         /\ \/ /\ uid \notin DOMAIN registry
               /\ UNCHANGED <<registry, posted>>
            \/ /\ uid \in DOMAIN registry /\ ~Alive(registry[uid])
               /\ registry' = MapErase(registry, {uid})
               /\ UNCHANGED posted
            \/ /\ uid \in DOMAIN registry /\ Alive(registry[uid])
               /\ posted' = [posted EXCEPT ![registry[uid]] = @ + 1]
               /\ UNCHANGED registry

\* Broadcast: an envelope without targets goes to everybody registered.
Broadcast ==
    LET gone == {u \in DOMAIN registry : ~Alive(registry[u])}
        left == MapErase(registry, gone)
    IN  /\ registry' = left
        /\ posted' = [s \in Sessions |->
                        posted[s] + Cardinality({u \in DOMAIN left : left[u] = s})]
        /\ UNCHANGED sess

\* The game server answers a uid it was told about, on any link.
ForwardGameToClients(w) ==
    /\ replies < MaxReplies
    /\ replies' = replies + 1
    /\ \/ \E uid \in Uids : told[uid] # "nothing" /\ SendToUid(w, uid)
       \/ Broadcast
    /\ UNCHANGED <<user_session_mgr, user_id_mgr, told, idx, packets>>

\* A posted SendData runs on the session's shard.
RunPosted(s) ==
    /\ posted[s] > 0
    /\ posted' = [posted EXCEPT ![s] = @ - 1]
    /\ sess' = [sess EXCEPT ![s] = SendData(@)]
    /\ UNCHANGED <<user_session_mgr, user_id_mgr, registry, told, idx, packets, replies>>

-----------------------------------------------------------------------------
GateInit ==
    /\ sess = [s \in Sessions |-> NewSession]
    /\ user_session_mgr = [w \in Shards |-> {}]
    /\ user_id_mgr = [w \in Shards |-> [u \in {} |-> 0]]
    /\ registry = [u \in {} |-> 0]
    /\ posted = [s \in Sessions |-> 0]
    /\ told = [u \in Uids |-> "nothing"]
    /\ idx = 0
    /\ packets = 0
    /\ replies = 0

Handler(s) == OnHead(s) \/ OnBody(s) \/ OnReadError(s) \/ OnTimer(s) \/ OnWritten(s) \/ RunPosted(s)

GateNext ==
    \/ AcceptFails
    \/ \E s \in Sessions : \/ Accept(s) \/ ReadCompletes(s) \/ WriteCompletes(s)
                           \/ TimerExpires(s) \/ Handler(s)
    \/ \E w \in Shards : ForwardGameToClients(w)

\* The shards' threads run what is queued, and an armed timer fires; clients
\* and the game server owe nothing.
GateSpec ==
    /\ GateInit /\ [][GateNext]_gateVars
    /\ \A s \in Sessions : /\ WF_gateVars(OnHead(s)) /\ WF_gateVars(OnBody(s))
                         /\ WF_gateVars(OnReadError(s)) /\ WF_gateVars(OnTimer(s))
                         /\ WF_gateVars(OnWritten(s)) /\ WF_gateVars(RunPosted(s))
                         /\ WF_gateVars(TimerExpires(s))

-----------------------------------------------------------------------------
(* Properties.                                                             *)

IsMap(f, D, R) == DOMAIN f \subseteq D /\ \A x \in DOMAIN f : f[x] \in R

\* The sessions and the maps hold what their declarations say.
GateTypeOK ==
    /\ sess \in [Sessions -> Session]
    /\ user_session_mgr \in [Shards -> SUBSET Sessions]
    /\ DOMAIN user_id_mgr = Shards
    /\ \A w \in Shards : IsMap(user_id_mgr[w], Uids, Sessions)
    /\ IsMap(registry, Uids, Sessions)
    /\ posted \in [Sessions -> Nat]
    /\ told \in [Uids -> {"nothing", "request", "disconnect"}]
    /\ idx \in Shards /\ packets \in 0 .. MaxPackets /\ replies \in 0 .. MaxReplies

\* A client that is logged in can be reached from everywhere: its shard's two
\* maps and the registry lead to its session, also after logging in again, on
\* this account or another.
LiveSessionIsReachable ==
    \A s \in Sessions : Live(s) =>
      /\ s \in user_session_mgr[sess[s].shard]
      /\ sess[s].uid # NoUid =>
           /\ FindSessionByUid(sess[s].shard, sess[s].uid) = {s}
           /\ sess[s].uid \in DOMAIN registry /\ registry[sess[s].uid] = s

\* What a shard finds is worth finding: FindSessionByUid, on any shard and for
\* any uid, gives a session that is connected, is on that shard and has that
\* uid now.  The index may keep a uid of a closed session (a login that was
\* still queued when it closed); the map of sessions is what stops it.
FoundSessionIsLive ==
    \A w \in Shards, uid \in Uids : \A s \in FindSessionByUid(w, uid) :
      Live(s) /\ sess[s].shard = w /\ sess[s].uid = uid

\* The session a registry entry names has that uid now: logging in on another
\* account leaves no entry behind, whatever packets, replies and closes come
\* between.
RegistryEntryIsCurrent ==
    \A uid \in DOMAIN registry : sess[registry[uid]].uid = uid

\* No lost wake-up: while a connected session has a packet to send, a write
\* loop is under way that will take it.
SessionQueueIsWritten ==
    \A s \in Sessions :
      /\ Live(s) /\ sess[s].send_que > 0 => sess[s].is_writing
      /\ sess[s].is_writing <=> sess[s].writer # "none"

\* A client that falls silent is closed: the supply of packets is bounded, and
\* the heartbeat, however often it was started again, ends every session.
SilentSessionIsClosed == \A s \in Sessions : Live(s) ~> ~Live(s)
=============================================================================
