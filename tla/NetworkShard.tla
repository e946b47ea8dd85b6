---------------------------- MODULE NetworkShard ----------------------------
(***************************************************************************)
(* One network shard: its link slots, the sessions of the gateway links,   *)
(* the accept chain, reading, writing and shutting down.                   *)
(*                                                                         *)
(* The shard is one thread running one io_context.  An action is either    *)
(* one completion handler, which runs to its next co_await, or the world   *)
(* completing an operation, which queues that handler.  Between the two    *)
(* other handlers run: a read that has completed is still delivered after  *)
(* the session was closed.  The logic side is one logic shard's uid_route_ *)
(* and its SendToPlayers.                                                  *)
(***************************************************************************)
EXTENDS Integers, FiniteSets, Sequences

CONSTANTS
    Uids,
    LinkCount,            \* max_links of the shard
    kMaxSendQueueDepth,
    MaxAccepts,           \* bound: accepts that complete in a run
    MaxPackets,           \* bound: packets the gateways send in a run
    MaxTasks              \* bound: messages the logic shard sends in a run

ASSUME LinkCountPositive == LinkCount \in Nat \ {0}
ASSUME NetBoundsNat ==
    /\ kMaxSendQueueDepth \in Nat \ {0}
    /\ MaxAccepts \in Nat /\ MaxPackets \in Nat /\ MaxTasks \in Nat

Links == 0 .. LinkCount - 1
Generations == 1 .. MaxAccepts + 1

\* A session is named by the slot and the generation DoAccept bound it to.
Sids == Links \X Generations
NoSession == <<>>

VARIABLES
    slots,         \* slots_
    sess,          \* the GatewayLinkSession objects
    accepts,       \* async_accept operations and how they completed
    retry,         \* retry_timer_: "off", "armed" or "fired" (handler queued)
    stopping,      \* stopping_
    stop_task,     \* the handler Stop posts: "none", "posted" or "done"
    logic,         \* tasks posted to the logic shard
    uid_route,     \* its uid_route_
    tasks,         \* NetworkTasks posted to this shard
    packets,       \* packets received so far
    sends          \* NetworkTasks made so far

netShardVars == <<slots, sess, accepts, retry, stopping, stop_task, logic, uid_route, tasks,
                  packets, sends>>

-----------------------------------------------------------------------------
(* GatewayLinkSession.  reader and writer are where its two coroutines     *)
(* stand: waiting for an operation, or holding its queued result.          *)

ReaderStates == {"none", "head", "head_ok", "head_err", "body", "body_ok", "body_err", "end"}
WriterStates == {"none", "spawned", "writing", "write_ok", "write_err"}

\* A packet is known by the generation of the route it was sent to; a pong
\* has none.
Pong == 0

Session == [state : {"Null", "Invalid", "Conected", "Closed"},
            reader : ReaderStates,
            writer : WriterStates,
            send_que : Seq({Pong} \cup Generations),
            is_writing : BOOLEAN]

NullSession == [state |-> "Null", reader |-> "none", writer |-> "none",
                send_que |-> <<>>, is_writing |-> FALSE]

\* Start: the reader waits for a header.
Started(x) == [x EXCEPT !.state = "Conected", !.reader = "head"]

\* Close of a session object: its pending operations are aborted; a result
\* that is already queued stays what it is.
Closed(x) ==
    [x EXCEPT !.state = "Closed",
              !.send_que = <<>>,
              !.is_writing = FALSE,
              !.reader = IF @ = "head" THEN "head_err" ELSE IF @ = "body" THEN "body_err" ELSE @,
              !.writer = IF @ = "writing" THEN "write_err" ELSE @]

OnSessionClosed_KeepState(sl, sid) ==
    IF sl[sid[1]].generation = sid[2]
    THEN [sl EXCEPT ![sid[1]].session = NoSession]
    ELSE sl

\* OnSessionClosed frees the slot, unless it is on to another generation.
OnSessionClosed(sl, sid) ==
    IF sl[sid[1]].generation = sid[2]
    THEN [sl EXCEPT ![sid[1]].state = "Closed", ![sid[1]].session = NoSession]
    ELSE sl

\* Close of session sid: the sessions and the slots afterwards.
CloseIn(ss, sid) == IF ss[sid].state = "Closed" THEN ss ELSE [ss EXCEPT ![sid] = Closed(@)]
SlotsAfterClose(ss, sl, sid) == IF ss[sid].state = "Closed" THEN sl ELSE OnSessionClosed(sl, sid)

Bounded(q) == IF Len(q) >= kMaxSendQueueDepth THEN Tail(q) ELSE q

\* PostSend drops the oldest packet of a full queue, and starts the write
\* loop unless one is under way.
PostSend(x, packet) ==
    IF x.state = "Closed" THEN x
    ELSE [x EXCEPT !.send_que = Append(Bounded(@), packet),
                   !.is_writing = TRUE,
                   !.writer = IF x.is_writing THEN @ ELSE "spawned"]

-----------------------------------------------------------------------------
(* Accepting.                                                              *)

SlotStates == {"Empty", "Accepting", "Connected", "Closed"}

FreeSlots(sl) == {l \in Links : sl[l].state \in {"Empty", "Closed"}}

FindAvailableSlot(sl) == CHOOSE l \in FreeSlots(sl) : \A k \in FreeSlots(sl) : l <= k

\* DoAccept on the slots sl, sessions ss, operations acc and timer rt that a
\* handler leaves: claim the first free slot for a new session, or look again
\* in 50 ms.
DoAccept(sl, ss, acc, rt) ==
    \/ /\ stopping
       /\ slots' = sl /\ sess' = ss /\ accepts' = acc /\ retry' = rt
    \/ /\ ~stopping /\ FreeSlots(sl) = {}
       /\ slots' = sl /\ sess' = ss /\ accepts' = acc /\ retry' = "armed"
    \/ /\ ~stopping /\ FreeSlots(sl) # {}
       /\ LET l == FindAvailableSlot(sl)
              sid == <<l, sl[l].generation + 1>>
          IN  /\ slots' = [sl EXCEPT ![l] =
                     [state |-> "Accepting", generation |-> sid[2], session |-> sid]]
              /\ sess' = [ss EXCEPT ![sid] = [NullSession EXCEPT !.state = "Invalid"]]
              /\ accepts' = acc \cup {[sid |-> sid, result |-> "pending"]}
       /\ retry' = rt

\* A gateway connects, or the accept fails.  The bound is on what the world
\* does, so that the chain of accepts itself never ends at it.
AcceptCompletes(op) ==
    /\ op.result = "pending"
    /\ \A l \in Links : slots[l].generation <= MaxAccepts
    /\ \E r \in {"ok", "error"} : accepts' = (accepts \ {op}) \cup {[op EXCEPT !.result = r]}
    /\ UNCHANGED <<slots, sess, retry, stopping, stop_task, logic, uid_route, tasks, packets, sends>>

OnAcceptOk_NoChain(op) ==
    LET l == op.sid[1] IN
    /\ op.result = "ok"
    /\ slots' = [slots EXCEPT ![l].state = "Connected"]
    /\ sess' = [sess EXCEPT ![op.sid] = Started(@)]
    /\ accepts' = accepts \ {op}
    /\ UNCHANGED retry

\* The accept handler: the session starts if the slot still waits for it.
OnAcceptOk(op) ==
    LET l == op.sid[1]
        awaited == /\ slots[l].generation = op.sid[2]
                   /\ slots[l].state = "Accepting" /\ slots[l].session # NoSession
    IN  /\ op.result = "ok"
        /\ IF awaited
           THEN DoAccept([slots EXCEPT ![l].state = "Connected"],
                         [sess EXCEPT ![slots[l].session] = Started(@)], accepts \ {op}, retry)
           ELSE DoAccept(slots, sess, accepts \ {op}, retry)

\* The accept handler with an error: the session is closed and its slot
\* freed; only shutting down (aborted) ends the chain.
OnAcceptError(op) ==
    LET l == op.sid[1]
        current == slots[l].generation = op.sid[2]
        ss == IF current /\ slots[l].session # NoSession
              THEN CloseIn(sess, slots[l].session) ELSE sess
        sl == IF current
              THEN [slots EXCEPT ![l].state = "Closed", ![l].session = NoSession] ELSE slots
    IN  \/ /\ op.result = "error"
           /\ DoAccept(sl, ss, accepts \ {op}, retry)
        \/ /\ op.result = "aborted"
           /\ slots' = sl /\ sess' = ss /\ accepts' = accepts \ {op}
           /\ UNCHANGED retry

OnAccept(op) ==
    /\ OnAcceptOk(op) \/ OnAcceptError(op)
    /\ UNCHANGED <<stopping, stop_task, logic, uid_route, tasks, packets, sends>>

RetryFires ==
    /\ retry = "armed"
    /\ retry' = "fired"
    /\ UNCHANGED <<slots, sess, accepts, stopping, stop_task, logic, uid_route, tasks, packets, sends>>

OnRetry_Periodic ==
    /\ retry = "fired"
    /\ DoAccept(slots, sess, accepts, "armed")
    /\ UNCHANGED <<stopping, stop_task, logic, uid_route, tasks, packets, sends>>

OnRetry ==
    /\ retry = "fired"
    /\ DoAccept(slots, sess, accepts, "off")
    /\ UNCHANGED <<stopping, stop_task, logic, uid_route, tasks, packets, sends>>

-----------------------------------------------------------------------------
(* Reading.                                                                *)

SetReader(sid, r) == sess' = [sess EXCEPT ![sid].reader = r]

\* A header or a body arrives, or the link breaks or carries a bad header.
ReadCompletes(sid) ==
    /\ \/ /\ sess[sid].reader = "head" /\ packets < MaxPackets
          /\ packets' = packets + 1
          /\ SetReader(sid, "head_ok")
       \/ /\ sess[sid].reader = "body"
          /\ SetReader(sid, "body_ok")
          /\ UNCHANGED packets
       \/ /\ sess[sid].reader \in {"head", "body"}
          /\ SetReader(sid, IF sess[sid].reader = "head" THEN "head_err" ELSE "body_err")
          /\ UNCHANGED packets
    /\ UNCHANGED <<slots, accepts, retry, stopping, stop_task, logic, uid_route, tasks, sends>>

\* After the header: handle_read stops if the session was closed meanwhile.
OnHead(sid) ==
    /\ sess[sid].reader = "head_ok"
    /\ SetReader(sid, IF sess[sid].state = "Closed" THEN "end" ELSE "body")
    /\ UNCHANGED <<slots, accepts, retry, stopping, stop_task, logic, uid_route, tasks, packets, sends>>

\* A failed read closes the session.
OnReadError(sid) ==
    /\ sess[sid].reader \in {"head_err", "body_err"}
    /\ sess' = [CloseIn(sess, sid) EXCEPT ![sid].reader = "end"]
    /\ slots' = SlotsAfterClose(sess, slots, sid)
    /\ UNCHANGED <<accepts, retry, stopping, stop_task, logic, uid_route, tasks, packets, sends>>

MakeRoute_NoGeneration(l) == [link |-> l, generation |-> 0]

\* MakeRoute: the generation is the slot's, not the session's.
MakeRoute(l) == [link |-> l, generation |-> slots[l].generation]

\* The reader goes on with the next header unless the session is closed.
NextRead(x) == IF x.state = "Closed" THEN "end" ELSE "head"

Sendable(l) == /\ slots[l].state = "Connected" /\ slots[l].session # NoSession
               /\ sess[slots[l].session].state = "Conected"

\* After the body: OnPacket, whether or not the session was closed while the
\* body was read.  A request goes to the logic shard with the route of the
\* slot; a ping is answered over the slot's session; a hello is only logged.
OnBody(sid) ==
    LET l == sid[1]
        ss == [sess EXCEPT ![sid].reader = NextRead(sess[sid])]
    IN  /\ sess[sid].reader = "body_ok"
        /\ \/ /\ ~stopping
              /\ \E uid \in Uids : logic' = Append(logic, [uid |-> uid, origin |-> MakeRoute(l),
                                                          carrier |-> sid])
              /\ sess' = ss
           \/ /\ ~stopping
              /\ sess' = IF Sendable(l)
                         THEN [ss EXCEPT ![slots[l].session] = PostSend(@, Pong)] ELSE ss
              /\ UNCHANGED logic
           \/ /\ sess' = ss            \* GateLinkHello, or the shard is stopping
              /\ UNCHANGED logic
        /\ UNCHANGED <<slots, accepts, retry, stopping, stop_task, uid_route, tasks, packets, sends>>

-----------------------------------------------------------------------------
(* Writing.                                                                *)

WriteLoop_KeepFlag(x) ==
    IF x.send_que # <<>> /\ x.state # "Closed"
    THEN [x EXCEPT !.send_que = Tail(@), !.writer = "writing"]
    ELSE [x EXCEPT !.writer = "none"]

\* One round of start_write_loop: write the next packet or end.
WriteLoop(x) ==
    IF x.send_que # <<>> /\ x.state # "Closed"
    THEN [x EXCEPT !.send_que = Tail(@), !.writer = "writing"]
    ELSE [x EXCEPT !.writer = "none", !.is_writing = FALSE]

OnWrite(sid) ==
    /\ sess[sid].writer \in {"spawned", "write_ok"}
    /\ sess' = [sess EXCEPT ![sid] = WriteLoop(@)]
    /\ UNCHANGED <<slots, accepts, retry, stopping, stop_task, logic, uid_route, tasks, packets, sends>>

WriteCompletes(sid) ==
    /\ sess[sid].writer = "writing"
    /\ \E r \in {"write_ok", "write_err"} : sess' = [sess EXCEPT ![sid].writer = r]
    /\ UNCHANGED <<slots, accepts, retry, stopping, stop_task, logic, uid_route, tasks, packets, sends>>

OnWriteError(sid) ==
    /\ sess[sid].writer = "write_err"
    /\ sess' = [CloseIn(sess, sid) EXCEPT ![sid].writer = "none", ![sid].is_writing = FALSE]
    /\ slots' = SlotsAfterClose(sess, slots, sid)
    /\ UNCHANGED <<accepts, retry, stopping, stop_task, logic, uid_route, tasks, packets, sends>>

-----------------------------------------------------------------------------
(* The logic shard's side, and the way back.                               *)

\* handleTask remembers the route.
LogicHandles ==
    /\ logic # <<>>
    /\ uid_route' = [uid_route EXCEPT ![Head(logic).uid] = Head(logic).origin]
    /\ logic' = Tail(logic)
    /\ UNCHANGED <<slots, sess, accepts, retry, stopping, stop_task, tasks, packets, sends>>

NoRoute == [link |-> LinkCount, generation |-> 0]

On(uids, l) == {u \in uids : uid_route[u].link = l}

\* SendToPlayers merges the uids of one link into one target; the last of
\* them, in the order of the room's hash map, leaves its generation there.
SendToPlayers(uids) ==
    LET used == {uid_route[u].link : u \in uids} \ {NoRoute.link} IN
    /\ used # {} /\ sends < MaxTasks
    /\ \E last \in [used -> uids] :
         /\ \A l \in used : last[l] \in On(uids, l)
         /\ tasks' = Append(tasks, {[link |-> l, generation |-> uid_route[last[l]].generation,
                                     uids |-> On(uids, l)] : l \in used})
    /\ sends' = sends + 1
    /\ UNCHANGED <<slots, sess, accepts, retry, stopping, stop_task, logic, uid_route, packets>>

Reaches_AnyGeneration(t) == Sendable(t.link)

\* A target that is out of date is skipped.
Reaches(t) == slots[t.link].generation = t.generation /\ Sendable(t.link)

HandleNetworkTask ==
    /\ tasks # <<>>
    /\ tasks' = Tail(tasks)
    /\ sess' = [sid \in Sids |->
           IF ~stopping /\ \E t \in Head(tasks) : Reaches(t) /\ slots[t.link].session = sid
           THEN PostSend(sess[sid], (CHOOSE t \in Head(tasks) : t.link = sid[1]).generation)
           ELSE sess[sid]]
    /\ UNCHANGED <<slots, accepts, retry, stopping, stop_task, logic, uid_route, packets, sends>>

-----------------------------------------------------------------------------
(* Stop: the flag is set by the caller's thread, the rest runs here.       *)

Stop ==
    /\ ~stopping
    /\ stopping' = TRUE
    /\ stop_task' = "posted"
    /\ UNCHANGED <<slots, sess, accepts, retry, logic, uid_route, tasks, packets, sends>>

SlotSessions == {slots[l].session : l \in Links} \ {NoSession}

StopSessions_Leave == {}

StopSessions == SlotSessions

OnStop ==
    /\ stop_task = "posted"
    /\ stop_task' = "done"
    /\ accepts' = {IF op.result = "pending" THEN [op EXCEPT !.result = "aborted"] ELSE op :
                       op \in accepts}
    /\ retry' = IF retry = "armed" THEN "off" ELSE retry
    /\ sess' = [sid \in Sids |-> IF sid \in StopSessions THEN CloseIn(sess, sid)[sid] ELSE sess[sid]]
    /\ slots' = [l \in Links |-> [slots[l] EXCEPT !.state = "Closed", !.session = NoSession]]
    /\ UNCHANGED <<stopping, logic, uid_route, tasks, packets, sends>>

-----------------------------------------------------------------------------
\* Start has posted the first DoAccept and it has run.
NetInit ==
    /\ slots = [l \in Links |->
           IF l = 0 THEN [state |-> "Accepting", generation |-> 1, session |-> <<0, 1>>]
           ELSE [state |-> "Empty", generation |-> 0, session |-> NoSession]]
    /\ sess = [sid \in Sids |->
           IF sid = <<0, 1>> THEN [NullSession EXCEPT !.state = "Invalid"] ELSE NullSession]
    /\ accepts = {[sid |-> <<0, 1>>, result |-> "pending"]}
    /\ retry = "off"
    /\ stopping = FALSE /\ stop_task = "none"
    /\ logic = <<>> /\ tasks = <<>>
    /\ uid_route = [u \in Uids |-> NoRoute]
    /\ packets = 0 /\ sends = 0

\* What the shard's own thread does.
Handlers ==
    \/ \E op \in accepts : OnAccept(op)
    \/ OnRetry
    \/ \E sid \in Sids : OnHead(sid) \/ OnBody(sid) \/ OnReadError(sid)
                         \/ OnWrite(sid) \/ OnWriteError(sid)
    \/ HandleNetworkTask
    \/ OnStop

\* What the operating system, the gateways and other threads do.
World ==
    \/ \E op \in accepts : AcceptCompletes(op)
    \/ RetryFires
    \/ \E sid \in Sids : ReadCompletes(sid) \/ WriteCompletes(sid)
    \/ LogicHandles
    \/ \E uids \in SUBSET Uids : SendToPlayers(uids)
    \/ Stop

NetNext == Handlers \/ World

NetSpec == NetInit /\ [][NetNext]_netShardVars

\* The thread runs every queued handler, and an armed timer fires.
NetFairness ==
    /\ WF_netShardVars(\E op \in accepts : OnAccept(op))
    /\ WF_netShardVars(OnRetry) /\ WF_netShardVars(RetryFires)
    /\ \A sid \in Sids : /\ WF_netShardVars(OnHead(sid)) /\ WF_netShardVars(OnBody(sid))
                         /\ WF_netShardVars(OnReadError(sid))
                         /\ WF_netShardVars(OnWrite(sid)) /\ WF_netShardVars(OnWriteError(sid))
    /\ WF_netShardVars(HandleNetworkTask)
    /\ WF_netShardVars(OnStop)

NetFairSpec == NetSpec /\ NetFairness

-----------------------------------------------------------------------------
(* Properties.                                                             *)

Route == [link : Links, generation : Generations] \cup {NoRoute}

\* Slots, sessions and queues hold what their declarations say.
NetTypeOK ==
    /\ slots \in [Links -> [state : SlotStates, generation : Generations \cup {0},
                            session : Sids \cup {NoSession}]]
    /\ sess \in [Sids -> Session]
    /\ accepts \subseteq [sid : Sids, result : {"pending", "ok", "error", "aborted"}]
    /\ retry \in {"off", "armed", "fired"}
    /\ stopping \in BOOLEAN /\ stop_task \in {"none", "posted", "done"}
    /\ logic \in Seq([uid : Uids, origin : Route, carrier : Sids])
    /\ uid_route \in [Uids -> Route]

\* A link that is up is the session of its slot, of the slot's generation,
\* and a slot that says Connected has one: no live link is out of reach of
\* replies, and two live links never share a slot.
LiveLinksOwnTheirSlots ==
    /\ \A sid \in Sids : sess[sid].state = "Conected" =>
         slots[sid[1]] = [state |-> "Connected", generation |-> sid[2], session |-> sid]
    /\ \A l \in Links : slots[l].state = "Connected" =>
         slots[l].session # NoSession /\ sess[slots[l].session].state = "Conected"

\* There is at most one accept under way, and while it waits its slot is
\* reserved for it.
OneAcceptAtATime ==
    /\ \A op1, op2 \in accepts : op1 = op2
    /\ \A op \in accepts : op.result = "pending" =>
         slots[op.sid[1]] = [state |-> "Accepting", generation |-> op.sid[2], session |-> op.sid]
    /\ accepts # {} => retry = "off"

\* No lost wake-up: a live link with packets to send has a write loop that is
\* running or about to run, and never two.
QueuedPacketsAreBeingWritten ==
    \A sid \in Sids : sess[sid].state = "Conected" =>
      /\ sess[sid].send_que # <<>> => sess[sid].writer # "none"
      /\ sess[sid].is_writing <=> sess[sid].writer # "none"

\* Backpressure: the queue of a link never outgrows its limit, and no packet
\* for another generation of the slot is ever in it.
OnlyOwnPacketsQueued ==
    \A sid \in Sids : LET q == sess[sid].send_que IN
      /\ Len(q) <= kMaxSendQueueDepth
      /\ \A i \in 1 .. Len(q) : q[i] \in {Pong, sid[2]}

\* A slot that is free is offered to the next gateway again.
FreeSlotIsOffered ==
    (FreeSlots(slots) # {} /\ ~stopping) ~>
        (stopping \/ \E op \in accepts : op.result = "pending")

Quiet ==
    /\ accepts = {} /\ retry = "off"
    /\ \A sid \in Sids : sess[sid].reader \in {"none", "end"} /\ sess[sid].writer = "none"

\* Stop ends: once it is called every operation of the shard runs out, so
\* that ioc_.run() returns and the join in Stop does not wait for ever.
StopDrains == stopping ~> []Quiet

\* A route names the link that carried the request, so that a reply to a
\* broken link is never sent to the link that replaced it.
RouteNamesItsLink ==
    \A i \in 1 .. Len(logic) :
      logic[i].origin = [link |-> logic[i].carrier[1], generation |-> logic[i].carrier[2]]
=============================================================================
