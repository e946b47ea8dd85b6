------------------------------ MODULE ConnPool ------------------------------
(***************************************************************************)
(* The gateway's side of the links: a work shard's pool of connections to  *)
(* the game server (GameServerConnPool) and each connection's life         *)
(* (ClientSession): connecting with a timeout, reading, writing, the       *)
(* heartbeat, and being replaced by the pool's detection loop.             *)
(*                                                                         *)
(* All of it runs on the work shard's thread, except Stop.  An action is   *)
(* one handler up to its next co_await, or the world completing an         *)
(* operation, which queues its handler; what is queued runs even if the    *)
(* connection is closed first.  States Error and Timeout only last until   *)
(* the close() in the same handler.                                        *)
(***************************************************************************)
EXTENDS Integers

CONSTANTS
    ConnCount,            \* GAMESERVER_CONN_CNT
    kMaxSendQueueDepth,
    TimeoutIntervals,     \* kBackendHeartbeatTimeout in heartbeat intervals
    MaxConns,             \* bound: connections made for one slot
    MaxMessages,          \* bound: messages posted in a run
    MaxStops              \* bound: is Stop called (1) or not (0)

ASSUME ConnCountPositive == ConnCount \in Nat \ {0}
ASSUME PoolBoundsNat ==
    /\ kMaxSendQueueDepth \in Nat \ {0} /\ TimeoutIntervals \in Nat \ {0}
    /\ MaxConns \in Nat \ {0} /\ MaxMessages \in Nat /\ MaxStops \in {0, 1}

PoolSlots == 0 .. ConnCount - 1
Conns == PoolSlots \X (1 .. MaxConns)

VARIABLES
    sessions,     \* sessions_: slot -> the number of its current connection
    conn,         \* the ClientSession objects
    rr_idx,       \* rr_idx_, modulo the number of connections
    detector,     \* the detection coroutine: "waiting", "fired", "aborted", "end"
    stop,         \* Stop: "no", "cancelled", "cleared", "stopped"
    overrun,      \* the detection loop has read past the end of sessions_
    posted        \* messages posted so far

poolVars == <<sessions, conn, rr_idx, detector, stop, overrun, posted>>

-----------------------------------------------------------------------------
(* ClientSession.                                                          *)

States == {"Null", "Connecting", "Connected", "Busy", "closed"}

Connection ==
    [state : States,
     connect : {"none", "pending", "ok", "err", "done"},
     connect_timer : {"off", "armed", "fired"},
     keeper : {"none", "spawned", "waiting", "fired", "aborted", "end"},   \* keep_alive
     reader : {"none", "reading", "got", "err", "end"},                    \* HandleRead
     writer : {"none", "spawned", "writing", "write_ok", "write_err"},     \* start_write_loop
     send_que : 0 .. kMaxSendQueueDepth,      \* how many packets are queued
     is_writing : BOOLEAN,
     silent : 0 .. TimeoutIntervals + 1]      \* intervals since last_pong_time_

NullConn == [state |-> "Null", connect |-> "none", connect_timer |-> "off", keeper |-> "none",
             reader |-> "none", writer |-> "none", send_que |-> 0, is_writing |-> FALSE,
             silent |-> 0]

\* CreateConn: the constructor and handleconnect up to the connect.
NewConn == [NullConn EXCEPT !.state = "Connecting", !.connect = "pending",
                            !.connect_timer = "armed"]

Available(x) == x.state \in {"Connected", "Busy"}

PendingOrAvailable_NotNull(x) == x.state # "Null"

PendingOrAvailable(x) == x.state \in {"Connecting", "Connected", "Busy"}

\* close: the timer and the socket are cancelled; what is queued stays.
\* The send queue is left as it is.
CloseConn(x) ==
    IF x.state = "closed" THEN x
    ELSE [x EXCEPT !.state = "closed",
                   !.connect_timer = IF @ = "armed" THEN "off" ELSE @,
                   !.connect = IF @ = "pending" THEN "err" ELSE @,
                   !.keeper = IF @ = "waiting" THEN "aborted" ELSE @,
                   !.reader = IF @ = "reading" THEN "err" ELSE @,
                   !.writer = IF @ = "writing" THEN "write_err" ELSE @]

SendData_NoLimit(x) ==
    [x EXCEPT !.send_que = @ + 1,
              !.is_writing = TRUE,
              !.writer = IF x.is_writing THEN @ ELSE "spawned"]

\* SendData: a full queue loses its oldest packet to the new one.  There is no
\* check that the connection is open.
SendData(x) ==
    [x EXCEPT !.send_que = IF @ >= kMaxSendQueueDepth THEN @ ELSE @ + 1,
              !.is_writing = TRUE,
              !.writer = IF x.is_writing THEN @ ELSE "spawned"]

OnConnected_NoCheck(x) ==
    SendData(SendData([x EXCEPT !.state = "Connected", !.silent = 0, !.reader = "reading",
                                !.keeper = "spawned"]))

OnConnected_NoKeeper(x) ==
    IF x.state = "closed" THEN x
    ELSE SendData(SendData([x EXCEPT !.state = "Connected", !.silent = 0, !.reader = "reading"]))

\* handleconnect after a successful connect: nothing if the timeout closed
\* the connection first; else say hello, ping, and start to read and to keep
\* the link alive.
OnConnected(x) ==
    IF x.state = "closed" THEN x
    ELSE SendData(SendData([x EXCEPT !.state = "Connected", !.silent = 0, !.reader = "reading",
                                     !.keeper = "spawned"]))

WriteLoop_StaysBusy(x) ==
    IF x.send_que > 0 /\ Available(x)
    THEN [x EXCEPT !.state = "Busy", !.send_que = @ - 1, !.writer = "writing"]
    ELSE [x EXCEPT !.writer = "none", !.is_writing = FALSE]

WriteLoop_Reopens(x) ==
    IF x.send_que > 0 /\ Available(x)
    THEN [x EXCEPT !.state = "Busy", !.send_que = @ - 1, !.writer = "writing"]
    ELSE [x EXCEPT !.writer = "none", !.is_writing = FALSE, !.state = "Connected"]

\* One round of start_write_loop.
WriteLoop(x) ==
    IF x.send_que > 0 /\ Available(x)
    THEN [x EXCEPT !.state = "Busy", !.send_que = @ - 1, !.writer = "writing"]
    ELSE [x EXCEPT !.writer = "none", !.is_writing = FALSE,
                   !.state = IF @ = "Busy" THEN "Connected" ELSE @]

Others == <<sessions, rr_idx, detector, stop, overrun, posted>>

\* A handler of connection c that turns it from conn[c] into x.
Becomes(c, x) == stop # "stopped" /\ conn' = [conn EXCEPT ![c] = x] /\ UNCHANGED Others

ConnectCompletes(c) ==
    /\ conn[c].connect = "pending"
    /\ \E r \in {"ok", "err"} : Becomes(c, [conn[c] EXCEPT !.connect = r])

ConnectTimerFires(c) ==
    /\ conn[c].connect_timer = "armed"
    /\ Becomes(c, [conn[c] EXCEPT !.connect_timer = "fired"])

\* The timeout handler only acts on a connection that is still connecting.
OnConnectTimeout(c) ==
    /\ conn[c].connect_timer = "fired"
    /\ LET x == [conn[c] EXCEPT !.connect_timer = "off"] IN
       Becomes(c, IF x.state = "Connecting" THEN CloseConn(x) ELSE x)

\* handleconnect after the connect: the timer is cancelled in any case.
OnConnect(c) ==
    /\ conn[c].connect \in {"ok", "err"}
    /\ LET x == [conn[c] EXCEPT !.connect = "done",
                                !.connect_timer = IF @ = "armed" THEN "off" ELSE @]
       IN  Becomes(c, IF conn[c].connect = "ok" THEN OnConnected(x) ELSE CloseConn(x))

\* A packet is read, or the link breaks or carries a bad header.
ReadCompletes(c) ==
    /\ conn[c].reader = "reading"
    /\ \E r \in {"got", "err"} : Becomes(c, [conn[c] EXCEPT !.reader = r])

\* A packet is handled also if the connection was closed while it was queued:
\* a pong is noted, anything else goes to the clients.
OnRead(c) ==
    /\ conn[c].reader = "got"
    /\ LET x == [conn[c] EXCEPT !.reader = IF conn[c].state = "closed" THEN "end" ELSE "reading"]
       IN  \/ Becomes(c, [x EXCEPT !.silent = 0])
           \/ Becomes(c, x)

OnReadError(c) ==
    /\ conn[c].reader = "err"
    /\ Becomes(c, [CloseConn(conn[c]) EXCEPT !.reader = "end"])

WriteCompletes(c) ==
    /\ conn[c].writer = "writing"
    /\ \E r \in {"write_ok", "write_err"} : Becomes(c, [conn[c] EXCEPT !.writer = r])

OnWrite(c) ==
    /\ conn[c].writer \in {"spawned", "write_ok"}
    /\ Becomes(c, WriteLoop(conn[c]))

OnWriteError(c) ==
    /\ conn[c].writer = "write_err"
    /\ Becomes(c, [CloseConn(conn[c]) EXCEPT !.writer = "none", !.is_writing = FALSE])

\* keep_alive at the head of its loop.
KeeperLoop(x) == [x EXCEPT !.keeper = IF Available(x) THEN "waiting" ELSE "end"]

OnKeeperStart(c) ==
    /\ conn[c].keeper = "spawned"
    /\ Becomes(c, KeeperLoop(conn[c]))

\* Five seconds pass without a pong being handled since the last one.
KeeperFires(c) ==
    /\ conn[c].keeper = "waiting"
    /\ Becomes(c, [conn[c] EXCEPT !.keeper = "fired",
                                  !.silent = IF @ <= TimeoutIntervals THEN @ + 1 ELSE @])

HeartbeatLate_Never(x) == {FALSE}

\* Is the last pong more than 15 s old?  After exactly that
\* many intervals it may be or not.
HeartbeatLate(x) ==
    IF x.silent < TimeoutIntervals THEN {FALSE}
    ELSE IF x.silent = TimeoutIntervals THEN BOOLEAN ELSE {TRUE}

\* keep_alive after the timer: close a silent link, or ping and wait again.
\* It does not look whether the connection was closed meanwhile.
OnKeeper(c) ==
    \/ /\ conn[c].keeper = "fired"
       /\ \E late \in HeartbeatLate(conn[c]) :
            Becomes(c, IF late THEN [CloseConn(conn[c]) EXCEPT !.keeper = "end"]
                       ELSE KeeperLoop(SendData(conn[c])))
    \/ /\ conn[c].keeper = "aborted"
       /\ Becomes(c, [conn[c] EXCEPT !.keeper = "end"])

-----------------------------------------------------------------------------
(* GameServerConnPool.                                                     *)

Current(i) == conn[<<i, sessions[i]>>]

Usable == {i \in PoolSlots : stop \in {"no", "cancelled"} /\ Available(Current(i))}

\* How far SelectConnUnsafe looks from rr_idx_ on until it finds slot i.
Distance(i) == (i - rr_idx) % ConnCount

\* PostMessage: the next available connection in turn takes the message; if
\* there is none it is lost.
PostMessage ==
    /\ stop # "stopped" /\ posted < MaxMessages
    /\ posted' = posted + 1
    /\ \/ /\ Usable = {}
          /\ UNCHANGED <<conn, rr_idx>>
       \/ \E i \in Usable :
            /\ \A k \in Usable : Distance(i) <= Distance(k)
            /\ rr_idx' = (i + 1) % ConnCount
            /\ conn' = [conn EXCEPT ![<<i, sessions[i]>>] = SendData(@)]
    /\ UNCHANGED <<sessions, detector, stop, overrun>>

DetectionTimer ==
    /\ detector = "waiting" /\ stop # "stopped"
    /\ detector' = "fired"
    /\ UNCHANGED <<sessions, conn, rr_idx, stop, overrun, posted>>

\* The slots whose connection the detection loop replaces.
Dead(i) == ~PendingOrAvailable(Current(i))

Rebuilt == {i \in PoolSlots : Dead(i) /\ sessions[i] < MaxConns}

\* A round of the detection loop.  Stop may have cleared sessions_ by then.
Detection ==
    /\ detector = "fired" /\ stop # "stopped"
    /\ detector' = "waiting"
    /\ \/ /\ stop \in {"no", "cancelled"}
          /\ sessions' = [i \in PoolSlots |-> IF i \in Rebuilt THEN sessions[i] + 1 ELSE sessions[i]]
          /\ conn' = [c \in Conns |->
                 IF c[1] \in Rebuilt /\ c[2] = sessions[c[1]] + 1 THEN NewConn
                 ELSE IF c[1] \in Rebuilt /\ c[2] = sessions[c[1]] THEN CloseConn(conn[c])
                 ELSE conn[c]]
          /\ UNCHANGED overrun
       \/ /\ stop = "cleared"
          /\ overrun' = TRUE
          /\ UNCHANGED <<sessions, conn>>
    /\ UNCHANGED <<rr_idx, stop, posted>>

DetectionAborted ==
    /\ detector = "aborted"
    /\ detector' = "end"
    /\ UNCHANGED <<sessions, conn, rr_idx, stop, overrun, posted>>

\* Stop, called by the thread that stops the work shard: cancel the timer,
\* close and forget the connections; then WorkShard::stop stops the
\* io_context.
Stop ==
    \/ /\ stop = "no" /\ MaxStops = 1
       /\ stop' = "cancelled"
       /\ detector' = IF detector = "waiting" THEN "aborted" ELSE detector
       /\ UNCHANGED <<sessions, conn, rr_idx, overrun, posted>>
    \/ /\ stop = "cancelled"
       /\ stop' = "cleared"
       /\ conn' = [c \in Conns |-> IF c[2] = sessions[c[1]] THEN CloseConn(conn[c]) ELSE conn[c]]
       /\ rr_idx' = 0
       /\ UNCHANGED <<sessions, detector, overrun, posted>>
    \/ /\ stop = "cleared"
       /\ stop' = "stopped"
       /\ UNCHANGED <<sessions, conn, rr_idx, detector, overrun, posted>>

-----------------------------------------------------------------------------
PoolInit ==
    /\ sessions = [i \in PoolSlots |-> 1]
    /\ conn = [c \in Conns |-> IF c[2] = 1 THEN NewConn ELSE NullConn]
    /\ rr_idx = 0
    /\ detector = "waiting"
    /\ stop = "no"
    /\ overrun = FALSE
    /\ posted = 0

ConnHandler(c) ==
    \/ OnConnectTimeout(c) \/ OnConnect(c)
    \/ OnRead(c) \/ OnReadError(c)
    \/ OnWrite(c) \/ OnWriteError(c)
    \/ OnKeeperStart(c) \/ OnKeeper(c)

ConnWorld(c) ==
    \/ ConnectCompletes(c) \/ ConnectTimerFires(c)
    \/ ReadCompletes(c) \/ WriteCompletes(c)
    \/ KeeperFires(c)

PoolNext ==
    \/ \E c \in Conns : ConnHandler(c) \/ ConnWorld(c)
    \/ PostMessage
    \/ DetectionTimer \/ Detection \/ DetectionAborted
    \/ Stop

PoolSpec == PoolInit /\ [][PoolNext]_poolVars

\* The thread runs what is queued and timers fire; the network owes nothing.
PoolFairness ==
    /\ \A c \in Conns : /\ WF_poolVars(OnConnectTimeout(c)) /\ WF_poolVars(OnConnect(c))
                        /\ WF_poolVars(ConnectTimerFires(c))
                        /\ WF_poolVars(OnReadError(c)) /\ WF_poolVars(OnRead(c))
                        /\ WF_poolVars(OnWriteError(c)) /\ WF_poolVars(OnWrite(c))
                        /\ WF_poolVars(OnKeeperStart(c)) /\ WF_poolVars(OnKeeper(c))
                        /\ WF_poolVars(KeeperFires(c))
    /\ WF_poolVars(DetectionTimer) /\ WF_poolVars(Detection)

PoolFairSpec == PoolSpec /\ PoolFairness

-----------------------------------------------------------------------------
(* Properties.                                                             *)

\* Connections and pool hold what their declarations say.
PoolTypeOK ==
    /\ sessions \in [PoolSlots -> 1 .. MaxConns]
    /\ conn \in [Conns -> Connection]
    /\ rr_idx \in PoolSlots
    /\ detector \in {"waiting", "fired", "aborted", "end"}
    /\ stop \in {"no", "cancelled", "cleared", "stopped"}
    /\ overrun \in BOOLEAN /\ posted \in Nat

\* Only a slot's current connection is in use: a connection that was replaced
\* is closed for good, so no message is read from or written to a link the
\* pool has given up.
ReplacedIsClosed ==
    \A c \in Conns : c[2] < sessions[c[1]] => conn[c].state = "closed"

\* Closed is final: no handler that was queued before the close (the connect,
\* its timeout, a write, the heartbeat) makes the connection usable again.
ClosedStaysClosed ==
    [][\A c \in Conns : conn[c].state = "closed" => conn'[c].state = "closed"]_poolVars

\* A connection that takes messages is watched: its reader and its heartbeat
\* run, so that a dead peer is noticed.
AvailableIsWatched ==
    \A c \in Conns : Available(conn[c]) =>
      /\ conn[c].keeper \notin {"none", "aborted", "end"}
      /\ conn[c].reader \notin {"none", "end"}

\* No lost wake-up: queued packets of a usable connection have a write loop,
\* there is never a second one, and Busy means it is running.
BackendQueueIsWritten ==
    \A c \in Conns : Available(conn[c]) =>
      /\ conn[c].send_que > 0 => conn[c].writer # "none"
      /\ conn[c].is_writing <=> conn[c].writer # "none"
      /\ conn[c].state = "Busy" => conn[c].writer \in {"writing", "write_ok", "write_err"}

\* A slot whose connection died is connecting again in the end.
DeadSlotIsRebuilt ==
    \A i \in PoolSlots :
      (Current(i).state = "closed" /\ sessions[i] < MaxConns) ~>
          (Current(i).state # "closed" \/ stop # "no")

\* A connection on which pongs stop coming is closed: from any point on a
\* pong is handled, or the connection ends.
SilentLinkIsClosed ==
    \A c \in Conns :
      (Available(conn[c]) /\ conn[c].silent > 0) ~>
          (conn[c].silent = 0 \/ conn[c].state = "closed" \/ stop # "no")
=============================================================================
