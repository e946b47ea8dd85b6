--------------------------- MODULE ConnPoolProofs ---------------------------
(***************************************************************************)
(* Proofs about ConnPool for any number of slots and of connections made   *)
(* for them, any queue limit and any heartbeat timeout.                    *)
(*                                                                         *)
(* Each handler looks at the one connection it belongs to, and any of them *)
(* may run after the connection was closed, or after it was replaced.  The *)
(* invariant says of every connection object, also of a closed one, what   *)
(* its handlers rely on, and of the slots that the objects after the       *)
(* current one are untouched and those before it closed.                   *)
(***************************************************************************)
EXTENDS ConnPool, TLAPS

\* is_writing_ says whether a write loop is under way, in whatever state the
\* connection is: a connection that opens sends at once.
FlagOK(x) == x.is_writing <=> x.writer # "none"

\* What AvailableIsWatched says of a connection.
WatchOK(x) ==
    Available(x) => /\ x.keeper \notin {"none", "aborted", "end"}
                    /\ x.reader \notin {"none", "end"}

\* What BackendQueueIsWritten says of a connection beyond FlagOK.
WriteOK(x) ==
    /\ Available(x) /\ x.send_que > 0 => x.writer # "none"
    /\ x.state = "Busy" => x.writer \in {"writing", "write_ok", "write_err"}

ConnOK(x) == FlagOK(x) /\ WatchOK(x) /\ WriteOK(x)

\* The objects that no Detection has made yet.
UnusedIsNull == \A c \in Conns : c[2] > sessions[c[1]] => conn[c] = NullConn

PoolInv ==
    /\ PoolTypeOK
    /\ \A c \in Conns : ConnOK(conn[c])
    /\ ReplacedIsClosed
    /\ UnusedIsNull

\* A handler makes y of x: y is well formed, and closed if x was.
Handled(x, y) == /\ y \in Connection /\ ConnOK(y)
                 /\ x.state = "closed" => y.state = "closed"

\* A step makes y of x: it leaves it alone, or handles one that was made.
Touched(x, y) == y = x \/ (x # NullConn /\ Handled(x, y))

-----------------------------------------------------------------------------
(* Connection objects.                                                     *)

\* A field of a connection is one of its declared values.
LEMMA FieldTypes ==
    ASSUME NEW x \in Connection
    PROVE  /\ x.state \in States
           /\ x.connect \in {"none", "pending", "ok", "err", "done"}
           /\ x.connect_timer \in {"off", "armed", "fired"}
           /\ x.keeper \in {"none", "spawned", "waiting", "fired", "aborted", "end"}
           /\ x.reader \in {"none", "reading", "got", "err", "end"}
           /\ x.writer \in {"none", "spawned", "writing", "write_ok", "write_err"}
           /\ x.send_que \in 0 .. kMaxSendQueueDepth /\ x.is_writing \in BOOLEAN
           /\ x.silent \in 0 .. TimeoutIntervals + 1
  BY DEF Connection

\* Giving a field another of its values leaves a connection.
LEMMA FieldUpdates ==
    ASSUME NEW x \in Connection
    PROVE  /\ \A v \in States : [x EXCEPT !.state = v] \in Connection
           /\ \A v \in {"none", "pending", "ok", "err", "done"} :
                [x EXCEPT !.connect = v] \in Connection
           /\ \A v \in {"off", "armed", "fired"} : [x EXCEPT !.connect_timer = v] \in Connection
           /\ \A v \in {"none", "spawned", "waiting", "fired", "aborted", "end"} :
                [x EXCEPT !.keeper = v] \in Connection
           /\ \A v \in {"none", "reading", "got", "err", "end"} :
                [x EXCEPT !.reader = v] \in Connection
           /\ \A v \in {"none", "spawned", "writing", "write_ok", "write_err"} :
                [x EXCEPT !.writer = v] \in Connection
           /\ \A v \in 0 .. kMaxSendQueueDepth : [x EXCEPT !.send_que = v] \in Connection
           /\ \A v \in BOOLEAN : [x EXCEPT !.is_writing = v] \in Connection
           /\ \A v \in 0 .. TimeoutIntervals + 1 : [x EXCEPT !.silent = v] \in Connection
  BY DEF Connection

\* Connections that were not made yet, and those just made, are well formed.
LEMMA FreshFacts ==
    /\ NullConn \in Connection /\ ConnOK(NullConn)
    /\ NewConn \in Connection /\ ConnOK(NewConn)
    /\ NullConn.state = "Null" /\ NewConn.state = "Connecting"
  <1>1. /\ NullConn \in Connection /\ NullConn.state = "Null" /\ NullConn.writer = "none"
        /\ NullConn.is_writing = FALSE
    BY PoolBoundsNat DEF NullConn, Connection, States
  <1>2. ASSUME NEW n \in Connection, n.writer = "none", n.is_writing = FALSE
        PROVE  LET x == [n EXCEPT !.state = "Connecting", !.connect = "pending",
                                  !.connect_timer = "armed"]
               IN  /\ x \in Connection /\ x.state = "Connecting"
                   /\ x.writer = "none" /\ x.is_writing = FALSE
    BY <1>2 DEF Connection, States
  <1>3. /\ NewConn \in Connection /\ NewConn.state = "Connecting" /\ NewConn.writer = "none"
        /\ NewConn.is_writing = FALSE
    BY <1>1, <1>2 DEF NewConn
  <1> QED
    BY <1>1, <1>3 DEF ConnOK, FlagOK, WatchOK, WriteOK, Available

\* close() of any connection leaves a closed one.
LEMMA CloseFacts ==
    ASSUME NEW x \in Connection, FlagOK(x)
    PROVE  /\ CloseConn(x) \in Connection /\ ConnOK(CloseConn(x))
           /\ CloseConn(x).state = "closed"
  <1>1. CASE x.state = "closed"
    BY <1>1 DEF CloseConn, ConnOK, FlagOK, WatchOK, WriteOK, Available
  <1>2. CASE x.state # "closed"
    <2> DEFINE y == CloseConn(x)
               timer == IF x.connect_timer = "armed" THEN "off" ELSE x.connect_timer
               connect == IF x.connect = "pending" THEN "err" ELSE x.connect
               keeper == IF x.keeper = "waiting" THEN "aborted" ELSE x.keeper
               reader == IF x.reader = "reading" THEN "err" ELSE x.reader
               writer == IF x.writer = "writing" THEN "write_err" ELSE x.writer
    <2>0. y = [x EXCEPT !.state = "closed", !.connect_timer = timer, !.connect = connect,
                        !.keeper = keeper, !.reader = reader, !.writer = writer]
      BY <1>2 DEF CloseConn, Connection
    <2>1. y \in Connection
      <3>1. /\ timer \in {"off", "armed", "fired"}
            /\ connect \in {"none", "pending", "ok", "err", "done"}
            /\ keeper \in {"none", "spawned", "waiting", "fired", "aborted", "end"}
            /\ reader \in {"none", "reading", "got", "err", "end"}
            /\ writer \in {"none", "spawned", "writing", "write_ok", "write_err"}
        BY FieldTypes
      <3> DEFINE z == [x EXCEPT !.state = "closed", !.connect_timer = timer, !.connect = connect]
      <3> HIDE DEF timer, connect, keeper, reader, writer
      <3>2. z \in Connection
        BY <3>1, FieldUpdates DEF States
      <3>3. y = [z EXCEPT !.keeper = keeper, !.reader = reader, !.writer = writer]
        BY <2>0
      <3> HIDE DEF y, z
      <3> QED
        BY <3>1, <3>2, <3>3, FieldUpdates
    <2>2. y.state = "closed" /\ (y.writer = "none" <=> x.writer = "none")
          /\ y.is_writing = x.is_writing
      BY <1>2 DEF CloseConn, Connection
    <2> QED
      BY <2>1, <2>2 DEF ConnOK, FlagOK, WatchOK, WriteOK, Available
  <1> QED
    BY <1>1, <1>2

\* SendData keeps the connection as open or closed as it was, and starts a
\* write loop.
LEMMA SendFacts ==
    ASSUME NEW x \in Connection, FlagOK(x)
    PROVE  /\ SendData(x) \in Connection /\ FlagOK(SendData(x))
           /\ SendData(x).state = x.state /\ SendData(x).keeper = x.keeper
           /\ SendData(x).reader = x.reader /\ SendData(x).writer # "none"
           /\ x.is_writing => SendData(x).writer = x.writer
  <1> DEFINE y == SendData(x)
  <1>0. kMaxSendQueueDepth \in Nat \ {0}
    BY PoolBoundsNat
  <1>1. y \in Connection
    <2> DEFINE q == IF x.send_que >= kMaxSendQueueDepth THEN x.send_que ELSE x.send_que + 1
               o == IF x.is_writing THEN x.writer ELSE "spawned"
    <2>1. y = [x EXCEPT !.send_que = q, !.is_writing = TRUE, !.writer = o]
      BY DEF SendData
    <2>2. /\ q \in 0 .. kMaxSendQueueDepth
          /\ o \in {"none", "spawned", "writing", "write_ok", "write_err"}
      BY <1>0, FieldTypes
    <2> HIDE DEF y, q, o
    <2> QED
      BY <2>1, <2>2 DEF Connection
  <1>2. /\ y.state = x.state /\ y.keeper = x.keeper /\ y.reader = x.reader
        /\ y.is_writing = TRUE /\ y.writer = IF x.is_writing THEN x.writer ELSE "spawned"
    BY DEF SendData, Connection
  <1> QED
    BY <1>1, <1>2 DEF FlagOK

\* A message to a connection.
LEMMA SendHandled ==
    ASSUME NEW x \in Connection, ConnOK(x)
    PROVE  Handled(x, SendData(x))
  <1>1. x.state = "Busy" => x.is_writing
    BY DEF ConnOK, WriteOK, FlagOK
  <1> QED
    BY <1>1, SendFacts DEF Handled, ConnOK, WatchOK, WriteOK, Available

\* A connection that opens says hello and pings; one that was closed stays so.
LEMMA OpenHandled ==
    ASSUME NEW x \in Connection, ConnOK(x)
    PROVE  Handled(x, OnConnected(x))
  <1>1. CASE x.state = "closed"
    BY <1>1 DEF OnConnected, Handled
  <1>2. CASE x.state # "closed"
    <2> DEFINE y == [x EXCEPT !.state = "Connected", !.silent = 0, !.reader = "reading",
                              !.keeper = "spawned"]
    <2>1. y \in Connection
      <3>1. 0 \in 0 .. TimeoutIntervals + 1
        BY PoolBoundsNat
      <3> QED
        BY <3>1 DEF Connection, States
    <2>2. /\ y.state = "Connected" /\ y.reader = "reading" /\ y.keeper = "spawned"
          /\ y.writer = x.writer /\ y.is_writing = x.is_writing
      BY DEF Connection
    <2>3. OnConnected(x) = SendData(SendData(y))
      BY <1>2 DEF OnConnected
    <2> HIDE DEF y
    <2>4. FlagOK(y)
      BY <2>2 DEF ConnOK, FlagOK
    <2>5. /\ SendData(SendData(y)) \in Connection /\ FlagOK(SendData(SendData(y)))
          /\ SendData(SendData(y)).state = "Connected" /\ SendData(SendData(y)).keeper = "spawned"
          /\ SendData(SendData(y)).reader = "reading" /\ SendData(SendData(y)).writer # "none"
      BY <2>1, <2>2, <2>4, SendFacts
    <2> QED
      BY <1>2, <2>3, <2>5 DEF Handled, ConnOK, WatchOK, WriteOK, Available
  <1> QED
    BY <1>1, <1>2

\* One round of the write loop.
LEMMA WriteHandled ==
    ASSUME NEW x \in Connection, ConnOK(x), x.writer \in {"spawned", "write_ok"}
    PROVE  Handled(x, WriteLoop(x))
  <1> DEFINE y == WriteLoop(x)
  <1>0. x.send_que \in 0 .. kMaxSendQueueDepth /\ kMaxSendQueueDepth \in Nat
    BY PoolBoundsNat DEF Connection
  <1>1. CASE x.send_que > 0 /\ Available(x)
    <2>1. y \in Connection
      <3> DEFINE q == x.send_que - 1
      <3>1. q \in 0 .. kMaxSendQueueDepth
        BY <1>0, <1>1
      <3>2. y = [x EXCEPT !.state = "Busy", !.send_que = q, !.writer = "writing"]
        BY <1>1 DEF WriteLoop
      <3> HIDE DEF y, q
      <3> QED
        BY <3>1, <3>2, FieldUpdates DEF States
    <2>2. /\ y.state = "Busy" /\ y.writer = "writing" /\ y.is_writing = x.is_writing
          /\ y.keeper = x.keeper /\ y.reader = x.reader
      BY <1>1 DEF WriteLoop, Connection
    <2> QED
      BY <1>1, <2>1, <2>2 DEF Handled, ConnOK, FlagOK, WatchOK, WriteOK, Available
  <1>2. CASE ~(x.send_que > 0 /\ Available(x))
    <2>1. y \in Connection
      BY <1>2 DEF WriteLoop, Connection, States
    <2>2. /\ y.state = IF x.state = "Busy" THEN "Connected" ELSE x.state
          /\ y.writer = "none" /\ y.is_writing = FALSE /\ y.send_que = x.send_que
          /\ y.keeper = x.keeper /\ y.reader = x.reader
      BY <1>2 DEF WriteLoop, Connection
    <2> QED
      BY <1>2, <2>1, <2>2 DEF Handled, ConnOK, FlagOK, WatchOK, WriteOK, Available
  <1> QED
    BY <1>1, <1>2

\* keep_alive goes on waiting while the connection is available.
LEMMA KeeperHandled ==
    ASSUME NEW x \in Connection, ConnOK(x)
    PROVE  Handled(x, KeeperLoop(x))
  <1> DEFINE y == KeeperLoop(x)
  <1>1. y \in Connection
    BY DEF KeeperLoop, Connection
  <1>2. /\ y.state = x.state /\ y.writer = x.writer /\ y.is_writing = x.is_writing
        /\ y.send_que = x.send_que /\ y.reader = x.reader
        /\ y.keeper = IF Available(x) THEN "waiting" ELSE "end"
    BY DEF KeeperLoop, Connection
  <1> QED
    BY <1>1, <1>2 DEF Handled, ConnOK, FlagOK, WatchOK, WriteOK, Available

\* The steps that only move one coroutine or timer of a connection.
LEMMA FieldMoved ==
    ASSUME NEW x \in Connection, ConnOK(x)
    PROVE  /\ \A v \in {"none", "pending", "ok", "err", "done"} :
                Handled(x, [x EXCEPT !.connect = v])
           /\ \A v \in {"off", "armed", "fired"} : Handled(x, [x EXCEPT !.connect_timer = v])
           /\ \A v \in {"spawned", "waiting", "fired"} : Handled(x, [x EXCEPT !.keeper = v])
           /\ \A v \in {"reading", "got", "err"} : Handled(x, [x EXCEPT !.reader = v])
           /\ \A v \in 0 .. TimeoutIntervals + 1 : Handled(x, [x EXCEPT !.silent = v])
           /\ x.writer = "writing" => \A v \in {"write_ok", "write_err"} :
                Handled(x, [x EXCEPT !.writer = v])
           /\ ~Available(x) => /\ \A v \in {"aborted", "end"} : Handled(x, [x EXCEPT !.keeper = v])
                              /\ Handled(x, [x EXCEPT !.reader = "end"])
                              /\ Handled(x, [x EXCEPT !.writer = "none", !.is_writing = FALSE])
  <1>1. ASSUME NEW v \in {"none", "pending", "ok", "err", "done"}
        PROVE  Handled(x, [x EXCEPT !.connect = v])
    <2> DEFINE y == [x EXCEPT !.connect = v]
    <2>1. y \in Connection
      BY <1>1, FieldUpdates
    <2>2. /\ y.state = x.state /\ y.keeper = x.keeper /\ y.reader = x.reader
          /\ y.writer = x.writer /\ y.send_que = x.send_que /\ y.is_writing = x.is_writing
      BY DEF Connection
    <2> HIDE DEF y
    <2>3. Handled(x, y)
      BY <1>1, <2>1, <2>2 DEF Handled, ConnOK, FlagOK, WatchOK, WriteOK, Available
    <2> QED
      BY <2>3 DEF y
  <1>2. ASSUME NEW v \in {"off", "armed", "fired"}
        PROVE  Handled(x, [x EXCEPT !.connect_timer = v])
    <2> DEFINE y == [x EXCEPT !.connect_timer = v]
    <2>1. y \in Connection
      BY <1>2, FieldUpdates
    <2>2. /\ y.state = x.state /\ y.keeper = x.keeper /\ y.reader = x.reader
          /\ y.writer = x.writer /\ y.send_que = x.send_que /\ y.is_writing = x.is_writing
      BY DEF Connection
    <2> HIDE DEF y
    <2>3. Handled(x, y)
      BY <1>2, <2>1, <2>2 DEF Handled, ConnOK, FlagOK, WatchOK, WriteOK, Available
    <2> QED
      BY <2>3 DEF y
  <1>3. ASSUME NEW v \in {"none", "spawned", "waiting", "fired", "aborted", "end"}
        PROVE  v \in {"spawned", "waiting", "fired"} \/ ~Available(x) => Handled(x, [x EXCEPT !.keeper = v])
    <2> DEFINE y == [x EXCEPT !.keeper = v]
    <2>1. y \in Connection
      BY <1>3, FieldUpdates
    <2>2. /\ y.state = x.state /\ y.reader = x.reader /\ y.writer = x.writer
          /\ y.send_que = x.send_que /\ y.is_writing = x.is_writing /\ y.keeper = v
      BY DEF Connection
    <2> HIDE DEF y
    <2>3. v \in {"spawned", "waiting", "fired"} \/ ~Available(x) => Handled(x, y)
      BY <1>3, <2>1, <2>2 DEF Handled, ConnOK, FlagOK, WatchOK, WriteOK, Available
    <2> QED
      BY <2>3 DEF y
  <1>4. ASSUME NEW v \in {"none", "reading", "got", "err", "end"}
        PROVE  v \in {"reading", "got", "err"} \/ ~Available(x) => Handled(x, [x EXCEPT !.reader = v])
    <2> DEFINE y == [x EXCEPT !.reader = v]
    <2>1. y \in Connection
      BY <1>4, FieldUpdates
    <2>2. /\ y.state = x.state /\ y.keeper = x.keeper /\ y.writer = x.writer
          /\ y.send_que = x.send_que /\ y.is_writing = x.is_writing /\ y.reader = v
      BY DEF Connection
    <2> HIDE DEF y
    <2>3. v \in {"reading", "got", "err"} \/ ~Available(x) => Handled(x, y)
      BY <1>4, <2>1, <2>2 DEF Handled, ConnOK, FlagOK, WatchOK, WriteOK, Available
    <2> QED
      BY <2>3 DEF y
  <1>5. ASSUME NEW v \in 0 .. TimeoutIntervals + 1
        PROVE  Handled(x, [x EXCEPT !.silent = v])
    <2> DEFINE y == [x EXCEPT !.silent = v]
    <2>1. y \in Connection
      BY <1>5, FieldUpdates
    <2>2. /\ y.state = x.state /\ y.keeper = x.keeper /\ y.reader = x.reader
          /\ y.writer = x.writer /\ y.send_que = x.send_que /\ y.is_writing = x.is_writing
      BY DEF Connection
    <2> HIDE DEF y
    <2>3. Handled(x, y)
      BY <1>5, <2>1, <2>2 DEF Handled, ConnOK, FlagOK, WatchOK, WriteOK, Available
    <2> QED
      BY <2>3 DEF y
  <1>6. ASSUME x.writer = "writing", NEW v \in {"write_ok", "write_err"}
        PROVE  Handled(x, [x EXCEPT !.writer = v])
    <2> DEFINE y == [x EXCEPT !.writer = v]
    <2>1. y \in Connection
      BY <1>6, FieldUpdates
    <2>2. /\ y.state = x.state /\ y.keeper = x.keeper /\ y.reader = x.reader
          /\ y.send_que = x.send_que /\ y.is_writing = x.is_writing /\ y.writer = v
      BY DEF Connection
    <2> HIDE DEF y
    <2>3. Handled(x, y)
      BY <1>6, <2>1, <2>2 DEF Handled, ConnOK, FlagOK, WatchOK, WriteOK, Available
    <2> QED
      BY <2>3 DEF y
  <1>7. ASSUME ~Available(x)
        PROVE  Handled(x, [x EXCEPT !.writer = "none", !.is_writing = FALSE])
    <2> DEFINE y == [x EXCEPT !.writer = "none", !.is_writing = FALSE]
    <2>1. y \in Connection
      BY FieldUpdates
    <2>2. y.state = x.state /\ y.writer = "none" /\ y.is_writing = FALSE
      BY DEF Connection
    <2> HIDE DEF y
    <2>3. Handled(x, y)
      BY <1>7, <2>1, <2>2 DEF Handled, ConnOK, FlagOK, WatchOK, WriteOK, Available
    <2> QED
      BY <2>3 DEF y
  <1> QED
    BY <1>1, <1>2, <1>3, <1>4, <1>5, <1>6, <1>7

\* One handler after the other on the same object.
LEMMA HandledTwice ==
    ASSUME NEW x, NEW y, NEW z, Handled(x, y), Handled(y, z)
    PROVE  Handled(x, z)
  BY DEF Handled

-----------------------------------------------------------------------------
(* The steps of one connection.                                            *)

\* A connection that was never made has nothing under way.
LEMMA NullIsStill ==
    ASSUME NEW c \in Conns, ConnHandler(c) \/ ConnWorld(c)
    PROVE  conn[c] # NullConn
  BY DEF NullConn, ConnHandler, ConnWorld, OnConnectTimeout, OnConnect, OnRead, OnReadError,
         OnWrite, OnWriteError, OnKeeperStart, OnKeeper, ConnectCompletes, ConnectTimerFires,
         ReadCompletes, WriteCompletes, KeeperFires

\* Every handler of a connection, and every completion, turns the object into
\* a well-formed one, and no closed one into another.
LEMMA ConnStep ==
    ASSUME PoolInv, NEW c \in Conns, ConnHandler(c) \/ ConnWorld(c)
    PROVE  \E x : Handled(conn[c], x) /\ Becomes(c, x)
  <1> DEFINE o == conn[c]
  <1>0. o \in Connection /\ ConnOK(o) /\ FlagOK(o) /\ TimeoutIntervals \in Nat
    BY PoolBoundsNat DEF PoolInv, PoolTypeOK, ConnOK
  <1>c. /\ Handled(o, CloseConn(o)) /\ ~Available(CloseConn(o))
        /\ CloseConn(o) \in Connection /\ ConnOK(CloseConn(o))
    BY <1>0, CloseFacts DEF Handled, Available
  <1>1. CASE OnConnectTimeout(c)
    <2> DEFINE x == [o EXCEPT !.connect_timer = "off"]
    <2>1. Becomes(c, IF x.state = "Connecting" THEN CloseConn(x) ELSE x)
      BY <1>1 DEF OnConnectTimeout
    <2>2. Handled(o, x)
      BY <1>0, FieldMoved
    <2> HIDE DEF x
    <2>3. Handled(x, CloseConn(x))
      BY <2>2, CloseFacts DEF Handled, ConnOK
    <2> QED
      BY <2>1, <2>2, <2>3, HandledTwice
  <1>2. CASE OnConnect(c)
    <2> DEFINE y == [o EXCEPT !.connect = "done"]
               t == IF o.connect_timer = "armed" THEN "off" ELSE o.connect_timer
               x == [y EXCEPT !.connect_timer = t]
    <2>1. Becomes(c, IF o.connect = "ok" THEN OnConnected(x) ELSE CloseConn(x))
      BY <1>0, <1>2 DEF OnConnect, Connection
    <2>2. Handled(o, y)
      BY <1>0, FieldMoved
    <2>3. t \in {"off", "armed", "fired"}
      BY <1>0, FieldTypes
    <2> HIDE DEF y, t
    <2>4. Handled(y, x)
      BY <2>2, <2>3, FieldMoved DEF Handled
    <2> HIDE DEF x
    <2>5. Handled(o, x)
      BY <2>2, <2>4, HandledTwice
    <2>6. Handled(x, OnConnected(x)) /\ Handled(x, CloseConn(x))
      BY <2>5, OpenHandled, CloseFacts DEF Handled, ConnOK
    <2> QED
      BY <2>1, <2>5, <2>6, HandledTwice
  <1>3. CASE OnRead(c)
    <2> DEFINE r == IF o.state = "closed" THEN "end" ELSE "reading"
               x == [o EXCEPT !.reader = r]
    <2>1. Becomes(c, [x EXCEPT !.silent = 0]) \/ Becomes(c, x)
      BY <1>3 DEF OnRead
    <2>2. Handled(o, x)
      <3>1. CASE o.state = "closed"
        BY <1>0, <3>1, FieldMoved DEF Available
      <3>2. CASE o.state # "closed"
        BY <1>0, <3>2, FieldMoved
      <3> QED
        BY <3>1, <3>2
    <2> HIDE DEF x
    <2>3. Handled(x, [x EXCEPT !.silent = 0])
      <3>1. 0 \in 0 .. TimeoutIntervals + 1
        BY <1>0
      <3> QED
        BY <2>2, <3>1, FieldMoved DEF Handled
    <2> QED
      BY <2>1, <2>2, <2>3, HandledTwice
  <1>4. CASE OnReadError(c)
    <2>1. Becomes(c, [CloseConn(o) EXCEPT !.reader = "end"])
      BY <1>4 DEF OnReadError
    <2> QED
      BY <1>c, <2>1, FieldMoved, HandledTwice
  <1>5. CASE OnWrite(c)
    BY <1>0, <1>5, WriteHandled DEF OnWrite
  <1>6. CASE OnWriteError(c)
    <2>1. Becomes(c, [CloseConn(o) EXCEPT !.writer = "none", !.is_writing = FALSE])
      BY <1>6 DEF OnWriteError
    <2> QED
      BY <1>c, <2>1, FieldMoved, HandledTwice
  <1>7. CASE OnKeeperStart(c)
    BY <1>0, <1>7, KeeperHandled DEF OnKeeperStart
  <1>8. CASE OnKeeper(c)
    <2>1. CASE o.keeper = "aborted" /\ Becomes(c, [o EXCEPT !.keeper = "end"])
      <3>1. ~Available(o)
        BY <1>0, <2>1 DEF ConnOK, WatchOK
      <3> QED
        BY <1>0, <2>1, <3>1, FieldMoved
    <2>2. CASE Becomes(c, [CloseConn(o) EXCEPT !.keeper = "end"])
      BY <1>c, <2>2, FieldMoved, HandledTwice
    <2>3. CASE Becomes(c, KeeperLoop(SendData(o)))
      <3>1. Handled(o, SendData(o))
        BY <1>0, SendHandled
      <3>2. Handled(SendData(o), KeeperLoop(SendData(o)))
        BY <3>1, KeeperHandled DEF Handled
      <3> QED
        BY <2>3, <3>1, <3>2, HandledTwice
    <2> QED
      BY <1>8, <2>1, <2>2, <2>3 DEF OnKeeper
  <1>9. CASE ConnectCompletes(c)
    BY <1>0, <1>9, FieldMoved DEF ConnectCompletes
  <1>10. CASE ConnectTimerFires(c)
    BY <1>0, <1>10, FieldMoved DEF ConnectTimerFires
  <1>11. CASE ReadCompletes(c)
    BY <1>0, <1>11, FieldMoved DEF ReadCompletes
  <1>12. CASE WriteCompletes(c)
    BY <1>0, <1>12, FieldMoved DEF WriteCompletes
  <1>13. CASE KeeperFires(c)
    <2> DEFINE n == IF o.silent <= TimeoutIntervals THEN o.silent + 1 ELSE o.silent
               y == [o EXCEPT !.keeper = "fired"]
               x == [y EXCEPT !.silent = n]
    <2>1. Becomes(c, x)
      BY <1>0, <1>13 DEF KeeperFires, Connection
    <2>2. Handled(o, y)
      BY <1>0, FieldMoved
    <2>3. n \in 0 .. TimeoutIntervals + 1
      BY <1>0, FieldTypes
    <2> HIDE DEF y, n
    <2>4. Handled(y, x)
      BY <2>2, <2>3, FieldMoved DEF Handled
    <2> QED
      BY <2>1, <2>2, <2>4, HandledTwice
  <1> QED
    BY <1>1, <1>2, <1>3, <1>4, <1>5, <1>6, <1>7, <1>8, <1>9, <1>10, <1>11, <1>12, <1>13
       DEF ConnHandler, ConnWorld

-----------------------------------------------------------------------------
(* The steps of the pool.                                                  *)

\* What ClosedStaysClosed says of one step.
CloseIsFinal == \A c \in Conns : conn[c].state = "closed" => conn'[c].state = "closed"

\* PoolTypeOK, spelt out.
LEMMA PoolTypes ==
    ASSUME PoolInv
    PROVE  /\ sessions \in [PoolSlots -> 1 .. MaxConns] /\ conn \in [Conns -> Connection]
           /\ rr_idx \in PoolSlots
           /\ detector \in {"waiting", "fired", "aborted", "end"}
           /\ stop \in {"no", "cancelled", "cleared", "stopped"}
           /\ overrun \in BOOLEAN /\ posted \in Nat
  BY DEF PoolInv, PoolTypeOK

\* Steps that handle some connections that were made, and leave the slots.
LEMMA HandledStep ==
    ASSUME PoolInv, conn' \in [Conns -> Connection],
           \A c \in Conns : Touched(conn[c], conn'[c]),
           sessions' = sessions, rr_idx' \in PoolSlots,
           detector' \in {"waiting", "fired", "aborted", "end"},
           stop' \in {"no", "cancelled", "cleared", "stopped"},
           overrun' \in BOOLEAN, posted' \in Nat
    PROVE  PoolInv' /\ CloseIsFinal
  <1>1. \A c \in Conns : conn'[c] \in Connection /\ ConnOK(conn'[c])
                        /\ (conn[c].state = "closed" => conn'[c].state = "closed")
    BY DEF PoolInv, PoolTypeOK, Touched, Handled
  <1>2. PoolTypeOK'
    BY <1>1 DEF PoolInv, PoolTypeOK
  <1>3. ReplacedIsClosed'
    BY <1>1 DEF PoolInv, ReplacedIsClosed
  <1>4. UnusedIsNull'
    BY DEF PoolInv, UnusedIsNull, Touched
  <1> QED
    BY <1>1, <1>2, <1>3, <1>4 DEF PoolInv, CloseIsFinal

\* The steps that touch no connection.
LEMMA QuietStep ==
    ASSUME PoolInv, UNCHANGED <<sessions, conn, posted>>, rr_idx' \in PoolSlots,
           detector' \in {"waiting", "fired", "aborted", "end"},
           stop' \in {"no", "cancelled", "cleared", "stopped"}, overrun' \in BOOLEAN
    PROVE  PoolInv' /\ CloseIsFinal
  <1>1. \A c \in Conns : Touched(conn[c], conn'[c])
    BY DEF Touched
  <1> QED
    BY <1>1, PoolTypes, HandledStep

\* The steps of a connection.
LEMMA OneConnStep ==
    ASSUME PoolInv, NEW c \in Conns, ConnHandler(c) \/ ConnWorld(c)
    PROVE  PoolInv' /\ CloseIsFinal
  <1>1. PICK x : Handled(conn[c], x) /\ Becomes(c, x)
    BY ConnStep
  <1>2. conn[c] # NullConn
    BY NullIsStill
  <1>3. /\ conn' \in [Conns -> Connection] /\ conn'[c] = x
        /\ \A d \in Conns \ {c} : conn'[d] = conn[d]
    BY <1>1, PoolTypes DEF Becomes, Handled
  <1>4. \A d \in Conns : Touched(conn[d], conn'[d])
    BY <1>1, <1>2, <1>3 DEF Touched
  <1>5. UNCHANGED Others
    BY <1>1 DEF Becomes
  <1> QED
    BY <1>3, <1>4, <1>5, PoolTypes, HandledStep DEF Others

\* The number of a slot's current connection names one.
LEMMA CurrentConn ==
    ASSUME PoolInv, NEW i \in PoolSlots
    PROVE  <<i, sessions[i]>> \in Conns
  BY DEF PoolInv, PoolTypeOK, Conns

\* The next turn is a slot again.
LEMMA TurnIsSlot ==
    ASSUME NEW n \in Nat
    PROVE  n % ConnCount \in PoolSlots
  BY ConnCountPositive DEF PoolSlots

\* PostMessage gives the message to a connection that is open.
LEMMA PostStep ==
    ASSUME PoolInv, PostMessage
    PROVE  PoolInv' /\ CloseIsFinal
  <1>0. posted' \in Nat /\ UNCHANGED <<sessions, detector, stop, overrun>>
    BY DEF PostMessage, PoolInv, PoolTypeOK
  <1>1. CASE UNCHANGED <<conn, rr_idx>>
    <2>1. \A c \in Conns : Touched(conn[c], conn'[c])
      BY <1>1 DEF Touched
    <2> QED
      BY <1>0, <1>1, <2>1, PoolTypes, HandledStep
  <1>2. ASSUME NEW i \in Usable,
               rr_idx' = (i + 1) % ConnCount,
               conn' = [conn EXCEPT ![<<i, sessions[i]>>] = SendData(@)]
        PROVE  PoolInv' /\ CloseIsFinal
    <2> DEFINE c == <<i, sessions[i]>>
    <2>1. i \in PoolSlots /\ c \in Conns /\ Available(conn[c])
      BY CurrentConn DEF Usable, Current
    <2>2. rr_idx' \in PoolSlots
      BY <1>2, <2>1, TurnIsSlot DEF PoolSlots
    <2> HIDE DEF c
    <2>3. conn[c] # NullConn
      BY <2>1, FreshFacts DEF Available
    <2>4. Handled(conn[c], SendData(conn[c]))
      BY <2>1, SendHandled DEF PoolInv, PoolTypeOK
    <2>5. /\ conn' \in [Conns -> Connection] /\ conn'[c] = SendData(conn[c])
          /\ \A d \in Conns \ {c} : conn'[d] = conn[d]
      BY <1>2, <2>1, <2>4 DEF PoolInv, PoolTypeOK, Handled, c
    <2>6. \A d \in Conns : Touched(conn[d], conn'[d])
      BY <2>3, <2>4, <2>5 DEF Touched
    <2> QED
      BY <1>0, <2>2, <2>5, <2>6, PoolTypes, HandledStep
  <1> QED
    BY <1>1, <1>2 DEF PostMessage

\* A round of the detection loop closes what it replaces, and what it starts
\* was never used.
LEMMA DetectionStep ==
    ASSUME PoolInv, Detection
    PROVE  PoolInv' /\ CloseIsFinal
  <1>0. /\ detector' = "waiting" /\ UNCHANGED <<rr_idx, stop, posted>>
    BY DEF Detection
  <1>1. CASE UNCHANGED <<sessions, conn>> /\ overrun' = TRUE
    BY <1>0, <1>1, PoolTypes, QuietStep
  <1>2. CASE /\ sessions' = [i \in PoolSlots |-> IF i \in Rebuilt THEN sessions[i] + 1
                                                ELSE sessions[i]]
             /\ conn' = [c \in Conns |->
                    IF c[1] \in Rebuilt /\ c[2] = sessions[c[1]] + 1 THEN NewConn
                    ELSE IF c[1] \in Rebuilt /\ c[2] = sessions[c[1]] THEN CloseConn(conn[c])
                    ELSE conn[c]]
             /\ UNCHANGED overrun
    <2>0. /\ \A i \in PoolSlots : sessions[i] \in 1 .. MaxConns
          /\ \A i \in Rebuilt : i \in PoolSlots /\ sessions[i] < MaxConns
          /\ \A c \in Conns : c[1] \in PoolSlots /\ c[2] \in 1 .. MaxConns
          /\ MaxConns \in Nat
      BY PoolBoundsNat DEF PoolInv, PoolTypeOK, Rebuilt, Conns
    <2>1. \A i \in PoolSlots : sessions'[i] \in 1 .. MaxConns
      BY <1>2, <2>0
    <2>2. \A c \in Conns : CloseConn(conn[c]) \in Connection /\ ConnOK(CloseConn(conn[c]))
                          /\ CloseConn(conn[c]).state = "closed"
      BY CloseFacts DEF PoolInv, PoolTypeOK, ConnOK
    <2>3. ASSUME NEW c \in Conns
          PROVE  /\ conn'[c] \in Connection /\ ConnOK(conn'[c])
                 /\ conn[c].state = "closed" => conn'[c].state = "closed"
                 /\ c[2] < sessions'[c[1]] => conn'[c].state = "closed"
                 /\ c[2] > sessions'[c[1]] => conn'[c] = NullConn
      <3>1. CASE c[1] \in Rebuilt /\ c[2] = sessions[c[1]] + 1
        <4>1. conn'[c] = NewConn /\ sessions'[c[1]] = c[2]
          BY <1>2, <2>0, <3>1
        <4>2. conn[c] = NullConn
          BY <2>0, <3>1 DEF PoolInv, UnusedIsNull
        <4> QED
          BY <2>0, <4>1, <4>2, FreshFacts
      <3>2. CASE c[1] \in Rebuilt /\ c[2] = sessions[c[1]]
        <4>1. conn'[c] = CloseConn(conn[c]) /\ sessions'[c[1]] = c[2] + 1
          BY <1>2, <2>0, <3>2
        <4> QED
          BY <2>0, <2>2, <4>1
      <3>3. CASE c[1] \in Rebuilt /\ c[2] # sessions[c[1]] + 1 /\ c[2] # sessions[c[1]]
        <4>1. conn'[c] = conn[c] /\ sessions'[c[1]] = sessions[c[1]] + 1
          BY <1>2, <2>0, <3>3
        <4> QED
          BY <2>0, <3>3, <4>1 DEF PoolInv, PoolTypeOK, ReplacedIsClosed, UnusedIsNull
      <3>4. CASE c[1] \notin Rebuilt
        <4>1. conn'[c] = conn[c] /\ sessions'[c[1]] = sessions[c[1]]
          BY <1>2, <2>0, <3>4
        <4> QED
          BY <4>1 DEF PoolInv, PoolTypeOK, ReplacedIsClosed, UnusedIsNull
      <3> QED
        BY <3>1, <3>2, <3>3, <3>4
    <2>4. PoolTypeOK'
      BY <1>0, <1>2, <2>1, <2>3 DEF PoolInv, PoolTypeOK
    <2> QED
      BY <2>3, <2>4 DEF PoolInv, ReplacedIsClosed, UnusedIsNull, CloseIsFinal
  <1> QED
    BY <1>1, <1>2 DEF Detection

\* Stop closes the current connections, from whatever state.
LEMMA StopStep ==
    ASSUME PoolInv, Stop
    PROVE  PoolInv' /\ CloseIsFinal
  <1>1. CASE UNCHANGED <<sessions, conn, rr_idx, overrun, posted>>
    <2>1. /\ detector' \in {"waiting", "fired", "aborted", "end"}
          /\ stop' \in {"no", "cancelled", "cleared", "stopped"}
      BY DEF Stop, PoolInv, PoolTypeOK
    <2> QED
      BY <1>1, <2>1, PoolTypes, QuietStep
  <1>2. CASE /\ stop' = "cleared"
             /\ conn' = [c \in Conns |-> IF c[2] = sessions[c[1]] THEN CloseConn(conn[c])
                                         ELSE conn[c]]
             /\ rr_idx' = 0
             /\ UNCHANGED <<sessions, detector, overrun, posted>>
    <2>1. ASSUME NEW c \in Conns
          PROVE  /\ conn'[c] \in Connection /\ ConnOK(conn'[c])
                 /\ conn[c].state = "closed" => conn'[c].state = "closed"
                 /\ c[2] # sessions[c[1]] => conn'[c] = conn[c]
      BY <1>2, CloseFacts DEF PoolInv, PoolTypeOK, ConnOK
    <2>2. \A c \in Conns : c[1] \in PoolSlots /\ c[2] \in Nat /\ sessions[c[1]] \in Nat
      BY PoolBoundsNat DEF PoolInv, PoolTypeOK, Conns
    <2>3. PoolTypeOK'
      <3>1. 0 \in PoolSlots
        BY ConnCountPositive DEF PoolSlots
      <3>2. conn' \in [Conns -> Connection]
        BY <1>2, <2>1
      <3> QED
        BY <1>2, <3>1, <3>2, PoolTypes DEF PoolTypeOK
    <2>4. ReplacedIsClosed'
      BY <1>2, <2>1, <2>2 DEF PoolInv, ReplacedIsClosed
    <2>5. UnusedIsNull'
      BY <1>2, <2>1, <2>2 DEF PoolInv, UnusedIsNull
    <2> QED
      BY <2>1, <2>3, <2>4, <2>5 DEF PoolInv, CloseIsFinal
  <1> QED
    BY <1>1, <1>2 DEF Stop

-----------------------------------------------------------------------------
(* The invariant and what follows from it.                                 *)

\* The pool starts with one new connection per slot.
LEMMA InitPoolInv == PoolInit => PoolInv
  <1> SUFFICES ASSUME PoolInit PROVE PoolInv
    OBVIOUS
  <1>0. \A c \in Conns : c[1] \in PoolSlots /\ c[2] \in Nat \ {0} /\ sessions[c[1]] = 1
    BY PoolBoundsNat DEF PoolInit, Conns
  <1>1. PoolTypeOK
    <2>1. 0 \in PoolSlots /\ 1 \in 1 .. MaxConns
      BY ConnCountPositive, PoolBoundsNat DEF PoolSlots
    <2>2. sessions \in [PoolSlots -> 1 .. MaxConns] /\ conn \in [Conns -> Connection]
      BY <2>1, FreshFacts DEF PoolInit
    <2> QED
      BY <2>1, <2>2 DEF PoolInit, PoolTypeOK
  <1>2. \A c \in Conns : ConnOK(conn[c])
    BY FreshFacts DEF PoolInit
  <1>3. ReplacedIsClosed /\ UnusedIsNull
    BY <1>0 DEF PoolInit, ReplacedIsClosed, UnusedIsNull
  <1> QED
    BY <1>1, <1>2, <1>3 DEF PoolInv

\* Every step of the connections, of the pool and of Stop keeps the invariant
\* and opens no closed connection.
LEMMA NextPoolInv == PoolInv /\ [PoolNext]_poolVars => PoolInv' /\ CloseIsFinal
  <1> SUFFICES ASSUME PoolInv, [PoolNext]_poolVars PROVE PoolInv' /\ CloseIsFinal
    OBVIOUS
  <1>1. ASSUME NEW c \in Conns, ConnHandler(c) \/ ConnWorld(c) PROVE PoolInv' /\ CloseIsFinal
    BY <1>1, OneConnStep
  <1>2. CASE PostMessage
    BY <1>2, PostStep
  <1>3. CASE DetectionTimer \/ DetectionAborted \/ UNCHANGED poolVars
    <2>1. /\ UNCHANGED <<sessions, conn, rr_idx, stop, overrun, posted>>
          /\ detector' \in {"waiting", "fired", "aborted", "end"}
      BY <1>3, PoolTypes DEF DetectionTimer, DetectionAborted, poolVars
    <2> QED
      BY <2>1, PoolTypes, QuietStep
  <1>4. CASE Detection
    BY <1>4, DetectionStep
  <1>5. CASE Stop
    BY <1>5, StopStep
  <1> QED
    BY <1>1, <1>2, <1>3, <1>4, <1>5 DEF PoolNext

\* The inductive invariant.
THEOREM PoolInvariant == PoolSpec => []PoolInv
  BY InitPoolInv, NextPoolInv, PTL DEF PoolSpec

\* Connections and pool keep their types, and no queue exceeds its limit.
THEOREM PoolTypeCorrect == PoolSpec => []PoolTypeOK
  <1>1. PoolInv => PoolTypeOK
    BY DEF PoolInv
  <1> QED
    BY <1>1, PoolInvariant, PTL

\* A connection the detection loop replaced is closed.
THEOREM ReplacedAlwaysClosed == PoolSpec => []ReplacedIsClosed
  <1>1. PoolInv => ReplacedIsClosed
    BY DEF PoolInv
  <1> QED
    BY <1>1, PoolInvariant, PTL

\* A connection that PostMessage may choose has a reader and a heartbeat.
THEOREM AvailableAlwaysWatched == PoolSpec => []AvailableIsWatched
  <1>1. PoolInv => AvailableIsWatched
    BY DEF PoolInv, ConnOK, WatchOK, AvailableIsWatched
  <1> QED
    BY <1>1, PoolInvariant, PTL

\* SendData and start_write_loop lose no wake-up.
THEOREM BackendQueuesWritten == PoolSpec => []BackendQueueIsWritten
  <1>1. PoolInv => BackendQueueIsWritten
    BY DEF PoolInv, ConnOK, FlagOK, WriteOK, BackendQueueIsWritten
  <1> QED
    BY <1>1, PoolInvariant, PTL

\* No handler opens a closed connection again.
THEOREM ClosedForGood == PoolSpec => ClosedStaysClosed
  <1>1. PoolInv /\ [PoolNext]_poolVars
          => [\A c \in Conns : conn[c].state = "closed" => conn'[c].state = "closed"]_poolVars
    BY NextPoolInv DEF CloseIsFinal
  <1> QED
    BY <1>1, PoolInvariant, PTL DEF PoolSpec, ClosedStaysClosed
=============================================================================
