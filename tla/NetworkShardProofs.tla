------------------------- MODULE NetworkShardProofs -------------------------
(***************************************************************************)
(* Proofs about NetworkShard for any number of link slots, accepts,        *)
(* packets and players, and any queue limit.                               *)
(*                                                                         *)
(* A slot and the session it names change in different handlers: accept,   *)
(* read and write errors, and Stop.  CoreOK says what holds of the two     *)
(* together at the end of every handler; it is stated of any slots and     *)
(* sessions, since DoAccept goes on from what the handler left.  NetInv    *)
(* adds the chain of accepts and the tasks that are on their way.          *)
(***************************************************************************)
EXTENDS NetworkShard, TLAPS, SequenceTheorems, WellFoundedInduction

Slot == [state : SlotStates, generation : Generations \cup {0}, session : Sids \cup {NoSession}]

FreshSession == [NullSession EXCEPT !.state = "Invalid"]

\* What OnlyOwnPacketsQueued says of the queue of session sid.
OwnQueue(sid, q) == /\ q \in Seq({Pong} \cup Generations)
                    /\ Len(q) <= kMaxSendQueueDepth
                    /\ \A i \in 1 .. Len(q) : q[i] \in {Pong, sid[2]}

\* What QueuedPacketsAreBeingWritten says of a session.
Writing(x) == /\ x.send_que # <<>> => x.writer # "none"
              /\ x.is_writing <=> x.writer # "none"

SessionOK(sid, x) ==
    /\ x.state = "Null" => x = NullSession
    /\ x.state = "Invalid" => x = FreshSession
    /\ x.state = "Conected" => Writing(x)
    /\ OwnQueue(sid, x.send_que)

\* A slot that is in use names the session of its generation, which waits for
\* its gateway or is connected to it.
SlotOK(l, x, ss) ==
    /\ x.state \in {"Empty", "Closed"} => x.session = NoSession
    /\ x.state \in {"Accepting", "Connected"} => x.session = <<l, x.generation>>
    /\ x.state = "Accepting" => ss[x.session].state = "Invalid"
    /\ x.state = "Connected" => ss[x.session].state = "Conected"

\* The slot is the session's.
Owned(x, sid, state) == x.state = state /\ x.generation = sid[2] /\ x.session = sid

CoreOK(sl, ss) ==
    /\ sl \in [Links -> Slot] /\ ss \in [Sids -> Session]
    /\ \A sid \in Sids : SessionOK(sid, ss[sid])
    /\ \A sid \in Sids : ss[sid].state # "Null" => sid[2] <= sl[sid[1]].generation
    /\ \A l \in Links : SlotOK(l, sl[l], ss)
    /\ \A sid \in Sids : ss[sid].state = "Conected" => Owned(sl[sid[1]], sid, "Connected")

\* The accept under way has its slot reserved.
AcceptsOK(sl, acc, rt) ==
    /\ acc \subseteq [sid : Sids, result : {"pending", "ok", "error", "aborted"}]
    /\ rt \in {"off", "armed", "fired"}
    /\ \A op1, op2 \in acc : op1 = op2
    /\ \A op \in acc : op.result = "pending" => Owned(sl[op.sid[1]], op.sid, "Accepting")
    /\ acc # {} => rt = "off"

\* There is a generation left for the accept that has not been started.
BoundOK(sl, acc) ==
    ~stopping /\ (\A op \in acc : op.result # "pending") =>
        \A l \in Links : sl[l].generation <= MaxAccepts

Target == [link : Links, generation : Generations \cup {0}, uids : SUBSET Uids]

\* A NetworkTask has one target per link.
OneTargetPerLink(T) == \A t1, t2 \in T : t1.link = t2.link => t1 = t2

\* What the logic side has.
LogicOK ==
    /\ logic \in Seq([uid : Uids, origin : Route, carrier : Sids])
    /\ uid_route \in [Uids -> Route]
    /\ tasks \in Seq(SUBSET Target)
    /\ \A i \in 1 .. Len(tasks) : OneTargetPerLink(tasks[i])

NetInv ==
    /\ CoreOK(slots, sess)
    /\ AcceptsOK(slots, accepts, retry)
    /\ BoundOK(slots, accepts)
    /\ stopping \in BOOLEAN /\ stop_task \in {"none", "posted", "done"}
    /\ stop_task # "none" => stopping
    /\ LogicOK

-----------------------------------------------------------------------------
(* Slots and numbers.                                                      *)

\* Every set of naturals that is not empty has a least element.
LEMMA LeastElement ==
    ASSUME NEW T \in SUBSET Nat, T # {}
    PROVE  \E x \in T : \A y \in T : x <= y
  <1> DEFINE R == OpToRel(<, Nat)
  <1>1. IsWellFoundedOn(R, Nat)
    BY NatLessThanWellFounded
  <1>2. \A x, y \in Nat : x < y => <<x, y>> \in R
    BY DEF OpToRel
  <1> HIDE DEF R
  <1>3. PICK x \in T : \A y \in T : ~(<<y, x>> \in R)
    BY <1>1, WFMin
  <1>4. \A y \in T : x \in Nat /\ y \in Nat /\ ~(y < x)
    BY <1>2, <1>3
  <1>5. \A y \in T : x <= y
    BY <1>4
  <1> QED
    BY <1>5

\* FindAvailableSlot finds a free slot if there is one.
LEMMA FindFacts ==
    ASSUME NEW sl, FreeSlots(sl) # {}
    PROVE  FindAvailableSlot(sl) \in FreeSlots(sl)
  <1>1. FreeSlots(sl) \in SUBSET Nat
    BY LinkCountPositive DEF FreeSlots, Links
  <1>2. \E l \in FreeSlots(sl) : \A k \in FreeSlots(sl) : l <= k
    BY <1>1, LeastElement
  <1> QED
    BY <1>2 DEF FindAvailableSlot

\* Sessions are pairs, and no session is one.
LEMMA SidFacts ==
    /\ \A sid \in Sids : /\ sid[1] \in Links /\ sid[2] \in Generations /\ sid[2] \in Nat \ {0}
                         /\ sid = <<sid[1], sid[2]>>
    /\ \A l \in Links, g \in Generations :
         <<l, g>> \in Sids /\ <<l, g>>[1] = l /\ <<l, g>>[2] = g
    /\ NoSession \notin Sids
    /\ Generations \subseteq Nat
  BY NetBoundsNat DEF Sids, NoSession, Generations

\* A pair is never the absent session.
LEMMA PairNotEmpty == ASSUME NEW l \in Links, NEW g \in Nat PROVE <<l, g>> # NoSession
  <1>1. Len(<<l, g>>) = 2 /\ Len(<<>>) = 0
    OBVIOUS
  <1> QED
    BY <1>1 DEF NoSession

\* The parts of a slot.
LEMMA SlotFields ==
    ASSUME NEW x \in Slot
    PROVE  /\ x.state \in SlotStates /\ x.generation \in Generations \cup {0}
           /\ x.session \in Sids \cup {NoSession} /\ x.generation \in Nat
  BY SidFacts DEF Slot

-----------------------------------------------------------------------------
(* Session objects.                                                        *)

\* The parts of a session.
LEMMA SessionFields ==
    ASSUME NEW x \in Session
    PROVE  /\ x.state \in {"Null", "Invalid", "Conected", "Closed"}
           /\ x.reader \in ReaderStates /\ x.writer \in WriterStates
           /\ x.send_que \in Seq({Pong} \cup Generations) /\ x.is_writing \in BOOLEAN
  BY DEF Session

\* Giving a field another of its values leaves a session.
LEMMA SessionUpdates ==
    ASSUME NEW x \in Session
    PROVE  /\ \A v \in {"Null", "Invalid", "Conected", "Closed"} :
                [x EXCEPT !.state = v] \in Session
           /\ \A v \in ReaderStates : [x EXCEPT !.reader = v] \in Session
           /\ \A v \in WriterStates : [x EXCEPT !.writer = v] \in Session
           /\ \A v \in Seq({Pong} \cup Generations) : [x EXCEPT !.send_que = v] \in Session
           /\ \A v \in BOOLEAN : [x EXCEPT !.is_writing = v] \in Session
  BY DEF Session

\* Sessions without a connection.
LEMMA FreshFacts ==
    /\ NullSession \in Session /\ NullSession.state = "Null"
    /\ FreshSession \in Session /\ FreshSession.state = "Invalid"
    /\ NullSession.reader = "none" /\ NullSession.writer = "none"
    /\ FreshSession.reader = "none" /\ FreshSession.writer = "none"
    /\ NullSession.send_que = <<>> /\ FreshSession.send_que = <<>>
    /\ FreshSession.is_writing = FALSE
  <1>1. /\ NullSession \in Session /\ NullSession.state = "Null"
        /\ NullSession.reader = "none" /\ NullSession.writer = "none"
        /\ NullSession.send_que = <<>> /\ NullSession.is_writing = FALSE
    BY DEF NullSession, Session, ReaderStates, WriterStates
  <1>2. ASSUME NEW n \in Session
        PROVE  LET x == [n EXCEPT !.state = "Invalid"]
               IN  /\ x \in Session /\ x.state = "Invalid" /\ x.reader = n.reader
                   /\ x.writer = n.writer /\ x.send_que = n.send_que /\ x.is_writing = n.is_writing
    BY DEF Session
  <1> QED
    BY <1>1, <1>2 DEF FreshSession

\* The empty queue.
LEMMA EmptyQueueOwn == \A sid : OwnQueue(sid, <<>>)
  BY NetBoundsNat DEF OwnQueue

\* PostSend's queue: without the oldest packet if it was full, and the new one.
LEMMA PostQueue ==
    ASSUME NEW sid \in Sids, NEW q, OwnQueue(sid, q), NEW p \in {Pong, sid[2]}
    PROVE  OwnQueue(sid, Append(Bounded(q), p)) /\ Append(Bounded(q), p) # <<>>
  <1> DEFINE S == {Pong} \cup Generations
             b == Bounded(q)
  <1>0. /\ p \in S /\ q \in Seq(S) /\ Len(q) \in Nat /\ Len(q) <= kMaxSendQueueDepth
        /\ kMaxSendQueueDepth \in Nat \ {0}
    BY SidFacts, NetBoundsNat, LenProperties DEF OwnQueue
  <1>1. b \in Seq(S) /\ Len(b) < kMaxSendQueueDepth /\ Len(b) \in Nat
        /\ \A i \in 1 .. Len(b) : b[i] \in {Pong, sid[2]}
    <2>1. CASE Len(q) >= kMaxSendQueueDepth
      <3>1. b = Tail(q) /\ q # <<>>
        BY <1>0, <2>1 DEF Bounded
      <3>2. Tail(q) \in Seq(S) /\ Len(Tail(q)) = Len(q) - 1
            /\ \A i \in 1 .. Len(Tail(q)) : Tail(q)[i] = q[i + 1]
        BY <1>0, <3>1, HeadTailProperties
      <3>3. \A i \in 1 .. Len(q) - 1 : i + 1 \in 1 .. Len(q)
        BY <1>0
      <3> QED
        BY <1>0, <3>1, <3>2, <3>3 DEF OwnQueue
    <2>2. CASE Len(q) < kMaxSendQueueDepth
      BY <1>0, <2>2 DEF Bounded, OwnQueue
    <2> QED
      BY <1>0, <2>1, <2>2
  <1> HIDE DEF b
  <1>2. /\ Append(b, p) \in Seq(S) /\ Len(Append(b, p)) = Len(b) + 1
        /\ \A i \in 1 .. Len(b) : Append(b, p)[i] = b[i]
        /\ Append(b, p)[Len(b) + 1] = p
    BY <1>0, <1>1, AppendProperties
  <1>3. \A i \in 1 .. Len(b) + 1 : Append(b, p)[i] \in {Pong, sid[2]}
    BY <1>1, <1>2
  <1>4. Append(b, p) # <<>>
    BY <1>1, <1>2
  <1> QED
    BY <1>0, <1>1, <1>2, <1>3, <1>4 DEF OwnQueue, b

\* A queue that gives its first packet to the write loop.
LEMMA TailQueue ==
    ASSUME NEW sid \in Sids, NEW q, OwnQueue(sid, q), q # <<>>
    PROVE  OwnQueue(sid, Tail(q))
  <1> DEFINE S == {Pong} \cup Generations
  <1>0. q \in Seq(S) /\ Len(q) \in Nat /\ kMaxSendQueueDepth \in Nat
    BY NetBoundsNat, LenProperties DEF OwnQueue
  <1>1. Tail(q) \in Seq(S) /\ Len(Tail(q)) = Len(q) - 1
        /\ \A i \in 1 .. Len(Tail(q)) : Tail(q)[i] = q[i + 1]
    BY <1>0, HeadTailProperties
  <1>2. \A i \in 1 .. Len(q) - 1 : i + 1 \in 1 .. Len(q)
    BY <1>0
  <1> QED
    BY <1>0, <1>1, <1>2 DEF OwnQueue

\* A handler makes y of a session x that has been started and does not open
\* or close it.
Kept(sid, x, y) ==
    \/ y = x
    \/ /\ x.state \in {"Conected", "Closed"} /\ y.state = x.state
       /\ y \in Session /\ SessionOK(sid, y)

\* The coroutines' own steps, and a write loop that starts or ends.
LEMMA PostKept ==
    ASSUME NEW sid \in Sids, NEW x \in Session, SessionOK(sid, x), x.state = "Conected",
           NEW p \in {Pong, sid[2]}
    PROVE  Kept(sid, x, PostSend(x, p))
  <1> DEFINE q == Append(Bounded(x.send_que), p)
             o == IF x.is_writing THEN x.writer ELSE "spawned"
             y == PostSend(x, p)
  <1>1. y = [x EXCEPT !.send_que = q, !.is_writing = TRUE, !.writer = o]
    BY DEF PostSend
  <1>2. OwnQueue(sid, q) /\ o \in WriterStates /\ o # "none"
    BY PostQueue, SessionFields DEF SessionOK, Writing, WriterStates
  <1>3. q \in Seq({Pong} \cup Generations)
    BY <1>2 DEF OwnQueue
  <1> HIDE DEF q, o, y
  <1>4. y \in Session
    BY <1>1, <1>2, <1>3, SessionUpdates
  <1>5. y.state = x.state /\ y.send_que = q /\ y.is_writing = TRUE /\ y.writer = o
    BY <1>1 DEF Session
  <1> QED
    BY <1>2, <1>4, <1>5 DEF Kept, SessionOK, Writing, y

\* The reader moves on.
LEMMA ReaderKept ==
    ASSUME NEW sid \in Sids, NEW x \in Session, SessionOK(sid, x), x.reader # "none",
           NEW r \in ReaderStates
    PROVE  Kept(sid, x, [x EXCEPT !.reader = r])
  <1> DEFINE y == [x EXCEPT !.reader = r]
  <1>1. x.state \in {"Conected", "Closed"}
    BY FreshFacts, SessionFields DEF SessionOK
  <1>2. /\ y \in Session /\ y.state = x.state /\ y.send_que = x.send_que
        /\ y.writer = x.writer /\ y.is_writing = x.is_writing
    BY SessionUpdates DEF Session
  <1> HIDE DEF y
  <1>3. Kept(sid, x, y)
    BY <1>1, <1>2 DEF Kept, SessionOK, Writing
  <1> QED
    BY <1>3 DEF y

\* A write completes.
LEMMA WriterKept ==
    ASSUME NEW sid \in Sids, NEW x \in Session, SessionOK(sid, x), x.writer # "none",
           NEW o \in WriterStates \ {"none"}
    PROVE  Kept(sid, x, [x EXCEPT !.writer = o])
  <1> DEFINE y == [x EXCEPT !.writer = o]
  <1>1. x.state \in {"Conected", "Closed"}
    BY FreshFacts, SessionFields DEF SessionOK
  <1>2. /\ y \in Session /\ y.state = x.state /\ y.send_que = x.send_que
        /\ y.writer = o /\ y.is_writing = x.is_writing
    BY SessionUpdates DEF Session
  <1> HIDE DEF y
  <1>3. Kept(sid, x, y)
    BY <1>1, <1>2 DEF Kept, SessionOK, Writing
  <1> QED
    BY <1>3 DEF y

\* A round of start_write_loop.
LEMMA WriteLoopKept ==
    ASSUME NEW sid \in Sids, NEW x \in Session, SessionOK(sid, x), x.writer # "none"
    PROVE  Kept(sid, x, WriteLoop(x))
  <1> DEFINE y == WriteLoop(x)
  <1>1. x.state \in {"Conected", "Closed"}
    BY FreshFacts, SessionFields DEF SessionOK
  <1>2. CASE x.send_que # <<>> /\ x.state # "Closed"
    <2>1. y = [x EXCEPT !.send_que = Tail(x.send_que), !.writer = "writing"]
      BY <1>2 DEF WriteLoop
    <2>2. OwnQueue(sid, Tail(x.send_que)) /\ Tail(x.send_que) \in Seq({Pong} \cup Generations)
      BY <1>2, TailQueue DEF SessionOK, OwnQueue
    <2> HIDE DEF y
    <2>3. y \in Session
      BY <2>1, <2>2, SessionUpdates DEF WriterStates
    <2>4. /\ y.state = x.state /\ y.send_que = Tail(x.send_que) /\ y.writer = "writing"
          /\ y.is_writing = x.is_writing
      BY <2>1 DEF Session
    <2> QED
      BY <1>1, <2>2, <2>3, <2>4 DEF Kept, SessionOK, Writing, y
  <1>3. CASE ~(x.send_que # <<>> /\ x.state # "Closed")
    <2>1. y = [x EXCEPT !.writer = "none", !.is_writing = FALSE]
      BY <1>3 DEF WriteLoop
    <2> HIDE DEF y
    <2>2. y \in Session
      BY <2>1, SessionUpdates DEF WriterStates
    <2>3. /\ y.state = x.state /\ y.send_que = x.send_que /\ y.writer = "none"
          /\ y.is_writing = FALSE
      BY <2>1 DEF Session
    <2> QED
      BY <1>1, <1>3, <2>2, <2>3 DEF Kept, SessionOK, Writing, y
  <1> QED
    BY <1>2, <1>3

\* Close of a session, whatever it was doing.
LEMMA ClosedFacts ==
    ASSUME NEW sid \in Sids, NEW x \in Session
    PROVE  Closed(x) \in Session /\ Closed(x).state = "Closed" /\ SessionOK(sid, Closed(x))
  <1> DEFINE r == IF x.reader = "head" THEN "head_err"
                  ELSE IF x.reader = "body" THEN "body_err" ELSE x.reader
             o == IF x.writer = "writing" THEN "write_err" ELSE x.writer
             y == Closed(x)
  <1>1. y = [x EXCEPT !.state = "Closed", !.send_que = <<>>, !.is_writing = FALSE,
                      !.reader = r, !.writer = o]
    BY DEF Closed
  <1>2. r \in ReaderStates /\ o \in WriterStates /\ <<>> \in Seq({Pong} \cup Generations)
    BY SessionFields DEF ReaderStates, WriterStates
  <1> DEFINE z == [x EXCEPT !.state = "Closed", !.send_que = <<>>, !.is_writing = FALSE]
  <1> HIDE DEF r, o, y
  <1>3. z \in Session
    BY <1>2, SessionUpdates
  <1>4. y = [z EXCEPT !.reader = r, !.writer = o]
    BY <1>1
  <1> HIDE DEF z
  <1>5. y \in Session
    BY <1>2, <1>3, <1>4, SessionUpdates
  <1>6. y.state = "Closed" /\ y.send_que = <<>>
    BY <1>1 DEF Session
  <1> QED
    BY <1>5, <1>6, EmptyQueueOwn DEF SessionOK, y

-----------------------------------------------------------------------------
(* Slots and sessions together.                                            *)

\* What CoreOK says of one slot and one session.
LEMMA CoreFacts ==
    ASSUME NEW sl, NEW ss, CoreOK(sl, ss)
    PROVE  /\ sl \in [Links -> Slot] /\ ss \in [Sids -> Session]
           /\ \A l \in Links : sl[l] \in Slot /\ SlotOK(l, sl[l], ss)
           /\ \A sid \in Sids : /\ ss[sid] \in Session /\ SessionOK(sid, ss[sid])
                                /\ ss[sid].state # "Null" => sid[2] <= sl[sid[1]].generation
                                /\ ss[sid].state = "Conected" => Owned(sl[sid[1]], sid, "Connected")
  BY DEF CoreOK

\* A session that is kept has the state it had.
LEMMA KeptFacts ==
    ASSUME NEW sid \in Sids, NEW x \in Session, SessionOK(sid, x), NEW y, Kept(sid, x, y)
    PROVE  y \in Session /\ SessionOK(sid, y) /\ y.state = x.state
  BY DEF Kept

\* Slots stay right while every session is kept.
LEMMA KeptCore ==
    ASSUME NEW sl, NEW ss, CoreOK(sl, ss), NEW tt,
           tt = [sid \in Sids |-> tt[sid]],
           \A sid \in Sids : Kept(sid, ss[sid], tt[sid])
    PROVE  CoreOK(sl, tt)
  <1>1. \A sid \in Sids : /\ tt[sid] \in Session /\ SessionOK(sid, tt[sid])
                          /\ tt[sid].state = ss[sid].state
    BY CoreFacts, KeptFacts
  <1>2. tt \in [Sids -> Session]
    BY <1>1
  <1>3. ASSUME NEW l \in Links
        PROVE  SlotOK(l, sl[l], tt)
    <2>1. sl[l] \in Slot /\ SlotOK(l, sl[l], ss)
      BY CoreFacts
    <2>2. sl[l].session \in Sids \/ sl[l].session = NoSession
      BY <2>1, SlotFields
    <2>3. sl[l].state \in {"Accepting", "Connected"} => sl[l].session # NoSession
      BY <2>1, SlotFields, PairNotEmpty DEF SlotOK
    <2> QED
      BY <1>1, <2>1, <2>2, <2>3 DEF SlotOK
  <1> QED
    BY <1>1, <1>2, <1>3, CoreFacts DEF CoreOK

\* The same when one session changes.
LEMMA KeptOne ==
    ASSUME NEW sl, NEW ss, CoreOK(sl, ss), NEW sid \in Sids, NEW y, Kept(sid, ss[sid], y)
    PROVE  CoreOK(sl, [ss EXCEPT ![sid] = y])
  <1> DEFINE tt == [ss EXCEPT ![sid] = y]
  <1>1. ss \in [Sids -> Session]
    BY CoreFacts
  <1>2. tt = [s \in Sids |-> tt[s]]
    BY <1>1
  <1>3. \A s \in Sids : Kept(s, ss[s], tt[s])
    BY <1>1 DEF Kept
  <1> HIDE DEF tt
  <1>4. CoreOK(sl, tt)
    BY <1>2, <1>3, KeptCore
  <1> QED
    BY <1>4 DEF tt

\* A slot that is in use, and only such a slot, names a session.
LEMMA SlotNames ==
    ASSUME NEW sl, NEW ss, CoreOK(sl, ss), NEW l \in Links
    PROVE  /\ sl[l].session # NoSession <=> sl[l].state \in {"Accepting", "Connected"}
           /\ sl[l].session # NoSession =>
                /\ sl[l].session = <<l, sl[l].generation>> /\ sl[l].session \in Sids
                /\ sl[l].generation \in Generations
                /\ ss[sl[l].session].state \in {"Invalid", "Conected"}
  <1>1. sl[l] \in Slot /\ SlotOK(l, sl[l], ss)
    BY CoreFacts
  <1>2. sl[l].state \in {"Accepting", "Connected"} \/ sl[l].state \in {"Empty", "Closed"}
    BY <1>1, SlotFields DEF SlotStates
  <1>3. sl[l].state \in {"Accepting", "Connected"} => sl[l].session # NoSession
    BY <1>1, SlotFields, PairNotEmpty DEF SlotOK
  <1>4. sl[l].session # NoSession => /\ sl[l].session = <<l, sl[l].generation>>
                                     /\ sl[l].session \in Sids
                                     /\ ss[sl[l].session].state \in {"Invalid", "Conected"}
    BY <1>1, <1>2, SlotFields DEF SlotOK
  <1>5. sl[l].session # NoSession => sl[l].generation \in Generations
    BY <1>4 DEF Sids
  <1> QED
    BY <1>1, <1>2, <1>3, <1>4, <1>5 DEF SlotOK

\* The slot of a session that exists is of its generation or of a later one.
LEMMA SessionSlot ==
    ASSUME NEW sl, NEW ss, CoreOK(sl, ss), NEW sid \in Sids, ss[sid].state # "Null"
    PROVE  sl[sid[1]].generation \in Generations
  <1>1. sid[2] <= sl[sid[1]].generation /\ sl[sid[1]] \in Slot /\ sid[2] \in Nat \ {0}
    BY CoreFacts, SidFacts
  <1>2. sl[sid[1]].generation \in Nat /\ sl[sid[1]].generation \in Generations \cup {0}
    BY <1>1, SlotFields
  <1> QED
    BY <1>1, <1>2

\* What OnSessionClosed leaves of a slot.
LEMMA ClosedSlot ==
    ASSUME NEW x \in Slot
    PROVE  LET y == [x EXCEPT !.state = "Closed", !.session = NoSession]
           IN  /\ y \in Slot /\ y.state = "Closed" /\ y.session = NoSession
               /\ y.generation = x.generation
  BY DEF Slot, SlotStates

\* Closing a session and freeing its slot.
LEMMA CloseCore ==
    ASSUME NEW sl, NEW ss, CoreOK(sl, ss), NEW sid \in Sids, ss[sid].state # "Null",
           NEW y \in Session, y.state = "Closed", SessionOK(sid, y)
    PROVE  CoreOK(OnSessionClosed(sl, sid), [ss EXCEPT ![sid] = y])
  <1> DEFINE k == sid[1]
             sl2 == OnSessionClosed(sl, sid)
             tt == [ss EXCEPT ![sid] = y]
             c == [sl[k] EXCEPT !.state = "Closed", !.session = NoSession]
  <1>0. /\ sl \in [Links -> Slot] /\ ss \in [Sids -> Session] /\ k \in Links
        /\ sid = <<k, sid[2]>> /\ sl[k] \in Slot
    BY CoreFacts, SidFacts
  <1>1. /\ c \in Slot /\ c.state = "Closed" /\ c.session = NoSession
        /\ c.generation = sl[k].generation
    BY <1>0, ClosedSlot
  <1> HIDE DEF c
  <1>2. /\ tt \in [Sids -> Session] /\ tt[sid] = y
        /\ \A s \in Sids : s # sid => tt[s] = ss[s]
    BY <1>0
  <1>3. sl2 \in [Links -> Slot] /\ \A l \in Links : sl2[l].generation = sl[l].generation
    <2>1. CASE sl[k].generation = sid[2]
      <3>1. sl2 = [sl EXCEPT ![k] = c]
        BY <2>1 DEF OnSessionClosed, c
      <3> QED
        BY <1>0, <1>1, <3>1
    <2>2. CASE sl[k].generation # sid[2]
      BY <1>0, <2>2 DEF OnSessionClosed
    <2> QED
      BY <2>1, <2>2
  <1>4. ASSUME NEW l \in Links
        PROVE  (sl2[l] = sl[l] /\ ~(l = k /\ sl[k].generation = sid[2]))
               \/ (l = k /\ sl[k].generation = sid[2] /\ sl2[l] = c)
    BY <1>0, <1>4 DEF OnSessionClosed, c
  <1> HIDE DEF sl2, tt, k
  <1>5. \A s \in Sids : /\ SessionOK(s, tt[s])
                        /\ tt[s].state # "Null" => s[2] <= sl2[s[1]].generation
    BY <1>2, <1>3, CoreFacts, SidFacts
  <1>6. ASSUME NEW l \in Links
        PROVE  SlotOK(l, sl2[l], tt)
    <2>1. CASE l = k /\ sl[k].generation = sid[2] /\ sl2[l] = c
      BY <1>1, <2>1 DEF SlotOK
    <2>2. CASE sl2[l] = sl[l] /\ ~(l = k /\ sl[k].generation = sid[2])
      <3>1. SlotOK(l, sl[l], ss) /\ sl[l] \in Slot
        BY CoreFacts
      <3>2. sl[l].session # NoSession =>
              sl[l].session \in Sids /\ sl[l].session = <<l, sl[l].generation>>
        BY SlotNames
      <3>3. sl[l].session # sid
        BY <1>0, <2>2, <3>2, SidFacts
      <3>4. sl[l].session # NoSession => tt[sl[l].session] = ss[sl[l].session]
        BY <1>2, <3>2, <3>3
      <3>5. sl[l].state \in {"Accepting", "Connected"} => sl[l].session # NoSession
        BY SlotNames
      <3> QED
        BY <2>2, <3>1, <3>4, <3>5 DEF SlotOK
    <2> QED
      BY <1>4, <2>1, <2>2
  <1>7. ASSUME NEW s \in Sids, tt[s].state = "Conected"
        PROVE  Owned(sl2[s[1]], s, "Connected")
    <2>1. s # sid /\ ss[s].state = "Conected"
      BY <1>2, <1>7
    <2>2. Owned(sl[s[1]], s, "Connected") /\ s[1] \in Links /\ s = <<s[1], s[2]>>
      BY <2>1, CoreFacts, SidFacts
    <2>3. ~(s[1] = k /\ sl[k].generation = sid[2])
      BY <1>0, <2>1, <2>2 DEF Owned
    <2> QED
      BY <1>4, <2>2, <2>3
  <1>8. CoreOK(sl2, tt)
    BY <1>2, <1>3, <1>5, <1>6, <1>7 DEF CoreOK
  <1> QED
    BY <1>8 DEF sl2, tt

\* The generations are what they were.
LEMMA CloseGenerations ==
    ASSUME NEW sl \in [Links -> Slot], NEW sid \in Sids
    PROVE  \A l \in Links : OnSessionClosed(sl, sid)[l].generation = sl[l].generation
  <1>0. sid[1] \in Links /\ sl[sid[1]] \in Slot
    BY SidFacts
  <1> DEFINE c == [sl[sid[1]] EXCEPT !.state = "Closed", !.session = NoSession]
  <1>1. c.generation = sl[sid[1]].generation
    BY <1>0, ClosedSlot
  <1>2. OnSessionClosed(sl, sid) = sl \/ OnSessionClosed(sl, sid) = [sl EXCEPT ![sid[1]] = c]
    BY DEF OnSessionClosed
  <1> HIDE DEF c
  <1> QED
    BY <1>0, <1>1, <1>2

-----------------------------------------------------------------------------
(* The chain of accepts.                                                   *)

\* DoAccept claims a free slot for a session that does not exist yet.
LEMMA ClaimCore ==
    ASSUME NEW sl, NEW ss, CoreOK(sl, ss), NEW l \in Links, l \in FreeSlots(sl),
           sl[l].generation <= MaxAccepts
    PROVE  LET sid == <<l, sl[l].generation + 1>>
               c == [state |-> "Accepting", generation |-> sid[2], session |-> sid]
           IN  /\ sid \in Sids
               /\ CoreOK([sl EXCEPT ![l] = c], [ss EXCEPT ![sid] = FreshSession])
               /\ Owned(c, sid, "Accepting")
  <1> DEFINE g == sl[l].generation + 1
             sid == <<l, g>>
             c == [state |-> "Accepting", generation |-> g, session |-> sid]
             sl2 == [sl EXCEPT ![l] = c]
             tt == [ss EXCEPT ![sid] = FreshSession]
  <1>0. /\ sl \in [Links -> Slot] /\ ss \in [Sids -> Session]
        /\ sl[l] \in Slot /\ sl[l].generation \in Nat /\ sl[l].state \in {"Empty", "Closed"}
    BY CoreFacts, SlotFields DEF FreeSlots
  <1>1. g \in Generations /\ g \in Nat
    BY <1>0, NetBoundsNat DEF Generations
  <1>2. sid \in Sids /\ sid[1] = l /\ sid[2] = g
    BY <1>1, SidFacts
  <1>3. /\ c \in Slot /\ c.state = "Accepting" /\ c.generation = g /\ c.session = sid
    BY <1>1, <1>2 DEF Slot, SlotStates
  <1>4. ~(g <= sl[l].generation) /\ sl[l].generation <= g
    BY <1>0
  <1> HIDE DEF g, sid, c
  <1>5. /\ sl2 \in [Links -> Slot] /\ sl2[l] = c /\ \A k \in Links : k # l => sl2[k] = sl[k]
        /\ tt \in [Sids -> Session] /\ tt[sid] = FreshSession
        /\ \A s \in Sids : s # sid => tt[s] = ss[s]
    BY <1>0, <1>2, <1>3, FreshFacts
  <1> HIDE DEF sl2, tt
  <1>6. SessionOK(sid, FreshSession)
    BY FreshFacts, EmptyQueueOwn DEF SessionOK
  <1>7. ASSUME NEW s \in Sids
        PROVE  SessionOK(s, tt[s]) /\ (tt[s].state # "Null" => s[2] <= sl2[s[1]].generation)
    <2>1. CASE s = sid
      BY <1>1, <1>2, <1>3, <1>5, <1>6, <2>1
    <2>2. CASE s # sid
      <3>1. SessionOK(s, tt[s]) /\ (tt[s].state # "Null" => s[2] <= sl[s[1]].generation)
            /\ s[1] \in Links /\ s[2] \in Nat
        BY <1>5, <2>2, CoreFacts, SidFacts
      <3>2. sl[s[1]].generation \in Nat /\ sl[s[1]].generation <= sl2[s[1]].generation
            /\ sl2[s[1]].generation \in Nat
        BY <1>0, <1>1, <1>3, <1>4, <1>5, <3>1, SlotFields
      <3> QED
        BY <3>1, <3>2
    <2> QED
      BY <2>1, <2>2
  <1>8. ASSUME NEW k \in Links
        PROVE  SlotOK(k, sl2[k], tt)
    <2>1. CASE k = l
      BY <1>2, <1>3, <1>5, <2>1, FreshFacts DEF SlotOK, sid
    <2>2. CASE k # l
      <3>1. /\ sl2[k] = sl[k] /\ SlotOK(k, sl[k], ss)
            /\ sl[k].session # NoSession =>
                 sl[k].session \in Sids /\ sl[k].session = <<k, sl[k].generation>>
            /\ sl[k].state \in {"Accepting", "Connected"} => sl[k].session # NoSession
        BY <1>5, <2>2, CoreFacts, SlotNames
      <3>2. sl[k].session # NoSession => sl[k].session # sid
        BY <2>2, <3>1 DEF sid
      <3>3. sl[k].session # NoSession => tt[sl[k].session] = ss[sl[k].session]
        BY <1>5, <3>1, <3>2
      <3> QED
        BY <3>1, <3>3 DEF SlotOK
    <2> QED
      BY <2>1, <2>2
  <1>9. ASSUME NEW s \in Sids, tt[s].state = "Conected"
        PROVE  Owned(sl2[s[1]], s, "Connected")
    <2>1. s # sid /\ ss[s].state = "Conected"
      BY <1>5, <1>9, FreshFacts
    <2>2. Owned(sl[s[1]], s, "Connected") /\ s[1] \in Links
      BY <2>1, CoreFacts, SidFacts
    <2>3. s[1] # l
      BY <1>0, <2>2 DEF Owned
    <2> QED
      BY <1>5, <2>2, <2>3
  <1>10. CoreOK(sl2, tt)
    BY <1>5, <1>7, <1>8, <1>9 DEF CoreOK
  <1>11. Owned(c, sid, "Accepting")
    BY <1>2, <1>3 DEF Owned
  <1> QED
    BY <1>2, <1>10, <1>11 DEF g, sid, c, sl2, tt

\* DoAccept at the end of a handler that leaves no operation and no timer.
LEMMA DoAcceptStep ==
    ASSUME NEW sl, NEW ss, CoreOK(sl, ss), DoAccept(sl, ss, {}, "off"), stopping' = stopping,
           ~stopping => \A l \in Links : sl[l].generation <= MaxAccepts
    PROVE  /\ CoreOK(slots', sess') /\ AcceptsOK(slots', accepts', retry')
           /\ BoundOK(slots, accepts)'
  <1>1. CASE stopping /\ slots' = sl /\ sess' = ss /\ accepts' = {} /\ retry' = "off"
    BY <1>1 DEF AcceptsOK, BoundOK
  <1>2. CASE /\ ~stopping /\ slots' = sl /\ sess' = ss /\ accepts' = {} /\ retry' = "armed"
    BY <1>2 DEF AcceptsOK, BoundOK
  <1>3. CASE ~stopping /\ FreeSlots(sl) # {} /\ retry' = "off"
             /\ LET l == FindAvailableSlot(sl)
                    sid == <<l, sl[l].generation + 1>>
                IN  /\ slots' = [sl EXCEPT ![l] =
                           [state |-> "Accepting", generation |-> sid[2], session |-> sid]]
                    /\ sess' = [ss EXCEPT ![sid] = FreshSession]
                    /\ accepts' = {[sid |-> sid, result |-> "pending"]}
    <2> DEFINE l == FindAvailableSlot(sl)
               sid == <<l, sl[l].generation + 1>>
               c == [state |-> "Accepting", generation |-> sid[2], session |-> sid]
    <2>1. l \in FreeSlots(sl) /\ l \in Links
      BY <1>3, FindFacts DEF FreeSlots
    <2>2. /\ slots' = [sl EXCEPT ![l] = c] /\ sess' = [ss EXCEPT ![sid] = FreshSession]
          /\ accepts' = {[sid |-> sid, result |-> "pending"]}
      BY <1>3
    <2>3. sl[l].generation <= MaxAccepts /\ sl \in [Links -> Slot]
      BY <1>3, <2>1, CoreFacts
    <2>s. sid[1] = l
      OBVIOUS
    <2> HIDE DEF l
    <2>4. sid \in Sids /\ CoreOK(slots', sess') /\ Owned(c, sid, "Accepting")
      BY <2>1, <2>2, <2>3, ClaimCore
    <2> HIDE DEF sid, c
    <2>5. slots'[l] = c
      BY <2>1, <2>2, <2>3
    <2>r. retry' = "off"
      BY <1>3
    <2>6. AcceptsOK(slots', accepts', retry')
      <3> DEFINE o == [sid |-> sid, result |-> "pending"]
      <3>1. /\ o \in [sid : Sids, result : {"pending", "ok", "error", "aborted"}]
            /\ o.sid = sid /\ accepts' = {o}
        BY <2>2, <2>4
      <3> HIDE DEF o
      <3> QED
        BY <2>r, <2>4, <2>5, <2>s, <3>1 DEF AcceptsOK
    <2>7. \E op \in accepts' : op.result = "pending"
      BY <2>2
    <2> QED
      BY <2>4, <2>6, <2>7 DEF BoundOK
  <1> QED
    BY <1>1, <1>2, <1>3 DEF DoAccept, FreshSession

\* The one operation under way.
LEMMA OneOp ==
    ASSUME NetInv, NEW op \in accepts
    PROVE  /\ op.sid \in Sids /\ accepts = {op} /\ accepts \ {op} = {} /\ retry = "off"
           /\ op.result # "pending" /\ ~stopping =>
                \A l \in Links : slots[l].generation <= MaxAccepts
           /\ op.result \in {"pending", "ok", "error", "aborted"}
  <1>1. AcceptsOK(slots, accepts, retry) /\ BoundOK(slots, accepts)
    BY DEF NetInv
  <1>2. /\ accepts \subseteq [sid : Sids, result : {"pending", "ok", "error", "aborted"}]
        /\ accepts = {op} /\ retry = "off"
    BY <1>1 DEF AcceptsOK
  <1>3. op.result # "pending" /\ ~stopping => \A l \in Links : slots[l].generation <= MaxAccepts
    BY <1>1, <1>2 DEF BoundOK
  <1> QED
    BY <1>2, <1>3

\* A step that leaves the logic side alone.
LEMMA LogicSame ==
    ASSUME NetInv, UNCHANGED <<logic, uid_route, tasks>>
    PROVE  LogicOK'
  BY DEF NetInv, LogicOK

\* A session starts when its gateway connects.
LEMMA StartCore ==
    ASSUME NEW sl, NEW ss, CoreOK(sl, ss), NEW sid \in Sids, Owned(sl[sid[1]], sid, "Accepting")
    PROVE  CoreOK([sl EXCEPT ![sid[1]].state = "Connected"], [ss EXCEPT ![sid] = Started(@)])
  <1> DEFINE k == sid[1]
             c == [sl[k] EXCEPT !.state = "Connected"]
             y == Started(ss[sid])
             sl2 == [sl EXCEPT ![k] = c]
             tt == [ss EXCEPT ![sid] = y]
  <1>0. /\ sl \in [Links -> Slot] /\ ss \in [Sids -> Session] /\ k \in Links
        /\ sl[k] \in Slot /\ sid = <<k, sid[2]>> /\ SlotOK(k, sl[k], ss)
        /\ ss[sid] \in Session /\ SessionOK(sid, ss[sid])
    BY CoreFacts, SidFacts
  <1>1. ss[sid] = FreshSession
    BY <1>0 DEF Owned, SlotOK, SessionOK
  <1>2. /\ c \in Slot /\ c.state = "Connected" /\ c.generation = sid[2] /\ c.session = sid
    BY <1>0 DEF Owned, Slot, SlotStates
  <1>3. y \in Session
    <2>1. y = [FreshSession EXCEPT !.state = "Conected", !.reader = "head"]
      BY <1>1 DEF Started
    <2> QED
      BY <2>1, FreshFacts, SessionUpdates DEF ReaderStates
  <1>4. y.state = "Conected" /\ y.send_que = <<>> /\ y.writer = "none" /\ y.is_writing = FALSE
    <2>1. ASSUME NEW x \in Session
          PROVE  /\ Started(x).state = "Conected" /\ Started(x).send_que = x.send_que
                 /\ Started(x).writer = x.writer /\ Started(x).is_writing = x.is_writing
      BY DEF Started, Session
    <2> QED
      BY <1>1, <2>1, FreshFacts
  <1>5. SessionOK(sid, y)
    BY <1>3, <1>4, EmptyQueueOwn DEF SessionOK, Writing
  <1> HIDE DEF c, y
  <1>6. /\ sl2 \in [Links -> Slot] /\ sl2[k] = c /\ \A l \in Links : l # k => sl2[l] = sl[l]
        /\ tt \in [Sids -> Session] /\ tt[sid] = y
        /\ \A s \in Sids : s # sid => tt[s] = ss[s]
    BY <1>0, <1>2, <1>3
  <1>g. \A l \in Links : sl2[l].generation = sl[l].generation
    BY <1>2, <1>6 DEF Owned
  <1> HIDE DEF sl2, tt
  <1>7. \A s \in Sids : SessionOK(s, tt[s])
    BY <1>5, <1>6, CoreFacts
  <1>8. ASSUME NEW s \in Sids, tt[s].state # "Null"
        PROVE  s[2] <= sl2[s[1]].generation
    <2>1. ss[s].state # "Null"
      BY <1>1, <1>6, <1>8, FreshFacts
    <2> QED
      BY <1>g, <2>1, CoreFacts, SidFacts
  <1>9. ASSUME NEW l \in Links
        PROVE  SlotOK(l, sl2[l], tt)
    <2>1. CASE l = k
      BY <1>0, <1>2, <1>4, <1>6, <2>1 DEF SlotOK
    <2>2. CASE l # k
      <3>1. /\ sl2[l] = sl[l] /\ SlotOK(l, sl[l], ss)
            /\ sl[l].session # NoSession =>
                 sl[l].session \in Sids /\ sl[l].session = <<l, sl[l].generation>>
            /\ sl[l].state \in {"Accepting", "Connected"} => sl[l].session # NoSession
        BY <1>6, <2>2, CoreFacts, SlotNames
      <3>2. sl[l].session # NoSession => sl[l].session # sid
        BY <1>0, <2>2, <3>1
      <3>3. sl[l].session # NoSession => tt[sl[l].session] = ss[sl[l].session]
        BY <1>6, <3>1, <3>2
      <3> QED
        BY <3>1, <3>3 DEF SlotOK
    <2> QED
      BY <2>1, <2>2
  <1>10. ASSUME NEW s \in Sids, tt[s].state = "Conected"
         PROVE  Owned(sl2[s[1]], s, "Connected")
    <2>1. CASE s = sid
      BY <1>2, <1>6, <2>1 DEF Owned
    <2>2. CASE s # sid
      <3>1. Owned(sl[s[1]], s, "Connected") /\ s[1] \in Links
        BY <1>6, <1>10, <2>2, CoreFacts, SidFacts
      <3>2. s[1] # k
        BY <3>1 DEF Owned
      <3> QED
        BY <1>6, <3>1, <3>2
    <2> QED
      BY <2>1, <2>2
  <1>11. CoreOK(sl2, tt)
    BY <1>6, <1>7, <1>8, <1>9, <1>10 DEF CoreOK
  <1> QED
    BY <1>11 DEF sl2, tt, c, y, k

\* The accept handler after a connection.
LEMMA OnAcceptOkInv ==
    ASSUME NetInv, NEW op \in accepts, OnAcceptOk(op),
           UNCHANGED <<stopping, stop_task, logic, uid_route, tasks>>
    PROVE  NetInv'
  <1>0. /\ CoreOK(slots, sess) /\ op.sid \in Sids /\ op.result = "ok"
        /\ accepts \ {op} = {} /\ retry = "off"
        /\ ~stopping => \A l \in Links : slots[l].generation <= MaxAccepts
    BY OneOp DEF NetInv, OnAcceptOk
  <1> DEFINE k == op.sid[1]
             awaited == /\ slots[k].generation = op.sid[2]
                        /\ slots[k].state = "Accepting" /\ slots[k].session # NoSession
  <1>1. CoreOK(slots', sess') /\ AcceptsOK(slots', accepts', retry') /\ BoundOK(slots, accepts)'
    <2>1. CASE ~awaited
      <3>1. DoAccept(slots, sess, {}, "off")
        BY <1>0, <2>1 DEF OnAcceptOk
      <3> QED
        BY <1>0, <3>1, DoAcceptStep
    <2>2. CASE awaited
      <3>1. k \in Links /\ op.sid = <<k, op.sid[2]>>
        BY <1>0, SidFacts
      <3>2. slots[k].session = op.sid
        BY <1>0, <2>2, <3>1, SlotNames
      <3>3. Owned(slots[k], op.sid, "Accepting")
        BY <2>2, <3>2 DEF Owned
      <3> DEFINE sl == [slots EXCEPT ![k].state = "Connected"]
                 ss == [sess EXCEPT ![op.sid] = Started(@)]
      <3>4. CoreOK(sl, ss)
        BY <1>0, <3>3, StartCore
      <3>5. DoAccept(sl, ss, {}, "off")
        BY <1>0, <2>2, <3>2 DEF OnAcceptOk
      <3>6. slots \in [Links -> Slot] /\ slots[k] \in Slot
        BY <1>0, <3>1, CoreFacts
      <3>7. \A l \in Links : sl[l].generation = slots[l].generation
        BY <3>6 DEF Slot
      <3> HIDE DEF sl, ss
      <3> QED
        BY <1>0, <3>4, <3>5, <3>7, DoAcceptStep
    <2> QED
      BY <2>1, <2>2
  <1> QED
    BY <1>1, LogicSame DEF NetInv

\* The accept handler after an error or when the shard stops.
LEMMA OnAcceptErrorInv ==
    ASSUME NetInv, NEW op \in accepts, OnAcceptError(op),
           UNCHANGED <<stopping, stop_task, logic, uid_route, tasks>>
    PROVE  NetInv'
  <1> DEFINE k == op.sid[1]
             current == slots[k].generation = op.sid[2]
             ss == IF current /\ slots[k].session # NoSession
                   THEN CloseIn(sess, slots[k].session) ELSE sess
             sl == IF current
                   THEN [slots EXCEPT ![k].state = "Closed", ![k].session = NoSession] ELSE slots
  <1>0. /\ CoreOK(slots, sess) /\ op.sid \in Sids /\ op.result \in {"error", "aborted"}
        /\ accepts \ {op} = {} /\ retry = "off"
        /\ ~stopping => \A l \in Links : slots[l].generation <= MaxAccepts
    BY OneOp DEF NetInv, OnAcceptError
  <1>1. k \in Links /\ op.sid = <<k, op.sid[2]>> /\ slots \in [Links -> Slot]
        /\ sess \in [Sids -> Session]
    BY <1>0, SidFacts, CoreFacts
  <1>2. CoreOK(sl, ss) /\ \A l \in Links : sl[l].generation = slots[l].generation
    <2>1. CASE ~current
      BY <1>0, <2>1
    <2>2. CASE current
      <3>1. sl = OnSessionClosed(slots, op.sid)
        BY <2>2 DEF OnSessionClosed
      <3>2. \A l \in Links : sl[l].generation = slots[l].generation
        BY <1>0, <1>1, <3>1, CloseGenerations
      <3>3. CoreOK(sl, ss)
        <4>1. CASE slots[k].session # NoSession
          <5>1. slots[k].session = op.sid /\ sess[op.sid].state \in {"Invalid", "Conected"}
            BY <1>0, <1>1, <2>2, <4>1, SlotNames
          <5>2. ss = [sess EXCEPT ![op.sid] = Closed(sess[op.sid])]
            BY <2>2, <4>1, <5>1 DEF CloseIn
          <5>3. sess[op.sid] \in Session
            BY <1>0, <1>1
          <5> DEFINE y == Closed(sess[op.sid])
          <5>4. y \in Session /\ y.state = "Closed" /\ SessionOK(op.sid, y)
            BY <1>0, <5>3, ClosedFacts
          <5>5. sess[op.sid].state # "Null"
            BY <5>1
          <5> HIDE DEF y
          <5>6. CoreOK(OnSessionClosed(slots, op.sid), [sess EXCEPT ![op.sid] = y])
            BY <1>0, <5>4, <5>5, CloseCore
          <5> QED
            BY <3>1, <5>2, <5>6 DEF y
        <4>2. CASE slots[k].session = NoSession
          <5>1. ss = sess
            BY <4>2
          <5> DEFINE c == [slots[k] EXCEPT !.state = "Closed", !.session = NoSession]
          <5>2. sl = [slots EXCEPT ![k] = c]
            BY <2>2
          <5>3. c \in Slot /\ c.state = "Closed" /\ c.session = NoSession
                /\ c.generation = slots[k].generation
            BY <1>1, ClosedSlot
          <5> HIDE DEF c, sl, ss
          <5>4. sl \in [Links -> Slot] /\ sl[k] = c /\ \A l \in Links : l # k => sl[l] = slots[l]
            BY <1>1, <5>2, <5>3
          <5>5. \A l \in Links : SlotOK(l, sl[l], sess)
            BY <1>0, <5>3, <5>4, CoreFacts DEF SlotOK
          <5>6. \A s \in Sids : sess[s].state = "Conected" => s[1] # k
            BY <1>0, <4>2, CoreFacts, SidFacts DEF Owned
          <5>7. \A s \in Sids : sess[s].state = "Conected" => Owned(sl[s[1]], s, "Connected")
            BY <1>0, <5>4, <5>6, CoreFacts, SidFacts
          <5>8. \A s \in Sids : sess[s].state # "Null" => s[2] <= sl[s[1]].generation
            BY <1>0, <3>2, CoreFacts, SidFacts
          <5>9. \A s \in Sids : SessionOK(s, sess[s])
            BY <1>0, CoreFacts
          <5>10. CoreOK(sl, sess)
            BY <1>1, <5>4, <5>5, <5>7, <5>8, <5>9 DEF CoreOK
          <5> QED
            BY <5>1, <5>10
        <4> QED
          BY <4>1, <4>2
      <3> QED
        BY <3>2, <3>3
    <2> QED
      BY <2>1, <2>2
  <1>3. CoreOK(slots', sess') /\ AcceptsOK(slots', accepts', retry') /\ BoundOK(slots, accepts)'
    <2>1. CASE DoAccept(sl, ss, {}, "off")
      <3> HIDE DEF sl, ss
      <3> QED
        BY <1>0, <1>2, <2>1, DoAcceptStep
    <2>2. CASE slots' = sl /\ sess' = ss /\ accepts' = {} /\ retry' = "off"
      <3> HIDE DEF sl, ss
      <3> QED
        BY <1>0, <1>2, <2>2 DEF AcceptsOK, BoundOK
    <2> QED
      BY <1>0, <2>1, <2>2 DEF OnAcceptError
  <1> QED
    BY <1>3, LogicSame DEF NetInv

\* The timer's handler.
LEMMA OnRetryInv == ASSUME NetInv, OnRetry PROVE NetInv'
  <1>0. /\ CoreOK(slots, sess) /\ accepts = {} /\ DoAccept(slots, sess, accepts, "off")
        /\ UNCHANGED <<stopping, stop_task, logic, uid_route, tasks>>
    BY DEF NetInv, OnRetry, AcceptsOK
  <1>1. ~stopping => \A l \in Links : slots[l].generation <= MaxAccepts
    BY <1>0 DEF NetInv, BoundOK
  <1>2. CoreOK(slots', sess') /\ AcceptsOK(slots', accepts', retry') /\ BoundOK(slots, accepts)'
    BY <1>0, <1>1, DoAcceptStep
  <1> QED
    BY <1>0, <1>2, LogicSame DEF NetInv

\* An accept completes.
LEMMA AcceptCompletesInv == ASSUME NetInv, NEW op \in accepts, AcceptCompletes(op) PROVE NetInv'
  <1>1. PICK r \in {"ok", "error"} : accepts' = (accepts \ {op}) \cup {[op EXCEPT !.result = r]}
    BY DEF AcceptCompletes
  <1>2. /\ UNCHANGED <<slots, sess, retry, stopping, stop_task, logic, uid_route, tasks>>
        /\ \A l \in Links : slots[l].generation <= MaxAccepts
    BY DEF AcceptCompletes
  <1>3. accepts \ {op} = {} /\ retry = "off"
        /\ op \in [sid : Sids, result : {"pending", "ok", "error", "aborted"}]
    BY OneOp DEF NetInv, AcceptsOK
  <1> DEFINE o == [op EXCEPT !.result = r]
  <1>4. o \in [sid : Sids, result : {"pending", "ok", "error", "aborted"}] /\ o.result # "pending"
    BY <1>3
  <1> HIDE DEF o
  <1>5. accepts' = {o}
    BY <1>1, <1>3 DEF o
  <1>6. AcceptsOK(slots', accepts', retry')
    BY <1>2, <1>3, <1>4, <1>5 DEF AcceptsOK
  <1>7. BoundOK(slots, accepts)' /\ CoreOK(slots', sess')
    BY <1>2 DEF BoundOK, NetInv
  <1> QED
    BY <1>2, <1>6, <1>7, LogicSame DEF NetInv

\* The timer fires.
LEMMA RetryFiresInv == ASSUME NetInv, RetryFires PROVE NetInv'
  <1>1. /\ retry = "armed" /\ retry' = "fired" /\ UNCHANGED <<slots, sess, accepts, stopping, stop_task>>
        /\ UNCHANGED <<logic, uid_route, tasks>>
    BY DEF RetryFires
  <1>2. AcceptsOK(slots', accepts', retry')
    BY <1>1 DEF NetInv, AcceptsOK
  <1>3. BoundOK(slots, accepts)' /\ CoreOK(slots', sess')
    BY <1>1 DEF NetInv, BoundOK
  <1> QED
    BY <1>1, <1>2, <1>3, LogicSame DEF NetInv

-----------------------------------------------------------------------------
(* Reading and writing.                                                    *)

\* A step of a session that leaves slots and accepts alone.
LEMMA SessStep ==
    ASSUME NetInv, CoreOK(slots, sess'), LogicOK',
           UNCHANGED <<slots, accepts, retry, stopping, stop_task>>
    PROVE  NetInv'
  <1>1. AcceptsOK(slots', accepts', retry') /\ BoundOK(slots, accepts)'
    BY DEF NetInv, BoundOK
  <1> QED
    BY <1>1 DEF NetInv

\* A read completes, well or not.
LEMMA ReadCompletesInv == ASSUME NetInv, NEW sid \in Sids, ReadCompletes(sid) PROVE NetInv'
  <1>0. CoreOK(slots, sess) /\ sess[sid] \in Session /\ SessionOK(sid, sess[sid])
    BY CoreFacts DEF NetInv
  <1>1. /\ sess[sid].reader \in {"head", "body"}
        /\ \E r \in ReaderStates : sess' = [sess EXCEPT ![sid].reader = r]
    BY DEF ReadCompletes, SetReader, ReaderStates
  <1>2. PICK r \in ReaderStates : sess' = [sess EXCEPT ![sid].reader = r]
    BY <1>1
  <1> DEFINE y == [sess[sid] EXCEPT !.reader = r]
  <1>3. Kept(sid, sess[sid], y)
    BY <1>0, <1>1, ReaderKept
  <1>4. sess' = [sess EXCEPT ![sid] = y]
    BY <1>2
  <1> HIDE DEF y
  <1>5. CoreOK(slots, sess')
    BY <1>0, <1>3, <1>4, KeptOne
  <1> QED
    BY <1>5, LogicSame, SessStep DEF ReadCompletes

\* After a header.
LEMMA OnHeadInv == ASSUME NetInv, NEW sid \in Sids, OnHead(sid) PROVE NetInv'
  <1>0. CoreOK(slots, sess) /\ sess[sid] \in Session /\ SessionOK(sid, sess[sid])
    BY CoreFacts DEF NetInv
  <1>1. PICK r \in ReaderStates : sess' = [sess EXCEPT ![sid].reader = r]
    BY DEF OnHead, SetReader, ReaderStates
  <1> DEFINE y == [sess[sid] EXCEPT !.reader = r]
  <1>2. Kept(sid, sess[sid], y)
    BY <1>0, ReaderKept DEF OnHead
  <1>3. sess' = [sess EXCEPT ![sid] = y]
    BY <1>1
  <1> HIDE DEF y
  <1>4. CoreOK(slots, sess')
    BY <1>0, <1>2, <1>3, KeptOne
  <1> QED
    BY <1>4, LogicSame, SessStep DEF OnHead

\* A round of the write loop.
LEMMA OnWriteInv == ASSUME NetInv, NEW sid \in Sids, OnWrite(sid) PROVE NetInv'
  <1>0. CoreOK(slots, sess) /\ sess[sid] \in Session /\ SessionOK(sid, sess[sid])
    BY CoreFacts DEF NetInv
  <1> DEFINE y == WriteLoop(sess[sid])
  <1>1. Kept(sid, sess[sid], y)
    BY <1>0, WriteLoopKept DEF OnWrite
  <1>2. sess' = [sess EXCEPT ![sid] = y]
    BY DEF OnWrite
  <1> HIDE DEF y
  <1>3. CoreOK(slots, sess')
    BY <1>0, <1>1, <1>2, KeptOne
  <1> QED
    BY <1>3, LogicSame, SessStep DEF OnWrite

\* A write completes, well or not.
LEMMA WriteCompletesInv == ASSUME NetInv, NEW sid \in Sids, WriteCompletes(sid) PROVE NetInv'
  <1>0. CoreOK(slots, sess) /\ sess[sid] \in Session /\ SessionOK(sid, sess[sid])
    BY CoreFacts DEF NetInv
  <1>1. PICK r \in WriterStates \ {"none"} : sess' = [sess EXCEPT ![sid].writer = r]
    BY DEF WriteCompletes, WriterStates
  <1> DEFINE y == [sess[sid] EXCEPT !.writer = r]
  <1>2. Kept(sid, sess[sid], y)
    BY <1>0, WriterKept DEF WriteCompletes
  <1>3. sess' = [sess EXCEPT ![sid] = y]
    BY <1>1
  <1> HIDE DEF y
  <1>4. CoreOK(slots, sess')
    BY <1>0, <1>2, <1>3, KeptOne
  <1> QED
    BY <1>4, LogicSame, SessStep DEF WriteCompletes

\* The coroutines of a closed session end.
LEMMA ClosedUpdates ==
    ASSUME NEW sid \in Sids, NEW x \in Session, x.state = "Closed", SessionOK(sid, x)
    PROVE  LET y == [x EXCEPT !.reader = "end"]
               z == [x EXCEPT !.writer = "none", !.is_writing = FALSE]
           IN  /\ y \in Session /\ y.state = "Closed" /\ SessionOK(sid, y)
               /\ z \in Session /\ z.state = "Closed" /\ SessionOK(sid, z)
  <1> DEFINE y == [x EXCEPT !.reader = "end"]
             z == [x EXCEPT !.writer = "none", !.is_writing = FALSE]
  <1>1. y \in Session /\ z \in Session
    BY SessionUpdates DEF ReaderStates, WriterStates
  <1>2. y.state = "Closed" /\ z.state = "Closed" /\ y.send_que = x.send_que /\ z.send_que = x.send_que
    BY DEF Session
  <1> HIDE DEF y, z
  <1>3. SessionOK(sid, y) /\ SessionOK(sid, z)
    BY <1>1, <1>2 DEF SessionOK
  <1> QED
    BY <1>1, <1>2, <1>3 DEF y, z

\* Close after an error: the slot goes with a session that was connected.
LEMMA CloseStep ==
    ASSUME NetInv, NEW sid \in Sids, sess[sid].state \in {"Conected", "Closed"},
           NEW y \in Session, y.state = "Closed", SessionOK(sid, y),
           sess' = [sess EXCEPT ![sid] = y], slots' = SlotsAfterClose(sess, slots, sid),
           UNCHANGED <<accepts, retry, stopping, stop_task, logic, uid_route, tasks>>
    PROVE  NetInv'
  <1>0. /\ CoreOK(slots, sess) /\ AcceptsOK(slots, accepts, retry) /\ BoundOK(slots, accepts)
        /\ slots \in [Links -> Slot] /\ sid[1] \in Links /\ LogicOK'
    BY CoreFacts, SidFacts, LogicSame DEF NetInv
  <1>1. CASE sess[sid].state = "Closed"
    <2>1. slots' = slots
      BY <1>1 DEF SlotsAfterClose
    <2>2. Kept(sid, sess[sid], y)
      BY <1>1 DEF Kept
    <2>3. CoreOK(slots, sess')
      BY <1>0, <2>2, KeptOne
    <2> QED
      BY <1>0, <2>1, <2>3, SessStep
  <1>2. CASE sess[sid].state = "Conected"
    <2>1. slots' = OnSessionClosed(slots, sid) /\ sess[sid].state # "Null"
      BY <1>2 DEF SlotsAfterClose
    <2>c. CoreOK(OnSessionClosed(slots, sid), [sess EXCEPT ![sid] = y])
      BY <1>0, <2>1, CloseCore
    <2>2. CoreOK(slots', sess')
      BY <2>1, <2>c
    <2>3. \A l \in Links : slots'[l].generation = slots[l].generation
      BY <1>0, <2>1, CloseGenerations
    <2>4. Owned(slots[sid[1]], sid, "Connected")
      BY <1>0, <1>2, CoreFacts
    <2>5. \A l \in Links : l # sid[1] => slots'[l] = slots[l]
      BY <1>0, <2>1 DEF OnSessionClosed
    <2>6. ASSUME NEW op \in accepts, op.result = "pending"
          PROVE  Owned(slots'[op.sid[1]], op.sid, "Accepting")
      <3>1. Owned(slots[op.sid[1]], op.sid, "Accepting") /\ op.sid \in Sids
        BY <1>0, <2>6 DEF AcceptsOK
      <3>2. op.sid[1] # sid[1] /\ op.sid[1] \in Links
        BY <2>4, <3>1, SidFacts DEF Owned
      <3> QED
        BY <2>5, <3>1, <3>2
    <2>7. AcceptsOK(slots', accepts', retry')
      BY <1>0, <2>6 DEF AcceptsOK
    <2>8. BoundOK(slots, accepts)'
      BY <1>0, <2>3 DEF BoundOK
    <2> QED
      BY <1>0, <2>2, <2>7, <2>8 DEF NetInv
  <1> QED
    BY <1>1, <1>2

\* A coroutine that is under way belongs to a session that was started.
LEMMA CoroutineStarted ==
    ASSUME NEW sid \in Sids, NEW x \in Session, SessionOK(sid, x),
           x.reader # "none" \/ x.writer # "none"
    PROVE  x.state \in {"Conected", "Closed"}
  BY FreshFacts, SessionFields DEF SessionOK

\* Close of a session object leaves a closed one.
LEMMA CloseInFacts ==
    ASSUME NetInv, NEW sid \in Sids
    PROVE  /\ CloseIn(sess, sid) \in [Sids -> Session]
           /\ \A s \in Sids : s # sid => CloseIn(sess, sid)[s] = sess[s]
           /\ CloseIn(sess, sid)[sid].state = "Closed" /\ SessionOK(sid, CloseIn(sess, sid)[sid])
  <1>0. sess \in [Sids -> Session] /\ SessionOK(sid, sess[sid]) /\ sess[sid] \in Session
    BY CoreFacts DEF NetInv
  <1> DEFINE y == Closed(sess[sid])
  <1>1. y \in Session /\ y.state = "Closed" /\ SessionOK(sid, y)
    BY <1>0, ClosedFacts
  <1>2. CloseIn(sess, sid) = IF sess[sid].state = "Closed" THEN sess ELSE [sess EXCEPT ![sid] = y]
    BY DEF CloseIn
  <1> HIDE DEF y
  <1> QED
    BY <1>0, <1>1, <1>2

\* A failed read closes the session.
LEMMA OnReadErrorInv == ASSUME NetInv, NEW sid \in Sids, OnReadError(sid) PROVE NetInv'
  <1>0. sess \in [Sids -> Session] /\ SessionOK(sid, sess[sid]) /\ sess[sid] \in Session
    BY CoreFacts DEF NetInv
  <1>1. sess[sid].state \in {"Conected", "Closed"}
    BY <1>0, CoroutineStarted DEF OnReadError
  <1> DEFINE cc == CloseIn(sess, sid)
             y == [cc[sid] EXCEPT !.reader = "end"]
  <1>2. /\ cc \in [Sids -> Session] /\ \A s \in Sids : s # sid => cc[s] = sess[s]
        /\ cc[sid].state = "Closed" /\ SessionOK(sid, cc[sid])
    BY CloseInFacts
  <1>3. sess' = [cc EXCEPT ![sid] = y]
    BY DEF OnReadError
  <1> HIDE DEF cc
  <1>4. y \in Session /\ y.state = "Closed" /\ SessionOK(sid, y)
    BY <1>2, ClosedUpdates
  <1> HIDE DEF y
  <1>5. sess' = [sess EXCEPT ![sid] = y]
    BY <1>0, <1>2, <1>3
  <1> QED
    BY <1>1, <1>4, <1>5, CloseStep DEF OnReadError

\* A failed write closes the session.
LEMMA OnWriteErrorInv == ASSUME NetInv, NEW sid \in Sids, OnWriteError(sid) PROVE NetInv'
  <1>0. sess \in [Sids -> Session] /\ SessionOK(sid, sess[sid]) /\ sess[sid] \in Session
    BY CoreFacts DEF NetInv
  <1>1. sess[sid].state \in {"Conected", "Closed"}
    BY <1>0, CoroutineStarted DEF OnWriteError
  <1> DEFINE cc == CloseIn(sess, sid)
             y == [cc[sid] EXCEPT !.writer = "none", !.is_writing = FALSE]
  <1>2. /\ cc \in [Sids -> Session] /\ \A s \in Sids : s # sid => cc[s] = sess[s]
        /\ cc[sid].state = "Closed" /\ SessionOK(sid, cc[sid])
    BY CloseInFacts
  <1>3. sess' = [cc EXCEPT ![sid].writer = "none", ![sid].is_writing = FALSE]
    BY DEF OnWriteError
  <1> HIDE DEF cc
  <1>4. y \in Session /\ y.state = "Closed" /\ SessionOK(sid, y)
    BY <1>2, ClosedUpdates
  <1>5. sess' = [cc EXCEPT ![sid] = y]
    BY <1>2, <1>3
  <1> HIDE DEF y
  <1>6. sess' = [sess EXCEPT ![sid] = y]
    BY <1>0, <1>2, <1>5
  <1> QED
    BY <1>1, <1>4, <1>6, CloseStep DEF OnWriteError

\* After a body: a request, a ping that is answered, or nothing.
LEMMA OnBodyInv == ASSUME NetInv, NEW sid \in Sids, OnBody(sid) PROVE NetInv'
  <1>0. /\ CoreOK(slots, sess) /\ sess \in [Sids -> Session] /\ sess[sid] \in Session
        /\ SessionOK(sid, sess[sid]) /\ sess[sid].reader = "body_ok" /\ LogicOK
    BY CoreFacts DEF NetInv, OnBody
  <1>1. sess[sid].state \in {"Conected", "Closed"} /\ sid[1] \in Links
    BY <1>0, CoroutineStarted, SidFacts
  <1> DEFINE l == sid[1]
             y == [sess[sid] EXCEPT !.reader = NextRead(sess[sid])]
             ss == [sess EXCEPT ![sid] = y]
  <1>2. Kept(sid, sess[sid], y)
    <2>1. NextRead(sess[sid]) \in ReaderStates
      BY DEF NextRead, ReaderStates
    <2> QED
      BY <1>0, <2>1, ReaderKept
  <1>3. CoreOK(slots, ss)
    <2> HIDE DEF y
    <2> QED
      BY <1>0, <1>2, KeptOne
  <1>4. UNCHANGED <<slots, accepts, retry, stopping, stop_task, uid_route, tasks>>
    BY DEF OnBody
  <1>5. CASE sess' = ss /\ logic' = logic
    <2> HIDE DEF ss
    <2> QED
      BY <1>3, <1>4, <1>5, LogicSame, SessStep
  <1>6. CASE sess' = ss /\ \E uid \in Uids : logic' = Append(logic, [uid |-> uid,
                               origin |-> MakeRoute(l), carrier |-> sid])
    <2>1. PICK uid \in Uids : logic' = Append(logic, [uid |-> uid, origin |-> MakeRoute(l),
                                                      carrier |-> sid])
      BY <1>6
    <2>2. sess[sid].state # "Null"
      BY <1>1
    <2>3. slots[l].generation \in Generations
      BY <1>0, <2>2, SessionSlot
    <2>4. MakeRoute(l) \in Route
      BY <1>1, <2>3 DEF MakeRoute, Route
    <2>5. logic' \in Seq([uid : Uids, origin : Route, carrier : Sids])
      BY <1>0, <2>1, <2>4, AppendProperties DEF LogicOK
    <2>6. LogicOK'
      BY <1>0, <1>4, <2>5 DEF LogicOK
    <2> HIDE DEF ss
    <2> QED
      BY <1>3, <1>4, <1>6, <2>6, SessStep
  <1>7. CASE Sendable(l) /\ sess' = [ss EXCEPT ![slots[l].session] = PostSend(@, Pong)]
             /\ logic' = logic
    <2> DEFINE t == slots[l].session
    <2>1. t \in Sids /\ sess[t].state = "Conected"
      BY <1>0, <1>1, <1>7, SlotNames DEF Sendable
    <2> HIDE DEF t
    <2>2. ss[t].state = "Conected"
      <3>1. y.state = sess[sid].state
        BY <1>0, <1>2, KeptFacts
      <3> HIDE DEF y
      <3> QED
        BY <1>0, <2>1, <3>1
    <2>3. sess' = [ss EXCEPT ![t] = PostSend(ss[t], Pong)] /\ logic' = logic
      BY <1>7 DEF t
    <2> HIDE DEF ss
    <2>4. ss[t] \in Session /\ SessionOK(t, ss[t])
      BY <1>3, <2>1, CoreFacts
    <2>5. Kept(t, ss[t], PostSend(ss[t], Pong))
      BY <2>1, <2>2, <2>4, PostKept
    <2>6. CoreOK(slots, sess')
      BY <1>3, <2>1, <2>3, <2>5, KeptOne
    <2> QED
      BY <1>4, <2>3, <2>6, LogicSame, SessStep
  <1> QED
    BY <1>5, <1>6, <1>7 DEF OnBody

-----------------------------------------------------------------------------
(* The logic side.                                                         *)

\* handleTask remembers a route.
LEMMA LogicHandlesInv == ASSUME NetInv, LogicHandles PROVE NetInv'
  <1>0. /\ LogicOK /\ logic # <<>> /\ logic' = Tail(logic)
        /\ uid_route' = [uid_route EXCEPT ![Head(logic).uid] = Head(logic).origin]
        /\ UNCHANGED <<slots, sess, accepts, retry, stopping, stop_task, tasks>>
        /\ CoreOK(slots, sess)
    BY DEF NetInv, LogicHandles
  <1> DEFINE R == [uid : Uids, origin : Route, carrier : Sids]
  <1>1. Head(logic) \in R /\ Tail(logic) \in Seq(R)
    BY <1>0, HeadTailProperties DEF LogicOK
  <1>2. uid_route' \in [Uids -> Route]
    BY <1>0, <1>1 DEF LogicOK
  <1>3. LogicOK'
    BY <1>0, <1>1, <1>2 DEF LogicOK
  <1>4. CoreOK(slots, sess')
    BY <1>0
  <1> QED
    BY <1>0, <1>3, <1>4, SessStep

\* A queue of tasks with one more.
LEMMA TaskAppended ==
    ASSUME LogicOK, NEW T \in SUBSET Target, OneTargetPerLink(T)
    PROVE  /\ Append(tasks, T) \in Seq(SUBSET Target)
           /\ \A i \in 1 .. Len(Append(tasks, T)) : OneTargetPerLink(Append(tasks, T)[i])
  <1>0. tasks \in Seq(SUBSET Target) /\ Len(tasks) \in Nat
    BY LenProperties DEF LogicOK
  <1>1. /\ Append(tasks, T) \in Seq(SUBSET Target) /\ Len(Append(tasks, T)) = Len(tasks) + 1
        /\ \A i \in 1 .. Len(tasks) : Append(tasks, T)[i] = tasks[i]
        /\ Append(tasks, T)[Len(tasks) + 1] = T
    BY <1>0, AppendProperties
  <1>2. \A i \in 1 .. Len(tasks) + 1 : i \in 1 .. Len(tasks) \/ i = Len(tasks) + 1
    BY <1>0
  <1> QED
    BY <1>1, <1>2 DEF LogicOK

\* SendToPlayers makes one target for each link.
LEMMA SendToPlayersInv ==
    ASSUME NetInv, NEW uids \in SUBSET Uids, SendToPlayers(uids)
    PROVE  NetInv'
  <1> DEFINE used == {uid_route[u].link : u \in uids} \ {NoRoute.link}
  <1>0. /\ LogicOK /\ CoreOK(slots, sess)
        /\ UNCHANGED <<slots, sess, accepts, retry, stopping, stop_task, logic, uid_route>>
    BY DEF NetInv, SendToPlayers
  <1>1. PICK last \in [used -> uids] :
          /\ \A l \in used : last[l] \in On(uids, l)
          /\ tasks' = Append(tasks, {[link |-> l, generation |-> uid_route[last[l]].generation,
                                      uids |-> On(uids, l)] : l \in used})
    BY DEF SendToPlayers
  <1> DEFINE tg(l) == [link |-> l, generation |-> uid_route[last[l]].generation,
                       uids |-> On(uids, l)]
             T == {tg(l) : l \in used}
  <1>2. \A r \in Route : /\ r.generation \in Generations \cup {0}
                         /\ r.link # NoRoute.link => r.link \in Links
    BY DEF Route, NoRoute
  <1>3. \A l \in used : l \in Links
    BY <1>0, <1>2 DEF LogicOK
  <1>4. \A l \in used : uid_route[last[l]].generation \in Generations \cup {0}
    BY <1>0, <1>1, <1>2 DEF LogicOK
  <1>5. \A l \in used : On(uids, l) \in SUBSET Uids
    BY DEF On
  <1>6. \A l \in used : tg(l) \in Target /\ tg(l).link = l
    BY <1>3, <1>4, <1>5 DEF Target
  <1> HIDE DEF tg, used
  <1>7. T \in SUBSET Target /\ OneTargetPerLink(T)
    BY <1>6 DEF OneTargetPerLink
  <1>8. tasks' = Append(tasks, T)
    BY <1>1 DEF tg
  <1> HIDE DEF T
  <1>9. LogicOK'
    BY <1>0, <1>7, <1>8, TaskAppended DEF LogicOK
  <1>10. CoreOK(slots, sess')
    BY <1>0
  <1> QED
    BY <1>0, <1>9, <1>10, SessStep

\* HandleNetworkTask: a packet reaches the session its route named.
LEMMA HandleNetworkTaskInv == ASSUME NetInv, HandleNetworkTask PROVE NetInv'
  <1>0. /\ CoreOK(slots, sess) /\ LogicOK /\ tasks # <<>> /\ tasks' = Tail(tasks)
        /\ UNCHANGED <<slots, accepts, retry, stopping, stop_task, logic, uid_route>>
    BY DEF NetInv, HandleNetworkTask
  <1>1. /\ tasks \in Seq(SUBSET Target) /\ Len(tasks) \in Nat
        /\ \A i \in 1 .. Len(tasks) : OneTargetPerLink(tasks[i])
    BY <1>0, LenProperties DEF LogicOK
  <1>2. /\ Head(tasks) \in SUBSET Target /\ Tail(tasks) \in Seq(SUBSET Target)
        /\ Len(Tail(tasks)) = Len(tasks) - 1 /\ Head(tasks) = tasks[1]
        /\ \A i \in 1 .. Len(Tail(tasks)) : Tail(tasks)[i] = tasks[i + 1]
    BY <1>0, <1>1, HeadTailProperties
  <1>3. Len(tasks) # 0
    BY <1>0, <1>1, EmptySeq
  <1>4. 1 \in 1 .. Len(tasks) /\ \A i \in 1 .. Len(tasks) - 1 : i + 1 \in 1 .. Len(tasks)
    BY <1>1, <1>3
  <1>5. LogicOK'
    BY <1>0, <1>1, <1>2, <1>4 DEF LogicOK
  <1>6. OneTargetPerLink(Head(tasks))
    BY <1>1, <1>2, <1>4
  <1> DEFINE T == Head(tasks)
             sent(sid) == ~stopping /\ \E t \in T : Reaches(t) /\ slots[t.link].session = sid
             packet(sid) == (CHOOSE t \in T : t.link = sid[1]).generation
  <1> HIDE DEF T
  <1>7. ASSUME NEW sid \in Sids, sent(sid)
        PROVE  Kept(sid, sess[sid], PostSend(sess[sid], packet(sid)))
    <2>1. PICK t \in T : Reaches(t) /\ slots[t.link].session = sid
      BY <1>7
    <2>2. t.link \in Links
      BY <1>2, <2>1 DEF Target, T
    <2>3. /\ slots[t.link].session # NoSession /\ sess[sid].state = "Conected"
          /\ slots[t.link].generation = t.generation
      BY <2>1 DEF Reaches, Sendable
    <2>4. sid = <<t.link, t.generation>>
      <3>1. slots[t.link].session = <<t.link, slots[t.link].generation>>
        BY <1>0, <2>2, <2>3, SlotNames
      <3> QED
        BY <2>1, <2>3, <3>1
    <2>5. sid[1] = t.link /\ sid[2] = t.generation
      BY <2>4
    <2>6. (CHOOSE u \in T : u.link = sid[1]) = t
      <3>1. \E u \in T : u.link = sid[1]
        BY <2>1, <2>5
      <3>2. (CHOOSE u \in T : u.link = sid[1]) \in T /\ (CHOOSE u \in T : u.link = sid[1]).link = t.link
        BY <3>1, <2>5
      <3> QED
        BY <1>6, <2>1, <3>2 DEF OneTargetPerLink, T
    <2>7. packet(sid) = sid[2]
      BY <2>5, <2>6
    <2>8. sess[sid] \in Session /\ SessionOK(sid, sess[sid])
      BY <1>0, CoreFacts
    <2> HIDE DEF packet
    <2> QED
      BY <2>3, <2>7, <2>8, PostKept
  <1>8. sess' = [sid \in Sids |-> IF sent(sid) THEN PostSend(sess[sid], packet(sid)) ELSE sess[sid]]
    BY DEF HandleNetworkTask, T
  <1> HIDE DEF sent, packet
  <1>9. sess' = [sid \in Sids |-> sess'[sid]] /\ \A sid \in Sids : Kept(sid, sess[sid], sess'[sid])
    BY <1>7, <1>8 DEF Kept
  <1>10. CoreOK(slots, sess')
    BY <1>0, <1>9, KeptCore
  <1> QED
    BY <1>0, <1>5, <1>10, SessStep

-----------------------------------------------------------------------------
(* Stop.                                                                   *)

\* The caller's thread sets the flag.
LEMMA StopInv == ASSUME NetInv, Stop PROVE NetInv'
  <1>1. /\ stopping' = TRUE /\ stop_task' = "posted"
        /\ UNCHANGED <<slots, sess, accepts, retry, logic, uid_route, tasks>>
    BY DEF Stop
  <1>2. BoundOK(slots, accepts)' /\ LogicOK'
    BY <1>1, LogicSame DEF BoundOK
  <1>3. CoreOK(slots', sess') /\ AcceptsOK(slots', accepts', retry')
    BY <1>1 DEF NetInv
  <1> QED
    BY <1>1, <1>2, <1>3 DEF NetInv

\* The handler Stop posts: every slot is closed with its session.
LEMMA OnStopInv == ASSUME NetInv, OnStop PROVE NetInv'
  <1>0. /\ CoreOK(slots, sess) /\ AcceptsOK(slots, accepts, retry)
        /\ slots \in [Links -> Slot] /\ sess \in [Sids -> Session]
        /\ stop_task' = "done" /\ stopping' = stopping /\ stopping
        /\ UNCHANGED <<logic, uid_route, tasks>>
    BY CoreFacts DEF NetInv, OnStop
  <1>1. /\ slots' = [l \in Links |-> [slots[l] EXCEPT !.state = "Closed", !.session = NoSession]]
        /\ sess' = [sid \in Sids |-> IF sid \in SlotSessions THEN CloseIn(sess, sid)[sid]
                                     ELSE sess[sid]]
        /\ accepts' = {IF op.result = "pending" THEN [op EXCEPT !.result = "aborted"] ELSE op :
                         op \in accepts}
        /\ retry' = IF retry = "armed" THEN "off" ELSE retry
    BY DEF OnStop, StopSessions
  <1>2. /\ slots' \in [Links -> Slot]
        /\ \A l \in Links : /\ slots'[l].state = "Closed" /\ slots'[l].session = NoSession
                            /\ slots'[l].generation = slots[l].generation
    BY <1>0, <1>1, ClosedSlot
  <1>3. ASSUME NEW sid \in Sids, sid \in SlotSessions
        PROVE  /\ sess'[sid] \in Session /\ SessionOK(sid, sess'[sid])
               /\ sess'[sid].state = "Closed" /\ sess[sid].state # "Null"
    <2>1. sess'[sid] = CloseIn(sess, sid)[sid]
      BY <1>1, <1>3
    <2>2. PICK l \in Links : slots[l].session = sid /\ sid # NoSession
      BY <1>3 DEF SlotSessions
    <2>3. sess[sid].state \in {"Invalid", "Conected"}
      BY <1>0, <2>2, SlotNames
    <2> QED
      BY <2>1, <2>3, CloseInFacts
  <1>4. ASSUME NEW sid \in Sids, sid \notin SlotSessions
        PROVE  /\ sess'[sid] = sess[sid] /\ sess[sid] \in Session /\ SessionOK(sid, sess[sid])
               /\ sess[sid].state # "Conected"
    <2>1. sess'[sid] = sess[sid]
      BY <1>1, <1>4
    <2>2. sess[sid].state = "Conected" => slots[sid[1]].session = sid /\ sid[1] \in Links
      BY <1>0, CoreFacts, SidFacts DEF Owned
    <2> QED
      BY <1>0, <1>4, <2>1, <2>2, CoreFacts, SidFacts DEF SlotSessions
  <1>5. sess' \in [Sids -> Session]
    <2>1. \A sid \in Sids : sess'[sid] \in Session
      BY <1>3, <1>4
    <2> QED
      BY <1>1, <2>1
  <1>6. \A sid \in Sids : /\ SessionOK(sid, sess'[sid]) /\ sess'[sid].state # "Conected"
                          /\ sess'[sid].state # "Null" => sess[sid].state # "Null"
    BY <1>3, <1>4
  <1>7. \A sid \in Sids : sess'[sid].state # "Null" => sid[2] <= slots'[sid[1]].generation
    BY <1>0, <1>2, <1>6, CoreFacts, SidFacts
  <1>8. \A l \in Links : SlotOK(l, slots'[l], sess')
    BY <1>2 DEF SlotOK
  <1>9. CoreOK(slots', sess')
    BY <1>2, <1>5, <1>6, <1>7, <1>8 DEF CoreOK
  <1>10. AcceptsOK(slots', accepts', retry')
    <2> DEFINE O == [sid : Sids, result : {"pending", "ok", "error", "aborted"}]
               after(op) == IF op.result = "pending" THEN [op EXCEPT !.result = "aborted"] ELSE op
    <2>1. \A op \in O : after(op) \in O /\ after(op).result # "pending"
      OBVIOUS
    <2>2. accepts \subseteq O /\ (\A op1, op2 \in accepts : op1 = op2)
          /\ retry \in {"off", "armed", "fired"} /\ (accepts # {} => retry = "off")
      BY <1>0 DEF AcceptsOK
    <2>3. accepts' = {after(op) : op \in accepts}
      BY <1>1
    <2> HIDE DEF after
    <2>4. /\ accepts' \subseteq O /\ (\A op1, op2 \in accepts' : op1 = op2)
          /\ (\A op \in accepts' : op.result # "pending") /\ (accepts' # {} => accepts # {})
      BY <2>1, <2>2, <2>3
    <2>5. retry' \in {"off", "armed", "fired"} /\ (accepts' # {} => retry' = "off")
      BY <1>1, <2>2, <2>4
    <2> QED
      BY <2>4, <2>5 DEF AcceptsOK
  <1>11. BoundOK(slots, accepts)' /\ LogicOK'
    BY <1>0, LogicSame DEF BoundOK
  <1> QED
    BY <1>0, <1>9, <1>10, <1>11 DEF NetInv

-----------------------------------------------------------------------------
(* The shard.                                                              *)

\* Start has claimed the first slot.
LEMMA InitNetInv == NetInit => NetInv
  <1> SUFFICES ASSUME NetInit PROVE NetInv
    OBVIOUS
  <1> DEFINE e == [state |-> "Empty", generation |-> 0, session |-> NoSession]
             c == [state |-> "Accepting", generation |-> 1, session |-> <<0, 1>>]
             one == <<0, 1>>
  <1>0. 0 \in Links /\ 1 \in Generations /\ one \in Sids /\ one[1] = 0 /\ one[2] = 1
    <2>1. 0 \in Links /\ 1 \in Generations
      BY LinkCountPositive, NetBoundsNat DEF Links, Generations
    <2> QED
      BY <2>1, SidFacts
  <1>1. /\ e \in Slot /\ c \in Slot /\ e.state = "Empty" /\ c.state = "Accepting"
        /\ e.session = NoSession /\ c.session = one /\ c.generation = 1
    BY <1>0 DEF Slot, SlotStates
  <1>2. /\ slots = [l \in Links |-> IF l = 0 THEN c ELSE e]
        /\ sess = [sid \in Sids |-> IF sid = one THEN FreshSession ELSE NullSession]
        /\ accepts = {[sid |-> one, result |-> "pending"]} /\ retry = "off"
        /\ stopping = FALSE /\ stop_task = "none" /\ logic = <<>> /\ tasks = <<>>
        /\ uid_route = [u \in Uids |-> NoRoute]
    BY DEF NetInit, FreshSession
  <1>d. one = <<0, 1>>
    OBVIOUS
  <1> HIDE DEF e, c, one
  <1>3. slots \in [Links -> Slot] /\ sess \in [Sids -> Session]
    BY <1>1, <1>2, FreshFacts
  <1>4. \A sid \in Sids : SessionOK(sid, sess[sid]) /\ sess[sid].state # "Conected"
                          /\ (sess[sid].state # "Null" => sid = one)
    BY <1>2, FreshFacts, EmptyQueueOwn DEF SessionOK
  <1>5. \A l \in Links : SlotOK(l, slots[l], sess)
    BY <1>0, <1>1, <1>2, <1>d, FreshFacts DEF SlotOK
  <1>6. slots[0] = c
    BY <1>0, <1>2
  <1>7. \A sid \in Sids : sess[sid].state # "Null" => sid[2] <= slots[sid[1]].generation
    BY <1>0, <1>1, <1>4, <1>6
  <1>8. CoreOK(slots, sess)
    BY <1>3, <1>4, <1>5, <1>7 DEF CoreOK
  <1>9. AcceptsOK(slots, accepts, retry)
    BY <1>0, <1>1, <1>2, <1>6 DEF AcceptsOK, Owned
  <1>10. BoundOK(slots, accepts)
    BY <1>2 DEF BoundOK
  <1>11. LogicOK
    BY <1>2 DEF LogicOK, Route
  <1> QED
    BY <1>2, <1>8, <1>9, <1>10, <1>11 DEF NetInv

\* Every handler and everything the world does keeps the invariant.
LEMMA NextNetInv == NetInv /\ [NetNext]_netShardVars => NetInv'
  <1> SUFFICES ASSUME NetInv, [NetNext]_netShardVars PROVE NetInv'
    OBVIOUS
  <1>1. CASE Handlers
    <2>1. ASSUME NEW op \in accepts, OnAccept(op) PROVE NetInv'
      BY <2>1, OnAcceptOkInv, OnAcceptErrorInv DEF OnAccept
    <2>2. ASSUME NEW sid \in Sids, OnHead(sid) \/ OnBody(sid) \/ OnReadError(sid)
                                   \/ OnWrite(sid) \/ OnWriteError(sid)
          PROVE  NetInv'
      BY <2>2, OnHeadInv, OnBodyInv, OnReadErrorInv, OnWriteInv, OnWriteErrorInv
    <2> QED
      BY <1>1, <2>1, <2>2, OnRetryInv, HandleNetworkTaskInv, OnStopInv DEF Handlers
  <1>2. CASE World
    <2>1. ASSUME NEW op \in accepts, AcceptCompletes(op) PROVE NetInv'
      BY <2>1, AcceptCompletesInv
    <2>2. ASSUME NEW sid \in Sids, ReadCompletes(sid) \/ WriteCompletes(sid) PROVE NetInv'
      BY <2>2, ReadCompletesInv, WriteCompletesInv
    <2>3. ASSUME NEW uids \in SUBSET Uids, SendToPlayers(uids) PROVE NetInv'
      BY <2>3, SendToPlayersInv
    <2> QED
      BY <1>2, <2>1, <2>2, <2>3, RetryFiresInv, LogicHandlesInv, StopInv DEF World
  <1>3. CASE UNCHANGED netShardVars
    <2>1. /\ UNCHANGED <<slots, accepts, retry, stopping, stop_task>> /\ sess' = sess
          /\ UNCHANGED <<logic, uid_route, tasks>>
      BY <1>3 DEF netShardVars
    <2>2. CoreOK(slots, sess')
      BY <2>1 DEF NetInv
    <2> QED
      BY <2>1, <2>2, LogicSame, SessStep
  <1> QED
    BY <1>1, <1>2, <1>3 DEF NetNext

\* The network shard's inductive invariant holds in every reachable state.
THEOREM NetInvariant == NetSpec => []NetInv
  BY InitNetInv, NextNetInv, PTL DEF NetSpec

\* Slots, sessions, operations and tasks hold what their declarations say.
THEOREM NetTypeCorrect == NetSpec => []NetTypeOK
  <1>1. NetInv => NetTypeOK
    BY DEF NetInv, NetTypeOK, CoreOK, AcceptsOK, LogicOK, Slot
  <1> QED
    BY <1>1, NetInvariant, PTL

\* A slot is a record of three parts.
LEMMA OwnedSlot ==
    ASSUME NEW x \in Slot, NEW sid, NEW s, Owned(x, sid, s)
    PROVE  x = [state |-> s, generation |-> sid[2], session |-> sid]
  BY DEF Slot, Owned

\* Every live link is the session of its slot, and every slot that says
\* Connected has a live link: OnAccept, OnSessionClosed, DoAccept and Stop
\* keep the two together however reads, writes and accepts interleave.
THEOREM LiveLinksAlwaysOwn == NetSpec => []LiveLinksOwnTheirSlots
  <1>1. ASSUME NetInv PROVE LiveLinksOwnTheirSlots
    <2>0. CoreOK(slots, sess)
      BY <1>1 DEF NetInv
    <2>1. ASSUME NEW sid \in Sids, sess[sid].state = "Conected"
          PROVE  slots[sid[1]] = [state |-> "Connected", generation |-> sid[2], session |-> sid]
      BY <2>0, <2>1, CoreFacts, SidFacts, OwnedSlot
    <2>2. ASSUME NEW l \in Links, slots[l].state = "Connected"
          PROVE  slots[l].session # NoSession /\ sess[slots[l].session].state = "Conected"
      BY <2>0, <2>2, CoreFacts, SlotNames DEF SlotOK
    <2> QED
      BY <2>1, <2>2 DEF LiveLinksOwnTheirSlots
  <1> QED
    BY <1>1, NetInvariant, PTL

\* DoAccept never runs two accepts, nor an accept beside the retry timer, and
\* a slot waits for the accept that reserved it until the accept completes.
THEOREM AcceptsOneAtATime == NetSpec => []OneAcceptAtATime
  <1>1. ASSUME NetInv PROVE OneAcceptAtATime
    <2>0. AcceptsOK(slots, accepts, retry) /\ slots \in [Links -> Slot]
      BY <1>1, CoreFacts DEF NetInv
    <2>1. ASSUME NEW op \in accepts, op.result = "pending"
          PROVE  slots[op.sid[1]] = [state |-> "Accepting", generation |-> op.sid[2],
                                     session |-> op.sid]
      <3>1. Owned(slots[op.sid[1]], op.sid, "Accepting") /\ op.sid[1] \in Links
        BY <2>0, <2>1, SidFacts DEF AcceptsOK
      <3> QED
        BY <2>0, <3>1, OwnedSlot
    <2> QED
      BY <2>0, <2>1 DEF OneAcceptAtATime, AcceptsOK
  <1> QED
    BY <1>1, NetInvariant, PTL

\* A live link with packets to send has its one write loop: PostSend and
\* start_write_loop agree on is_writing_ between any two handlers.
THEOREM QueuedPacketsWritten == NetSpec => []QueuedPacketsAreBeingWritten
  <1>1. NetInv => QueuedPacketsAreBeingWritten
    BY DEF NetInv, CoreOK, SessionOK, Writing, QueuedPacketsAreBeingWritten
  <1> QED
    BY <1>1, NetInvariant, PTL

\* No queue outgrows kMaxSendQueueDepth or holds a packet that was routed to
\* another generation of the slot: HandleNetworkTask's check of the
\* generation is enough.
THEOREM OwnPacketsOnly == NetSpec => []OnlyOwnPacketsQueued
  <1>1. NetInv => OnlyOwnPacketsQueued
    BY DEF NetInv, CoreOK, SessionOK, OwnQueue, OnlyOwnPacketsQueued
  <1> QED
    BY <1>1, NetInvariant, PTL
=============================================================================
