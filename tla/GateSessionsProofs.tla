------------------------- MODULE GateSessionsProofs -------------------------
(***************************************************************************)
(* Proofs about GateSessions for any number of sessions, accounts and work *)
(* shards.                                                                 *)
(*                                                                         *)
(* A session, the two maps of its shard and the registry name each other,  *)
(* and each of them is consulted without the others.  GateInv states what  *)
(* holds of all four together, also for closed sessions, whose queued      *)
(* logins still change the maps: that is why the index may name a session  *)
(* that is not connected, and why the map of sessions may not.             *)
(***************************************************************************)
EXTENDS GateSessions, TLAPS, FiniteSetTheorems

\* uid is one that MakeLoginUid gives session s.
Owns(s, uid) == \E account \in Accounts : uid = MakeLoginUid(s, account)

\* is_writing_ says whether a write loop is under way.
FlagOK(x) == x.is_writing <=> x.writer # "none"

\* No lost wake-up, of a session object.
QueueOK(x) == FlagOK(x) /\ (x.state = "Conected" /\ x.send_que > 0 => x.is_writing)

\* A session object that no connection was accepted on yet.
Unused(s) == sess[s] = NewSession /\ posted[s] = 0

SessionsOK ==
    \A s \in Sessions :
      /\ sess[s].state = "Invalid" => Unused(s)
      /\ sess[s].uid # NoUid => Owns(s, sess[s].uid)
      /\ QueueOK(sess[s])

\* user_session_mgr has the connected sessions of each shard.
OwnedOK ==
    /\ \A w \in Shards : \A s \in user_session_mgr[w] : Live(s) /\ sess[s].shard = w
    /\ \A s \in Sessions : Live(s) => s \in user_session_mgr[sess[s].shard]

\* user_id_mgr names the sessions that were given the uid, and the connected
\* ones by the uid they have.
IndexOK ==
    /\ \A w \in Shards : \A uid \in DOMAIN user_id_mgr[w] :
         \A s \in Sessions : user_id_mgr[w][uid] = s =>
           /\ Owns(s, uid)
           /\ sess[s].state # "Invalid" /\ sess[s].shard = w
           /\ Live(s) => sess[s].uid = uid
    /\ \A s \in Sessions : Live(s) /\ sess[s].uid # NoUid =>
         /\ sess[s].uid \in DOMAIN user_id_mgr[sess[s].shard]
         /\ user_id_mgr[sess[s].shard][sess[s].uid] = s

RegistryOK ==
    /\ IsFiniteSet(DOMAIN registry)
    /\ \A uid \in DOMAIN registry : sess[registry[uid]].uid = uid
    /\ \A s \in Sessions : Live(s) /\ sess[s].uid # NoUid =>
         sess[s].uid \in DOMAIN registry /\ registry[sess[s].uid] = s

GateInv == GateTypeOK /\ SessionsOK /\ OwnedOK /\ IndexOK /\ RegistryOK

-----------------------------------------------------------------------------
(* Uids.                                                                   *)

\* MakeLoginUid gives no uid to two sessions, and never the uid of nobody.
LEMMA UidFacts ==
    /\ \A s \in Sessions : \A uid : Owns(s, uid) => uid \in Uids /\ uid # NoUid
    /\ \A s, t, uid : Owns(s, uid) /\ Owns(t, uid) => s = t
  <1>1. ASSUME NEW s, NEW account PROVE <<s, account>> # <<>>
    OBVIOUS
  <1>2. ASSUME NEW s, NEW t, NEW a, NEW b, <<s, a>> = <<t, b>> PROVE s = t
    BY <1>2
  <1> QED
    BY <1>1, <1>2 DEF Owns, Uids, NoUid, MakeLoginUid

-----------------------------------------------------------------------------
(* Session objects.                                                        *)

\* The parts of a session that the maps depend on.
SameIdentity(x, y) == y.state = x.state /\ y.shard = x.shard /\ y.uid = x.uid

\* SendData keeps a session well typed, with its queue bounded and written,
\* and as what it was.
LEMMA SendDataFacts ==
    ASSUME NEW x \in Session, QueueOK(x)
    PROVE  SendData(x) \in Session /\ QueueOK(SendData(x)) /\ SameIdentity(x, SendData(x))
  <1>1. CASE x.state = "Closed"
    BY <1>1 DEF SendData, SameIdentity
  <1>2. CASE x.state # "Closed"
    <2>1. Min(x.send_que + 1, kMaxSendQueueDepth) \in 0 .. kMaxSendQueueDepth
      BY GateDepthPositive DEF Session, Min
    <2> QED
      BY <1>2, <2>1 DEF SendData, Session, SameIdentity, QueueOK, FlagOK, WriterStates
  <1> QED
    BY <1>1, <1>2

\* One round of start_write_loop does the same.
LEMMA WriteLoopFacts ==
    ASSUME NEW x \in Session, QueueOK(x), x.writer # "none"
    PROVE  WriteLoop(x) \in Session /\ QueueOK(WriteLoop(x)) /\ SameIdentity(x, WriteLoop(x))
  <1>1. CASE x.state = "Conected" /\ x.send_que > 0
    <2>1. x.send_que - 1 \in 0 .. kMaxSendQueueDepth
      BY <1>1, GateDepthPositive DEF Session
    <2> QED
      BY <1>1, <2>1 DEF WriteLoop, Session, SameIdentity, QueueOK, FlagOK, WriterStates
  <1>2. CASE ~(x.state = "Conected" /\ x.send_que > 0)
    BY <1>2 DEF WriteLoop, Session, SameIdentity, QueueOK, FlagOK, WriterStates
  <1> QED
    BY <1>1, <1>2

\* The packet's own work on the session (cancel the wait, read on) too.
LEMMA PacketReadFacts ==
    ASSUME NEW x \in Session, QueueOK(x)
    PROVE  PacketRead(x) \in Session /\ QueueOK(PacketRead(x)) /\ SameIdentity(x, PacketRead(x))
  BY DEF PacketRead, CancelTimer, Session, SameIdentity, QueueOK, FlagOK, ReaderStates, TimerStates

\* A closed session is well typed, keeps its place and its uid.
LEMMA AbortedFacts ==
    ASSUME NEW x \in Session, FlagOK(x)
    PROVE  /\ Aborted(x) \in Session /\ QueueOK(Aborted(x))
           /\ Aborted(x).state = "Closed" /\ Aborted(x).shard = x.shard /\ Aborted(x).uid = x.uid
  <1> DEFINE y == CancelTimer(x)
  <1>1. y \in Session /\ FlagOK(y) /\ y.shard = x.shard /\ y.uid = x.uid
    BY DEF CancelTimer, Session, QueueOK, FlagOK, TimerStates
  <1> DEFINE r == IF y.reader = "head" THEN "head_err"
                  ELSE IF y.reader = "body" THEN "body_err" ELSE y.reader
             o == IF y.writer = "writing" THEN "write_err" ELSE y.writer
  <1>2. r \in ReaderStates /\ o \in WriterStates /\ (o = "none" <=> y.writer = "none")
    BY <1>1 DEF Session, ReaderStates, WriterStates
  <1>3. Aborted(x) = [y EXCEPT !.state = "Closed", !.reader = r, !.writer = o]
    BY DEF Aborted
  <1> HIDE DEF y, r, o
  <1> QED
    BY <1>1, <1>2, <1>3 DEF Session, QueueOK, FlagOK

-----------------------------------------------------------------------------
(* Steps that change no session's state, shard or uid, and no map.         *)

\* The handlers and the world's steps that only move the coroutines of
\* sessions in use and fill or empty their queues.
LEMMA LocalStep ==
    ASSUME GateInv,
           sess' \in [Sessions -> Session],
           \A s \in Sessions : /\ SameIdentity(sess[s], sess'[s])
                               /\ QueueOK(sess'[s])
                               /\ sess[s].state = "Invalid" => sess'[s] = sess[s] /\ posted'[s] = 0,
           user_session_mgr' = user_session_mgr, user_id_mgr' = user_id_mgr,
           DOMAIN registry' \subseteq DOMAIN registry,
           \A uid \in DOMAIN registry' : registry'[uid] = registry[uid],
           \A s \in Sessions : Live(s) /\ sess[s].uid # NoUid => sess[s].uid \in DOMAIN registry',
           posted' \in [Sessions -> Nat],
           told' \in [Uids -> {"nothing", "request", "disconnect"}],
           idx' \in Shards, packets' \in 0 .. MaxPackets, replies' \in 0 .. MaxReplies
    PROVE  GateInv'
  <1> USE DEF SameIdentity
  <1>1. GateTypeOK'
    BY DEF GateInv, GateTypeOK, IsMap
  <1>2. SessionsOK'
    BY DEF GateInv, SessionsOK, Unused
  <1>3. OwnedOK'
    BY DEF GateInv, OwnedOK, Live, GateTypeOK
  <1>4. IndexOK'
    BY DEF GateInv, IndexOK, Live, GateTypeOK, IsMap
  <1>5. RegistryOK'
    <2>1. IsFiniteSet(DOMAIN registry')
      BY FS_Subset DEF GateInv, RegistryOK
    <2>2. ASSUME NEW uid \in DOMAIN registry' PROVE sess'[registry'[uid]].uid = uid
      <3>1. registry[uid] \in Sessions /\ sess[registry[uid]].uid = uid
        BY <2>2 DEF GateInv, RegistryOK, GateTypeOK, IsMap
      <3> QED
        BY <2>2, <3>1
    <2>3. ASSUME NEW s \in Sessions, Live(s)', sess'[s].uid # NoUid
          PROVE  sess'[s].uid \in DOMAIN registry' /\ registry'[sess'[s].uid] = s
      <3>1. Live(s) /\ sess[s].uid = sess'[s].uid
        BY <2>3 DEF Live
      <3> QED
        BY <2>3, <3>1 DEF GateInv, RegistryOK
    <2> QED
      BY <2>1, <2>2, <2>3 DEF RegistryOK
  <1> QED
    BY <1>1, <1>2, <1>3, <1>4, <1>5 DEF GateInv

\* A session with a coroutine under way is in use.
LEMMA InUse ==
    ASSUME GateInv, NEW s \in Sessions,
           \/ sess[s].reader # "none" \/ sess[s].timer # "none" \/ sess[s].writer # "none"
           \/ sess[s].uid # NoUid \/ posted[s] > 0
    PROVE  sess[s].state # "Invalid"
  BY DEF GateInv, SessionsOK, Unused, NewSession

\* A step that replaces the object of one session in use by one that differs
\* only in its coroutines and queue.
LEMMA OneSessionStep ==
    ASSUME GateInv, NEW s \in Sessions, NEW x \in Session,
           sess[s].state # "Invalid", QueueOK(x), SameIdentity(sess[s], x),
           sess' = [sess EXCEPT ![s] = x],
           UNCHANGED <<user_session_mgr, user_id_mgr, registry, idx, replies>>,
           posted' \in [Sessions -> Nat], \A t \in Sessions \ {s} : posted'[t] = posted[t],
           told' \in [Uids -> {"nothing", "request", "disconnect"}], packets' \in 0 .. MaxPackets
    PROVE  GateInv'
  <1>1. sess' \in [Sessions -> Session] /\ idx \in Shards /\ replies \in 0 .. MaxReplies
    BY DEF GateInv, GateTypeOK
  <1>2. ASSUME NEW t \in Sessions
        PROVE  /\ SameIdentity(sess[t], sess'[t])
               /\ QueueOK(sess'[t])
               /\ sess[t].state = "Invalid" => sess'[t] = sess[t] /\ posted'[t] = 0
    <2>1. CASE t = s
      BY <2>1 DEF GateInv, GateTypeOK
    <2>2. CASE t # s
      BY <2>2 DEF GateInv, GateTypeOK, SessionsOK, Unused, SameIdentity
    <2> QED
      BY <2>1, <2>2
  <1>3. \A t \in Sessions : Live(t) /\ sess[t].uid # NoUid => sess[t].uid \in DOMAIN registry
    BY DEF GateInv, RegistryOK
  <1> QED
    BY <1>1, <1>2, <1>3, LocalStep

-----------------------------------------------------------------------------
(* close: the session leaves every map, and no other one does.             *)

\* close() of a session in use, whatever the handler does to it besides.
LEMMA CloseStep ==
    ASSUME GateInv, NEW s \in Sessions, NEW x \in Session,
           sess[s].state # "Invalid", FlagOK(x), SameIdentity(sess[s], x),
           Close(s, x), UNCHANGED <<posted, idx, packets, replies>>
    PROVE  GateInv'
  <1> DEFINE w == sess[s].shard
             u == sess[s].uid
             kept == delete_user_session(MapErase(user_id_mgr[w], {u}), s)
  <1>0. /\ w \in Shards /\ u \in Uids \cup {NoUid} /\ NoUid \notin Uids
        /\ sess \in [Sessions -> Session]
    BY DEF GateInv, GateTypeOK, Session, Uids, NoUid
  <1>1. CASE ~Live(s)
    <2>1. sess' = [sess EXCEPT ![s] = x]
          /\ UNCHANGED <<user_session_mgr, user_id_mgr, registry, told>>
      BY <1>1 DEF Close
    <2>2. QueueOK(x)
      BY <1>0, <1>1 DEF Live, QueueOK, SameIdentity
    <2> QED
      BY <2>1, <2>2, OneSessionStep DEF GateInv, GateTypeOK
  <1>2. CASE Live(s)
    <2>1. /\ sess' = [sess EXCEPT ![s] = Aborted(x)]
          /\ registry' = Unregister(registry, u, s)
          /\ told' = IF u = NoUid THEN told ELSE [told EXCEPT ![u] = "disconnect"]
          /\ user_id_mgr' = [user_id_mgr EXCEPT ![w] = kept]
          /\ user_session_mgr' = [user_session_mgr EXCEPT ![w] = @ \ {s}]
      BY <1>2 DEF Close
    <2>2. /\ sess' \in [Sessions -> Session]
          /\ sess'[s].state = "Closed" /\ sess'[s].uid = u /\ sess'[s].shard = w
          /\ QueueOK(sess'[s])
          /\ \A t \in Sessions \ {s} : sess'[t] = sess[t]
      BY <1>0, <2>1, AbortedFacts DEF SameIdentity
    <2>3. /\ DOMAIN registry' = DOMAIN registry \ {u}
          /\ \A v \in DOMAIN registry' : registry'[v] = registry[v]
      <3>1. CASE u = NoUid
        BY <1>0, <2>1, <3>1 DEF GateInv, GateTypeOK, IsMap, Unregister
      <3>2. CASE u # NoUid
        <4>1. u \in DOMAIN registry /\ registry[u] = s
          BY <1>2, <3>2 DEF GateInv, RegistryOK
        <4>2. registry' = MapErase(registry, {u})
          BY <2>1, <4>1 DEF Unregister
        <4> QED
          BY <4>2 DEF MapErase
      <3> QED
        BY <3>1, <3>2
    <2>4. /\ DOMAIN user_id_mgr' = Shards
          /\ \A v \in Shards \ {w} : user_id_mgr'[v] = user_id_mgr[v]
          /\ DOMAIN user_id_mgr'[w] =
               {k \in DOMAIN user_id_mgr[w] \ {u} : user_id_mgr[w][k] # s}
          /\ \A k \in DOMAIN user_id_mgr'[w] : user_id_mgr'[w][k] = user_id_mgr[w][k]
      BY <1>0, <2>1 DEF GateInv, GateTypeOK, delete_user_session, MapErase
    <2>5. \A t \in Sessions \ {s} : sess[t].uid # NoUid => sess[t].uid # u
      BY UidFacts DEF GateInv, SessionsOK
    <2>6. GateTypeOK'
      <3>1. told' \in [Uids -> {"nothing", "request", "disconnect"}]
        BY <1>0, <2>1 DEF GateInv, GateTypeOK
      <3>2. user_session_mgr' \in [Shards -> SUBSET Sessions]
        BY <1>0, <2>1 DEF GateInv, GateTypeOK
      <3>3. \A v \in Shards : IsMap(user_id_mgr'[v], Uids, Sessions)
        BY <2>4 DEF GateInv, GateTypeOK, IsMap
      <3>4. IsMap(registry', Uids, Sessions)
        BY <2>3 DEF GateInv, GateTypeOK, IsMap
      <3> QED
        BY <2>2, <2>4, <3>1, <3>2, <3>3, <3>4 DEF GateInv, GateTypeOK
    <2>7. SessionsOK'
      <3>1. ASSUME NEW t \in Sessions
            PROVE  /\ sess'[t].state = "Invalid" => Unused(t)'
                   /\ sess'[t].uid # NoUid => Owns(t, sess'[t].uid)
                   /\ QueueOK(sess'[t])
        <4>1. CASE t = s
          BY <2>2, <4>1 DEF GateInv, SessionsOK
        <4>2. CASE t # s
          BY <2>2, <4>2 DEF GateInv, SessionsOK, Unused
        <4> QED
          BY <4>1, <4>2
      <3> QED
        BY <3>1 DEF SessionsOK
    <2>8. OwnedOK'
      <3>1. ASSUME NEW v \in Shards, NEW t \in user_session_mgr'[v]
            PROVE  Live(t)' /\ sess'[t].shard = v
        <4>1. t \in user_session_mgr[v] /\ t # s /\ t \in Sessions
          BY <1>0, <2>1, <3>1 DEF GateInv, GateTypeOK, OwnedOK
        <4> QED
          BY <2>2, <4>1 DEF GateInv, OwnedOK, Live
      <3>2. ASSUME NEW t \in Sessions, Live(t)' PROVE t \in user_session_mgr'[sess'[t].shard]
        <4>1. t # s /\ sess'[t] = sess[t] /\ Live(t)
          BY <2>2, <3>2 DEF Live
        <4>2. sess[t].shard \in Shards /\ t \in user_session_mgr[sess[t].shard]
          BY <4>1 DEF GateInv, GateTypeOK, Session, OwnedOK
        <4> QED
          BY <1>0, <2>1, <4>1, <4>2 DEF GateInv, GateTypeOK
      <3> QED
        BY <3>1, <3>2 DEF OwnedOK
    <2>9. IndexOK'
      <3>1. ASSUME NEW v \in Shards, NEW k \in DOMAIN user_id_mgr'[v], NEW t \in Sessions,
                   user_id_mgr'[v][k] = t
            PROVE  /\ Owns(t, k)
                   /\ sess'[t].state # "Invalid" /\ sess'[t].shard = v
                   /\ Live(t)' => sess'[t].uid = k
        <4>1. k \in DOMAIN user_id_mgr[v] /\ user_id_mgr[v][k] = t /\ (v = w => t # s)
          BY <2>4, <3>1
        <4>2. /\ Owns(t, k) /\ sess[t].state # "Invalid"
              /\ sess[t].shard = v /\ (Live(t) => sess[t].uid = k)
          BY <4>1 DEF GateInv, IndexOK
        <4>3. sess'[t] = sess[t]
          BY <2>2, <4>1, <4>2
        <4> QED
          BY <4>2, <4>3 DEF Live
      <3>2. ASSUME NEW t \in Sessions, Live(t)', sess'[t].uid # NoUid
            PROVE  /\ sess'[t].uid \in DOMAIN user_id_mgr'[sess'[t].shard]
                   /\ user_id_mgr'[sess'[t].shard][sess'[t].uid] = t
        <4>1. t # s /\ sess'[t] = sess[t] /\ Live(t)
          BY <2>2, <3>2 DEF Live
        <4>2. /\ sess[t].shard \in Shards /\ sess[t].uid # u
              /\ sess[t].uid \in DOMAIN user_id_mgr[sess[t].shard]
              /\ user_id_mgr[sess[t].shard][sess[t].uid] = t
          BY <2>5, <3>2, <4>1 DEF GateInv, GateTypeOK, Session, IndexOK
        <4> QED
          BY <2>4, <4>1, <4>2
      <3> QED
        BY <3>1, <3>2 DEF IndexOK
    <2>10. RegistryOK'
      <3>1. IsFiniteSet(DOMAIN registry')
        BY <2>3, FS_Subset DEF GateInv, RegistryOK
      <3>2. ASSUME NEW v \in DOMAIN registry' PROVE sess'[registry'[v]].uid = v
        <4>1. registry[v] \in Sessions /\ sess[registry[v]].uid = v
          BY <2>3, <3>2 DEF GateInv, GateTypeOK, IsMap, RegistryOK
        <4> QED
          BY <2>2, <2>3, <3>2, <4>1
      <3>3. ASSUME NEW t \in Sessions, Live(t)', sess'[t].uid # NoUid
            PROVE  sess'[t].uid \in DOMAIN registry' /\ registry'[sess'[t].uid] = t
        <4>1. t # s /\ sess'[t] = sess[t] /\ Live(t)
          BY <2>2, <3>3 DEF Live
        <4> QED
          BY <2>3, <2>5, <3>3, <4>1 DEF GateInv, RegistryOK
      <3> QED
        BY <3>1, <3>2, <3>3 DEF RegistryOK
    <2> QED
      BY <2>6, <2>7, <2>8, <2>9, <2>10 DEF GateInv
  <1> QED
    BY <1>1, <1>2

-----------------------------------------------------------------------------
(* Login: the new uid takes the place of the old one.                      *)

\* HandleLoginReq with BindUid, on a session that is connected, logged in
\* already or closed.
LEMMA LoginStep ==
    ASSUME GateInv, NEW s \in Sessions, NEW x \in Session, NEW account \in Accounts,
           sess[s].state # "Invalid", QueueOK(x), SameIdentity(sess[s], x),
           sess' = [sess EXCEPT ![s] = SendData([x EXCEPT !.uid = MakeLoginUid(s, account)])],
           registry' = BoundRegistry(s, MakeLoginUid(s, account)),
           user_id_mgr' = [user_id_mgr EXCEPT ![x.shard] = BoundIndex(s, MakeLoginUid(s, account))],
           UNCHANGED <<user_session_mgr, posted, told, idx, packets, replies>>
    PROVE  GateInv'
  <1> DEFINE w == sess[s].shard
             old == sess[s].uid
             uid == MakeLoginUid(s, account)
             y == [x EXCEPT !.uid = uid]
  <1>1. /\ w \in Shards /\ x.shard = w /\ Owns(s, uid) /\ uid \in Uids /\ uid # NoUid
        /\ sess \in [Sessions -> Session]
    BY UidFacts DEF GateInv, GateTypeOK, Session, SameIdentity, Owns
  <1>2. /\ sess' \in [Sessions -> Session]
        /\ sess'[s].state = sess[s].state /\ sess'[s].uid = uid /\ sess'[s].shard = w
        /\ QueueOK(sess'[s])
        /\ \A t \in Sessions \ {s} : sess'[t] = sess[t]
    <2>1. y \in Session /\ QueueOK(y) /\ y.state = sess[s].state /\ y.shard = w /\ y.uid = uid
      BY <1>1 DEF Session, QueueOK, FlagOK, SameIdentity
    <2>2. SendData(y) \in Session /\ QueueOK(SendData(y)) /\ SameIdentity(y, SendData(y))
      BY <2>1, SendDataFacts
    <2> QED
      BY <1>1, <2>1, <2>2 DEF SameIdentity
  <1>3. \A t \in Sessions \ {s} : sess[t].uid # NoUid => sess[t].uid # old /\ sess[t].uid # uid
    BY <1>1, UidFacts DEF GateInv, SessionsOK
  <1>4. /\ \A v \in DOMAIN registry' \ {uid} : /\ v \in DOMAIN registry /\ registry'[v] = registry[v]
                                              /\ registry[v] # s
        /\ uid \in DOMAIN registry' /\ registry'[uid] = s
        /\ \A v \in DOMAIN registry : v \notin {old, uid} => v \in DOMAIN registry'
        /\ DOMAIN registry' \subseteq DOMAIN registry \cup {uid}
    <2> DEFINE rest == IF old # uid THEN Unregister(registry, old, s) ELSE registry
    <2>1. registry' = MapPut(rest, uid, s)
      BY DEF BoundRegistry, Register
    <2>2. /\ DOMAIN rest \subseteq DOMAIN registry
          /\ \A v \in DOMAIN registry : v # old => v \in DOMAIN rest
          /\ \A v \in DOMAIN rest : rest[v] = registry[v] /\ (v # uid => registry[v] # s)
      <3>1. \A v \in DOMAIN registry : registry[v] = s => v = old
        BY DEF GateInv, RegistryOK
      <3>2. CASE old \in DOMAIN registry /\ registry[old] = s
        BY <3>1, <3>2 DEF Unregister, MapErase
      <3>3. CASE ~(old \in DOMAIN registry /\ registry[old] = s)
        BY <3>1, <3>3 DEF Unregister
      <3> QED
        BY <3>2, <3>3
    <2> HIDE DEF rest, uid, old
    <2>3. /\ DOMAIN registry' = DOMAIN rest \cup {uid} /\ registry'[uid] = s
          /\ \A v \in DOMAIN rest \ {uid} : registry'[v] = rest[v]
      BY <2>1 DEF MapPut
    <2> QED
      BY <2>2, <2>3
  <1>5. /\ DOMAIN user_id_mgr' = Shards
        /\ \A v \in Shards \ {w} : user_id_mgr'[v] = user_id_mgr[v]
        /\ uid \in DOMAIN user_id_mgr'[w] /\ user_id_mgr'[w][uid] = s
        /\ \A k \in DOMAIN user_id_mgr'[w] \ {uid} :
             /\ k \in DOMAIN user_id_mgr[w] /\ user_id_mgr'[w][k] = user_id_mgr[w][k]
             /\ k # old
        /\ \A k \in DOMAIN user_id_mgr[w] : k \notin {old, uid} =>
             k \in DOMAIN user_id_mgr'[w] /\ user_id_mgr'[w][k] = user_id_mgr[w][k]
    <2> DEFINE index == user_id_mgr[w]
               rest == IF old # uid THEN MapErase(index, {old}) ELSE index
    <2>1. user_id_mgr' = [user_id_mgr EXCEPT ![w] = MapPut(rest, uid, s)]
      BY <1>1 DEF BoundIndex
    <2>2. DOMAIN user_id_mgr' = Shards /\ user_id_mgr'[w] = MapPut(rest, uid, s)
          /\ \A v \in Shards \ {w} : user_id_mgr'[v] = user_id_mgr[v]
      BY <1>1, <2>1 DEF GateInv, GateTypeOK
    <2>3. /\ \A k \in DOMAIN rest : k \in DOMAIN index /\ rest[k] = index[k] /\ (k # uid => k # old)
          /\ \A k \in DOMAIN index : k # old => k \in DOMAIN rest
      BY DEF MapErase
    <2> HIDE DEF rest, uid, old, index
    <2>4. /\ DOMAIN user_id_mgr'[w] = DOMAIN rest \cup {uid} /\ user_id_mgr'[w][uid] = s
          /\ \A k \in DOMAIN rest \ {uid} : user_id_mgr'[w][k] = rest[k]
      BY <2>2 DEF MapPut
    <2> QED
      BY <2>2, <2>3, <2>4 DEF index
  <1> HIDE DEF uid, old, w, y
  <1>6. GateTypeOK'
    <2>1. \A v \in Shards : IsMap(user_id_mgr'[v], Uids, Sessions)
      <3>1. ASSUME NEW v \in Shards PROVE IsMap(user_id_mgr'[v], Uids, Sessions)
        <4>1. IsMap(user_id_mgr[v], Uids, Sessions)
          BY DEF GateInv, GateTypeOK
        <4> QED
          BY <1>1, <1>5, <4>1 DEF IsMap
      <3> QED
        BY <3>1
    <2>2. IsMap(registry', Uids, Sessions)
      BY <1>1, <1>4 DEF GateInv, GateTypeOK, IsMap
    <2> QED
      BY <1>2, <1>5, <2>1, <2>2 DEF GateInv, GateTypeOK
  <1>7. SessionsOK'
    <2>1. ASSUME NEW t \in Sessions
          PROVE  /\ sess'[t].state = "Invalid" => Unused(t)'
                 /\ sess'[t].uid # NoUid => Owns(t, sess'[t].uid)
                 /\ QueueOK(sess'[t])
      <3>1. CASE t = s
        BY <1>1, <1>2, <3>1
      <3>2. CASE t # s
        BY <1>2, <3>2 DEF GateInv, SessionsOK, Unused
      <3> QED
        BY <3>1, <3>2
    <2> QED
      BY <2>1 DEF SessionsOK
  <1>8. OwnedOK'
    <2>1. \A t \in Sessions : sess'[t].state = sess[t].state /\ sess'[t].shard = sess[t].shard
      BY <1>2 DEF w
    <2> QED
      BY <2>1 DEF GateInv, GateTypeOK, OwnedOK, Live
  <1>9. IndexOK'
    <2>1. ASSUME NEW v \in Shards, NEW k \in DOMAIN user_id_mgr'[v], NEW t \in Sessions,
                 user_id_mgr'[v][k] = t
          PROVE  /\ Owns(t, k)
                 /\ sess'[t].state # "Invalid" /\ sess'[t].shard = v
                 /\ Live(t)' => sess'[t].uid = k
      <3>1. CASE v = w /\ k = uid
        BY <1>1, <1>2, <1>5, <2>1, <3>1
      <3>2. CASE ~(v = w /\ k = uid)
        <4>1. k \in DOMAIN user_id_mgr[v] /\ user_id_mgr[v][k] = t /\ (v = w => k # old)
          BY <1>5, <2>1, <3>2
        <4>2. /\ Owns(t, k) /\ sess[t].state # "Invalid"
              /\ sess[t].shard = v /\ (Live(t) => sess[t].uid = k)
          BY <4>1 DEF GateInv, IndexOK
        <4>3. CASE t = s
          <5>1. v = w /\ ~Live(s)
            BY <4>1, <4>2, <4>3 DEF w, old
          <5> QED
            BY <1>2, <4>2, <4>3, <5>1 DEF Live
        <4>4. CASE t # s
          BY <1>2, <4>2, <4>4 DEF Live
        <4> QED
          BY <4>3, <4>4
      <3> QED
        BY <3>1, <3>2
    <2>2. ASSUME NEW t \in Sessions, Live(t)', sess'[t].uid # NoUid
          PROVE  /\ sess'[t].uid \in DOMAIN user_id_mgr'[sess'[t].shard]
                 /\ user_id_mgr'[sess'[t].shard][sess'[t].uid] = t
      <3>1. CASE t = s
        BY <1>2, <1>5, <3>1
      <3>2. CASE t # s
        <4>1. sess'[t] = sess[t] /\ Live(t)
          BY <1>2, <2>2, <3>2 DEF Live
        <4>2. /\ sess[t].shard \in Shards /\ sess[t].uid # old /\ sess[t].uid # uid
              /\ sess[t].uid \in DOMAIN user_id_mgr[sess[t].shard]
              /\ user_id_mgr[sess[t].shard][sess[t].uid] = t
          BY <1>3, <2>2, <3>2, <4>1 DEF GateInv, GateTypeOK, Session, IndexOK
        <4> QED
          BY <1>5, <4>1, <4>2
      <3> QED
        BY <3>1, <3>2
    <2> QED
      BY <2>1, <2>2 DEF IndexOK
  <1>10. RegistryOK'
    <2>1. IsFiniteSet(DOMAIN registry')
      <3>1. IsFiniteSet(DOMAIN registry \cup {uid})
        BY FS_AddElement DEF GateInv, RegistryOK
      <3> QED
        BY <1>4, <3>1, FS_Subset
    <2>2. ASSUME NEW v \in DOMAIN registry' PROVE sess'[registry'[v]].uid = v
      <3>1. CASE v = uid
        BY <1>2, <1>4, <3>1
      <3>2. CASE v # uid
        <4>1. /\ v \in DOMAIN registry /\ registry'[v] = registry[v] /\ registry[v] # s
              /\ registry[v] \in Sessions
          BY <1>4, <2>2, <3>2 DEF GateInv, GateTypeOK, IsMap
        <4> QED
          BY <1>2, <4>1 DEF GateInv, RegistryOK
      <3> QED
        BY <3>1, <3>2
    <2>3. ASSUME NEW t \in Sessions, Live(t)', sess'[t].uid # NoUid
          PROVE  sess'[t].uid \in DOMAIN registry' /\ registry'[sess'[t].uid] = t
      <3>1. CASE t = s
        BY <1>2, <1>4, <3>1
      <3>2. CASE t # s
        <4>1. sess'[t] = sess[t] /\ Live(t)
          BY <1>2, <2>3, <3>2 DEF Live
        <4>2. sess[t].uid \in DOMAIN registry /\ registry[sess[t].uid] = t
          BY <2>3, <4>1 DEF GateInv, RegistryOK
        <4> QED
          BY <1>3, <1>4, <2>3, <3>2, <4>1, <4>2
      <3> QED
        BY <3>1, <3>2
    <2> QED
      BY <2>1, <2>2, <2>3 DEF RegistryOK
  <1> QED
    BY <1>6, <1>7, <1>8, <1>9, <1>10 DEF GateInv

-----------------------------------------------------------------------------
(* The handlers.                                                           *)

\* The router, for whatever packet a session in use has read.
LEMMA HandleMsgStep ==
    ASSUME GateInv, NEW s \in Sessions, sess[s].state # "Invalid",
           HandleMsg(s), UNCHANGED <<user_session_mgr, posted, idx, packets, replies>>
    PROVE  GateInv'
  <1> DEFINE x == PacketRead(sess[s])
  <1>1. sess[s] \in Session /\ QueueOK(sess[s])
    BY DEF GateInv, GateTypeOK, SessionsOK
  <1>2. x \in Session /\ QueueOK(x) /\ SameIdentity(sess[s], x)
    BY <1>1, PacketReadFacts
  <1>3. SendData(x) \in Session /\ QueueOK(SendData(x)) /\ SameIdentity(sess[s], SendData(x))
    BY <1>2, SendDataFacts DEF SameIdentity
  <1>4. HandleLoginReq(s, x) \/ HandlePingReq(s, x) \/ ForwardClientMsgToGame(s, x)
        \/ UnknownMsg(s, x)
    BY DEF HandleMsg
  <1>5. /\ told \in [Uids -> {"nothing", "request", "disconnect"}] /\ packets \in 0 .. MaxPackets
        /\ posted \in [Sessions -> Nat]
    BY DEF GateInv, GateTypeOK
  <1> HIDE DEF x
  <1>6. CASE UNCHANGED <<registry, user_id_mgr>>
             /\ told' \in [Uids -> {"nothing", "request", "disconnect"}]
             /\ (sess' = [sess EXCEPT ![s] = x] \/ sess' = [sess EXCEPT ![s] = SendData(x)])
    BY <1>2, <1>3, <1>5, <1>6, OneSessionStep
  <1>7. CASE HandleLoginReq(s, x)
    <2>1. CASE \E account \in Accounts :
                 LET uid == MakeLoginUid(s, account) IN
                 /\ sess' = [sess EXCEPT ![s] = SendData([x EXCEPT !.uid = uid])]
                 /\ registry' = BoundRegistry(s, uid)
                 /\ user_id_mgr' = [user_id_mgr EXCEPT ![x.shard] = BoundIndex(s, uid)]
                 /\ UNCHANGED told
      BY <1>2, <2>1, LoginStep
    <2>2. CASE sess' = [sess EXCEPT ![s] = SendData(x)] /\ UNCHANGED <<registry, user_id_mgr, told>>
      BY <1>5, <1>6, <2>2
    <2> QED
      BY <1>7, <2>1, <2>2 DEF HandleLoginReq
  <1>8. CASE HandlePingReq(s, x)
    BY <1>5, <1>6, <1>8 DEF HandlePingReq
  <1>9. CASE ForwardClientMsgToGame(s, x)
    <2>1. told' \in [Uids -> {"nothing", "request", "disconnect"}]
      BY <1>2, <1>5, <1>9 DEF ForwardClientMsgToGame, Session
    <2> QED
      BY <1>6, <1>9, <2>1 DEF ForwardClientMsgToGame
  <1>10. CASE UnknownMsg(s, x)
    BY <1>5, <1>6, <1>10 DEF UnknownMsg
  <1> QED
    BY <1>4, <1>7, <1>8, <1>9, <1>10

\* A step of the world or of a coroutine moves the coroutine and leaves the
\* rest of the session alone.
LEMMA MovedFacts ==
    ASSUME GateInv, NEW s \in Sessions
    PROVE  /\ sess[s] \in Session /\ QueueOK(sess[s])
           /\ \A r \in ReaderStates : LET x == [sess[s] EXCEPT !.reader = r] IN
                x \in Session /\ QueueOK(x) /\ SameIdentity(sess[s], x)
           /\ \A r \in TimerStates : LET x == [sess[s] EXCEPT !.timer = r] IN
                x \in Session /\ QueueOK(x) /\ SameIdentity(sess[s], x)
           /\ \A r \in WriterStates \ {"none"} : LET x == [sess[s] EXCEPT !.writer = r] IN
                sess[s].writer # "none" => x \in Session /\ QueueOK(x) /\ SameIdentity(sess[s], x)
  <1>1. sess[s] \in Session /\ QueueOK(sess[s])
    BY DEF GateInv, GateTypeOK, SessionsOK
  <1> QED
    BY <1>1 DEF Session, QueueOK, FlagOK, SameIdentity

\* The world: reads, writes and waits complete.
LEMMA WorldStep ==
    ASSUME GateInv, NEW s \in Sessions, ReadCompletes(s) \/ WriteCompletes(s) \/ TimerExpires(s)
    PROVE  GateInv'
  <1>0. /\ told \in [Uids -> {"nothing", "request", "disconnect"}] /\ packets \in 0 .. MaxPackets
        /\ posted \in [Sessions -> Nat]
    BY DEF GateInv, GateTypeOK
  <1>1. CASE ReadCompletes(s)
    <2>1. PICK r \in ReaderStates : sess' = [sess EXCEPT ![s] = [sess[s] EXCEPT !.reader = r]]
      BY <1>1 DEF ReadCompletes, ReaderStates
    <2>2. sess[s].state # "Invalid"
      BY <1>1, InUse DEF ReadCompletes
    <2>3. packets' \in 0 .. MaxPackets
      BY <1>0, <1>1, GateBoundsNat DEF ReadCompletes
    <2>4. UNCHANGED <<user_session_mgr, user_id_mgr, registry, posted, told, idx, replies>>
      BY <1>1 DEF ReadCompletes
    <2> QED
      BY <1>0, <2>1, <2>2, <2>3, <2>4, MovedFacts, OneSessionStep
  <1>2. CASE WriteCompletes(s)
    <2>1. PICK r \in WriterStates \ {"none"} :
                 sess' = [sess EXCEPT ![s] = [sess[s] EXCEPT !.writer = r]]
      BY <1>2 DEF WriteCompletes, WriterStates
    <2>2. sess[s].state # "Invalid" /\ sess[s].writer # "none"
      BY <1>2, InUse DEF WriteCompletes
    <2>3. UNCHANGED <<user_session_mgr, user_id_mgr, registry, posted, told, idx, packets, replies>>
      BY <1>2 DEF WriteCompletes
    <2> QED
      BY <1>0, <2>1, <2>2, <2>3, MovedFacts, OneSessionStep
  <1>3. CASE TimerExpires(s)
    <2>1. sess' = [sess EXCEPT ![s] = [sess[s] EXCEPT !.timer = "expired"]]
          /\ "expired" \in TimerStates
      BY <1>3 DEF TimerExpires, TimerStates
    <2>2. sess[s].state # "Invalid"
      BY <1>3, InUse DEF TimerExpires
    <2>3. UNCHANGED <<user_session_mgr, user_id_mgr, registry, posted, told, idx, packets, replies>>
      BY <1>3 DEF TimerExpires
    <2> QED
      BY <1>0, <2>1, <2>2, <2>3, MovedFacts, OneSessionStep
  <1> QED
    BY <1>1, <1>2, <1>3

\* The coroutines of a session and the sends posted to it.
LEMMA HandlerStep ==
    ASSUME GateInv, NEW s \in Sessions, Handler(s)
    PROVE  GateInv'
  <1>0. /\ told \in [Uids -> {"nothing", "request", "disconnect"}] /\ packets \in 0 .. MaxPackets
        /\ posted \in [Sessions -> Nat] /\ sess[s] \in Session /\ QueueOK(sess[s])
    BY DEF GateInv, GateTypeOK, SessionsOK
  <1>e. "end" \in ReaderStates /\ "body" \in ReaderStates
        /\ "end" \in TimerStates /\ "armed" \in TimerStates
    BY DEF ReaderStates, TimerStates
  <1>1. CASE OnHead(s)
    <2>1. sess[s].state # "Invalid" /\ UNCHANGED <<posted, idx, packets, replies>>
      BY <1>1, InUse DEF OnHead
    <2>2. CASE Close(s, [sess[s] EXCEPT !.reader = "end"])
      BY <1>e, <2>1, <2>2, MovedFacts, CloseStep DEF QueueOK
    <2>3. CASE sess' = [sess EXCEPT ![s].reader = "body"]
               /\ UNCHANGED <<user_session_mgr, user_id_mgr, registry, told>>
      BY <1>0, <1>e, <2>1, <2>3, MovedFacts, OneSessionStep
    <2>4. CASE HandleMsg(s) /\ UNCHANGED user_session_mgr
      BY <2>1, <2>4, HandleMsgStep
    <2> QED
      BY <1>1, <2>2, <2>3, <2>4 DEF OnHead
  <1>2. CASE OnBody(s)
    <2>1. sess[s].state # "Invalid"
      BY <1>2, InUse DEF OnBody
    <2> QED
      BY <1>2, <2>1, HandleMsgStep DEF OnBody
  <1>3. CASE OnReadError(s)
    <2>1. sess[s].state # "Invalid"
      BY <1>3, InUse DEF OnReadError
    <2> QED
      BY <1>3, <1>e, <2>1, MovedFacts, CloseStep DEF OnReadError, QueueOK
  <1>4. CASE OnTimer(s)
    <2>1. sess[s].state # "Invalid" /\ UNCHANGED <<posted, idx, packets, replies>>
      BY <1>4, InUse DEF OnTimer
    <2>2. CASE Close(s, [sess[s] EXCEPT !.timer = "end"])
      BY <1>e, <2>1, <2>2, MovedFacts, CloseStep DEF QueueOK
    <2>3. CASE sess' = [sess EXCEPT ![s].timer = IF Live(s) THEN "armed" ELSE "end"]
               /\ UNCHANGED <<user_session_mgr, user_id_mgr, registry, told>>
      BY <1>0, <1>e, <2>1, <2>3, MovedFacts, OneSessionStep
    <2> QED
      BY <1>4, <2>2, <2>3 DEF OnTimer
  <1>5. CASE OnWritten(s)
    <2>1. /\ sess[s].state # "Invalid" /\ sess[s].writer # "none"
          /\ UNCHANGED <<posted, idx, packets, replies>>
      BY <1>5, InUse DEF OnWritten
    <2>2. CASE sess' = [sess EXCEPT ![s] = WriteLoop(@)]
               /\ UNCHANGED <<user_session_mgr, user_id_mgr, registry, told>>
      BY <1>0, <2>1, <2>2, WriteLoopFacts, OneSessionStep
    <2>3. CASE Close(s, [sess[s] EXCEPT !.is_writing = FALSE, !.writer = "none"])
      <3> DEFINE x == [sess[s] EXCEPT !.is_writing = FALSE, !.writer = "none"]
      <3>1. x \in Session /\ FlagOK(x) /\ SameIdentity(sess[s], x)
        BY <1>0 DEF Session, SameIdentity, WriterStates, FlagOK
      <3> QED
        BY <2>1, <2>3, <3>1, CloseStep
    <2> QED
      BY <1>5, <2>2, <2>3 DEF OnWritten
  <1>6. CASE RunPosted(s)
    <2>1. sess[s].state # "Invalid"
      BY <1>0, <1>6, InUse DEF RunPosted
    <2>2. posted' \in [Sessions -> Nat] /\ \A t \in Sessions \ {s} : posted'[t] = posted[t]
      BY <1>0, <1>6 DEF RunPosted
    <2> QED
      BY <1>0, <1>6, <2>1, <2>2, SendDataFacts, OneSessionStep DEF RunPosted
  <1> QED
    BY <1>1, <1>2, <1>3, <1>4, <1>5, <1>6 DEF Handler

-----------------------------------------------------------------------------
(* Replies.                                                                *)

\* The registry's weak_ptr to a connected session locks, since the shard
\* owns it; and it only names sessions in use.
LEMMA RegisteredFacts ==
    ASSUME GateInv
    PROVE  /\ \A s \in Sessions : Live(s) => Alive(s)
           /\ \A uid \in DOMAIN registry :
                registry[uid] \in Sessions /\ sess[registry[uid]].state # "Invalid"
           /\ \A s \in Sessions : Live(s) /\ sess[s].uid # NoUid =>
                sess[s].uid \in DOMAIN registry /\ registry[sess[s].uid] = s
  <1>1. \A s \in Sessions : Live(s) => Alive(s)
    BY DEF GateInv, OwnedOK, Alive
  <1>2. ASSUME NEW uid \in DOMAIN registry
        PROVE  registry[uid] \in Sessions /\ sess[registry[uid]].state # "Invalid"
    <2>1. registry[uid] \in Sessions /\ sess[registry[uid]].uid = uid /\ uid \in Uids
      BY DEF GateInv, GateTypeOK, IsMap, RegistryOK
    <2>2. NoUid \notin Uids
      BY DEF Uids, NoUid
    <2> QED
      BY <2>1, <2>2, InUse
  <1> QED
    BY <1>1, <1>2 DEF GateInv, RegistryOK

\* SendToUid and Broadcast, on the work shard that read the reply.
LEMMA ReplyStep ==
    ASSUME GateInv, NEW w \in Shards, ForwardGameToClients(w)
    PROVE  GateInv'
  <1>0. /\ sess \in [Sessions -> Session] /\ posted \in [Sessions -> Nat]
        /\ told' \in [Uids -> {"nothing", "request", "disconnect"}]
        /\ idx' \in Shards /\ packets' \in 0 .. MaxPackets /\ replies' \in 0 .. MaxReplies
        /\ user_session_mgr' = user_session_mgr /\ user_id_mgr' = user_id_mgr
    BY GateBoundsNat DEF GateInv, GateTypeOK, ForwardGameToClients
  <1>u. \A s \in Sessions : /\ SameIdentity(sess[s], sess[s]) /\ QueueOK(sess[s])
                            /\ sess[s].state = "Invalid" => posted[s] = 0
    BY DEF SameIdentity, GateInv, SessionsOK, Unused
  <1>1. ASSUME NEW uid \in Uids, SendToUid(w, uid) PROVE GateInv'
    <2> DEFINE found == FindSessionByUid(w, uid)
    <2>1. CASE found # {}
      <3>1. /\ sess' = [s \in Sessions |-> IF s \in found THEN SendData(sess[s]) ELSE sess[s]]
            /\ UNCHANGED <<registry, posted>>
        BY <1>1, <2>1 DEF SendToUid
      <3>2. \A s \in found : sess[s].state # "Invalid"
        BY DEF FindSessionByUid, GateInv, OwnedOK, Live
      <3>3. \A s \in Sessions : /\ SendData(sess[s]) \in Session /\ QueueOK(SendData(sess[s]))
                                /\ SameIdentity(sess[s], SendData(sess[s]))
        BY <1>0, <1>u, SendDataFacts
      <3> HIDE DEF found
      <3>4. sess' \in [Sessions -> Session]
        BY <1>0, <3>1, <3>3
      <3>5. \A s \in Sessions : /\ SameIdentity(sess[s], sess'[s]) /\ QueueOK(sess'[s])
                                /\ sess[s].state = "Invalid" => sess'[s] = sess[s] /\ posted'[s] = 0
        BY <1>u, <3>1, <3>2, <3>3
      <3> QED
        BY <1>0, <3>1, <3>4, <3>5, LocalStep, RegisteredFacts
    <2>2. CASE found = {}
      <3>1. sess' = sess
        BY <1>1, <2>2 DEF SendToUid
      <3>2. CASE UNCHANGED <<registry, posted>>
        BY <1>0, <1>u, <3>1, <3>2, LocalStep, RegisteredFacts
      <3>3. CASE /\ uid \in DOMAIN registry /\ ~Alive(registry[uid])
                 /\ registry' = MapErase(registry, {uid}) /\ UNCHANGED posted
        <4>1. DOMAIN registry' = DOMAIN registry \ {uid}
              /\ \A v \in DOMAIN registry' : registry'[v] = registry[v]
          BY <3>3 DEF MapErase
        <4>2. \A s \in Sessions : Live(s) /\ sess[s].uid # NoUid => sess[s].uid \in DOMAIN registry'
          BY <3>3, <4>1, RegisteredFacts
        <4> QED
          BY <1>0, <1>u, <3>1, <3>3, <4>1, <4>2, LocalStep
      <3>4. CASE /\ uid \in DOMAIN registry
                 /\ posted' = [posted EXCEPT ![registry[uid]] = @ + 1] /\ UNCHANGED registry
        <4>1. registry[uid] \in Sessions /\ sess[registry[uid]].state # "Invalid"
          BY <3>4, RegisteredFacts
        <4>2. posted' \in [Sessions -> Nat]
              /\ \A s \in Sessions : sess[s].state = "Invalid" => posted'[s] = 0
          BY <1>0, <1>u, <3>4, <4>1
        <4> QED
          BY <1>0, <1>u, <3>1, <3>4, <4>2, LocalStep, RegisteredFacts
      <3> QED
        BY <1>1, <2>2, <3>2, <3>3, <3>4 DEF SendToUid
    <2> QED
      BY <2>1, <2>2
  <1>2. ASSUME Broadcast PROVE GateInv'
    <2> DEFINE gone == {u \in DOMAIN registry : ~Alive(registry[u])}
               left == MapErase(registry, gone)
               Of(s) == {u \in DOMAIN left : left[u] = s}
    <2>1. /\ registry' = left /\ sess' = sess
          /\ posted' = [s \in Sessions |-> posted[s] + Cardinality(Of(s))]
      BY <1>2 DEF Broadcast
    <2>2. DOMAIN left = DOMAIN registry \ gone /\ \A v \in DOMAIN left : left[v] = registry[v]
      BY DEF MapErase
    <2>3. \A s \in Sessions : Live(s) /\ sess[s].uid # NoUid => sess[s].uid \in DOMAIN left
      BY <2>2, RegisteredFacts
    <2>4. ASSUME NEW s \in Sessions
          PROVE  Cardinality(Of(s)) \in Nat /\ (sess[s].state = "Invalid" => Cardinality(Of(s)) = 0)
      <3>1. IsFiniteSet(Of(s))
        BY <2>2, FS_Subset DEF GateInv, RegistryOK
      <3>2. ASSUME NEW u \in Of(s) PROVE sess[s].state # "Invalid"
        <4>1. u \in DOMAIN left /\ left[u] = s
          OBVIOUS
        <4>2. u \in DOMAIN registry /\ registry[u] = s
          BY <2>2, <4>1
        <4> QED
          BY <4>2, RegisteredFacts
      <3> QED
        BY <3>1, <3>2, FS_CardinalityType, FS_EmptySet
    <2> HIDE DEF left, gone, Of
    <2>5. posted' \in [Sessions -> Nat]
          /\ \A s \in Sessions : sess[s].state = "Invalid" => posted'[s] = 0
      BY <1>0, <1>u, <2>1, <2>4
    <2>6. DOMAIN registry' \subseteq DOMAIN registry
          /\ \A v \in DOMAIN registry' : registry'[v] = registry[v]
      BY <2>1, <2>2
    <2> QED
      BY <1>0, <1>u, <2>1, <2>3, <2>5, <2>6, LocalStep
  <1> QED
    BY <1>1, <1>2 DEF ForwardGameToClients

-----------------------------------------------------------------------------
(* Connections arrive.                                                     *)

\* start() of a fresh session on shard i: it reads, its timer runs, and nothing is queued.
LEMMA FreshFacts ==
    ASSUME NEW n \in Session, n.uid = NoUid, n.writer = "none", n.send_que = 0,
           n.is_writing = FALSE, NEW i \in Shards
    PROVE  LET x == [n EXCEPT !.state = "Conected", !.shard = i,
                              !.reader = "head", !.timer = "armed"]
           IN  x \in Session /\ QueueOK(x) /\ x.state = "Conected" /\ x.shard = i /\ x.uid = NoUid
  <1> DEFINE x == [n EXCEPT !.state = "Conected", !.shard = i, !.reader = "head", !.timer = "armed"]
  <1>1. x \in Session
    BY DEF Session, ReaderStates, TimerStates
  <1>2. /\ x.state = "Conected" /\ x.shard = i /\ x.uid = NoUid
        /\ x.writer = "none" /\ x.send_que = 0 /\ x.is_writing = FALSE
    BY DEF Session
  <1> HIDE DEF x
  <1>3. QueueOK(x)
    BY <1>2 DEF QueueOK, FlagOK
  <1> USE DEF x
  <1> QED
    BY <1>1, <1>2, <1>3

\* The acceptor gives an unused session to the shard whose turn it is.
LEMMA AcceptStep ==
    ASSUME GateInv, NEW s \in Sessions, Accept(s)
    PROVE  GateInv'
  <1>1. /\ idx \in Shards /\ idx' \in Shards
        /\ sess \in [Sessions -> Session] /\ NoUid \notin Uids
    BY GateShardsPositive DEF GateInv, GateTypeOK, Accept, get_shard, Shards, Uids, NoUid
  <1>2. sess[s].state = "Invalid" /\ Unused(s)
    BY DEF Accept, GateInv, SessionsOK
  <1>3. /\ sess' \in [Sessions -> Session]
        /\ sess'[s].state = "Conected" /\ sess'[s].shard = idx /\ sess'[s].uid = NoUid
        /\ QueueOK(sess'[s])
        /\ \A t \in Sessions \ {s} : sess'[t] = sess[t]
    <2> DEFINE x == [NewSession EXCEPT !.state = "Conected", !.shard = idx,
                                       !.reader = "head", !.timer = "armed"]
    <2>0. /\ NewSession \in Session /\ NewSession.uid = NoUid
          /\ NewSession.writer = "none" /\ NewSession.send_que = 0 /\ NewSession.is_writing = FALSE
      BY GateDepthPositive, GateShardsPositive
         DEF NewSession, Session, Shards, ReaderStates, TimerStates, WriterStates
    <2>1. x \in Session /\ QueueOK(x) /\ x.state = "Conected" /\ x.shard = idx /\ x.uid = NoUid
      BY <1>1, <2>0, FreshFacts
    <2>2. sess' = [sess EXCEPT ![s] = x]
      BY DEF Accept
    <2> HIDE DEF x
    <2> QED
      BY <1>1, <2>1, <2>2
  <1>4. /\ user_session_mgr' = [user_session_mgr EXCEPT ![idx] = @ \cup {s}]
        /\ UNCHANGED <<user_id_mgr, registry, posted, told, packets, replies>>
    BY DEF Accept
  <1>5. GateTypeOK'
    BY <1>1, <1>3, <1>4 DEF GateInv, GateTypeOK, IsMap
  <1>6. SessionsOK'
    BY <1>3, <1>4 DEF GateInv, SessionsOK, Unused
  <1>7. OwnedOK'
    <2>1. \A v \in Shards : user_session_mgr'[v] \subseteq Sessions
                            /\ (s \in user_session_mgr'[v] => v = idx)
      BY <1>1, <1>2, <1>4 DEF GateInv, GateTypeOK, OwnedOK, Live
    <2>2. \A v \in Shards : user_session_mgr'[v] \subseteq user_session_mgr[v] \cup {s}
                            /\ user_session_mgr[v] \subseteq user_session_mgr'[v]
      BY <1>1, <1>4 DEF GateInv, GateTypeOK
    <2>3. s \in user_session_mgr'[idx]
      BY <1>1, <1>4 DEF GateInv, GateTypeOK
    <2>4. ASSUME NEW v \in Shards, NEW t \in user_session_mgr'[v]
          PROVE  Live(t)' /\ sess'[t].shard = v
      <3>1. CASE t = s
        BY <1>3, <2>1, <2>4, <3>1 DEF Live
      <3>2. CASE t # s
        BY <1>3, <2>1, <2>2, <2>4, <3>2 DEF GateInv, OwnedOK, Live
      <3> QED
        BY <3>1, <3>2
    <2>5. ASSUME NEW t \in Sessions, Live(t)' PROVE t \in user_session_mgr'[sess'[t].shard]
      <3>1. CASE t = s
        BY <1>3, <2>3, <3>1
      <3>2. CASE t # s
        <4>1. sess'[t] = sess[t] /\ Live(t) /\ sess[t].shard \in Shards
          BY <1>1, <1>3, <2>5, <3>2 DEF Live, Session
        <4> QED
          BY <2>2, <4>1 DEF GateInv, OwnedOK
      <3> QED
        BY <3>1, <3>2
    <2> QED
      BY <2>4, <2>5 DEF OwnedOK
  <1>8. IndexOK'
    <2>1. ASSUME NEW v \in Shards, NEW k \in DOMAIN user_id_mgr'[v], NEW t \in Sessions,
                 user_id_mgr'[v][k] = t
          PROVE  /\ Owns(t, k)
                 /\ sess'[t].state # "Invalid" /\ sess'[t].shard = v
                 /\ Live(t)' => sess'[t].uid = k
      <3>1. /\ Owns(t, k) /\ sess[t].state # "Invalid"
            /\ sess[t].shard = v /\ (Live(t) => sess[t].uid = k)
        BY <1>4, <2>1 DEF GateInv, IndexOK
      <3> QED
        BY <1>2, <1>3, <3>1 DEF Live
    <2>2. ASSUME NEW t \in Sessions, Live(t)', sess'[t].uid # NoUid
          PROVE  /\ sess'[t].uid \in DOMAIN user_id_mgr'[sess'[t].shard]
                 /\ user_id_mgr'[sess'[t].shard][sess'[t].uid] = t
      <3>1. sess'[t] = sess[t] /\ Live(t)
        BY <1>3, <2>2 DEF Live
      <3> QED
        BY <1>4, <2>2, <3>1 DEF GateInv, IndexOK
    <2> QED
      BY <2>1, <2>2 DEF IndexOK
  <1>9. RegistryOK'
    <2>1. ASSUME NEW v \in DOMAIN registry' PROVE sess'[registry'[v]].uid = v
      <3>1. registry[v] \in Sessions /\ sess[registry[v]].uid = v /\ registry[v] # s
        BY <1>2, <1>4, <2>1, RegisteredFacts DEF GateInv, RegistryOK
      <3> QED
        BY <1>3, <1>4, <3>1
    <2>2. ASSUME NEW t \in Sessions, Live(t)', sess'[t].uid # NoUid
          PROVE  sess'[t].uid \in DOMAIN registry' /\ registry'[sess'[t].uid] = t
      <3>1. sess'[t] = sess[t] /\ Live(t)
        BY <1>3, <2>2 DEF Live
      <3> QED
        BY <1>4, <2>2, <3>1, RegisteredFacts
    <2> QED
      BY <1>4, <2>1, <2>2 DEF GateInv, RegistryOK
  <1> QED
    BY <1>5, <1>6, <1>7, <1>8, <1>9 DEF GateInv

\* A failed accept only passes the turn on.
LEMMA AcceptFailsStep ==
    ASSUME GateInv, AcceptFails
    PROVE  GateInv'
  <1>1. idx' \in Shards
    BY GateShardsPositive DEF GateInv, GateTypeOK, AcceptFails, get_shard, Shards
  <1>2. UNCHANGED <<sess, user_session_mgr, user_id_mgr, registry, posted, told, packets, replies>>
    BY DEF AcceptFails
  <1> QED
    BY <1>1, <1>2 DEF GateInv, GateTypeOK, SessionsOK, OwnedOK, IndexOK, RegistryOK, IsMap, Live,
                      Unused

-----------------------------------------------------------------------------
(* The invariant and what follows from it.                                 *)

\* Before the first connection no session is in use and every map is empty.
LEMMA InitGateInv == GateInit => GateInv
  <1> SUFFICES ASSUME GateInit PROVE GateInv
    OBVIOUS
  <1>1. NewSession \in Session /\ QueueOK(NewSession) /\ NewSession.uid = NoUid
        /\ NewSession.state = "Invalid"
    BY GateShardsPositive, GateDepthPositive
       DEF NewSession, Session, QueueOK, FlagOK, ReaderStates, TimerStates, WriterStates, Shards
  <1>2. GateTypeOK
    BY <1>1, GateShardsPositive, GateBoundsNat DEF GateInit, GateTypeOK, IsMap, Shards
  <1>3. SessionsOK
    BY <1>1 DEF GateInit, SessionsOK, Unused
  <1>4. OwnedOK /\ IndexOK
    BY <1>1 DEF GateInit, OwnedOK, IndexOK, Live
  <1>5. RegistryOK
    BY <1>1, FS_EmptySet DEF GateInit, RegistryOK, Live
  <1> QED
    BY <1>2, <1>3, <1>4, <1>5 DEF GateInv

\* Every step of the acceptor, the coroutines, the router and the world keeps it.
LEMMA NextGateInv == GateInv /\ [GateNext]_gateVars => GateInv'
  <1> SUFFICES ASSUME GateInv, [GateNext]_gateVars PROVE GateInv'
    OBVIOUS
  <1>1. CASE AcceptFails
    BY <1>1, AcceptFailsStep
  <1>2. ASSUME NEW s \in Sessions, Accept(s) PROVE GateInv'
    BY <1>2, AcceptStep
  <1>3. ASSUME NEW s \in Sessions, ReadCompletes(s) \/ WriteCompletes(s) \/ TimerExpires(s)
        PROVE  GateInv'
    BY <1>3, WorldStep
  <1>4. ASSUME NEW s \in Sessions, Handler(s) PROVE GateInv'
    BY <1>4, HandlerStep
  <1>5. ASSUME NEW w \in Shards, ForwardGameToClients(w) PROVE GateInv'
    BY <1>5, ReplyStep
  <1>6. CASE UNCHANGED gateVars
    BY <1>6 DEF gateVars, GateInv, GateTypeOK, SessionsOK, OwnedOK, IndexOK, RegistryOK, IsMap,
                Live, Unused
  <1> QED
    BY <1>1, <1>2, <1>3, <1>4, <1>5, <1>6 DEF GateNext

\* The inductive invariant.
THEOREM GateInvariant == GateSpec => []GateInv
  BY InitGateInv, NextGateInv, PTL DEF GateSpec

\* Sessions and maps keep their types, and no send queue exceeds its limit.
THEOREM GateTypeCorrect == GateSpec => []GateTypeOK
  <1>1. GateInv => GateTypeOK
    BY DEF GateInv
  <1> QED
    BY <1>1, GateInvariant, PTL

\* A client that is logged in is found by its shard and by the registry, for
\* any number of clients and shards.
THEOREM LiveSessionsReachable == GateSpec => []LiveSessionIsReachable
  <1>1. GateInv => LiveSessionIsReachable
    BY DEF GateInv, OwnedOK, IndexOK, RegistryOK, LiveSessionIsReachable, FindSessionByUid
  <1> QED
    BY <1>1, GateInvariant, PTL

\* FindSessionByUid never finds a closed session, or one under a uid it no
\* longer has.
THEOREM FoundSessionsLive == GateSpec => []FoundSessionIsLive
  <1>1. GateInv => FoundSessionIsLive
    BY DEF GateInv, GateTypeOK, OwnedOK, IndexOK, FoundSessionIsLive, FindSessionByUid
  <1> QED
    BY <1>1, GateInvariant, PTL

\* The registry names a session only by the uid it has.
THEOREM RegistryEntriesCurrent == GateSpec => []RegistryEntryIsCurrent
  <1>1. GateInv => RegistryEntryIsCurrent
    BY DEF GateInv, RegistryOK, RegistryEntryIsCurrent
  <1> QED
    BY <1>1, GateInvariant, PTL

\* A packet in the queue of a connected session has a write loop to take it.
THEOREM SessionQueuesWritten == GateSpec => []SessionQueueIsWritten
  <1>1. GateInv => SessionQueueIsWritten
    BY DEF GateInv, SessionsOK, QueueOK, FlagOK, SessionQueueIsWritten, Live
  <1> QED
    BY <1>1, GateInvariant, PTL
=============================================================================
