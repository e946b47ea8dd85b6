------------------------- MODULE DungeonRoomLemmas -------------------------
(***************************************************************************)
(* What the proofs about DungeonRoom rest on.                              *)
(*                                                                         *)
(* The room's functions map worlds to worlds.  Good(v, sync, E) is the set *)
(* of worlds that are well formed and of which a client that is in sync    *)
(* and has the view v will know after the next delta: whatever differs is  *)
(* marked, but for the units in E, on which some function is at work.  A   *)
(* function of the room keeps a world good because it adds an entity with  *)
(* a new id (Appeared) or marks what it changes (Updated).                 *)
(*                                                                         *)
(* Lemmas about a function name its result x and say Is(x, F(w, ...)), and *)
(* what they conclude is one defined predicate: so the provers find the    *)
(* instance that is meant.                                                 *)
(***************************************************************************)
EXTENDS DungeonRoom, TLAPS, FiniteSetTheorems, WellFoundedInduction

-----------------------------------------------------------------------------
(* Recursion.  The library's theorems on recursion and induction take an   *)
(* operator; these take sets and functions instead.                        *)

\* Every set of naturals that is not empty has a least element.
LEMMA LeastNumber ==
    ASSUME NEW T \in SUBSET Nat, T # {}
    PROVE  \E x \in T : \A y \in T : x <= y
  <1> DEFINE R == OpToRel(<, Nat)
  <1>1. IsWellFoundedOn(R, Nat)
    BY NatLessThanWellFounded
  <1>2. \A x, y \in Nat : x < y => <<x, y>> \in R
    BY DEF OpToRel
  <1> HIDE DEF R
  <1>3. PICK x \in T : \A y \in T : ~(<<y, x>> \in R)
    BY <1>1, WFMin
  <1>4. \A y \in T : x \in Nat /\ y \in Nat /\ ~(y < x)
    BY <1>2, <1>3
  <1>5. \A y \in T : x <= y
    BY <1>4
  <1> QED
    BY <1>5

\* A set that has 0, and with each number the next one up to N, has them all.
LEMMA CountUp ==
    ASSUME NEW N \in Nat, NEW A, 0 \in A, \A n \in 0 .. N - 1 : n \in A => n + 1 \in A
    PROVE  \A n \in 0 .. N : n \in A
  <1> SUFFICES ASSUME NEW m \in 0 .. N, m \notin A
               PROVE  FALSE
    OBVIOUS
  <1> DEFINE T == {n \in 0 .. N : n \notin A}
  <1>1. T \in SUBSET Nat /\ T # {}
    OBVIOUS
  <1>2. PICK n \in T : \A y \in T : n <= y
    BY <1>1, LeastNumber
  <1>3. n \in 0 .. N /\ n # 0 /\ n - 1 \in 0 .. N - 1 /\ n - 1 \notin T
    BY <1>2
  <1>4. n - 1 \in A
    BY <1>3
  <1>5. (n - 1) + 1 \in A /\ (n - 1) + 1 = n
    BY <1>3, <1>4
  <1> QED
    BY <1>2, <1>5

\* The first n values of f are those of the recursion.
Unfolds(f, n, base, step) ==
    f[0] = base /\ \A k \in 1 .. n : f[k] = step[<<k, f[k - 1]>>]

\* A function on 0 .. N is defined by its first value and its steps.
LEMMA NatRecursion ==
    ASSUME NEW N \in Nat, NEW W, NEW base \in W, NEW step,
           \A k \in 1 .. N, x \in W : step[<<k, x>>] \in W
    PROVE  \E f \in [0 .. N -> W] : Unfolds(f, N, base, step)
  <1> USE DEF Unfolds
  <1> DEFINE Upto(n, f) == Unfolds(f, n, base, step)
             A == {n \in 0 .. N : \E f \in [0 .. N -> W] : Upto(n, f)}
  <1>1. 0 \in A
    <2> DEFINE f0 == [n \in 0 .. N |-> base]
    <2>1. f0 \in [0 .. N -> W] /\ Upto(0, f0)
      OBVIOUS
    <2>2. 0 \in 0 .. N
      OBVIOUS
    <2> HIDE DEF f0, Upto
    <2> QED
      BY <2>1, <2>2
  <1>2. ASSUME NEW n \in 0 .. N - 1, n \in A
        PROVE  n + 1 \in A
    <2>1. PICK f \in [0 .. N -> W] : Upto(n, f)
      BY <1>2
    <2> DEFINE g == [f EXCEPT ![n + 1] = step[<<n + 1, f[n]>>]]
    <2>2. n \in 0 .. N /\ n + 1 \in 1 .. N /\ n + 1 \in 0 .. N
      OBVIOUS
    <2>3. step[<<n + 1, f[n]>>] \in W
      BY <2>2
    <2>4. g \in [0 .. N -> W] /\ g[n + 1] = step[<<n + 1, f[n]>>]
      BY <2>2, <2>3
    <2>5. \A k \in 0 .. n : g[k] = f[k]
      BY <2>2
    <2>6. g[0] = base
      BY <2>1, <2>5
    <2>7. ASSUME NEW k \in 1 .. n + 1
          PROVE  g[k] = step[<<k, g[k - 1]>>]
      <3>1. CASE k = n + 1
        <4>1. k - 1 = n /\ g[k - 1] = f[n]
          BY <3>1, <2>5
        <4> QED
          BY <4>1, <3>1, <2>4
      <3>2. CASE k # n + 1
        <4>1. k \in 1 .. n /\ k \in 0 .. n /\ k - 1 \in 0 .. n
          BY <3>2
        <4> QED
          BY <4>1, <2>5, <2>1
      <3> QED
        BY <3>1, <3>2
    <2>8. Upto(n + 1, g)
      BY <2>6, <2>7
    <2> QED
      BY <2>2, <2>4, <2>8
  <1> HIDE DEF A
  <1>3. N \in A
    BY <1>1, <1>2, CountUp
  <1> QED
    BY <1>3 DEF A

\* The order in which the library's folds go through a set.
Pick(s) == CHOOSE x \in s : TRUE
Rest(s) == s \ {Pick(s)}

\* One element fewer.
LEMMA RestFacts ==
    ASSUME NEW S, IsFiniteSet(S), NEW s \in SUBSET S, s # {}
    PROVE  /\ Pick(s) \in s /\ Rest(s) \in SUBSET S /\ Rest(s) = s \ {Pick(s)}
           /\ IsFiniteSet(s) /\ Cardinality(s) \in 1 .. Cardinality(S)
           /\ Cardinality(Rest(s)) = Cardinality(s) - 1
           /\ Cardinality(S) \in Nat
  <1>1. Pick(s) \in s
    BY DEF Pick
  <1>2. IsFiniteSet(s) /\ Cardinality(s) <= Cardinality(S)
    BY FS_Subset
  <1>3. Cardinality(s) \in Nat /\ Cardinality(S) \in Nat
    BY <1>2, FS_CardinalityType
  <1>4. Cardinality(s) # 0
    BY <1>2, FS_EmptySet
  <1>5. Cardinality(s \ {Pick(s)}) = Cardinality(s) - 1
    BY <1>1, <1>2, FS_RemoveElement
  <1> QED
    BY <1>1, <1>2, <1>3, <1>4, <1>5 DEF Rest

\* Induction along that order.
LEMMA SubsetInduction ==
    ASSUME NEW S, IsFiniteSet(S), NEW A, {} \in A,
           \A s \in SUBSET S : s # {} /\ Rest(s) \in A => s \in A
    PROVE  \A s \in SUBSET S : s \in A
  <1> DEFINE B == {n \in 0 .. Cardinality(S) :
                     \A s \in SUBSET S : Cardinality(s) = n => s \in A}
  <1>0. Cardinality(S) \in Nat
    BY FS_CardinalityType
  <1>1. \A s \in SUBSET S : IsFiniteSet(s) /\ Cardinality(s) \in 0 .. Cardinality(S)
    BY FS_Subset, FS_CardinalityType, <1>0
  <1>2. 0 \in B
    BY <1>0, <1>1, FS_EmptySet
  <1>3. ASSUME NEW n \in 0 .. Cardinality(S) - 1, n \in B
        PROVE  n + 1 \in B
    <2>1. ASSUME NEW s \in SUBSET S, Cardinality(s) = n + 1
          PROVE  s \in A
      <3>1. s # {}
        <4>1. Cardinality({}) = 0 /\ n + 1 # 0
          BY FS_EmptySet, <1>0
        <4> QED
          BY <4>1, <2>1
      <3>2. Rest(s) \in SUBSET S /\ Cardinality(Rest(s)) = n
        BY <3>1, <2>1, RestFacts, <1>0
      <3> QED
        BY <3>1, <3>2, <1>3
    <2> QED
      BY <2>1, <1>0
  <1> HIDE DEF B
  <1>4. \A n \in 0 .. Cardinality(S) : n \in B
    BY <1>0, <1>2, <1>3, CountUp
  <1> QED
    BY <1>1, <1>4 DEF B

\* Two functions that are built the same way along the order agree on S.
LEMMA SameFold ==
    ASSUME NEW S, IsFiniteSet(S), NEW g, NEW h, g[{}] = h[{}],
           \A s \in SUBSET S : s # {} /\ g[Rest(s)] = h[Rest(s)] => g[s] = h[s]
    PROVE  g[S] = h[S]
  <1> DEFINE A == {s \in SUBSET S : g[s] = h[s]}
  <1>1. {} \in A /\ \A s \in SUBSET S : s # {} /\ Rest(s) \in A => s \in A
    OBVIOUS
  <1> HIDE DEF A
  <1>2. S \in A
    BY <1>1, SubsetInduction
  <1> QED
    BY <1>2 DEF A

\* g is the fold over S, with all its parts.
IsFold(g, S, base, step) ==
    g = [s \in SUBSET S |-> IF s = {} THEN base ELSE step[<<s, g[Rest(s)]>>]]

\* Its steps keep a relation between the elements done and the value.
StepsKeep(R, S, W, step) ==
    \A s \in SUBSET S, x \in W :
      s # {} /\ <<Rest(s), x>> \in R => <<s, step[<<s, x>>]>> \in R

\* Its values are in that relation.
FoldIn(R, g, S, base, step) ==
    IsFold(g, S, base, step) /\ \A s \in SUBSET S : <<s, g[s]>> \in R

\* A fold whose steps keep a relation is well defined, and its values are in
\* that relation.
LEMMA FoldExists ==
    ASSUME NEW S, IsFiniteSet(S), NEW W, NEW R \in SUBSET ((SUBSET S) \X W),
           NEW base, NEW step, <<{}, base>> \in R, StepsKeep(R, S, W, step)
    PROVE  \E g : FoldIn(R, g, S, base, step)
  <1> USE DEF StepsKeep
  <1> DEFINE N == Cardinality(S)
             Maps == [SUBSET S -> W]
             Safe(s, x) == IF step[<<s, x>>] \in W THEN step[<<s, x>>] ELSE base
             next == [p \in (1 .. N) \X Maps |->
                        [s \in SUBSET S |-> IF s = {} THEN base ELSE Safe(s, p[2][Rest(s)])]]
             first == [s \in SUBSET S |-> base]
  <1>1. N \in Nat /\ base \in W
    BY FS_CardinalityType
  <1>2. \A s, x : Safe(s, x) \in W
    BY <1>1
  <1>3. first \in Maps
    BY <1>1
  <1>4. next \in [(1 .. N) \X Maps -> Maps]
    <2> HIDE DEF Safe
    <2> QED
      BY <1>1, <1>2
  <1> HIDE DEF N, Safe
  <1>5. PICK f \in [0 .. N -> Maps] : f[0] = first /\ \A k \in 1 .. N : f[k] = next[<<k, f[k - 1]>>]
    <2> HIDE DEF next, first, Maps
    <2>1. \A k \in 1 .. N, x \in Maps : next[<<k, x>>] \in Maps
      BY <1>4
    <2>2. \E f \in [0 .. N -> Maps] : Unfolds(f, N, first, next)
      BY <1>1, <1>3, <2>1, NatRecursion
    <2> QED
      BY <2>2 DEF Unfolds
  <1> DEFINE g == [s \in SUBSET S |-> f[Cardinality(s)][s]]
  <1>6. g[{}] = base
    BY <1>5, FS_EmptySet
  <1>7. ASSUME NEW s \in SUBSET S, s # {}
        PROVE  g[s] = Safe(s, g[Rest(s)])
    <2>1. /\ Rest(s) \in SUBSET S /\ Cardinality(s) \in 1 .. N
          /\ Cardinality(Rest(s)) = Cardinality(s) - 1
      BY <1>7, RestFacts DEF N
    <2> DEFINE k == Cardinality(s)
    <2>2. g[s] = f[k][s] /\ g[Rest(s)] = f[k - 1][Rest(s)]
      BY <2>1
    <2> HIDE DEF k, g
    <2>3. k \in 1 .. N /\ k - 1 \in 0 .. N /\ f[k - 1] \in Maps
      <3> HIDE DEF Maps
      <3>1. k \in 1 .. N
        BY <2>1 DEF k
      <3>2. k - 1 \in 0 .. N
        BY <3>1, <1>1
      <3> QED
        BY <3>1, <3>2
    <2>4. f[k] = next[<<k, f[k - 1]>>]
      BY <1>5, <2>3
    <2>5. <<k, f[k - 1]>> \in (1 .. N) \X Maps /\ <<k, f[k - 1]>>[2] = f[k - 1]
      BY <2>3
    <2>6. f[k][s] = Safe(s, f[k - 1][Rest(s)])
      BY <2>4, <2>5, <1>7
    <2> QED
      BY <2>2, <2>6
  <1> DEFINE A == {s \in SUBSET S : <<s, g[s]>> \in R}
  <1>8. {} \in A
    BY <1>6
  <1>9. \A s \in SUBSET S : s # {} /\ Rest(s) \in A => s \in A /\ g[s] = step[<<s, g[Rest(s)]>>]
    <2> SUFFICES ASSUME NEW s \in SUBSET S, s # {}, Rest(s) \in A
                 PROVE  s \in A /\ g[s] = step[<<s, g[Rest(s)]>>]
      OBVIOUS
    <2> HIDE DEF g
    <2>1. <<Rest(s), g[Rest(s)]>> \in R
      OBVIOUS
    <2>2. g[Rest(s)] \in W
      BY <2>1
    <2>3. <<s, step[<<s, g[Rest(s)]>>]>> \in R
      BY <2>1, <2>2
    <2>4. step[<<s, g[Rest(s)]>>] \in W
      BY <2>3
    <2> QED
      BY <2>3, <2>4, <1>7 DEF Safe
  <1> HIDE DEF A
  <1>10. \A s \in SUBSET S : s \in A
    BY <1>8, <1>9, SubsetInduction
  <1>11. \A s \in SUBSET S : s # {} => Rest(s) \in SUBSET S
    BY RestFacts
  <1>12. \A s \in SUBSET S : g[s] = IF s = {} THEN base ELSE step[<<s, g[Rest(s)]>>]
    BY <1>6, <1>9, <1>10, <1>11
  <1>13. g = [s \in SUBSET S |-> IF s = {} THEN base ELSE step[<<s, g[Rest(s)]>>]]
    <2>1. g = [s \in SUBSET S |-> g[s]]
      OBVIOUS
    <2> HIDE DEF g
    <2> QED
      BY <1>12, <2>1
  <1> QED
    BY <1>10, <1>13 DEF A, IsFold, FoldIn

-----------------------------------------------------------------------------
(* Types.                                                                  *)

\* Maps from ids.
PFun(T) == UNION {[D -> T] : D \in SUBSET Nat}

Unit ==
    {u \in [owner : Uids, hp : 0 .. UnitStrikes,
            state : {"Idle", "Moving", "Attacking", "Working"}, has_target : BOOLEAN,
            attack_target : Nat, auto_aggro : BOOLEAN, task : Tasks, gather_field_id : Nat,
            dropoff_id : Nat, pickup_drop_id : Nat, build_target_id : Nat,
            carried_amount : 0 .. kVillagerCarryCapacity, carried_raw : Raws] :
       u.attack_target # 0 => u.task = "None"}

Building ==
    {b \in [owner : Uids, type : BuildingTypes, under_construction : BOOLEAN, hp : Nat,
            built : 0 .. ConstructTicks, train_queue : Seq(1 .. TrainTicks)] :
       /\ b.hp <= MaxHp(b.type)
       /\ b.under_construction <=> b.built < ConstructTicks}

\* What lies in a field or in a drop.
Heap == [raw : Raws, amount : Nat \ {0}]

Account == [food : Nat, wood : Nat, gold : Nat]

World ==
    [units : PFun(Unit), buildings : PFun(Building), fields : PFun(Heap), drops : PFun(Heap),
     player_res : [Uids -> Account], next_entity_id : Nat \ {0}, dirty : SUBSET Nat,
     spawned : SUBSET Nat, despawned : SUBSET Nat, resource_dirty : SUBSET Uids]

UnitShot == [hp : Nat, state : {"Idle", "Moving", "Attacking", "Working"},
             carried_amount : Nat, carried_raw : Raws]
BuildingShot == [type : BuildingTypes, hp : Nat, built : Nat]

View ==
    [units : PFun(UnitShot), buildings : PFun(BuildingShot), fields : PFun(Heap),
     drops : PFun(Heap), player_res : [Uids -> Account]]

Command ==
    {c \in [type : PlainOrders \cup {"Build", "Train"},
            aux_type : {""} \cup BuildingTypes \cup UnitTypes, owner_uid : Uids,
            unit_ids : SUBSET Nat, target : Nat] :
       c.type = "Build" => c.aux_type \in BuildingTypes}

\* Ids come from the counter, each is of one entity, and an entity that is gone
\* does not come back.
Ids(w) == 1 .. w.next_entity_id - 1

Consistent(w) ==
    /\ DOMAIN w.units \subseteq Ids(w) /\ DOMAIN w.buildings \subseteq Ids(w)
    /\ DOMAIN w.fields \subseteq Ids(w) /\ DOMAIN w.drops \subseteq Ids(w)
    /\ w.despawned \subseteq Ids(w)
    /\ DOMAIN w.units \cap DOMAIN w.buildings = {} /\ DOMAIN w.units \cap DOMAIN w.fields = {}
    /\ DOMAIN w.units \cap DOMAIN w.drops = {} /\ DOMAIN w.buildings \cap DOMAIN w.fields = {}
    /\ DOMAIN w.buildings \cap DOMAIN w.drops = {} /\ DOMAIN w.fields \cap DOMAIN w.drops = {}
    /\ w.despawned \cap (DOMAIN w.units \cup DOMAIN w.buildings
                          \cup DOMAIN w.fields \cup DOMAIN w.drops) = {}

\* What differs between a client's view and the world is marked for the next
\* delta, but for units in E, which a function of the room is working on.
Covered(v, w, E) ==
    /\ \A i \in DOMAIN w.units :
         \/ i \in w.spawned \cup w.dirty \cup E
         \/ i \in DOMAIN v.units /\ v.units[i] = UnitSnapshot(w.units[i])
    /\ \A i \in DOMAIN w.buildings :
         \/ i \in w.spawned \cup w.dirty
         \/ i \in DOMAIN v.buildings /\ v.buildings[i] = BuildingSnapshot(w.buildings[i])
    /\ DOMAIN w.fields \subseteq DOMAIN v.fields \cup w.spawned
    /\ DOMAIN w.drops \subseteq DOMAIN v.drops \cup w.spawned
    /\ DOMAIN v.units \subseteq DOMAIN w.units \cup w.despawned
    /\ DOMAIN v.buildings \subseteq DOMAIN w.buildings \cup w.despawned
    /\ DOMAIN v.fields \subseteq DOMAIN w.fields \cup w.despawned
    /\ DOMAIN v.drops \subseteq DOMAIN w.drops \cup w.despawned
    /\ \A uid \in Uids : uid \in w.resource_dirty \/ v.player_res[uid] = w.player_res[uid]

\* The worlds a tick may have made of the one the client saw, if it is in sync.
Good(v, sync, E) == {w \in World : Consistent(w) /\ (sync => Covered(v, w, E))}

Alive(w) == /\ \A i \in DOMAIN w.units : w.units[i].hp >= 1
            /\ \A i \in DOMAIN w.buildings : w.buildings[i].hp >= 1

RoomInv ==
    /\ phase \in {"lobby", "idle", "step"} /\ in_sync \in BOOLEAN
    /\ view \in View
    /\ world \in Good(view, in_sync, {})
    /\ phase = "idle" => /\ Alive(world) /\ world.dirty = {} /\ world.spawned = {}
                         /\ world.despawned = {} /\ world.resource_dirty = {}
    /\ phase = "step" => todo \subseteq DOMAIN world.units
    /\ pending \in Seq(Command)

-----------------------------------------------------------------------------
(* Maps.                                                                   *)

\* What is known of a map from ids.
LEMMA MapFacts ==
    ASSUME NEW T, NEW f \in PFun(T)
    PROVE  DOMAIN f \in SUBSET Nat /\ f \in [DOMAIN f -> T] /\ \A i \in DOMAIN f : f[i] \in T
  BY DEF PFun

\* A function on ids is a map.
LEMMA MapIntro ==
    ASSUME NEW T, NEW D \in SUBSET Nat, NEW f \in [D -> T]
    PROVE  f \in PFun(T) /\ DOMAIN f = D
  BY DEF PFun

\* operator[] of a map, with one value set.
LEMMA PutFacts ==
    ASSUME NEW T, NEW f \in PFun(T), NEW k \in Nat, NEW x \in T
    PROVE  /\ Put(f, k, x) \in PFun(T) /\ DOMAIN Put(f, k, x) = DOMAIN f \cup {k}
           /\ Put(f, k, x)[k] = x
           /\ \A i \in DOMAIN f : i # k => Put(f, k, x)[i] = f[i]
  <1>1. DOMAIN f \in SUBSET Nat /\ \A i \in DOMAIN f : f[i] \in T
    BY MapFacts
  <1>2. Put(f, k, x) = [i \in DOMAIN f \cup {k} |-> IF i = k THEN x ELSE f[i]]
    BY DEF Put
  <1>3. Put(f, k, x) \in [DOMAIN f \cup {k} -> T]
    BY <1>1, <1>2
  <1> QED
    BY <1>1, <1>2, <1>3, MapIntro

\* erase of a map.
LEMMA EraseFacts ==
    ASSUME NEW T, NEW f \in PFun(T), NEW K
    PROVE  /\ Erase(f, K) \in PFun(T) /\ DOMAIN Erase(f, K) = DOMAIN f \ K
           /\ \A i \in DOMAIN f \ K : Erase(f, K)[i] = f[i]
  <1>1. DOMAIN f \in SUBSET Nat /\ \A i \in DOMAIN f : f[i] \in T
    BY MapFacts
  <1>2. Erase(f, K) = [i \in DOMAIN f \ K |-> f[i]]
    BY DEF Erase, Restrict
  <1>3. Erase(f, K) \in [DOMAIN f \ K -> T]
    BY <1>1, <1>2
  <1> QED
    BY <1>1, <1>2, <1>3, MapIntro

\* A value of a map that changes.
LEMMA UpdateFacts ==
    ASSUME NEW T, NEW f \in PFun(T), NEW k, NEW x, k \in DOMAIN f => x \in T
    PROVE  /\ [f EXCEPT ![k] = x] \in PFun(T) /\ DOMAIN [f EXCEPT ![k] = x] = DOMAIN f
           /\ k \in DOMAIN f => [f EXCEPT ![k] = x][k] = x
           /\ \A i \in DOMAIN f : i # k => [f EXCEPT ![k] = x][i] = f[i]
  <1>1. DOMAIN f \in SUBSET Nat /\ f \in [DOMAIN f -> T]
    BY MapFacts
  <1>2. [f EXCEPT ![k] = x] \in [DOMAIN f -> T]
    BY <1>1
  <1> QED
    BY <1>1, <1>2, MapIntro

\* The parts of a world.
LEMMA WorldFacts ==
    ASSUME NEW w \in World
    PROVE  /\ w.units \in PFun(Unit) /\ w.buildings \in PFun(Building)
           /\ w.fields \in PFun(Heap) /\ w.drops \in PFun(Heap)
           /\ w.player_res \in [Uids -> Account] /\ w.next_entity_id \in Nat \ {0}
           /\ w.dirty \in SUBSET Nat /\ w.spawned \in SUBSET Nat /\ w.despawned \in SUBSET Nat
           /\ w.resource_dirty \in SUBSET Uids
           /\ DOMAIN w.units \in SUBSET Nat /\ DOMAIN w.buildings \in SUBSET Nat
           /\ DOMAIN w.fields \in SUBSET Nat /\ DOMAIN w.drops \in SUBSET Nat
           /\ \A i \in DOMAIN w.units : w.units[i] \in Unit
           /\ \A i \in DOMAIN w.buildings : w.buildings[i] \in Building
           /\ \A i \in DOMAIN w.fields : w.fields[i] \in Heap
           /\ \A i \in DOMAIN w.drops : w.drops[i] \in Heap
  <1>1. /\ w.units \in PFun(Unit) /\ w.buildings \in PFun(Building)
        /\ w.fields \in PFun(Heap) /\ w.drops \in PFun(Heap)
        /\ w.player_res \in [Uids -> Account] /\ w.next_entity_id \in Nat \ {0}
        /\ w.dirty \in SUBSET Nat /\ w.spawned \in SUBSET Nat /\ w.despawned \in SUBSET Nat
        /\ w.resource_dirty \in SUBSET Uids
    BY DEF World
  <1> QED
    BY <1>1, MapFacts

-----------------------------------------------------------------------------
(* Two kinds of change keep a world good.                                  *)

\* The same entities, but for fields and drops in G that are gone; what else
\* changed is marked, but for units in E.
Updated(w, x, G, E) ==
    /\ x.next_entity_id = w.next_entity_id /\ x.spawned = w.spawned
    /\ w.dirty \subseteq x.dirty /\ w.resource_dirty \subseteq x.resource_dirty
    /\ G \subseteq DOMAIN w.fields \cup DOMAIN w.drops /\ x.despawned = w.despawned \cup G
    /\ DOMAIN x.units = DOMAIN w.units /\ DOMAIN x.buildings = DOMAIN w.buildings
    /\ DOMAIN x.fields = DOMAIN w.fields \ G /\ DOMAIN x.drops = DOMAIN w.drops \ G
    /\ \A i \in DOMAIN w.units :
         i \in x.dirty \cup E \/ UnitSnapshot(x.units[i]) = UnitSnapshot(w.units[i])
    /\ \A i \in DOMAIN w.buildings : i \in x.dirty \/ x.buildings[i] = w.buildings[i]
    /\ \A uid \in Uids : uid \in x.resource_dirty \/ x.player_res[uid] = w.player_res[uid]

\* Such a change keeps the world good: the new delta still has all that differs.
LEMMA UpdatedIsGood ==
    ASSUME NEW v, NEW sync, NEW E, NEW w \in Good(v, sync, E), NEW x \in World, NEW G,
           Updated(w, x, G, E)
    PROVE  x \in Good(v, sync, E)
  <1>1. w \in World /\ Consistent(w) /\ (sync => Covered(v, w, E))
    BY DEF Good
  <1>2. Consistent(x)
    BY <1>1 DEF Consistent, Updated, Ids
  <1>3. ASSUME Covered(v, w, E)
        PROVE  Covered(v, x, E)
    <2>1. ASSUME NEW i \in DOMAIN x.units
          PROVE  \/ i \in x.spawned \cup x.dirty \cup E
                 \/ i \in DOMAIN v.units /\ v.units[i] = UnitSnapshot(x.units[i])
      BY <1>3, <2>1 DEF Updated, Covered
    <2>2. ASSUME NEW i \in DOMAIN x.buildings
          PROVE  \/ i \in x.spawned \cup x.dirty
                 \/ i \in DOMAIN v.buildings /\ v.buildings[i] = BuildingSnapshot(x.buildings[i])
      BY <1>3, <2>2 DEF Updated, Covered
    <2>3. /\ DOMAIN x.fields \subseteq DOMAIN v.fields \cup x.spawned
          /\ DOMAIN x.drops \subseteq DOMAIN v.drops \cup x.spawned
          /\ DOMAIN v.units \subseteq DOMAIN x.units \cup x.despawned
          /\ DOMAIN v.buildings \subseteq DOMAIN x.buildings \cup x.despawned
          /\ DOMAIN v.fields \subseteq DOMAIN x.fields \cup x.despawned
          /\ DOMAIN v.drops \subseteq DOMAIN x.drops \cup x.despawned
      BY <1>3 DEF Updated, Covered
    <2>4. \A uid \in Uids : uid \in x.resource_dirty \/ v.player_res[uid] = x.player_res[uid]
      BY <1>3 DEF Updated, Covered
    <2> QED
      BY <2>1, <2>2, <2>3, <2>4 DEF Covered
  <1> QED
    BY <1>1, <1>2, <1>3 DEF Good

\* One entity more, with the counter's id and marked as spawned.
Grown(old, new, ids) ==
    /\ DOMAIN new = DOMAIN old \cup ids
    /\ \A i \in DOMAIN old : i \notin ids => new[i] = old[i]

Appeared(w, x, U, B, F, D) ==
    /\ {w.next_entity_id} = U \cup B \cup F \cup D
    /\ U \cap B = {} /\ U \cap F = {} /\ U \cap D = {}
    /\ B \cap F = {} /\ B \cap D = {} /\ F \cap D = {}
    /\ x.next_entity_id = w.next_entity_id + 1
    /\ x.spawned = w.spawned \cup {w.next_entity_id}
    /\ x.dirty = w.dirty /\ x.despawned = w.despawned
    /\ x.resource_dirty = w.resource_dirty /\ x.player_res = w.player_res
    /\ Grown(w.units, x.units, U) /\ Grown(w.buildings, x.buildings, B)
    /\ Grown(w.fields, x.fields, F) /\ Grown(w.drops, x.drops, D)

\* The id is new, so the entity is confused with no other and goes out with the
\* delta.
LEMMA AppearedIsGood ==
    ASSUME NEW v, NEW sync, NEW E, NEW w \in Good(v, sync, E), NEW x \in World,
           NEW U, NEW B, NEW F, NEW D, Appeared(w, x, U, B, F, D)
    PROVE  x \in Good(v, sync, E)
  <1>1. w \in World /\ Consistent(w) /\ (sync => Covered(v, w, E))
    BY DEF Good
  <1> DEFINE n == w.next_entity_id
  <1>2. n \in Nat \ {0}
    BY <1>1, WorldFacts
  <1>3. Ids(x) = Ids(w) \cup {n} /\ n \notin Ids(w)
    BY <1>2 DEF Appeared, Ids
  <1>4. Consistent(x)
    BY <1>1, <1>3 DEF Consistent, Appeared, Grown
  <1>5. ASSUME Covered(v, w, E)
        PROVE  Covered(v, x, E)
    <2>1. ASSUME NEW i \in DOMAIN x.units
          PROVE  \/ i \in x.spawned \cup x.dirty \cup E
                 \/ i \in DOMAIN v.units /\ v.units[i] = UnitSnapshot(x.units[i])
      BY <1>5, <2>1 DEF Appeared, Grown, Covered
    <2>2. ASSUME NEW i \in DOMAIN x.buildings
          PROVE  \/ i \in x.spawned \cup x.dirty
                 \/ i \in DOMAIN v.buildings /\ v.buildings[i] = BuildingSnapshot(x.buildings[i])
      BY <1>5, <2>2 DEF Appeared, Grown, Covered
    <2>3. /\ DOMAIN x.fields \subseteq DOMAIN v.fields \cup x.spawned
          /\ DOMAIN x.drops \subseteq DOMAIN v.drops \cup x.spawned
          /\ DOMAIN v.units \subseteq DOMAIN x.units \cup x.despawned
          /\ DOMAIN v.buildings \subseteq DOMAIN x.buildings \cup x.despawned
          /\ DOMAIN v.fields \subseteq DOMAIN x.fields \cup x.despawned
          /\ DOMAIN v.drops \subseteq DOMAIN x.drops \cup x.despawned
      BY <1>5 DEF Appeared, Grown, Covered
    <2>4. \A uid \in Uids : uid \in x.resource_dirty \/ v.player_res[uid] = x.player_res[uid]
      BY <1>5 DEF Appeared, Covered
    <2> QED
      BY <2>1, <2>2, <2>3, <2>4 DEF Covered
  <1> QED
    BY <1>1, <1>4, <1>5 DEF Good

\* Units that were being changed and are marked are no exception any more.
LEMMA MarkedIsGood ==
    ASSUME NEW v, NEW sync, NEW E, NEW w \in Good(v, sync, E), E \subseteq w.dirty
    PROVE  w \in Good(v, sync, {})
  BY DEF Good, Covered

\* And the fewer exceptions, the better.
LEMMA FewerExceptions ==
    ASSUME NEW v, NEW sync, NEW E, NEW w \in Good(v, sync, {})
    PROVE  w \in Good(v, sync, E)
  BY DEF Good, Covered

-----------------------------------------------------------------------------
(* Units and buildings.                                                    *)

\* The fields of a unit.
LEMMA UnitFields ==
    ASSUME NEW u \in Unit
    PROVE  /\ u.owner \in Uids /\ u.hp \in 0 .. UnitStrikes /\ u.hp \in Nat
           /\ u.state \in {"Idle", "Moving", "Attacking", "Working"} /\ u.has_target \in BOOLEAN
           /\ u.attack_target \in Nat /\ u.auto_aggro \in BOOLEAN /\ u.task \in Tasks
           /\ u.gather_field_id \in Nat /\ u.dropoff_id \in Nat /\ u.pickup_drop_id \in Nat
           /\ u.build_target_id \in Nat /\ u.carried_amount \in 0 .. kVillagerCarryCapacity
           /\ u.carried_amount \in Nat /\ u.carried_raw \in Raws
           /\ u.attack_target # 0 => u.task = "None"
  BY RoomNumbers DEF Unit

\* A new unit has all its health.
LEMMA NewUnitFacts ==
    ASSUME NEW owner \in Uids, NEW walks \in BOOLEAN
    PROVE  LET u == [NewUnit(owner) EXCEPT !.has_target = walks] IN
           u \in Unit /\ u.hp = UnitStrikes /\ u.hp >= 1
  <1>1. /\ UnitStrikes \in 0 .. UnitStrikes /\ UnitStrikes >= 1
        /\ 0 \in 0 .. kVillagerCarryCapacity
    BY RoomNumbers
  <1>2. "None" \in Tasks /\ "berries" \in Raws
    BY DEF Tasks, Raws
  <1> QED
    BY <1>1, <1>2 DEF NewUnit, Unit

\* The orders.
LEMMA OrderedUnits ==
    ASSUME NEW u \in Unit, NEW t \in Nat, NEW task \in Tasks
    PROVE  /\ ClearWorkerTask(u) \in Unit /\ PutToWork(u, task) \in Unit
           /\ [ClearWorkerTask(u) EXCEPT !.has_target = TRUE, !.attack_target = 0,
                                         !.state = "Moving"] \in Unit
           /\ [ClearWorkerTask(u) EXCEPT !.has_target = FALSE, !.attack_target = 0,
                                         !.state = "Idle"] \in Unit
           /\ [ClearWorkerTask(u) EXCEPT !.attack_target = t, !.auto_aggro = FALSE,
                                         !.has_target = FALSE, !.state = "Attacking"] \in Unit
           /\ [PutToWork(u, task) EXCEPT !.gather_field_id = t] \in Unit
           /\ [PutToWork(u, task) EXCEPT !.dropoff_id = t] \in Unit
           /\ [PutToWork(u, task) EXCEPT !.pickup_drop_id = t] \in Unit
           /\ [PutToWork(u, task) EXCEPT !.build_target_id = t] \in Unit
  <1>1. ClearWorkerTask(u) \in Unit /\ ClearWorkerTask(u).task = "None"
    BY DEF ClearWorkerTask, Unit, Tasks
  <1>2. ASSUME NEW c \in Unit, c.task = "None"
        PROVE  /\ [c EXCEPT !.has_target = TRUE, !.attack_target = 0, !.state = "Moving"] \in Unit
               /\ [c EXCEPT !.has_target = FALSE, !.attack_target = 0, !.state = "Idle"] \in Unit
               /\ [c EXCEPT !.attack_target = t, !.auto_aggro = FALSE,
                            !.has_target = FALSE, !.state = "Attacking"] \in Unit
               /\ [c EXCEPT !.task = task, !.attack_target = 0, !.has_target = FALSE,
                            !.state = "Moving"] \in Unit
    BY <1>2 DEF Unit
  <1>3. PutToWork(u, task) \in Unit
    BY <1>1, <1>2 DEF PutToWork
  <1>4. ASSUME NEW c \in Unit
        PROVE  /\ [c EXCEPT !.gather_field_id = t] \in Unit /\ [c EXCEPT !.dropoff_id = t] \in Unit
               /\ [c EXCEPT !.pickup_drop_id = t] \in Unit
               /\ [c EXCEPT !.build_target_id = t] \in Unit
    BY DEF Unit
  <1> QED
    BY <1>1, <1>2, <1>3, <1>4

\* What a step makes of a unit that has no target.
LEMMA WorkedUnits ==
    ASSUME NEW u \in Unit, u.attack_target = 0, NEW n \in 0 .. kVillagerCarryCapacity,
           NEW raw \in Raws, NEW b \in Nat
    PROVE  /\ SwitchToPreparingReturn(u) \in Unit /\ SwitchToReturn(u) \in Unit
           /\ [u EXCEPT !.task = "Gathering", !.state = "Moving"] \in Unit
           /\ [u EXCEPT !.dropoff_id = b] \in Unit
           /\ [u EXCEPT !.dropoff_id = b].attack_target = 0
           /\ [u EXCEPT !.carried_amount = n] \in Unit
           /\ [u EXCEPT !.carried_amount = n].attack_target = 0
           /\ LET c == [u EXCEPT !.state = "Working", !.carried_raw = raw, !.carried_amount = n]
              IN  c \in Unit /\ c.attack_target = 0
           /\ LET c == [u EXCEPT !.carried_raw = raw, !.carried_amount = n]
              IN  c \in Unit /\ c.attack_target = 0
  BY DEF SwitchToPreparingReturn, SwitchToReturn, Unit, Tasks

\* What a step makes of any unit.
LEMMA SteppedUnits ==
    ASSUME NEW u \in Unit, NEW t \in Nat, NEW state \in {"Idle", "Moving", "Attacking", "Working"}
    PROVE  /\ [u EXCEPT !.state = state] \in Unit
           /\ [u EXCEPT !.state = state].attack_target = u.attack_target
           /\ [u EXCEPT !.has_target = FALSE, !.state = "Idle"] \in Unit
           /\ Idle(u) \in Unit /\ StopAttack(u) \in Unit
           /\ [u EXCEPT !.auto_aggro = FALSE, !.attack_target = 0, !.has_target = TRUE,
                        !.state = "Moving"] \in Unit
           /\ u.task = "None" => [u EXCEPT !.attack_target = t, !.auto_aggro = TRUE,
                                           !.state = "Attacking"] \in Unit
           /\ LET c == [ClearWorkerTask(u) EXCEPT !.has_target = FALSE]
              IN  c \in Unit /\ c.task = "None"
           /\ [u EXCEPT !.carried_amount = 0] \in Unit
           /\ \A hp \in 0 .. UnitStrikes : [u EXCEPT !.hp = hp] \in Unit
  <1>1. ClearWorkerTask(u) \in Unit /\ ClearWorkerTask(u).task = "None"
    BY DEF ClearWorkerTask, Unit, Tasks
  <1>2. \A c \in Unit : \A st \in {"Idle", "Moving", "Attacking", "Working"} :
          [c EXCEPT !.state = st] \in Unit
    BY DEF Unit
  <1>3. ASSUME NEW c \in Unit, c.task = "None"
        PROVE  /\ [c EXCEPT !.has_target = FALSE] \in Unit
               /\ [c EXCEPT !.has_target = FALSE].task = "None"
    BY <1>3 DEF Unit
  <1>4. Idle(u) \in Unit
    BY <1>1, <1>2 DEF Idle
  <1>5. /\ [u EXCEPT !.has_target = FALSE, !.state = "Idle"] \in Unit
        /\ StopAttack(u) \in Unit
        /\ [u EXCEPT !.auto_aggro = FALSE, !.attack_target = 0, !.has_target = TRUE,
                     !.state = "Moving"] \in Unit
    BY DEF Unit, StopAttack
  <1>6. u.task = "None" => [u EXCEPT !.attack_target = t, !.auto_aggro = TRUE,
                                     !.state = "Attacking"] \in Unit
    BY DEF Unit
  <1>7. /\ [u EXCEPT !.state = state].attack_target = u.attack_target
        /\ [u EXCEPT !.carried_amount = 0] \in Unit
        /\ \A hp \in 0 .. UnitStrikes : [u EXCEPT !.hp = hp] \in Unit
    BY RoomNumbers DEF Unit
  <1> QED
    BY <1>1, <1>2, <1>3, <1>4, <1>5, <1>6, <1>7

\* The fields of a building.
LEMMA BuildingFields ==
    ASSUME NEW b \in Building
    PROVE  /\ b.owner \in Uids /\ b.type \in BuildingTypes /\ b.under_construction \in BOOLEAN
           /\ b.hp \in Nat /\ b.built \in 0 .. ConstructTicks
           /\ b.train_queue \in Seq(1 .. TrainTicks) /\ b.hp <= MaxHp(b.type)
           /\ b.under_construction <=> b.built < ConstructTicks
  BY DEF Building

\* The full health of a building is at least one strike.
LEMMA MaxHpFacts == \A type : MaxHp(type) \in Nat \ {0}
  BY RoomNumbers DEF MaxHp

\* A building, finished or not, begins with health.
LEMMA NewBuildingFacts ==
    ASSUME NEW owner \in Uids, NEW type \in BuildingTypes, NEW unfinished \in BOOLEAN
    PROVE  /\ NewBuilding(owner, type, unfinished) \in Building
           /\ NewBuilding(owner, type, unfinished).hp >= 1
  <1> DEFINE m == MaxHp(type)
  <1>1. m \in Nat /\ m >= 1
    BY MaxHpFacts
  <1>2. ConstructTicks \in Nat /\ ConstructTicks > 0
    BY RoomNumbers
  <1>3. <<>> \in Seq(1 .. TrainTicks)
    OBVIOUS
  <1> HIDE DEF m
  <1>4. NewBuilding(owner, type, unfinished) =
          [owner |-> owner, type |-> type, under_construction |-> unfinished,
           hp |-> IF unfinished THEN 1 ELSE m,
           built |-> IF unfinished THEN 0 ELSE ConstructTicks, train_queue |-> <<>>]
    BY DEF NewBuilding, m
  <1> QED
    BY <1>1, <1>2, <1>3, <1>4 DEF Building, m

\* A strike, and a training queue that changes.
LEMMA ChangedBuildings ==
    ASSUME NEW b \in Building, NEW q \in Seq(1 .. TrainTicks)
    PROVE  /\ b.hp > 0 => [b EXCEPT !.hp = b.hp - 1] \in Building
           /\ [b EXCEPT !.train_queue = q] \in Building
           /\ [b EXCEPT !.train_queue = q].hp = b.hp
  <1>1. \A type : MaxHp(type) \in Nat
    BY MaxHpFacts
  <1> QED
    BY <1>1 DEF Building

Rebuilt(b, built, under, hp) ==
    [b EXCEPT !.built = built, !.under_construction = under, !.hp = hp]

\* A building whose work and health fit together.
LEMMA BuildingIntro ==
    ASSUME NEW b \in Building, NEW hp \in Nat, hp <= MaxHp(b.type),
           NEW built \in 0 .. ConstructTicks, NEW under \in BOOLEAN,
           under <=> built < ConstructTicks
    PROVE  Rebuilt(b, built, under, hp) \in Building
  <1> DEFINE x == Rebuilt(b, built, under, hp)
  <1>1. /\ x.type = b.type /\ x.hp = hp /\ x.built = built /\ x.under_construction = under
        /\ x \in [owner : Uids, type : BuildingTypes, under_construction : BOOLEAN, hp : Nat,
                  built : 0 .. ConstructTicks, train_queue : Seq(1 .. TrainTicks)]
    BY DEF Building, Rebuilt
  <1> QED
    BY <1>1 DEF Building

\* A worker's tick at a foundation leaves its health within bounds.
LEMMA ProgressedFacts ==
    ASSUME NEW b \in Building, b.under_construction
    PROVE  Progressed(b) \in Building
  <1> DEFINE M == MaxHp(b.type)
             C == ConstructTicks
             k == b.built + 1
             more == [b EXCEPT !.built = k]
  <1>1. M \in Nat \ {0} /\ C \in Nat \ {0} /\ b.built \in Nat /\ b.built < C
    BY MaxHpFacts, RoomNumbers, BuildingFields
  <1>2. k \in 1 .. C /\ k \in Nat
    BY <1>1
  <1>3. /\ more.built = k /\ more.type = b.type /\ more.hp = b.hp
        /\ Progressed(b) =
             IF k = C THEN [more EXCEPT !.under_construction = FALSE, !.hp = M]
             ELSE [more EXCEPT !.hp = Max({b.hp, HpOfProgress(more)})]
    BY DEF Progressed, Building
  <1>4. CASE k = C
    <2>1. Progressed(b) = Rebuilt(b, C, FALSE, M)
      BY <1>3, <1>4 DEF Rebuilt
    <2>2. M <= MaxHp(b.type) /\ C \in 0 .. ConstructTicks /\ ~(C < ConstructTicks)
      BY <1>1
    <2> QED
      BY <2>1, <2>2, <1>1, BuildingIntro
  <1>5. CASE k # C
    <2> DEFINE h == HpOfProgress(more)
    <2>1. k < C
      BY <1>2, <1>5, <1>1
    <2>2. h = (M * k + C - 1) \div C
      BY <1>3 DEF HpOfProgress
    <2> HIDE DEF M, C, k, h, more
    <2>3. h \in Nat /\ h <= M
      <3>1. M * k \in Nat /\ M * k <= M * C
        <4>1. C - k \in Nat /\ M * (C - k) \in Nat /\ M * (C - k) = M * C - M * k
          BY <1>1, <1>2, <2>1
        <4> QED
          BY <4>1, <1>1, <1>2
      <3> DEFINE n == M * k + C - 1
      <3>2. n \in Nat /\ n < (M + 1) * C
        <4>1. (M + 1) * C = M * C + C /\ M * C \in Nat
          BY <1>1
        <4> QED
          BY <3>1, <4>1, <1>1
      <3> HIDE DEF n
      <3>3. n \div C \in Nat /\ (n \div C) * C <= n
        BY <3>2, <1>1
      <3>4. n \div C < M + 1
        <4> SUFFICES ASSUME n \div C >= M + 1 PROVE FALSE
          BY <3>3, <1>1
        <4> DEFINE d == (n \div C) - (M + 1)
        <4>1. d \in Nat /\ n \div C = d + (M + 1)
          BY <3>3, <1>1
        <4> HIDE DEF d
        <4>2. (d + (M + 1)) * C = d * C + (M + 1) * C /\ d * C \in Nat /\ (M + 1) * C \in Nat
          BY <4>1, <1>1
        <4> QED
          BY <3>2, <3>3, <4>1, <4>2
      <3>5. h = n \div C
        BY <2>2 DEF n
      <3> QED
        BY <3>3, <3>4, <3>5, <1>1
    <2>4. b.hp \in Nat /\ b.hp <= M
      BY BuildingFields DEF M
    <2> DEFINE top == Max({b.hp, h})
    <2>5. top \in {b.hp, h}
      <3>1. \E x \in {b.hp, h} : \A y \in {b.hp, h} : x >= y
        BY <2>3, <2>4
      <3> QED
        BY <3>1 DEF Max
    <2>6. top \in Nat /\ top <= M
      BY <2>3, <2>4, <2>5
    <2> HIDE DEF top
    <2>7. Progressed(b) = Rebuilt(b, k, TRUE, top)
      <3>1. Progressed(b) = [more EXCEPT !.hp = top]
        BY <1>3, <1>5 DEF top, h
      <3> QED
        BY <3>1 DEF more, Building, Rebuilt
    <2>8. top <= MaxHp(b.type) /\ k \in 0 .. ConstructTicks /\ k < ConstructTicks
      BY <2>1, <2>6, <1>1, <1>2 DEF C, M
    <2> QED
      BY <2>6, <2>7, <2>8, BuildingIntro
  <1> QED
    BY <1>4, <1>5

-----------------------------------------------------------------------------
(* The functions that change the world.  First those that spawn.           *)

\* Equality, kept folded: it makes the provers use a lemma only for the world
\* it is cited for.
Is(x, y) == x = y

\* A map with one entry more.
LEMMA PutGrown ==
    ASSUME NEW T, NEW f \in PFun(T), NEW k \in Nat, NEW x \in T
    PROVE  Put(f, k, x) \in PFun(T) /\ Grown(f, Put(f, k, x), {k})
  <1>1. Put(f, k, x) \in PFun(T)
    BY PutFacts
  <1>2. Grown(f, Put(f, k, x), {k})
    BY DEF Grown, Put
  <1> QED
    BY <1>1, <1>2

\* Everything but the entity that was spawned is as it was.
UnitAdded(w, x) ==
    /\ Grown(w.units, x.units, {w.next_entity_id}) /\ x.units[w.next_entity_id].hp >= 1
    /\ x.buildings = w.buildings /\ x.fields = w.fields /\ x.drops = w.drops
    /\ x.dirty = w.dirty /\ x.player_res = w.player_res

BuildingAdded(w, x) ==
    /\ Grown(w.buildings, x.buildings, {w.next_entity_id})
    /\ x.buildings[w.next_entity_id].hp >= 1
    /\ x.units = w.units /\ x.fields = w.fields /\ x.drops = w.drops
    /\ x.dirty = w.dirty /\ x.player_res = w.player_res

FieldAdded(w, x) ==
    /\ Grown(w.fields, x.fields, {w.next_entity_id})
    /\ x.units = w.units /\ x.buildings = w.buildings /\ x.drops = w.drops
    /\ x.dirty = w.dirty /\ x.player_res = w.player_res

DropAdded(w, x) ==
    /\ Grown(w.drops, x.drops, {w.next_entity_id})
    /\ x.units = w.units /\ x.buildings = w.buildings /\ x.fields = w.fields
    /\ x.dirty = w.dirty /\ x.player_res = w.player_res

\* SpawnUnit keeps the world good.
LEMMA SpawnUnitGood ==
    ASSUME NEW v, NEW sync, NEW E, NEW w \in Good(v, sync, E),
           NEW owner \in Uids, NEW walks \in BOOLEAN,
           NEW x, Is(x, SpawnUnit(w, owner, walks))
    PROVE  x \in Good(v, sync, E) /\ UnitAdded(w, x)
  <1>0. x = SpawnUnit(w, owner, walks)
    BY DEF Is
  <1> DEFINE n == w.next_entity_id
             e == [NewUnit(owner) EXCEPT !.has_target = walks]
  <1>1. w \in World /\ Consistent(w) /\ n \in Nat \ {0} /\ n \notin Ids(w)
    BY WorldFacts DEF Good, Ids
  <1>2. e \in Unit
    BY NewUnitFacts
  <1> HIDE DEF e
  <1>3. Put(w.units, n, e) \in PFun(Unit) /\ Grown(w.units, Put(w.units, n, e), {n})
    <2>1. w.units \in PFun(Unit) /\ n \in Nat
      BY <1>1, WorldFacts
    <2> HIDE DEF n
    <2> QED
      BY <1>2, <2>1, PutGrown
  <1>4. /\ x.units = Put(w.units, n, e)
        /\ x.buildings = w.buildings /\ x.fields = w.fields /\ x.drops = w.drops
        /\ x.player_res = w.player_res /\ x.next_entity_id = n + 1
        /\ x.dirty = w.dirty /\ x.spawned = w.spawned \cup {n}
        /\ x.despawned = w.despawned /\ x.resource_dirty = w.resource_dirty
    BY <1>0, <1>1 DEF SpawnUnit, NewId, World, e
  <1>5. x \in World
    <2>1. x = [w EXCEPT !.spawned = w.spawned \cup {n}, !.next_entity_id = n + 1,
                        !.units = Put(w.units, n, e)]
      BY <1>0, <1>1 DEF SpawnUnit, NewId, World, e
    <2>2. w.spawned \cup {n} \in SUBSET Nat /\ n + 1 \in Nat \ {0}
      BY <1>1, WorldFacts
    <2> QED
      BY <1>1, <1>3, <2>1, <2>2 DEF World
  <1>6. Appeared(w, x, {n}, {}, {}, {})
    BY <1>1, <1>3, <1>4 DEF Appeared, Grown
  <1>7. x \in Good(v, sync, E)
    BY <1>5, <1>6, AppearedIsGood
  <1>8. x.units[n].hp >= 1
    <2>1. e.hp >= 1
      BY NewUnitFacts DEF e
    <2>2. x.units[n] = e
      BY <1>4 DEF Put
    <2> QED
      BY <2>1, <2>2
  <1> QED
    BY <1>3, <1>4, <1>7, <1>8 DEF UnitAdded

\* SpawnBuilding keeps the world good.
LEMMA SpawnBuildingGood ==
    ASSUME NEW v, NEW sync, NEW E, NEW w \in Good(v, sync, E),
           NEW owner \in Uids, NEW type \in BuildingTypes, NEW unfinished \in BOOLEAN,
           NEW x, Is(x, SpawnBuilding(w, owner, type, unfinished))
    PROVE  x \in Good(v, sync, E) /\ BuildingAdded(w, x)
  <1>0. x = SpawnBuilding(w, owner, type, unfinished)
    BY DEF Is
  <1> DEFINE n == w.next_entity_id
             e == NewBuilding(owner, type, unfinished)
  <1>1. w \in World /\ Consistent(w) /\ n \in Nat \ {0} /\ n \notin Ids(w)
    BY WorldFacts DEF Good, Ids
  <1>2. e \in Building
    BY NewBuildingFacts
  <1> HIDE DEF e
  <1>3. Put(w.buildings, n, e) \in PFun(Building) /\ Grown(w.buildings, Put(w.buildings, n, e), {n})
    <2>1. w.buildings \in PFun(Building) /\ n \in Nat
      BY <1>1, WorldFacts
    <2> HIDE DEF n
    <2> QED
      BY <1>2, <2>1, PutGrown
  <1>4. /\ x.buildings = Put(w.buildings, n, e)
        /\ x.units = w.units /\ x.fields = w.fields /\ x.drops = w.drops
        /\ x.player_res = w.player_res /\ x.next_entity_id = n + 1
        /\ x.dirty = w.dirty /\ x.spawned = w.spawned \cup {n}
        /\ x.despawned = w.despawned /\ x.resource_dirty = w.resource_dirty
    BY <1>0, <1>1 DEF SpawnBuilding, NewId, World, e
  <1>5. x \in World
    <2>1. x = [w EXCEPT !.spawned = w.spawned \cup {n}, !.next_entity_id = n + 1,
                        !.buildings = Put(w.buildings, n, e)]
      BY <1>0, <1>1 DEF SpawnBuilding, NewId, World, e
    <2>2. w.spawned \cup {n} \in SUBSET Nat /\ n + 1 \in Nat \ {0}
      BY <1>1, WorldFacts
    <2> QED
      BY <1>1, <1>3, <2>1, <2>2 DEF World
  <1>6. Appeared(w, x, {}, {n}, {}, {})
    BY <1>1, <1>3, <1>4 DEF Appeared, Grown
  <1>7. x \in Good(v, sync, E)
    BY <1>5, <1>6, AppearedIsGood
  <1>8. x.buildings[n].hp >= 1
    <2>1. e.hp >= 1
      BY NewBuildingFacts DEF e
    <2>2. x.buildings[n] = e
      BY <1>4 DEF Put
    <2> QED
      BY <2>1, <2>2
  <1> QED
    BY <1>3, <1>4, <1>7, <1>8 DEF BuildingAdded

\* SpawnResourceField keeps the world good.
LEMMA SpawnResourceFieldGood ==
    ASSUME NEW v, NEW sync, NEW E, NEW w \in Good(v, sync, E), NEW f \in Heap,
           NEW x, Is(x, SpawnResourceField(w, f))
    PROVE  x \in Good(v, sync, E) /\ FieldAdded(w, x)
  <1>0. x = SpawnResourceField(w, f)
    BY DEF Is
  <1> DEFINE n == w.next_entity_id
             e == f
  <1>1. w \in World /\ Consistent(w) /\ n \in Nat \ {0} /\ n \notin Ids(w)
    BY WorldFacts DEF Good, Ids
  <1>2. e \in Heap
    BY DEF Heap
  <1> HIDE DEF e
  <1>3. Put(w.fields, n, e) \in PFun(Heap) /\ Grown(w.fields, Put(w.fields, n, e), {n})
    <2>1. w.fields \in PFun(Heap) /\ n \in Nat
      BY <1>1, WorldFacts
    <2> HIDE DEF n
    <2> QED
      BY <1>2, <2>1, PutGrown
  <1>4. /\ x.fields = Put(w.fields, n, e)
        /\ x.units = w.units /\ x.buildings = w.buildings /\ x.drops = w.drops
        /\ x.player_res = w.player_res /\ x.next_entity_id = n + 1
        /\ x.dirty = w.dirty /\ x.spawned = w.spawned \cup {n}
        /\ x.despawned = w.despawned /\ x.resource_dirty = w.resource_dirty
    BY <1>0, <1>1 DEF SpawnResourceField, NewId, World, e
  <1>5. x \in World
    <2>1. x = [w EXCEPT !.spawned = w.spawned \cup {n}, !.next_entity_id = n + 1,
                        !.fields = Put(w.fields, n, e)]
      BY <1>0, <1>1 DEF SpawnResourceField, NewId, World, e
    <2>2. w.spawned \cup {n} \in SUBSET Nat /\ n + 1 \in Nat \ {0}
      BY <1>1, WorldFacts
    <2> QED
      BY <1>1, <1>3, <2>1, <2>2 DEF World
  <1>6. Appeared(w, x, {}, {}, {n}, {})
    BY <1>1, <1>3, <1>4 DEF Appeared, Grown
  <1>7. x \in Good(v, sync, E)
    BY <1>5, <1>6, AppearedIsGood
  <1> QED
    BY <1>3, <1>4, <1>7 DEF FieldAdded

\* SpawnResourceDrop keeps the world good.
LEMMA SpawnResourceDropGood ==
    ASSUME NEW v, NEW sync, NEW E, NEW w \in Good(v, sync, E),
           NEW raw, NEW amount, [raw |-> raw, amount |-> amount] \in Heap,
           NEW x, Is(x, SpawnResourceDrop(w, raw, amount))
    PROVE  x \in Good(v, sync, E) /\ DropAdded(w, x)
  <1>0. x = SpawnResourceDrop(w, raw, amount)
    BY DEF Is
  <1> DEFINE n == w.next_entity_id
             e == [raw |-> raw, amount |-> amount]
  <1>1. w \in World /\ Consistent(w) /\ n \in Nat \ {0} /\ n \notin Ids(w)
    BY WorldFacts DEF Good, Ids
  <1>2. e \in Heap
    OBVIOUS
  <1> HIDE DEF e
  <1>3. Put(w.drops, n, e) \in PFun(Heap) /\ Grown(w.drops, Put(w.drops, n, e), {n})
    <2>1. w.drops \in PFun(Heap) /\ n \in Nat
      BY <1>1, WorldFacts
    <2> HIDE DEF n
    <2> QED
      BY <1>2, <2>1, PutGrown
  <1>4. /\ x.drops = Put(w.drops, n, e)
        /\ x.units = w.units /\ x.buildings = w.buildings /\ x.fields = w.fields
        /\ x.player_res = w.player_res /\ x.next_entity_id = n + 1
        /\ x.dirty = w.dirty /\ x.spawned = w.spawned \cup {n}
        /\ x.despawned = w.despawned /\ x.resource_dirty = w.resource_dirty
    BY <1>0, <1>1 DEF SpawnResourceDrop, NewId, World, e
  <1>5. x \in World
    <2>1. x = [w EXCEPT !.spawned = w.spawned \cup {n}, !.next_entity_id = n + 1,
                        !.drops = Put(w.drops, n, e)]
      BY <1>0, <1>1 DEF SpawnResourceDrop, NewId, World, e
    <2>2. w.spawned \cup {n} \in SUBSET Nat /\ n + 1 \in Nat \ {0}
      BY <1>1, WorldFacts
    <2> QED
      BY <1>1, <1>3, <2>1, <2>2 DEF World
  <1>6. Appeared(w, x, {}, {}, {}, {n})
    BY <1>1, <1>3, <1>4 DEF Appeared, Grown
  <1>7. x \in Good(v, sync, E)
    BY <1>5, <1>6, AppearedIsGood
  <1> QED
    BY <1>3, <1>4, <1>7 DEF DropAdded

-----------------------------------------------------------------------------
(* Then those that change entities and accounts.                           *)

\* Units of S were changed and marked.
WithUnits(w, g, S) == [w EXCEPT !.units = g, !.dirty = @ \cup S]

UnitsAre(w, x, g, S) ==
    /\ x.units = g /\ x.dirty = w.dirty \cup S
    /\ x.buildings = w.buildings /\ x.fields = w.fields /\ x.drops = w.drops
    /\ x.player_res = w.player_res
    /\ x.next_entity_id = w.next_entity_id /\ x.spawned = w.spawned /\ x.despawned = w.despawned
    /\ x.resource_dirty = w.resource_dirty

\* Changes of units that are marked keep the world good.
LEMMA WithUnitsGood ==
    ASSUME NEW v, NEW sync, NEW E, NEW w \in Good(v, sync, E), NEW g \in PFun(Unit),
           NEW S \in SUBSET Nat, DOMAIN g = DOMAIN w.units,
           \A i \in DOMAIN g : i \in S \cup E \/ g[i] = w.units[i],
           NEW x, Is(x, WithUnits(w, g, S))
    PROVE  x \in Good(v, sync, E) /\ UnitsAre(w, x, g, S)
  <1>0. x = WithUnits(w, g, S)
    BY DEF Is
  <1>1. w \in World /\ Consistent(w)
    BY DEF Good
  <1>2. UnitsAre(w, x, g, S)
    BY <1>0, <1>1 DEF WithUnits, World, UnitsAre
  <1>3. w.dirty \cup S \in SUBSET Nat
    BY <1>1, WorldFacts
  <1>4. x \in World
    BY <1>0, <1>1, <1>3 DEF WithUnits, World
  <1>5. Updated(w, x, {}, E)
    BY <1>1, <1>2 DEF Updated, Consistent, UnitsAre
  <1>6. x \in Good(v, sync, E)
    BY <1>4, <1>5, UpdatedIsGood
  <1> QED
    BY <1>2, <1>6

\* Buildings of S were changed and marked.
WithBuildings(w, g, S) == [w EXCEPT !.buildings = g, !.dirty = @ \cup S]

BuildingsAre(w, x, g, S) ==
    /\ x.buildings = g /\ x.dirty = w.dirty \cup S
    /\ x.units = w.units /\ x.fields = w.fields /\ x.drops = w.drops /\ x.player_res = w.player_res
    /\ x.next_entity_id = w.next_entity_id /\ x.spawned = w.spawned /\ x.despawned = w.despawned
    /\ x.resource_dirty = w.resource_dirty

\* Changes of buildings that are marked keep the world good.
LEMMA WithBuildingsGood ==
    ASSUME NEW v, NEW sync, NEW E, NEW w \in Good(v, sync, E), NEW g \in PFun(Building),
           NEW S \in SUBSET Nat, DOMAIN g = DOMAIN w.buildings,
           \A i \in DOMAIN g : i \in S \/ g[i] = w.buildings[i],
           NEW x, Is(x, WithBuildings(w, g, S))
    PROVE  x \in Good(v, sync, E) /\ BuildingsAre(w, x, g, S)
  <1>0. x = WithBuildings(w, g, S)
    BY DEF Is
  <1>1. w \in World /\ Consistent(w)
    BY DEF Good
  <1>2. BuildingsAre(w, x, g, S)
    BY <1>0, <1>1 DEF WithBuildings, World, BuildingsAre
  <1>3. w.dirty \cup S \in SUBSET Nat
    BY <1>1, WorldFacts
  <1>4. x \in World
    BY <1>0, <1>1, <1>3 DEF WithBuildings, World
  <1>5. Updated(w, x, {}, E)
    BY <1>1, <1>2 DEF Updated, Consistent, BuildingsAre
  <1>6. x \in Good(v, sync, E)
    BY <1>4, <1>5, UpdatedIsGood
  <1> QED
    BY <1>2, <1>6

\* Fields of S are used up.
WithFields(w, g, S) == [w EXCEPT !.fields = g, !.despawned = @ \cup S]

FieldsAre(w, x, g, S) ==
    /\ x.fields = g /\ x.despawned = w.despawned \cup S
    /\ x.units = w.units /\ x.buildings = w.buildings /\ x.drops = w.drops
    /\ x.player_res = w.player_res
    /\ x.next_entity_id = w.next_entity_id /\ x.dirty = w.dirty /\ x.spawned = w.spawned
    /\ x.resource_dirty = w.resource_dirty

\* Fields need no mark but when they are gone.
LEMMA WithFieldsGood ==
    ASSUME NEW v, NEW sync, NEW E, NEW w \in Good(v, sync, E), NEW g \in PFun(Heap),
           NEW S \in SUBSET Nat, DOMAIN g = DOMAIN w.fields \ S,
           S \subseteq DOMAIN w.fields,
           NEW x, Is(x, WithFields(w, g, S))
    PROVE  x \in Good(v, sync, E) /\ FieldsAre(w, x, g, S)
  <1>0. x = WithFields(w, g, S)
    BY DEF Is
  <1>1. w \in World /\ Consistent(w)
    BY DEF Good
  <1>2. FieldsAre(w, x, g, S)
    BY <1>0, <1>1 DEF WithFields, World, FieldsAre
  <1>3. w.despawned \cup S \in SUBSET Nat
    BY <1>1, WorldFacts
  <1>4. x \in World
    BY <1>0, <1>1, <1>3 DEF WithFields, World
  <1>5. Updated(w, x, S, E)
    BY <1>1, <1>2 DEF Updated, Consistent, FieldsAre
  <1>6. x \in Good(v, sync, E)
    BY <1>4, <1>5, UpdatedIsGood
  <1> QED
    BY <1>2, <1>6

\* Drops of S are taken.
WithDrops(w, g, S) == [w EXCEPT !.drops = g, !.despawned = @ \cup S]

DropsAre(w, x, g, S) ==
    /\ x.drops = g /\ x.despawned = w.despawned \cup S
    /\ x.units = w.units /\ x.buildings = w.buildings /\ x.fields = w.fields
    /\ x.player_res = w.player_res
    /\ x.next_entity_id = w.next_entity_id /\ x.dirty = w.dirty /\ x.spawned = w.spawned
    /\ x.resource_dirty = w.resource_dirty

\* And neither do drops.
LEMMA WithDropsGood ==
    ASSUME NEW v, NEW sync, NEW E, NEW w \in Good(v, sync, E), NEW g \in PFun(Heap),
           NEW S \in SUBSET Nat, DOMAIN g = DOMAIN w.drops \ S,
           S \subseteq DOMAIN w.drops,
           NEW x, Is(x, WithDrops(w, g, S))
    PROVE  x \in Good(v, sync, E) /\ DropsAre(w, x, g, S)
  <1>0. x = WithDrops(w, g, S)
    BY DEF Is
  <1>1. w \in World /\ Consistent(w)
    BY DEF Good
  <1>2. DropsAre(w, x, g, S)
    BY <1>0, <1>1 DEF WithDrops, World, DropsAre
  <1>3. w.despawned \cup S \in SUBSET Nat
    BY <1>1, WorldFacts
  <1>4. x \in World
    BY <1>0, <1>1, <1>3 DEF WithDrops, World
  <1>5. Updated(w, x, S, E)
    BY <1>1, <1>2 DEF Updated, Consistent, DropsAre
  <1>6. x \in Good(v, sync, E)
    BY <1>4, <1>5, UpdatedIsGood
  <1> QED
    BY <1>2, <1>6

\* Accounts of S were changed and marked.
WithAccounts(w, g, S) == [w EXCEPT !.player_res = g, !.resource_dirty = @ \cup S]

AccountsAre(w, x, g, S) ==
    /\ x.player_res = g /\ x.resource_dirty = w.resource_dirty \cup S
    /\ x.units = w.units /\ x.buildings = w.buildings /\ x.fields = w.fields /\ x.drops = w.drops
    /\ x.next_entity_id = w.next_entity_id /\ x.dirty = w.dirty /\ x.spawned = w.spawned
    /\ x.despawned = w.despawned

\* Changes of accounts that are marked keep the world good.
LEMMA WithAccountsGood ==
    ASSUME NEW v, NEW sync, NEW E, NEW w \in Good(v, sync, E), NEW g \in [Uids -> Account],
           NEW S \in SUBSET Uids, \A uid \in Uids : uid \in S \/ g[uid] = w.player_res[uid],
           NEW x, Is(x, WithAccounts(w, g, S))
    PROVE  x \in Good(v, sync, E) /\ AccountsAre(w, x, g, S)
  <1>0. x = WithAccounts(w, g, S)
    BY DEF Is
  <1>1. w \in World /\ Consistent(w)
    BY DEF Good
  <1>2. AccountsAre(w, x, g, S)
    BY <1>0, <1>1 DEF WithAccounts, World, AccountsAre
  <1>3. w.resource_dirty \cup S \in SUBSET Uids
    BY <1>1, WorldFacts
  <1>4. x \in World
    BY <1>0, <1>1, <1>3 DEF WithAccounts, World
  <1>5. Updated(w, x, {}, E)
    BY <1>1, <1>2 DEF Updated, Consistent, AccountsAre
  <1>6. x \in Good(v, sync, E)
    BY <1>4, <1>5, UpdatedIsGood
  <1> QED
    BY <1>2, <1>6

\* One unit is u now, the other entities and the accounts are as they were.
UnitSet(w, x, id, u) ==
    /\ DOMAIN x.units = DOMAIN w.units /\ x.units[id] = u
    /\ \A i \in DOMAIN w.units : i # id => x.units[i] = w.units[i]
    /\ x.buildings = w.buildings /\ x.fields = w.fields /\ x.drops = w.drops
    /\ x.player_res = w.player_res

\* What a unit's turn makes of the world.
Stepped(v, sync, w) == {x \in Good(v, sync, {}) : DOMAIN x.units = DOMAIN w.units}

\* One unit as a function of the room left it.
LEMMA SetUnitGood ==
    ASSUME NEW v, NEW sync, NEW E, NEW w \in Good(v, sync, E), NEW id \in DOMAIN w.units,
           E \subseteq {id}, NEW u \in Unit,
           NEW x, Is(x, SetUnit(w, id, u))
    PROVE  x \in Stepped(v, sync, w) /\ UnitSet(w, x, id, u)
  <1>0. x = SetUnit(w, id, u)
    BY DEF Is
  <1> DEFINE g == [w.units EXCEPT ![id] = u]
  <1>1. w \in World
    BY DEF Good
  <1>2. w.units \in PFun(Unit) /\ id \in Nat
    BY <1>1, WorldFacts
  <1>3. /\ g \in PFun(Unit) /\ DOMAIN g = DOMAIN w.units /\ g[id] = u
        /\ \A i \in DOMAIN w.units : i # id => g[i] = w.units[i]
    BY <1>2, UpdateFacts
  <1>4. Is(x, WithUnits(w, g, {id}))
    BY <1>0 DEF SetUnit, WithUnits, Is
  <1> HIDE DEF g
  <1>5. {id} \in SUBSET Nat /\ \A i \in DOMAIN g : i \in {id} \cup E \/ g[i] = w.units[i]
    BY <1>2, <1>3
  <1>6. x \in Good(v, sync, E) /\ UnitsAre(w, x, g, {id})
    BY <1>3, <1>4, <1>5, WithUnitsGood
  <1>7. x \in Good(v, sync, {})
    BY <1>6, MarkedIsGood DEF UnitsAre
  <1> QED
    BY <1>3, <1>6, <1>7 DEF UnitsAre, UnitSet, Stepped

\* One unit that is being worked on: the mark comes later.
LEMMA UnmarkedGood ==
    ASSUME NEW v, NEW sync, NEW E, NEW w \in Good(v, sync, E), NEW id \in DOMAIN w.units,
           id \in E, NEW u \in Unit,
           NEW x, Is(x, [w EXCEPT !.units = [w.units EXCEPT ![id] = u]])
    PROVE  x \in Good(v, sync, E) /\ UnitSet(w, x, id, u)
  <1>0. x = [w EXCEPT !.units = [w.units EXCEPT ![id] = u]]
    BY DEF Is
  <1> DEFINE g == [w.units EXCEPT ![id] = u]
  <1>1. w \in World
    BY DEF Good
  <1>2. w.units \in PFun(Unit)
    BY <1>1, WorldFacts
  <1>3. /\ g \in PFun(Unit) /\ DOMAIN g = DOMAIN w.units /\ g[id] = u
        /\ \A i \in DOMAIN w.units : i # id => g[i] = w.units[i]
    BY <1>2, UpdateFacts
  <1> HIDE DEF g
  <1>4. Is(x, WithUnits(w, g, {}))
    BY <1>0, <1>1 DEF WithUnits, World, Is, g
  <1>5. {} \in SUBSET Nat /\ \A i \in DOMAIN g : i \in {} \cup E \/ g[i] = w.units[i]
    BY <1>3
  <1>6. x \in Good(v, sync, E) /\ UnitsAre(w, x, g, {})
    BY <1>3, <1>4, <1>5, WithUnitsGood
  <1> QED
    BY <1>3, <1>6 DEF UnitsAre, UnitSet

\* A unit put down what it carries, or had nothing to put down.
Dropped(w, x, id) ==
    /\ DOMAIN x.units = DOMAIN w.units
    /\ \A i \in DOMAIN w.units : i # id => x.units[i] = w.units[i]
    /\ x.units[id] = w.units[id] \/ x.units[id] = [w.units[id] EXCEPT !.carried_amount = 0]

\* DropCarried does not mark the unit: its caller does.
LEMMA DropCarriedGood ==
    ASSUME NEW v, NEW sync, NEW E, NEW w \in Good(v, sync, E), NEW id \in DOMAIN w.units,
           id \in E,
           NEW x, Is(x, DropCarried(w, id))
    PROVE  x \in Good(v, sync, E) /\ Dropped(w, x, id)
  <1>0. x = DropCarried(w, id)
    BY DEF Is
  <1> DEFINE u == w.units[id]
  <1>1. w \in World /\ u \in Unit
    BY WorldFacts DEF Good
  <1>2. CASE u.carried_amount = 0
    BY <1>0, <1>2 DEF DropCarried, Dropped
  <1>3. CASE u.carried_amount # 0
    <2> DEFINE raw == u.carried_raw
               amount == u.carried_amount
               y == SpawnResourceDrop(w, raw, amount)
               c == [u EXCEPT !.carried_amount = 0]
    <2>1. [raw |-> raw, amount |-> amount] \in Heap
      BY <1>1, <1>3, UnitFields DEF Heap
    <2>2. y \in Good(v, sync, E) /\ y.units = w.units /\ y.buildings = w.buildings
      <3>1. Is(y, SpawnResourceDrop(w, raw, amount))
        BY DEF Is
      <3> HIDE DEF y, u, raw, amount
      <3>2. y \in Good(v, sync, E) /\ DropAdded(w, y)
        BY <3>1, <2>1, SpawnResourceDropGood
      <3> QED
        BY <3>2 DEF DropAdded
    <2>3. c \in Unit
      BY <1>1, SteppedUnits
    <2>4. Is(x, [y EXCEPT !.units = [y.units EXCEPT ![id] = c]])
      BY <1>0, <1>3, <2>2 DEF DropCarried, Is
    <2> HIDE DEF y, c
    <2>5. x \in Good(v, sync, E) /\ UnitSet(y, x, id, c)
      BY <2>2, <2>3, <2>4, UnmarkedGood
    <2> QED
      BY <2>2, <2>5 DEF UnitSet, Dropped, c
  <1> QED
    BY <1>2, <1>3
=============================================================================
