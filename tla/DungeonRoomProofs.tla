------------------------- MODULE DungeonRoomProofs -------------------------
(***************************************************************************)
(* Proofs about DungeonRoom for any players, fields, prices and orders.    *)
(*                                                                         *)
(* RoomInv, of module DungeonRoomLemmas, is shown to be kept by each part  *)
(* of a tick: the commands of the queue, a unit's turn, and the end, where *)
(* the buildings train, the dead are removed, the client applies what it   *)
(* is sent and the marks are cleared.                                      *)
(***************************************************************************)
EXTENDS DungeonRoomLemmas

-----------------------------------------------------------------------------
(* A unit's turn.                                                          *)

\* A worker that is to defend itself: the task is gone, the mark comes with
\* the target.
LEMMA PutDownGood ==
    ASSUME NEW v, NEW sync, NEW w \in Good(v, sync, {}), NEW id \in DOMAIN w.units,
           NEW x, Is(x, PutDown(w, id))
    PROVE  /\ x \in Good(v, sync, {id}) /\ DOMAIN x.units = DOMAIN w.units
           /\ x.units[id] \in Unit /\ x.units[id].task = "None"
  <1>0. x = PutDown(w, id)
    BY DEF Is
  <1>1. w \in Good(v, sync, {id})
    BY FewerExceptions
  <1>2. \A y \in Good(v, sync, {id}) : \A i \in DOMAIN y.units : y.units[i] \in Unit
    BY WorldFacts DEF Good
  <1>3. CASE w.units[id].task = "None"
    BY <1>0, <1>1, <1>2, <1>3 DEF PutDown
  <1>4. CASE w.units[id].task # "None"
    <2> DEFINE y == DropCarried(w, id)
    <2>1. Is(y, DropCarried(w, id))
      BY DEF Is
    <2> HIDE DEF y
    <2>2. y \in Good(v, sync, {id}) /\ Dropped(w, y, id)
      BY <1>1, <2>1, DropCarriedGood
    <2>3. id \in DOMAIN y.units /\ DOMAIN y.units = DOMAIN w.units
      BY <2>2 DEF Dropped
    <2> DEFINE c == [ClearWorkerTask(y.units[id]) EXCEPT !.has_target = FALSE]
    <2>4. c \in Unit /\ c.task = "None"
      BY <2>2, <2>3, <1>2, SteppedUnits
    <2>5. y \in World
      BY <2>2 DEF Good
    <2>6. Is(x, [y EXCEPT !.units = [y.units EXCEPT ![id] = c]])
      BY <1>0, <1>4, <2>1, <2>5 DEF PutDown, Is, World
    <2> HIDE DEF c
    <2>7. x \in Good(v, sync, {id}) /\ UnitSet(y, x, id, c)
      BY <2>2, <2>3, <2>4, <2>6, UnmarkedGood
    <2> QED
      BY <2>3, <2>4, <2>7 DEF UnitSet
  <1> QED
    BY <1>3, <1>4

\* The target comes with the mark.
LEMMA EngageAutoGood ==
    ASSUME NEW v, NEW sync, NEW w \in Good(v, sync, {}), NEW id \in DOMAIN w.units,
           NEW t \in Nat, NEW x, Is(x, EngageAuto(PutDown(w, id), id, t))
    PROVE  x \in Stepped(v, sync, w)
  <1> DEFINE y == PutDown(w, id)
  <1>1. Is(y, PutDown(w, id)) /\ x = EngageAuto(y, id, t)
    BY DEF Is
  <1> HIDE DEF y
  <1>2. /\ y \in Good(v, sync, {id}) /\ DOMAIN y.units = DOMAIN w.units
        /\ y.units[id] \in Unit /\ y.units[id].task = "None"
    BY <1>1, PutDownGood
  <1> DEFINE c == [y.units[id] EXCEPT !.attack_target = t, !.auto_aggro = TRUE,
                                      !.state = "Attacking"]
  <1>3. c \in Unit
    BY <1>2, SteppedUnits
  <1>4. Is(x, SetUnit(y, id, c))
    BY <1>1 DEF EngageAuto, Is
  <1> HIDE DEF c
  <1>5. id \in DOMAIN y.units /\ {id} \subseteq {id}
    BY <1>2
  <1>6. x \in Stepped(v, sync, y)
    BY <1>2, <1>3, <1>4, <1>5, SetUnitGood
  <1> QED
    BY <1>2, <1>6 DEF Stepped

\* A unit or a building that a strike can reach.
LEMMA StrikeGood ==
    ASSUME NEW v, NEW sync, NEW w \in Good(v, sync, {}), NEW target,
           \/ target \in DOMAIN w.units /\ w.units[target].hp > 0
           \/ target \in DOMAIN w.buildings /\ w.buildings[target].hp > 0,
           NEW x, Is(x, Strike(w, target))
    PROVE  x \in Stepped(v, sync, w)
  <1>0. x = Strike(w, target)
    BY DEF Is
  <1>1. w \in World /\ DOMAIN w.units \cap DOMAIN w.buildings = {}
    BY DEF Good, Consistent
  <1>2. CASE target \in DOMAIN w.units
    <2> DEFINE u == [w.units[target] EXCEPT !.hp = @ - 1]
    <2>1. w.units[target] \in Unit /\ w.units[target].hp > 0
      BY <1>1, <1>2, WorldFacts
    <2>2. /\ w.units[target].hp - 1 \in 0 .. UnitStrikes
          /\ u = [w.units[target] EXCEPT !.hp = w.units[target].hp - 1]
      BY <2>1, UnitFields, RoomNumbers DEF Unit
    <2>3. u \in Unit
      BY <2>1, <2>2, SteppedUnits
    <2>4. Is(x, SetUnit(w, target, u))
      BY <1>0, <1>1, <1>2, <2>2 DEF Strike, SetUnit, Is, World
    <2> HIDE DEF u
    <2>5. {} \subseteq {target}
      OBVIOUS
    <2> QED
      BY <1>2, <2>3, <2>4, <2>5, SetUnitGood
  <1>3. CASE target \notin DOMAIN w.units
    <2> DEFINE b == w.buildings[target]
               c == [b EXCEPT !.hp = b.hp - 1]
               g == [w.buildings EXCEPT ![target] = c]
    <2>1. target \in DOMAIN w.buildings /\ b.hp > 0 /\ b \in Building
      BY <1>1, <1>3, WorldFacts
    <2>2. target \in Nat /\ w.buildings \in PFun(Building)
      BY <1>1, <2>1, WorldFacts
    <2>3. <<>> \in Seq(1 .. TrainTicks)
      OBVIOUS
    <2>4. c \in Building
      BY <2>1, <2>3, ChangedBuildings
    <2>5. Is(x, WithBuildings(w, g, {target}))
      BY <1>0, <1>1, <1>3 DEF Strike, WithBuildings, Is, World
    <2> HIDE DEF c
    <2>6. /\ g \in PFun(Building) /\ DOMAIN g = DOMAIN w.buildings
          /\ \A i \in DOMAIN w.buildings : i # target => g[i] = w.buildings[i]
      BY <2>2, <2>4, UpdateFacts
    <2> HIDE DEF g
    <2>7. {target} \in SUBSET Nat /\ \A i \in DOMAIN g : i \in {target} \/ g[i] = w.buildings[i]
      BY <2>2, <2>6
    <2>8. x \in Good(v, sync, {}) /\ BuildingsAre(w, x, g, {target})
      BY <2>5, <2>6, <2>7, WithBuildingsGood
    <2> QED
      BY <2>8 DEF BuildingsAre, Stepped
  <1> QED
    BY <1>2, <1>3

\* A unit in combat: it comes closer, strikes, or gives up a target that is gone.
LEMMA FightGood ==
    ASSUME NEW v, NEW sync, NEW w \in Good(v, sync, {}), NEW id \in DOMAIN w.units,
           NEW x \in Fight(w, id)
    PROVE  x \in Stepped(v, sync, w)
  <1> DEFINE u == w.units[id]
             c == [u EXCEPT !.state = "Attacking"]
             closer == SetUnit(w, id, c)
             target == u.attack_target
  <1>1. w \in World /\ u \in Unit /\ u.attack_target \in Nat
    BY WorldFacts, UnitFields DEF Good
  <1>2. c \in Unit /\ StopAttack(u) \in Unit
    BY <1>1, SteppedUnits
  <1>3. {} \subseteq {id}
    OBVIOUS
  <1>4. closer \in Stepped(v, sync, w) /\ UnitSet(w, closer, id, c)
    <2>1. Is(closer, SetUnit(w, id, c))
      BY DEF Is
    <2> HIDE DEF c, closer
    <2> QED
      BY <1>2, <1>3, <2>1, SetUnitGood
  <1>5. CASE x = closer
    BY <1>4, <1>5
  <1>6. CASE x = SetUnit(w, id, StopAttack(u))
    <2>1. Is(x, SetUnit(w, id, StopAttack(u)))
      BY <1>6 DEF Is
    <2> QED
      BY <1>2, <1>3, <2>1, SetUnitGood
  <1>7. CASE CanBeStruck(w, id, target) /\ x = Strike(closer, target)
    <2>1. \/ target \in DOMAIN w.units /\ target # id /\ w.units[target].hp > 0
          \/ target \in DOMAIN w.buildings /\ w.buildings[target].hp > 0
      BY <1>7 DEF CanBeStruck, Enemies, TeamOf
    <2> HIDE DEF closer, c, target
    <2>2. \/ target \in DOMAIN closer.units /\ closer.units[target].hp > 0
          \/ target \in DOMAIN closer.buildings /\ closer.buildings[target].hp > 0
      BY <2>1, <1>4 DEF UnitSet
    <2>3. Is(x, Strike(closer, target)) /\ closer \in Good(v, sync, {})
      BY <1>4, <1>7 DEF Is, Stepped
    <2>4. x \in Stepped(v, sync, closer)
      BY <2>2, <2>3, StrikeGood
    <2> QED
      BY <1>4, <2>4 DEF Stepped
  <1> QED
    BY <1>5, <1>6, <1>7 DEF Fight

\* And a unit that is led too far walks back.
LEMMA StepCombatGood ==
    ASSUME NEW v, NEW sync, NEW w \in Good(v, sync, {}), NEW id \in DOMAIN w.units,
           NEW x \in StepCombat(w, id)
    PROVE  x \in Stepped(v, sync, w)
  <1> DEFINE c == [w.units[id] EXCEPT !.auto_aggro = FALSE, !.attack_target = 0,
                                      !.has_target = TRUE, !.state = "Moving"]
  <1>1. CASE x \in Fight(w, id)
    BY <1>1, FightGood
  <1>2. CASE x = SetUnit(w, id, c)
    <2>1. w.units[id] \in Unit
      BY WorldFacts DEF Good
    <2>2. c \in Unit
      BY <2>1, SteppedUnits
    <2>3. Is(x, SetUnit(w, id, c)) /\ {} \subseteq {id}
      BY <1>2 DEF Is
    <2> HIDE DEF c
    <2> QED
      BY <2>2, <2>3, SetUnitGood
  <1> QED
    BY <1>1, <1>2 DEF StepCombat

\* The steps that change nothing but the unit.
LEMMA StepMoveGood ==
    ASSUME NEW v, NEW sync, NEW w \in Good(v, sync, {}), NEW id \in DOMAIN w.units, NEW x,
           \/ x = Walking(w, id) \/ x \in StepMove(w, id)
           \/ x \in StepPreparingReturn(w, id) /\ w.units[id].attack_target = 0
    PROVE  x \in Stepped(v, sync, w)
  <1> DEFINE u == w.units[id]
  <1>1. u \in Unit
    BY WorldFacts DEF Good
  <1>2. /\ [u EXCEPT !.state = "Moving"] \in Unit
        /\ [u EXCEPT !.has_target = FALSE, !.state = "Idle"] \in Unit
        /\ [u EXCEPT !.state = "Working"] \in Unit
    BY <1>1, SteppedUnits
  <1>3. u.attack_target = 0 => SwitchToReturn(u) \in Unit
    BY <1>1, UnitFields, WorkedUnits
  <1>4. \E c \in Unit : x = SetUnit(w, id, c)
    BY <1>2, <1>3 DEF Walking, StepMove, StepPreparingReturn
  <1>5. PICK c \in Unit : Is(x, SetUnit(w, id, c)) /\ {} \subseteq {id}
    BY <1>4 DEF Is
  <1> QED
    BY <1>5, SetUnitGood

\* Fields and drops that a worker has taken from: the heap is smaller, or gone.
LEMMA HeapFacts ==
    ASSUME NEW f \in PFun(Heap), NEW k \in DOMAIN f, NEW left \in Nat
    PROVE  /\ k \in Nat /\ f[k].raw \in Raws /\ f[k].amount \in Nat \ {0}
           /\ Erase(f, {k}) \in PFun(Heap) /\ DOMAIN Erase(f, {k}) = DOMAIN f \ {k}
           /\ left # 0 => LET g == [f EXCEPT ![k].amount = left] IN
                          g \in PFun(Heap) /\ DOMAIN g = DOMAIN f
  <1>1. DOMAIN f \in SUBSET Nat /\ f[k] \in Heap
    BY MapFacts
  <1>2. Erase(f, {k}) \in PFun(Heap) /\ DOMAIN Erase(f, {k}) = DOMAIN f \ {k}
    BY EraseFacts
  <1>3. ASSUME left # 0
        PROVE  LET g == [f EXCEPT ![k].amount = left] IN
               g \in PFun(Heap) /\ DOMAIN g = DOMAIN f
    <2> DEFINE h == [f[k] EXCEPT !.amount = left]
    <2>1. h \in Heap
      BY <1>1, <1>3 DEF Heap
    <2> HIDE DEF h
    <2>2. [f EXCEPT ![k] = h] \in PFun(Heap) /\ DOMAIN [f EXCEPT ![k] = h] = DOMAIN f
      BY <2>1, UpdateFacts
    <2> QED
      BY <2>2 DEF h
  <1> QED
    BY <1>1, <1>2, <1>3 DEF Heap

\* A worker at a field takes from it, and the last one uses it up.
LEMMA HarvestedGood ==
    ASSUME NEW v, NEW sync, NEW w \in Good(v, sync, {}), NEW id \in DOMAIN w.units,
           w.units[id].attack_target = 0, w.units[id].carried_amount < kVillagerCarryCapacity,
           w.units[id].gather_field_id \in DOMAIN w.fields, NEW take \in {0, 1},
           NEW x, x = Harvested(w, id, take)
    PROVE  x \in Stepped(v, sync, w)
  <1> DEFINE u == w.units[id]
             k == u.gather_field_id
             left == w.fields[k].amount - take
             raw == w.fields[k].raw
             n == u.carried_amount + take
             c == [u EXCEPT !.state = "Working", !.carried_raw = raw, !.carried_amount = n]
             done == left = 0 \/ c.carried_amount >= kVillagerCarryCapacity
             d == IF done THEN SwitchToPreparingReturn(c) ELSE c
             y == SetUnit(w, id, d)
  <1>1. w \in World /\ u \in Unit /\ w.fields \in PFun(Heap)
    BY WorldFacts DEF Good
  <1>2. k \in Nat /\ raw \in Raws /\ w.fields[k].amount \in Nat \ {0}
    BY <1>1, HeapFacts
  <1>3. left \in Nat /\ n \in 0 .. kVillagerCarryCapacity
    BY <1>1, <1>2, UnitFields, RoomNumbers
  <1>4. c \in Unit /\ c.attack_target = 0
    BY <1>1, <1>2, <1>3, WorkedUnits
  <1>5. d \in Unit
    BY <1>2, <1>3, <1>4, WorkedUnits
  <1>6. x = IF left = 0
            THEN [y EXCEPT !.fields = Erase(@, {k}), !.despawned = @ \cup {k}]
            ELSE [y EXCEPT !.fields[k].amount = left]
    BY <1>1 DEF Harvested, Unit
  <1>7. Is(y, SetUnit(w, id, d)) /\ {} \subseteq {id}
    BY DEF Is
  <1> HIDE DEF d, y
  <1>8. y \in Stepped(v, sync, w) /\ UnitSet(w, y, id, d)
    BY <1>5, <1>7, SetUnitGood
  <1>9. y \in World /\ y \in Good(v, sync, {}) /\ y.fields = w.fields
    BY <1>8 DEF Stepped, Good, UnitSet
  <1> HIDE DEF left, k
  <1>10. CASE left = 0
    <2> DEFINE g == Erase(y.fields, {k})
    <2>1. g \in PFun(Heap) /\ DOMAIN g = DOMAIN y.fields \ {k} /\ {k} \in SUBSET Nat
      BY <1>1, <1>2, <1>9, HeapFacts DEF k
    <2>2. Is(x, WithFields(y, g, {k})) /\ {k} \subseteq DOMAIN y.fields
      BY <1>6, <1>9, <1>10 DEF WithFields, Is, k
    <2> HIDE DEF g
    <2>3. x \in Good(v, sync, {}) /\ FieldsAre(y, x, g, {k})
      BY <1>9, <2>1, <2>2, WithFieldsGood
    <2> QED
      BY <1>8, <2>3 DEF Stepped, FieldsAre
  <1>11. CASE left # 0
    <2> DEFINE g == [y.fields EXCEPT ![k].amount = left]
    <2>1. g \in PFun(Heap) /\ DOMAIN g = DOMAIN y.fields
      BY <1>1, <1>3, <1>9, <1>11, HeapFacts DEF k
    <2>2. Is(x, WithFields(y, g, {}))
      BY <1>6, <1>9, <1>11 DEF WithFields, Is, World
    <2> HIDE DEF g
    <2>3. {} \in SUBSET Nat /\ {} \subseteq DOMAIN y.fields /\ DOMAIN g = DOMAIN y.fields \ {}
      BY <2>1
    <2>4. x \in Good(v, sync, {}) /\ FieldsAre(y, x, g, {})
      BY <1>9, <2>1, <2>2, <2>3, WithFieldsGood
    <2> QED
      BY <1>8, <2>4 DEF Stepped, FieldsAre
  <1> QED
    BY <1>10, <1>11

\* StepGather.
LEMMA StepGatherGood ==
    ASSUME NEW v, NEW sync, NEW w \in Good(v, sync, {}), NEW id \in DOMAIN w.units,
           w.units[id].attack_target = 0, NEW x \in StepGather(w, id)
    PROVE  x \in Stepped(v, sync, w)
  <1> DEFINE u == w.units[id]
  <1>1. u \in Unit
    BY WorldFacts DEF Good
  <1>2. CASE \E c \in {SwitchToPreparingReturn(u), Idle(u)} : x = SetUnit(w, id, c)
    <2>1. SwitchToPreparingReturn(u) \in Unit /\ Idle(u) \in Unit
      BY <1>1, UnitFields, WorkedUnits, SteppedUnits
    <2>2. PICK c \in Unit : Is(x, SetUnit(w, id, c)) /\ {} \subseteq {id}
      BY <1>2, <2>1 DEF Is
    <2> QED
      BY <2>2, SetUnitGood
  <1>3. CASE x = Walking(w, id)
    BY <1>3, StepMoveGood
  <1>4. CASE /\ u.carried_amount < kVillagerCarryCapacity /\ u.gather_field_id \in DOMAIN w.fields
             /\ \E take \in {0, 1} : x = Harvested(w, id, take)
    BY <1>4, HarvestedGood
  <1>5. ~(u.carried_amount >= kVillagerCarryCapacity) => u.carried_amount < kVillagerCarryCapacity
    BY <1>1, UnitFields, RoomNumbers
  <1> QED
    BY <1>2, <1>3, <1>4, <1>5 DEF StepGather

\* A unit that sets out for another building.
LEMMA HeadingGood ==
    ASSUME NEW v, NEW sync, NEW w \in Good(v, sync, {}), NEW id \in DOMAIN w.units,
           w.units[id].attack_target = 0, NEW b \in Nat,
           NEW x, Is(x, [w EXCEPT !.units[id].dropoff_id = b])
    PROVE  /\ x \in Good(v, sync, {id}) /\ DOMAIN x.units = DOMAIN w.units
           /\ x.units[id] \in Unit /\ x.units[id].attack_target = 0
  <1> DEFINE c == [w.units[id] EXCEPT !.dropoff_id = b]
  <1>1. w \in World /\ w.units[id] \in Unit /\ w \in Good(v, sync, {id}) /\ id \in {id}
    BY WorldFacts, FewerExceptions DEF Good
  <1>2. "berries" \in Raws /\ 0 \in 0 .. kVillagerCarryCapacity
    BY RoomNumbers DEF Raws
  <1>3. c \in Unit /\ c.attack_target = 0
    BY <1>1, <1>2, WorkedUnits
  <1>4. Is(x, [w EXCEPT !.units = [w.units EXCEPT ![id] = c]])
    BY <1>1 DEF Is, World
  <1> HIDE DEF c
  <1>5. x \in Good(v, sync, {id}) /\ UnitSet(w, x, id, c)
    BY <1>1, <1>3, <1>4, UnmarkedGood
  <1> QED
    BY <1>3, <1>5 DEF UnitSet

\* A worker that has delivered goes back to its field or stands idle.
LEMMA ReturnToWorkFacts ==
    ASSUME NEW w, NEW u \in Unit, u.attack_target = 0
    PROVE  ReturnToWork(w, u) \in Unit
  BY UnitFields, WorkedUnits, SteppedUnits DEF ReturnToWork

\* What a worker brings in is added to its player's account.
LEMMA AccountFacts ==
    ASSUME NEW accounts \in [Uids -> Account], NEW uid \in Uids, NEW raw \in Raws, NEW n \in Nat
    PROVE  LET g == [accounts EXCEPT ![uid][RawToResourceType(raw)] = @ + n] IN
           /\ g \in [Uids -> Account]
           /\ \A i \in Uids : i \in {uid} \/ g[i] = accounts[i]
  <1> DEFINE r == RawToResourceType(raw)
             a == accounts[uid]
             b == [a EXCEPT ![r] = a[r] + n]
  <1>1. r \in {"food", "wood", "gold"}
    BY DEF RawToResourceType, Raws
  <1> HIDE DEF r
  <1>2. a \in Account /\ a[r] \in Nat
    BY <1>1 DEF Account
  <1>3. b \in Account
    BY <1>1, <1>2 DEF Account
  <1> HIDE DEF b
  <1>4. /\ [accounts EXCEPT ![uid] = b] \in [Uids -> Account]
        /\ \A i \in Uids : i \in {uid} \/ [accounts EXCEPT ![uid] = b][i] = accounts[i]
    BY <1>3
  <1>5. [accounts EXCEPT ![uid][r] = @ + n] = [accounts EXCEPT ![uid] = b]
    BY DEF b
  <1> QED
    BY <1>4, <1>5 DEF r

\* A worker that delivers: its load moves to the account.
LEMMA StoredGood ==
    ASSUME NEW v, NEW sync, NEW w, NEW id, w \in Good(v, sync, {id}), id \in DOMAIN w.units,
           w.units[id].attack_target = 0,
           NEW x, Is(x, Stored(w, id))
    PROVE  x \in Stepped(v, sync, w)
  <1> DEFINE u == w.units[id]
             d == ReturnToWork(w, [u EXCEPT !.carried_amount = 0])
             y == SetUnit(w, id, d)
             r == RawToResourceType(u.carried_raw)
             g == [y.player_res EXCEPT ![u.owner][r] = @ + u.carried_amount]
  <1>1. w \in World /\ u \in Unit
    BY WorldFacts DEF Good
  <1>2. u.owner \in Uids /\ u.carried_raw \in Raws /\ u.carried_amount \in Nat
    BY <1>1, UnitFields
  <1>3. d \in Unit
    <2>1. "berries" \in Raws /\ 0 \in 0 .. kVillagerCarryCapacity /\ 0 \in Nat
      BY RoomNumbers DEF Raws
    <2>2. /\ [u EXCEPT !.carried_amount = 0] \in Unit
          /\ [u EXCEPT !.carried_amount = 0].attack_target = 0
      BY <1>1, <2>1, WorkedUnits
    <2> QED
      BY <2>2, ReturnToWorkFacts
  <1>4. Is(y, SetUnit(w, id, d)) /\ {id} \subseteq {id}
    BY DEF Is
  <1>5. x = [y EXCEPT !.player_res[u.owner][r] = @ + u.carried_amount,
                      !.resource_dirty = @ \cup {u.owner}]
    BY DEF Stored, Is
  <1> HIDE DEF d, y
  <1>6. y \in Stepped(v, sync, w) /\ UnitSet(w, y, id, d)
    BY <1>3, <1>4, SetUnitGood
  <1>7. y \in Good(v, sync, {}) /\ y \in World
    BY <1>6 DEF Stepped, Good
  <1>8. g \in [Uids -> Account] /\ \A i \in Uids : i \in {u.owner} \/ g[i] = y.player_res[i]
    <2>1. y.player_res \in [Uids -> Account]
      BY <1>7, WorldFacts
    <2> QED
      BY <1>2, <2>1, AccountFacts
  <1>9. Is(x, WithAccounts(y, g, {u.owner})) /\ {u.owner} \in SUBSET Uids
    BY <1>2, <1>5 DEF WithAccounts, Is
  <1> HIDE DEF g, u
  <1>10. x \in Good(v, sync, {}) /\ AccountsAre(y, x, g, {u.owner})
    BY <1>7, <1>8, <1>9, WithAccountsGood
  <1> QED
    BY <1>6, <1>10 DEF Stepped, AccountsAre

\* StepReturn.
LEMMA StepReturnGood ==
    ASSUME NEW v, NEW sync, NEW w \in Good(v, sync, {}), NEW id \in DOMAIN w.units,
           w.units[id].attack_target = 0, NEW x \in StepReturn(w, id)
    PROVE  x \in Stepped(v, sync, w)
  <1> DEFINE u == w.units[id]
             heading(b) == [w EXCEPT !.units[id].dropoff_id = b]
  <1>1. w \in World /\ u \in Unit
    BY WorldFacts DEF Good
  <1>2. CASE \E c \in {ReturnToWork(w, u), [u EXCEPT !.state = "Idle"]} : x = SetUnit(w, id, c)
    <2>1. ReturnToWork(w, u) \in Unit
      BY <1>1, ReturnToWorkFacts
    <2>2. [u EXCEPT !.state = "Idle"] \in Unit
      BY <1>1, SteppedUnits
    <2>3. PICK c \in Unit : Is(x, SetUnit(w, id, c)) /\ {} \subseteq {id}
      BY <1>2, <2>1, <2>2 DEF Is
    <2> QED
      BY <2>3, SetUnitGood
  <1>3. ASSUME NEW b \in Dropoffs(w, id), x \in {Walking(heading(b), id), Stored(heading(b), id)}
        PROVE  x \in Stepped(v, sync, w)
    <2> DEFINE h == heading(b)
    <2>1. b \in DOMAIN w.buildings
      BY DEF Dropoffs, UsableDropoff
    <2>2. b \in Nat
      BY <1>1, <2>1, WorldFacts
    <2>3. Is(h, [w EXCEPT !.units[id].dropoff_id = b])
      BY DEF Is
    <2>4. x = Walking(h, id) \/ x = Stored(h, id)
      BY <1>3
    <2> HIDE DEF h
    <2>5. /\ h \in Good(v, sync, {id}) /\ DOMAIN h.units = DOMAIN w.units
          /\ h.units[id] \in Unit /\ h.units[id].attack_target = 0
      BY <2>2, <2>3, HeadingGood
    <2>6. id \in DOMAIN h.units /\ {id} \subseteq {id}
      BY <2>5
    <2>7. CASE x = Walking(h, id)
      <3> DEFINE c == [h.units[id] EXCEPT !.state = "Moving"]
      <3>1. c \in Unit
        BY <2>5, SteppedUnits
      <3>2. Is(x, SetUnit(h, id, c))
        BY <2>7 DEF Walking, Is
      <3> HIDE DEF c
      <3>3. x \in Stepped(v, sync, h)
        BY <3>1, <3>2, <2>5, <2>6, SetUnitGood
      <3> QED
        BY <3>3, <2>5 DEF Stepped
    <2>8. CASE x = Stored(h, id)
      <3>1. Is(x, Stored(h, id))
        BY <2>8 DEF Is
      <3>2. x \in Stepped(v, sync, h)
        BY <3>1, <2>5, <2>6, StoredGood
      <3> QED
        BY <3>2, <2>5 DEF Stepped
    <2> QED
      BY <2>4, <2>7, <2>8
  <1> QED
    BY <1>2, <1>3 DEF StepReturn

\* A worker at a drop takes what it can carry.
LEMMA PickedUpGood ==
    ASSUME NEW v, NEW sync, NEW w \in Good(v, sync, {}), NEW id \in DOMAIN w.units,
           w.units[id].attack_target = 0, w.units[id].pickup_drop_id \in DOMAIN w.drops,
           NEW x, x = PickedUp(w, id)
    PROVE  x \in Stepped(v, sync, w)
  <1> DEFINE u == w.units[id]
             k == u.pickup_drop_id
             raw == w.drops[k].raw
             amount == w.drops[k].amount
             free == kVillagerCarryCapacity - u.carried_amount
             take == Min({free, amount})
             n == u.carried_amount + take
             left == amount - take
             c == [u EXCEPT !.carried_raw = raw, !.carried_amount = n]
             d == SwitchToReturn(c)
             y == SetUnit(w, id, d)
  <1>1. w \in World /\ u \in Unit /\ w.drops \in PFun(Heap)
    BY WorldFacts DEF Good
  <1>2. k \in Nat /\ raw \in Raws /\ amount \in Nat \ {0}
    BY <1>1, HeapFacts
  <1>3. u.carried_amount \in Nat /\ free \in Nat
    BY <1>1, UnitFields, RoomNumbers
  <1>4. take \in {free, amount} /\ take <= free /\ take <= amount
    <2> HIDE DEF free, amount
    <2>1. \E m \in {free, amount} : \A o \in {free, amount} : m <= o
      BY <1>2, <1>3
    <2> QED
      BY <2>1 DEF Min
  <1> HIDE DEF take
  <1>5. take \in Nat /\ left \in Nat /\ n \in 0 .. kVillagerCarryCapacity
    BY <1>2, <1>3, <1>4, RoomNumbers
  <1>6. c \in Unit /\ c.attack_target = 0
    BY <1>1, <1>2, <1>5, WorkedUnits
  <1>7. d \in Unit
    BY <1>2, <1>5, <1>6, WorkedUnits
  <1>8. x = IF take = amount
            THEN [y EXCEPT !.drops = Erase(@, {k}), !.despawned = @ \cup {k}]
            ELSE [y EXCEPT !.drops[k].amount = @ - take]
    BY <1>1 DEF PickedUp, Unit, take
  <1>9. Is(y, SetUnit(w, id, d)) /\ {} \subseteq {id}
    BY DEF Is
  <1> HIDE DEF d, y
  <1>10. y \in Stepped(v, sync, w) /\ UnitSet(w, y, id, d)
    BY <1>7, <1>9, SetUnitGood
  <1>11. y \in World /\ y \in Good(v, sync, {}) /\ y.drops = w.drops
    BY <1>10 DEF Stepped, Good, UnitSet
  <1>12. CASE take = amount
    <2> DEFINE g == Erase(y.drops, {k})
    <2>1. g \in PFun(Heap) /\ DOMAIN g = DOMAIN y.drops \ {k} /\ {k} \in SUBSET Nat
      BY <1>1, <1>2, <1>11, HeapFacts
    <2>2. Is(x, WithDrops(y, g, {k})) /\ {k} \subseteq DOMAIN y.drops
      BY <1>8, <1>11, <1>12 DEF WithDrops, Is
    <2> HIDE DEF g, k
    <2>3. x \in Good(v, sync, {}) /\ DropsAre(y, x, g, {k})
      BY <1>11, <2>1, <2>2, WithDropsGood
    <2> QED
      BY <1>10, <2>3 DEF Stepped, DropsAre
  <1>13. CASE take # amount
    <2> DEFINE g == [y.drops EXCEPT ![k].amount = left]
    <2>0. left # 0
      BY <1>2, <1>5, <1>13
    <2>1. g \in PFun(Heap) /\ DOMAIN g = DOMAIN y.drops
      <3> HIDE DEF left
      <3> QED
        BY <1>1, <1>5, <1>11, <2>0, HeapFacts
    <2>2. Is(x, WithDrops(y, g, {}))
      BY <1>8, <1>11, <1>13 DEF WithDrops, Is, World
    <2> HIDE DEF g, k
    <2>3. {} \in SUBSET Nat /\ {} \subseteq DOMAIN y.drops /\ DOMAIN g = DOMAIN y.drops \ {}
      BY <2>1
    <2>4. x \in Good(v, sync, {}) /\ DropsAre(y, x, g, {})
      BY <1>11, <2>1, <2>2, <2>3, WithDropsGood
    <2> QED
      BY <1>10, <2>4 DEF Stepped, DropsAre
  <1> QED
    BY <1>12, <1>13

\* StepPickup.
LEMMA StepPickupGood ==
    ASSUME NEW v, NEW sync, NEW w \in Good(v, sync, {}), NEW id \in DOMAIN w.units,
           w.units[id].attack_target = 0, NEW x \in StepPickup(w, id)
    PROVE  x \in Stepped(v, sync, w)
  <1> DEFINE u == w.units[id]
  <1>1. u \in Unit
    BY WorldFacts DEF Good
  <1>2. CASE \E c \in {SwitchToReturn(u), Idle(u)} : x = SetUnit(w, id, c)
    <2>1. SwitchToReturn(u) \in Unit /\ Idle(u) \in Unit
      BY <1>1, UnitFields, WorkedUnits, SteppedUnits
    <2>2. PICK c \in Unit : Is(x, SetUnit(w, id, c)) /\ {} \subseteq {id}
      BY <1>2, <2>1 DEF Is
    <2> QED
      BY <2>2, SetUnitGood
  <1>3. CASE x = Walking(w, id)
    BY <1>3, StepMoveGood
  <1>4. CASE u.pickup_drop_id \in DOMAIN w.drops /\ x = PickedUp(w, id)
    BY <1>4, PickedUpGood
  <1> QED
    BY <1>2, <1>3, <1>4 DEF StepPickup

\* A building is b now and is marked.
LEMMA SetBuildingGood ==
    ASSUME NEW v, NEW sync, NEW E, NEW w \in Good(v, sync, E), NEW id \in DOMAIN w.buildings,
           NEW b \in Building,
           NEW x, Is(x, [w EXCEPT !.buildings[id] = b, !.dirty = @ \cup {id}])
    PROVE  x \in Good(v, sync, E) /\ BuildingsAre(w, x, [w.buildings EXCEPT ![id] = b], {id})
  <1> DEFINE g == [w.buildings EXCEPT ![id] = b]
  <1>1. w \in World /\ w.buildings \in PFun(Building) /\ id \in Nat
    BY WorldFacts DEF Good
  <1>2. /\ g \in PFun(Building) /\ DOMAIN g = DOMAIN w.buildings
        /\ \A i \in DOMAIN w.buildings : i # id => g[i] = w.buildings[i]
    BY <1>1, UpdateFacts
  <1>3. Is(x, WithBuildings(w, g, {id}))
    BY DEF Is, WithBuildings
  <1> HIDE DEF g
  <1>4. {id} \in SUBSET Nat /\ \A i \in DOMAIN g : i \in {id} \/ g[i] = w.buildings[i]
    BY <1>1, <1>2
  <1>5. x \in Good(v, sync, E) /\ BuildingsAre(w, x, g, {id})
    BY <1>2, <1>3, <1>4, WithBuildingsGood
  <1> QED
    BY <1>5 DEF g

\* A worker at a foundation.
LEMMA ConstructedGood ==
    ASSUME NEW v, NEW sync, NEW w \in Good(v, sync, {}), NEW id \in DOMAIN w.units,
           w.units[id].build_target_id \in DOMAIN w.buildings,
           w.buildings[w.units[id].build_target_id].under_construction,
           NEW x, x = Constructed(w, id)
    PROVE  x \in Stepped(v, sync, w)
  <1> DEFINE u == [w.units[id] EXCEPT !.state = "Working"]
             k == w.units[id].build_target_id
             b == Progressed(w.buildings[k])
             d == IF b.under_construction THEN u ELSE Idle(u)
             y == SetUnit(w, id, d)
  <1>1. w \in World /\ w.units[id] \in Unit /\ w.buildings[k] \in Building
    BY WorldFacts DEF Good
  <1>2. u.build_target_id = k
    BY <1>1 DEF Unit
  <1>3. u \in Unit
    BY <1>1, SteppedUnits
  <1> HIDE DEF u
  <1>4. d \in Unit
    BY <1>3, SteppedUnits
  <1>5. b \in Building
    BY <1>1, ProgressedFacts
  <1>6. x = [y EXCEPT !.buildings[k] = b, !.dirty = @ \cup {k}]
    BY <1>2 DEF Constructed, u
  <1>7. Is(y, SetUnit(w, id, d)) /\ {} \subseteq {id}
    BY DEF Is
  <1> HIDE DEF d, y, b, k
  <1>8. y \in Stepped(v, sync, w) /\ UnitSet(w, y, id, d)
    BY <1>4, <1>7, SetUnitGood
  <1>9. y \in Good(v, sync, {}) /\ y.buildings = w.buildings /\ k \in DOMAIN y.buildings
    BY <1>8 DEF Stepped, UnitSet, k
  <1>10. Is(x, [y EXCEPT !.buildings[k] = b, !.dirty = @ \cup {k}])
    BY <1>6 DEF Is
  <1>11. x \in Good(v, sync, {}) /\ BuildingsAre(y, x, [y.buildings EXCEPT ![k] = b], {k})
    BY <1>5, <1>9, <1>10, SetBuildingGood
  <1> QED
    BY <1>8, <1>11 DEF Stepped, BuildingsAre

\* StepConstruct.
LEMMA StepConstructGood ==
    ASSUME NEW v, NEW sync, NEW w \in Good(v, sync, {}), NEW id \in DOMAIN w.units,
           NEW x \in StepConstruct(w, id)
    PROVE  x \in Stepped(v, sync, w)
  <1> DEFINE u == w.units[id]
  <1>1. u \in Unit
    BY WorldFacts DEF Good
  <1>2. CASE x = SetUnit(w, id, Idle(u))
    <2>1. Idle(u) \in Unit
      BY <1>1, UnitFields, SteppedUnits
    <2>2. Is(x, SetUnit(w, id, Idle(u))) /\ {} \subseteq {id}
      BY <1>2 DEF Is
    <2> QED
      BY <2>1, <2>2, SetUnitGood
  <1>3. CASE x = Walking(w, id)
    BY <1>3, StepMoveGood
  <1>4. CASE /\ u.build_target_id \in DOMAIN w.buildings
             /\ w.buildings[u.build_target_id].under_construction
             /\ x = Constructed(w, id)
    BY <1>4, ConstructedGood
  <1> QED
    BY <1>2, <1>3, <1>4 DEF StepConstruct

\* A unit's turn keeps the world good, and neither adds nor removes units.
LEMMA StepUnitGood ==
    ASSUME NEW v, NEW sync, NEW w \in Good(v, sync, {}), NEW id \in DOMAIN w.units,
           NEW x \in StepUnit(w, id)
    PROVE  x \in Stepped(v, sync, w)
  <1> DEFINE u == w.units[id]
  <1>1. w \in World /\ u \in Unit /\ w \in Stepped(v, sync, w)
    BY WorldFacts DEF Good, Stepped
  <1>2. CASE x = w
    BY <1>1, <1>2
  <1>3. CASE x \in StepCombat(w, id)
    BY <1>3, StepCombatGood
  <1>4. CASE u.attack_target = 0 /\ x \in StepTask(w, id)
    <2>1. \/ x \in StepGather(w, id) \/ x \in StepPreparingReturn(w, id)
          \/ x \in StepReturn(w, id) \/ x \in StepPickup(w, id) \/ x \in StepConstruct(w, id)
          \/ x \in StepMove(w, id) \/ x = w
      BY <1>4 DEF StepTask
    <2> QED
      BY <1>1, <1>4, <2>1, StepGatherGood, StepMoveGood, StepReturnGood, StepPickupGood,
         StepConstructGood
  <1>5. ASSUME NEW t \in Threats(w, id), x \in Fight(EngageAuto(PutDown(w, id), id, t), id)
        PROVE  x \in Stepped(v, sync, w)
    <2> DEFINE y == EngageAuto(PutDown(w, id), id, t)
    <2>1. t \in DOMAIN w.units
      BY DEF Threats, Enemies
    <2>2. t \in Nat
      BY <1>1, <2>1, WorldFacts
    <2>3. Is(y, EngageAuto(PutDown(w, id), id, t)) /\ x \in Fight(y, id)
      BY <1>5 DEF Is
    <2> HIDE DEF y
    <2>4. y \in Stepped(v, sync, w)
      BY <2>2, <2>3, EngageAutoGood
    <2>5. y \in Good(v, sync, {}) /\ id \in DOMAIN y.units /\ DOMAIN y.units = DOMAIN w.units
      BY <2>4 DEF Stepped
    <2>6. x \in Stepped(v, sync, y)
      BY <2>3, <2>5, FightGood
    <2> QED
      BY <2>5, <2>6 DEF Stepped
  <1> QED
    BY <1>2, <1>3, <1>4, <1>5 DEF StepUnit

-----------------------------------------------------------------------------
(* Commands.                                                               *)

\* The ids of a world are finitely many.
LEMMA FiniteIds ==
    ASSUME NEW v, NEW sync, NEW E, NEW w \in Good(v, sync, E)
    PROVE  IsFiniteSet(DOMAIN w.units) /\ IsFiniteSet(DOMAIN w.buildings)
  <1>1. Consistent(w) /\ w.next_entity_id \in Nat
    BY WorldFacts DEF Good
  <1>2. 1 \in Int /\ w.next_entity_id - 1 \in Int
    BY <1>1
  <1>3. IsFiniteSet(1 .. w.next_entity_id - 1)
    BY <1>2, FS_Interval
  <1> QED
    BY <1>1, <1>3, FS_Subset DEF Consistent, Ids

\* Units of S obey an order.
LEMMA OrderGood ==
    ASSUME NEW v, NEW sync, NEW E, NEW w \in Good(v, sync, E), NEW S \in SUBSET DOMAIN w.units,
           E \subseteq S, NEW g \in [DOMAIN w.units -> Unit],
           \A i \in DOMAIN w.units : i \in S \/ g[i] = w.units[i],
           NEW x, Is(x, WithUnits(w, g, S))
    PROVE  x \in Good(v, sync, {})
  <1>1. w \in World /\ DOMAIN w.units \in SUBSET Nat
    BY WorldFacts DEF Good
  <1>2. g \in PFun(Unit) /\ DOMAIN g = DOMAIN w.units
    BY <1>1, MapIntro
  <1>3. S \in SUBSET Nat /\ \A i \in DOMAIN g : i \in S \cup E \/ g[i] = w.units[i]
    BY <1>1, <1>2
  <1>4. x \in Good(v, sync, E) /\ UnitsAre(w, x, g, S)
    BY <1>2, <1>3, WithUnitsGood
  <1> QED
    BY <1>4, MarkedIsGood DEF UnitsAre

\* Units of S put down what they carry, one after the other.
AllDropped(w, S) == FoldSet(LAMBDA i, y : DropCarried(y, i), w, S)

\* All of S are exceptions until the order marks them.
LEMMA DropAllGood ==
    ASSUME NEW v, NEW sync, NEW w \in Good(v, sync, {}), NEW S \in SUBSET DOMAIN w.units,
           NEW x, Is(x, AllDropped(w, S))
    PROVE  x \in Good(v, sync, S) /\ DOMAIN x.units = DOMAIN w.units
  <1> DEFINE W == {y \in Good(v, sync, S) : DOMAIN y.units = DOMAIN w.units}
             R == (SUBSET S) \X W
             Op(s, y) == DropCarried(y, Pick(s))
             step == [p \in (SUBSET S) \X W |-> Op(p[1], p[2])]
             Fold(h) == h = [s \in SUBSET S |-> IF s = {} THEN w ELSE Op(s, h[Rest(s)])]
             fold == CHOOSE h : Fold(h)
  <1>1. IsFiniteSet(S)
    BY FiniteIds, FS_Subset
  <1>2. w \in W
    BY FewerExceptions
  <1>3. ASSUME NEW s \in SUBSET S, s # {}, NEW y \in W
        PROVE  Op(s, y) \in W /\ Rest(s) \in SUBSET S
    <2> DEFINE k == Pick(s)
               z == DropCarried(y, k)
    <2>1. k \in S /\ Rest(s) \in SUBSET S
      BY <1>1, <1>3, RestFacts
    <2>2. Is(z, DropCarried(y, k)) /\ k \in DOMAIN y.units
      BY <2>1 DEF Is
    <2> HIDE DEF k, z
    <2>3. z \in Good(v, sync, S) /\ Dropped(y, z, k)
      BY <2>1, <2>2, DropCarriedGood
    <2> QED
      BY <2>1, <2>3 DEF Dropped, z, k
  <1> HIDE DEF W, Op
  <1>4. ASSUME NEW s \in SUBSET S, s # {}, NEW y \in W
        PROVE  step[<<s, y>>] = Op(s, y) /\ step[<<s, y>>] \in W
    BY <1>3, <1>4
  <1>5. PICK g : IsFold(g, S, w, step) /\ \A s \in SUBSET S : <<s, g[s]>> \in R
    <2>1. /\ <<{}, w>> \in R /\ R \in SUBSET ((SUBSET S) \X W)
          /\ StepsKeep(R, S, W, step)
      BY <1>2, <1>4 DEF StepsKeep
    <2> HIDE DEF R, step
    <2>2. \E g : FoldIn(R, g, S, w, step)
      BY <1>1, <2>1, FoldExists
    <2> QED
      BY <2>2 DEF FoldIn
  <1>6. Fold(g)
    <2>1. \A s \in SUBSET S : s # {} => Rest(s) \in SUBSET S /\ g[Rest(s)] \in W
      BY <1>1, <1>5, RestFacts
    <2>2. \A s \in SUBSET S : s # {} => step[<<s, g[Rest(s)]>>] = Op(s, g[Rest(s)])
      BY <1>4, <2>1
    <2> HIDE DEF step
    <2> QED
      BY <1>5, <2>2 DEF IsFold
  <1>7. Fold(fold)
    <2> HIDE DEF Fold
    <2> QED
      BY <1>6
  <1>8. fold[S] = g[S]
    <2> HIDE DEF fold
    <2>1. /\ fold[{}] = g[{}]
          /\ \A s \in SUBSET S : s # {} /\ fold[Rest(s)] = g[Rest(s)] => fold[s] = g[s]
      BY <1>6, <1>7
    <2> QED
      BY <1>1, <2>1, SameFold
  <1>9. x = fold[S]
    BY DEF Is, AllDropped, FoldSet, MapThenFoldSet, Op, Rest, Pick
  <1> QED
    BY <1>5, <1>8, <1>9 DEF W

\* The orders that change nothing but units.
LEMMA ApplyMoveGood ==
    ASSUME NEW v, NEW sync, NEW w \in Good(v, sync, {}), NEW cmd \in Command,
           NEW x, x = ApplyMove(w, cmd)
    PROVE  x \in Good(v, sync, {})
  <1> DEFINE S == OwnedUnits(w, cmd)
             g == [i \in DOMAIN w.units |-> IF i \in S THEN
                     [ClearWorkerTask(w.units[i]) EXCEPT !.has_target = TRUE, !.attack_target = 0,
                                                !.state = "Moving"]
                   ELSE w.units[i]]
  <1>1. \A i \in DOMAIN w.units : w.units[i] \in Unit
    BY WorldFacts DEF Good
  <1>2. cmd.target \in Nat /\ "None" \in Tasks
    BY DEF Command, Tasks
  <1>3. g \in [DOMAIN w.units -> Unit] /\ \A i \in DOMAIN w.units : i \in S \/ g[i] = w.units[i]
    BY <1>1, <1>2, OrderedUnits
  <1>4. Is(x, WithUnits(w, g, S)) \/ x = w
    BY DEF ApplyMove, Order, WithUnits, Is
  <1>5. S \in SUBSET DOMAIN w.units /\ {} \subseteq S
    BY DEF OwnedUnits
  <1> HIDE DEF g, S
  <1> QED
    BY <1>3, <1>4, <1>5, OrderGood

\* ApplyAttack.
LEMMA ApplyAttackGood ==
    ASSUME NEW v, NEW sync, NEW w \in Good(v, sync, {}), NEW cmd \in Command,
           NEW x, x = ApplyAttack(w, cmd)
    PROVE  x \in Good(v, sync, {})
  <1> DEFINE S == OwnedUnits(w, cmd) \ {cmd.target}
             g == [i \in DOMAIN w.units |-> IF i \in S THEN
                     [ClearWorkerTask(w.units[i]) EXCEPT
                        !.attack_target = cmd.target, !.auto_aggro = FALSE,
                        !.has_target = FALSE, !.state = "Attacking"]
                   ELSE w.units[i]]
  <1>1. \A i \in DOMAIN w.units : w.units[i] \in Unit
    BY WorldFacts DEF Good
  <1>2. cmd.target \in Nat /\ "None" \in Tasks
    BY DEF Command, Tasks
  <1>3. g \in [DOMAIN w.units -> Unit] /\ \A i \in DOMAIN w.units : i \in S \/ g[i] = w.units[i]
    BY <1>1, <1>2, OrderedUnits
  <1>4. Is(x, WithUnits(w, g, S)) \/ x = w
    BY DEF ApplyAttack, Order, WithUnits, Is
  <1>5. S \in SUBSET DOMAIN w.units /\ {} \subseteq S
    BY DEF OwnedUnits
  <1> HIDE DEF g, S
  <1> QED
    BY <1>3, <1>4, <1>5, OrderGood

\* ApplyHarvest.
LEMMA ApplyHarvestGood ==
    ASSUME NEW v, NEW sync, NEW w \in Good(v, sync, {}), NEW cmd \in Command,
           NEW x, x = ApplyHarvest(w, cmd)
    PROVE  x \in Good(v, sync, {})
  <1> DEFINE S == OwnedUnits(w, cmd)
             g == [i \in DOMAIN w.units |-> IF i \in S THEN
                     [PutToWork(w.units[i], "Gathering") EXCEPT !.gather_field_id = cmd.target]
                   ELSE w.units[i]]
  <1>1. \A i \in DOMAIN w.units : w.units[i] \in Unit
    BY WorldFacts DEF Good
  <1>2. cmd.target \in Nat /\ "Gathering" \in Tasks
    BY DEF Command, Tasks
  <1>3. g \in [DOMAIN w.units -> Unit] /\ \A i \in DOMAIN w.units : i \in S \/ g[i] = w.units[i]
    BY <1>1, <1>2, OrderedUnits
  <1>4. Is(x, WithUnits(w, g, S)) \/ x = w
    BY DEF ApplyHarvest, Order, WithUnits, Is
  <1>5. S \in SUBSET DOMAIN w.units /\ {} \subseteq S
    BY DEF OwnedUnits
  <1> HIDE DEF g, S
  <1> QED
    BY <1>3, <1>4, <1>5, OrderGood

\* ApplyStore.
LEMMA ApplyStoreGood ==
    ASSUME NEW v, NEW sync, NEW w \in Good(v, sync, {}), NEW cmd \in Command,
           NEW x, x = ApplyStore(w, cmd)
    PROVE  x \in Good(v, sync, {})
  <1> DEFINE S == OwnedUnits(w, cmd)
             g == [i \in DOMAIN w.units |-> IF i \in S THEN
                     [PutToWork(w.units[i], "Returning") EXCEPT !.dropoff_id = cmd.target]
                   ELSE w.units[i]]
  <1>1. \A i \in DOMAIN w.units : w.units[i] \in Unit
    BY WorldFacts DEF Good
  <1>2. cmd.target \in Nat /\ "Returning" \in Tasks
    BY DEF Command, Tasks
  <1>3. g \in [DOMAIN w.units -> Unit] /\ \A i \in DOMAIN w.units : i \in S \/ g[i] = w.units[i]
    BY <1>1, <1>2, OrderedUnits
  <1>4. Is(x, WithUnits(w, g, S)) \/ x = w
    BY DEF ApplyStore, Order, WithUnits, Is
  <1>5. S \in SUBSET DOMAIN w.units /\ {} \subseteq S
    BY DEF OwnedUnits
  <1> HIDE DEF g, S
  <1> QED
    BY <1>3, <1>4, <1>5, OrderGood

\* ApplyPickup.
LEMMA ApplyPickupGood ==
    ASSUME NEW v, NEW sync, NEW w \in Good(v, sync, {}), NEW cmd \in Command,
           NEW x, x = ApplyPickup(w, cmd)
    PROVE  x \in Good(v, sync, {})
  <1> DEFINE S == OwnedUnits(w, cmd)
             g == [i \in DOMAIN w.units |-> IF i \in S THEN
                     [PutToWork(w.units[i], "Pickup") EXCEPT !.pickup_drop_id = cmd.target]
                   ELSE w.units[i]]
  <1>1. \A i \in DOMAIN w.units : w.units[i] \in Unit
    BY WorldFacts DEF Good
  <1>2. cmd.target \in Nat /\ "Pickup" \in Tasks
    BY DEF Command, Tasks
  <1>3. g \in [DOMAIN w.units -> Unit] /\ \A i \in DOMAIN w.units : i \in S \/ g[i] = w.units[i]
    BY <1>1, <1>2, OrderedUnits
  <1>4. Is(x, WithUnits(w, g, S)) \/ x = w
    BY DEF ApplyPickup, Order, WithUnits, Is
  <1>5. S \in SUBSET DOMAIN w.units /\ {} \subseteq S
    BY DEF OwnedUnits
  <1> HIDE DEF g, S
  <1> QED
    BY <1>3, <1>4, <1>5, OrderGood

\* The builders of a foundation.
LEMMA AssignConstructorsGood ==
    ASSUME NEW v, NEW sync, NEW w \in Good(v, sync, {}), NEW cmd \in Command, NEW id \in Nat,
           NEW x, x = AssignConstructors(w, cmd, id)
    PROVE  x \in Good(v, sync, {})
  <1> DEFINE S == OwnedUnits(w, cmd)
             g == [i \in DOMAIN w.units |-> IF i \in S THEN
                     [PutToWork(w.units[i], "Constructing") EXCEPT !.build_target_id = id]
                   ELSE w.units[i]]
  <1>1. \A i \in DOMAIN w.units : w.units[i] \in Unit
    BY WorldFacts DEF Good
  <1>2. id \in Nat /\ "Constructing" \in Tasks
    BY DEF Command, Tasks
  <1>3. g \in [DOMAIN w.units -> Unit] /\ \A i \in DOMAIN w.units : i \in S \/ g[i] = w.units[i]
    BY <1>1, <1>2, OrderedUnits
  <1>4. Is(x, WithUnits(w, g, S)) \/ x = w
    BY DEF AssignConstructors, Order, WithUnits, Is
  <1>5. S \in SUBSET DOMAIN w.units /\ {} \subseteq S
    BY DEF OwnedUnits
  <1> HIDE DEF g, S
  <1> QED
    BY <1>3, <1>4, <1>5, OrderGood

\* ApplyStop: the units put down what they carry, then they are marked.
LEMMA ApplyStopGood ==
    ASSUME NEW v, NEW sync, NEW w \in Good(v, sync, {}), NEW cmd \in Command,
           NEW x, x = ApplyStop(w, cmd)
    PROVE  x \in Good(v, sync, {})
  <1> DEFINE S == OwnedUnits(w, cmd)
             y == AllDropped(w, S)
             g == [i \in DOMAIN y.units |-> IF i \in S THEN
                     [ClearWorkerTask(y.units[i]) EXCEPT !.has_target = FALSE,
                                                         !.attack_target = 0, !.state = "Idle"]
                   ELSE y.units[i]]
  <1>1. Is(y, AllDropped(w, S)) /\ S \in SUBSET DOMAIN w.units
    BY DEF Is, OwnedUnits
  <1>2. Is(x, WithUnits(y, g, S))
    BY DEF ApplyStop, AllDropped, Order, WithUnits, Is
  <1> HIDE DEF y, S
  <1>3. y \in Good(v, sync, S) /\ DOMAIN y.units = DOMAIN w.units
    BY <1>1, DropAllGood
  <1>4. \A i \in DOMAIN y.units : y.units[i] \in Unit
    BY <1>3, WorldFacts DEF Good
  <1>5. 0 \in Nat /\ "None" \in Tasks
    BY DEF Tasks
  <1>6. g \in [DOMAIN y.units -> Unit] /\ \A i \in DOMAIN y.units : i \in S \/ g[i] = y.units[i]
    BY <1>4, <1>5, OrderedUnits
  <1> HIDE DEF g
  <1>7. S \in SUBSET DOMAIN y.units /\ S \subseteq S
    BY <1>1, <1>3
  <1> QED
    BY <1>2, <1>3, <1>6, <1>7, OrderGood

\* An account that can afford a price stays an account.
LEMMA PayFacts ==
    ASSUME NEW a \in Account, NEW n \in Nat, NEW cost,
           cost = [food |-> n] \/ cost = [wood |-> n], CanAfford(a, cost)
    PROVE  Pay(a, cost) \in Account
  <1>1. DOMAIN a = {"food", "wood", "gold"} /\ \A r \in DOMAIN a : a[r] \in Nat
    BY DEF Account
  <1>2. PICK r0 \in {"food", "wood"} : DOMAIN cost = {r0} /\ cost[r0] = n /\ a[r0] >= n
    BY DEF CanAfford
  <1> DEFINE p == [r \in DOMAIN a |-> IF r \in {r0} THEN a[r] - n ELSE a[r]]
  <1>3. Pay(a, cost) = p
    BY <1>2 DEF Pay
  <1>4. \A r \in DOMAIN a : p[r] \in Nat
    BY <1>1, <1>2
  <1>5. p \in [{"food", "wood", "gold"} -> Nat]
    BY <1>1, <1>4
  <1> HIDE DEF p
  <1>6. p \in Account
    BY <1>5 DEF Account
  <1> QED
    BY <1>3, <1>6

\* PayFor keeps the world good.
LEMMA PayForGood ==
    ASSUME NEW v, NEW sync, NEW E, NEW w \in Good(v, sync, E), NEW uid \in Uids, NEW cost,
           Pay(w.player_res[uid], cost) \in Account,
           NEW x, Is(x, PayFor(w, uid, cost))
    PROVE  /\ x \in Good(v, sync, E)
           /\ AccountsAre(w, x, [w.player_res EXCEPT ![uid] = Pay(@, cost)], {uid})
  <1> DEFINE g == [w.player_res EXCEPT ![uid] = Pay(@, cost)]
  <1>1. w.player_res \in [Uids -> Account]
    BY WorldFacts DEF Good
  <1>2. /\ g \in [Uids -> Account] /\ {uid} \in SUBSET Uids
        /\ \A i \in Uids : i \in {uid} \/ g[i] = w.player_res[i]
    BY <1>1
  <1>3. Is(x, WithAccounts(w, g, {uid}))
    BY DEF Is, PayFor, WithAccounts
  <1> HIDE DEF g
  <1>4. x \in Good(v, sync, E) /\ AccountsAre(w, x, g, {uid})
    BY <1>2, <1>3, WithAccountsGood
  <1> QED
    BY <1>4 DEF g

\* ApplyBuild: paid, founded and manned in one go, or nothing of it.
LEMMA ApplyBuildGood ==
    ASSUME NEW v, NEW sync, NEW w \in Good(v, sync, {}), NEW cmd \in Command,
           cmd.type = "Build", NEW x, x = ApplyBuild(w, cmd)
    PROVE  x \in Good(v, sync, {})
  <1> DEFINE uid == cmd.owner_uid
             type == cmd.aux_type
             cost == BuildingCost(type)
             y == PayFor(w, uid, cost)
             z == SpawnBuilding(y, uid, type, TRUE)
             n == w.next_entity_id
  <1>1. uid \in Uids /\ type \in BuildingTypes
    BY DEF Command
  <1>2. CASE BuildRejected(w, cmd)
    BY <1>2 DEF ApplyBuild
  <1>3. CASE ~BuildRejected(w, cmd)
    <2>1. w.player_res[uid] \in Account /\ n \in Nat
      BY <1>1, WorldFacts DEF Good
    <2>2. BuildingPrice[type] \in Nat /\ cost = [wood |-> BuildingPrice[type]]
      BY <1>1, RoomData DEF BuildingCost
    <2>3. CanAfford(w.player_res[uid], cost)
      BY <1>3 DEF BuildRejected
    <2>4. Pay(w.player_res[uid], cost) \in Account
      <3> HIDE DEF cost, uid, type
      <3> QED
        BY <2>1, <2>2, <2>3, PayFacts
    <2>5. /\ Is(y, PayFor(w, uid, cost)) /\ Is(z, SpawnBuilding(y, uid, type, TRUE))
          /\ x = AssignConstructors(z, cmd, n)
      BY <1>3 DEF ApplyBuild, Is
    <2> HIDE DEF y, z, cost, uid, type, n
    <2>6. y \in Good(v, sync, {})
      BY <1>1, <2>4, <2>5, PayForGood
    <2>7. TRUE \in BOOLEAN
      OBVIOUS
    <2>8. z \in Good(v, sync, {})
      BY <1>1, <2>5, <2>6, <2>7, SpawnBuildingGood
    <2> QED
      BY <2>1, <2>5, <2>8, AssignConstructorsGood
  <1> QED
    BY <1>2, <1>3

\* ApplyTrain: paid and queued, or neither.
LEMMA ApplyTrainGood ==
    ASSUME NEW v, NEW sync, NEW w \in Good(v, sync, {}), NEW cmd \in Command,
           NEW x, x = ApplyTrain(w, cmd)
    PROVE  x \in Good(v, sync, {})
  <1> DEFINE uid == cmd.owner_uid
             k == cmd.target
             y == PayFor(w, uid, UnitCost)
             b == w.buildings[k]
             q == Append(b.train_queue, TrainTicks)
             c == [b EXCEPT !.train_queue = q]
  <1>1. uid \in Uids
    BY DEF Command
  <1>2. CASE TrainRejected(w, cmd)
    BY <1>2 DEF ApplyTrain
  <1>3. CASE ~TrainRejected(w, cmd)
    <2>1. k \in DOMAIN w.buildings /\ CanAfford(w.player_res[uid], UnitCost)
      BY <1>3 DEF TrainRejected
    <2>2. w \in World /\ w.player_res[uid] \in Account /\ b \in Building
      BY <1>1, <2>1, WorldFacts DEF Good
    <2>3. UnitPrice \in Nat /\ UnitCost = [food |-> UnitPrice] /\ TrainTicks \in 1 .. TrainTicks
      BY RoomNumbers DEF UnitCost
    <2>4. Pay(w.player_res[uid], UnitCost) \in Account
      <3> HIDE DEF uid
      <3> QED
        BY <2>1, <2>2, <2>3, PayFacts
    <2>5. q \in Seq(1 .. TrainTicks)
      BY <2>2, <2>3, BuildingFields
    <2>6. c \in Building
      <3> HIDE DEF q, b
      <3> QED
        BY <2>2, <2>5, ChangedBuildings
    <2>7. Is(y, PayFor(w, uid, UnitCost))
      BY DEF Is
    <2>8. x = [y EXCEPT !.buildings[k].train_queue = Append(@, TrainTicks), !.dirty = @ \cup {k}]
      BY <1>3 DEF ApplyTrain
    <2> HIDE DEF y, c
    <2>9. /\ y \in Good(v, sync, {})
          /\ AccountsAre(w, y, [w.player_res EXCEPT ![uid] = Pay(@, UnitCost)], {uid})
      <3> HIDE DEF uid
      <3> QED
        BY <1>1, <2>4, <2>7, PayForGood
    <2>10. y \in World /\ y.buildings = w.buildings
      BY <2>9 DEF AccountsAre, Good
    <2>11. Is(x, [y EXCEPT !.buildings[k] = c, !.dirty = @ \cup {k}]) /\ k \in DOMAIN y.buildings
      BY <2>1, <2>8, <2>10 DEF Is, c
    <2> QED
      BY <2>6, <2>9, <2>11, SetBuildingGood
  <1> QED
    BY <1>2, <1>3

\* ApplyConstruct.
LEMMA ApplyConstructGood ==
    ASSUME NEW v, NEW sync, NEW w \in Good(v, sync, {}), NEW cmd \in Command,
           NEW x, x = ApplyConstruct(w, cmd)
    PROVE  x \in Good(v, sync, {})
  <1>1. cmd.target \in Nat
    BY DEF Command
  <1>2. x = AssignConstructors(w, cmd, cmd.target) \/ x = w
    BY DEF ApplyConstruct
  <1> QED
    BY <1>1, <1>2, AssignConstructorsGood

\* A command keeps the world good.
LEMMA ApplyGood ==
    ASSUME NEW v, NEW sync, NEW w \in Good(v, sync, {}), NEW cmd \in Command
    PROVE  Apply(w, cmd) \in Good(v, sync, {})
  <1> DEFINE x == Apply(w, cmd)
  <1>1. cmd.type \in PlainOrders \cup {"Build", "Train"}
    BY DEF Command
  <1>2. \/ x = ApplyMove(w, cmd) \/ x = ApplyStop(w, cmd) \/ x = ApplyAttack(w, cmd)
        \/ x = ApplyHarvest(w, cmd) \/ x = ApplyStore(w, cmd) \/ x = ApplyPickup(w, cmd)
        \/ cmd.type = "Build" /\ x = ApplyBuild(w, cmd)
        \/ x = ApplyConstruct(w, cmd) \/ x = ApplyTrain(w, cmd)
    BY <1>1 DEF Apply, PlainOrders
  <1> HIDE DEF x
  <1>3. x \in Good(v, sync, {})
    BY <1>2, ApplyMoveGood, ApplyStopGood, ApplyAttackGood, ApplyHarvestGood, ApplyStoreGood,
       ApplyPickupGood, ApplyBuildGood, ApplyConstructGood, ApplyTrainGood
  <1> QED
    BY <1>3 DEF x

\* And so do the commands of the queue, one after the other.
LEMMA AppliedGood ==
    ASSUME RoomInv
    PROVE  Applied[Len(pending)] \in Good(view, in_sync, {})
  <1> DEFINE N == Len(pending)
             W == Good(view, in_sync, {})
             step == [p \in (1 .. N) \X W |-> Apply(p[2], pending[p[1]])]
             Runs(f) == f = [n \in 0 .. N |-> IF n = 0 THEN world ELSE Apply(f[n - 1], pending[n])]
  <1>1. N \in Nat /\ world \in W /\ \A k \in 1 .. N : pending[k] \in Command
    BY DEF RoomInv
  <1> HIDE DEF N, W
  <1>2. ASSUME NEW k \in 1 .. N, NEW x \in W
        PROVE  step[<<k, x>>] = Apply(x, pending[k]) /\ step[<<k, x>>] \in W
    <2>1. Apply(x, pending[k]) \in W
      BY <1>1, ApplyGood DEF W
    <2> QED
      BY <2>1
  <1>3. PICK f \in [0 .. N -> W] : Unfolds(f, N, world, step)
    <2> HIDE DEF step
    <2> QED
      BY <1>1, <1>2, NatRecursion
  <1>4. Runs(f)
    <2>1. f = [n \in 0 .. N |-> f[n]]
      OBVIOUS
    <2>2. \A n \in 0 .. N : f[n] = IF n = 0 THEN world ELSE Apply(f[n - 1], pending[n])
      <3> SUFFICES ASSUME NEW n \in 0 .. N, n # 0 PROVE f[n] = Apply(f[n - 1], pending[n])
        BY <1>3 DEF Unfolds
      <3>1. n \in 1 .. N /\ n - 1 \in 0 .. N
        BY <1>1
      <3>2. f[n - 1] \in W
        BY <3>1
      <3> HIDE DEF step
      <3> QED
        BY <1>2, <1>3, <3>1, <3>2 DEF Unfolds
    <2> QED
      BY <2>1, <2>2
  <1>5. Runs(Applied)
    <2>1. Applied = CHOOSE g : Runs(g)
      BY DEF Applied, N
    <2> HIDE DEF Runs
    <2> QED
      BY <1>4, <2>1
  <1> DEFINE A == {n \in 0 .. N : Applied[n] = f[n]}
  <1>6. 0 \in A
    BY <1>1, <1>4, <1>5
  <1>7. ASSUME NEW n \in 0 .. N - 1, n \in A
        PROVE  n + 1 \in A
    <2>1. n + 1 \in 0 .. N /\ n + 1 # 0 /\ (n + 1) - 1 = n
      BY <1>1
    <2>2. /\ Applied[n + 1] = Apply(Applied[n], pending[n + 1])
          /\ f[n + 1] = Apply(f[n], pending[n + 1])
      BY <2>1, <1>4, <1>5
    <2> QED
      BY <1>7, <2>1, <2>2
  <1> HIDE DEF A
  <1>8. N \in A
    <2>1. N \in Nat /\ N \in 0 .. N
      BY <1>1
    <2>2. \A n \in 0 .. N : n \in A
      BY <1>6, <1>7, <2>1, CountUp
    <2> QED
      BY <2>1, <2>2
  <1>9. Applied[N] = f[N] /\ f[N] \in W
    BY <1>1, <1>8 DEF A
  <1> QED
    BY <1>9 DEF N, W

-----------------------------------------------------------------------------
(* The end of the tick.                                                    *)

\* Of the buildings only one has changed.
OnlyBuilding(w, x, id) ==
    /\ DOMAIN x.buildings = DOMAIN w.buildings
    /\ \A b \in DOMAIN w.buildings : b # id => x.buildings[b] = w.buildings[b]

\* A queue after one tick of training.
LEMMA QueueFacts ==
    ASSUME NEW q \in Seq(1 .. TrainTicks), q # <<>>
    PROVE  /\ Tail(q) \in Seq(1 .. TrainTicks)
           /\ q[1] # 1 => [q EXCEPT ![1] = q[1] - 1] \in Seq(1 .. TrainTicks)
  <1>0. TrainTicks \in Nat
    BY RoomNumbers
  <1>1. Len(q) \in Nat /\ Len(q) >= 1 /\ q[1] \in 1 .. TrainTicks
    <2> DEFINE T == 1 .. TrainTicks
    <2> HIDE DEF T
    <2>1. q \in Seq(T)
      BY DEF T
    <2>2. Len(q) \in Nat /\ Len(q) # 0
      BY <2>1
    <2>3. q[1] \in T
      BY <2>1, <2>2
    <2> QED
      BY <2>2, <2>3 DEF T
  <1>2. Tail(q) \in Seq(1 .. TrainTicks)
    OBVIOUS
  <1>3. ASSUME q[1] # 1
        PROVE  [q EXCEPT ![1] = q[1] - 1] \in Seq(1 .. TrainTicks)
    <2>1. q[1] - 1 \in 1 .. TrainTicks
      BY <1>0, <1>1, <1>3
    <2> QED
      BY <1>1, <2>1
  <1> QED
    BY <1>2, <1>3

\* One building's turn.  It was marked and no other building has changed.
LEMMA StepTrainingGood ==
    ASSUME NEW v, NEW sync, NEW w \in Good(v, sync, {}), NEW id \in DOMAIN w.buildings,
           w.buildings[id].train_queue # <<>>,
           NEW x, Is(x, StepTraining(id, w))
    PROVE  x \in Good(v, sync, {}) /\ OnlyBuilding(w, x, id)
  <1> DEFINE b == w.buildings[id]
             queue == b.train_queue
             owner == b.owner
  <1>1. w \in World /\ b \in Building
    BY WorldFacts DEF Good
  <1>2. queue \in Seq(1 .. TrainTicks) /\ owner \in Uids /\ TRUE \in BOOLEAN
    BY <1>1, BuildingFields
  <1>3. CASE queue[1] = 1
    <2> DEFINE y == SpawnUnit(w, owner, TRUE)
               c == [b EXCEPT !.train_queue = Tail(queue)]
    <2>1. Is(y, SpawnUnit(w, owner, TRUE))
      BY DEF Is
    <2>2. x = [y EXCEPT !.buildings[id].train_queue = Tail(queue), !.dirty = @ \cup {id}]
      BY <1>3 DEF StepTraining, Is
    <2>3. c \in Building
      <3>1. Tail(queue) \in Seq(1 .. TrainTicks)
        BY <1>2, QueueFacts
      <3> QED
        BY <1>1, <3>1, ChangedBuildings
    <2> HIDE DEF y
    <2>4. y \in Good(v, sync, {}) /\ UnitAdded(w, y)
      <3> HIDE DEF owner
      <3> QED
        BY <1>2, <2>1, SpawnUnitGood
    <2>5. y \in World /\ y.buildings = w.buildings
      BY <2>4 DEF UnitAdded, Good
    <2>6. Is(x, [y EXCEPT !.buildings[id] = c, !.dirty = @ \cup {id}]) /\ id \in DOMAIN y.buildings
      BY <2>2, <2>5 DEF Is
    <2> HIDE DEF c
    <2>7. x \in Good(v, sync, {}) /\ BuildingsAre(y, x, [y.buildings EXCEPT ![id] = c], {id})
      BY <2>3, <2>4, <2>6, SetBuildingGood
    <2> QED
      BY <2>5, <2>7 DEF BuildingsAre, OnlyBuilding
  <1>4. CASE queue[1] # 1
    <2> DEFINE q == [queue EXCEPT ![1] = queue[1] - 1]
               c == [b EXCEPT !.train_queue = q]
    <2>1. x = [w EXCEPT !.buildings[id].train_queue[1] = @ - 1, !.dirty = @ \cup {id}]
      BY <1>4 DEF StepTraining, Is
    <2>2. c \in Building
      <3>1. q \in Seq(1 .. TrainTicks)
        BY <1>2, <1>4, QueueFacts
      <3> HIDE DEF q
      <3> QED
        BY <1>1, <3>1, ChangedBuildings
    <2>3. Is(x, [w EXCEPT !.buildings[id] = c, !.dirty = @ \cup {id}])
      BY <2>1 DEF Is
    <2> HIDE DEF c
    <2>4. x \in Good(v, sync, {}) /\ BuildingsAre(w, x, [w.buildings EXCEPT ![id] = c], {id})
      BY <2>2, <2>3, SetBuildingGood
    <2> QED
      BY <2>4 DEF BuildingsAre, OnlyBuilding
  <1> QED
    BY <1>3, <1>4

\* The buildings' turn: those that are still to come have the queues they had.
LEMMA StepBuildingsGood ==
    ASSUME NEW v, NEW sync, NEW w \in Good(v, sync, {}),
           NEW x, Is(x, StepBuildings(w))
    PROVE  x \in Good(v, sync, {})
  <1> DEFINE S == TrainingBuildings(w)
             W == Good(v, sync, {})
             Same(s, y) == /\ DOMAIN y.buildings = DOMAIN w.buildings
                           /\ \A b \in DOMAIN w.buildings :
                                b \notin s => y.buildings[b] = w.buildings[b]
             R == {p \in (SUBSET S) \X W : Same(p[1], p[2])}
             Op(s, y) == StepTraining(Pick(s), y)
             step == [p \in (SUBSET S) \X W |-> Op(p[1], p[2])]
             Fold(h) == h = [s \in SUBSET S |-> IF s = {} THEN w ELSE Op(s, h[Rest(s)])]
             fold == CHOOSE h : Fold(h)
  <1>1. IsFiniteSet(S)
    BY FiniteIds, FS_Subset DEF TrainingBuildings
  <1>2. <<{}, w>> \in R
    OBVIOUS
  <1>3. ASSUME NEW s \in SUBSET S, s # {}, NEW y \in W, <<Rest(s), y>> \in R
        PROVE  <<s, Op(s, y)>> \in R
    <2> DEFINE k == Pick(s)
               z == StepTraining(k, y)
    <2>1. k \in S /\ k \in s /\ Rest(s) = s \ {k}
      BY <1>1, <1>3, RestFacts
    <2>2. Same(Rest(s), y)
      BY <1>3
    <2>3. k \in DOMAIN y.buildings /\ y.buildings[k].train_queue # <<>>
      BY <2>1, <2>2 DEF TrainingBuildings
    <2>4. Is(z, StepTraining(k, y))
      BY DEF Is
    <2> HIDE DEF k, z, S, W
    <2>5. z \in Good(v, sync, {}) /\ OnlyBuilding(y, z, k)
      BY <2>3, <2>4, StepTrainingGood DEF W
    <2>6. Same(s, z)
      BY <2>1, <2>2, <2>5 DEF OnlyBuilding
    <2>7. z \in W
      BY <2>5 DEF W
    <2>8. <<s, z>> \in R
      BY <2>6, <2>7
    <2> QED
      BY <2>8 DEF z, k
  <1> HIDE DEF W, S, Same, Op
  <1>4. ASSUME NEW s \in SUBSET S, NEW y \in W
        PROVE  step[<<s, y>>] = Op(s, y)
    BY <1>4
  <1>5. PICK g : IsFold(g, S, w, step) /\ \A s \in SUBSET S : <<s, g[s]>> \in R
    <2>1. R \in SUBSET ((SUBSET S) \X W) /\ StepsKeep(R, S, W, step)
      BY <1>3, <1>4 DEF StepsKeep
    <2> HIDE DEF R, step
    <2>2. \E g : FoldIn(R, g, S, w, step)
      BY <1>1, <1>2, <2>1, FoldExists
    <2> QED
      BY <2>2 DEF FoldIn
  <1>6. Fold(g)
    <2>1. \A s \in SUBSET S : s # {} => Rest(s) \in SUBSET S /\ g[Rest(s)] \in W
      BY <1>1, <1>5, RestFacts
    <2>2. \A s \in SUBSET S : s # {} => step[<<s, g[Rest(s)]>>] = Op(s, g[Rest(s)])
      BY <1>4, <2>1
    <2> HIDE DEF step
    <2> QED
      BY <1>5, <2>2 DEF IsFold
  <1>7. Fold(fold)
    <2> HIDE DEF Fold
    <2> QED
      BY <1>6
  <1>8. fold[S] = g[S]
    <2> HIDE DEF fold
    <2>1. /\ fold[{}] = g[{}]
          /\ \A s \in SUBSET S : s # {} /\ fold[Rest(s)] = g[Rest(s)] => fold[s] = g[s]
      BY <1>6, <1>7
    <2> QED
      BY <1>1, <2>1, SameFold
  <1>9. x = fold[S]
    BY DEF Is, StepBuildings, FoldSet, MapThenFoldSet, Op, Rest, Pick, S
  <1> QED
    BY <1>5, <1>8, <1>9 DEF W

\* What has no health left is gone, and only that.
LEMMA RemoveDeadGood ==
    ASSUME NEW v, NEW sync, NEW w \in Good(v, sync, {}),
           NEW x, Is(x, RemoveDead(w))
    PROVE  x \in Good(v, sync, {}) /\ Alive(x)
  <1> DEFINE U == Dead(w.units)
             B == Dead(w.buildings)
  <1>1. w \in World /\ Consistent(w) /\ (sync => Covered(v, w, {}))
    BY DEF Good
  <1>2. /\ w.units \in PFun(Unit) /\ w.buildings \in PFun(Building)
        /\ \A i \in DOMAIN w.units : w.units[i] \in Unit
        /\ \A i \in DOMAIN w.buildings : w.buildings[i] \in Building
        /\ U \subseteq DOMAIN w.units /\ B \subseteq DOMAIN w.buildings
        /\ w.despawned \cup U \cup B \in SUBSET Nat
    BY <1>1, WorldFacts DEF Dead
  <1>3. /\ \A i \in DOMAIN w.units \ U : w.units[i].hp >= 1
        /\ \A i \in DOMAIN w.buildings \ B : w.buildings[i].hp >= 1
    BY <1>2, UnitFields, BuildingFields DEF Dead
  <1>4. /\ Erase(w.units, U) \in PFun(Unit) /\ DOMAIN Erase(w.units, U) = DOMAIN w.units \ U
        /\ \A i \in DOMAIN w.units \ U : Erase(w.units, U)[i] = w.units[i]
        /\ Erase(w.buildings, B) \in PFun(Building)
        /\ DOMAIN Erase(w.buildings, B) = DOMAIN w.buildings \ B
        /\ \A i \in DOMAIN w.buildings \ B : Erase(w.buildings, B)[i] = w.buildings[i]
    <2> DEFINE f == w.units
               g == w.buildings
    <2>1. f \in PFun(Unit) /\ g \in PFun(Building)
      BY <1>2
    <2> HIDE DEF U, B, f, g
    <2>2. /\ Erase(f, U) \in PFun(Unit) /\ DOMAIN Erase(f, U) = DOMAIN f \ U
          /\ \A i \in DOMAIN f \ U : Erase(f, U)[i] = f[i]
      BY <2>1, EraseFacts
    <2>3. /\ Erase(g, B) \in PFun(Building) /\ DOMAIN Erase(g, B) = DOMAIN g \ B
          /\ \A i \in DOMAIN g \ B : Erase(g, B)[i] = g[i]
      BY <2>1, EraseFacts
    <2> QED
      BY <2>2, <2>3 DEF f, g
  <1>5. /\ x.units = Erase(w.units, U) /\ x.buildings = Erase(w.buildings, B)
        /\ x.despawned = w.despawned \cup U \cup B
        /\ x.fields = w.fields /\ x.drops = w.drops /\ x.player_res = w.player_res
        /\ x.next_entity_id = w.next_entity_id /\ x.dirty = w.dirty /\ x.spawned = w.spawned
        /\ x.resource_dirty = w.resource_dirty
    BY <1>1 DEF Is, RemoveDead, World
  <1>6. x \in World
    BY <1>1, <1>2, <1>4 DEF Is, RemoveDead, World
  <1> HIDE DEF U, B
  <1>7. Consistent(x)
    BY <1>1, <1>2, <1>4, <1>5 DEF Consistent, Ids
  <1>8. Covered(v, w, {}) => Covered(v, x, {})
    BY <1>2, <1>4, <1>5 DEF Covered
  <1>9. Alive(x)
    BY <1>3, <1>4, <1>5 DEF Alive
  <1> QED
    BY <1>1, <1>6, <1>7, <1>8, <1>9 DEF Good

-----------------------------------------------------------------------------
(* What the client makes of it.                                            *)

\* The client has every unit, building and account as the server has them, and
\* knows which fields and drops exist.
Exact(v, w) ==
    /\ DOMAIN v.units = DOMAIN w.units /\ DOMAIN v.buildings = DOMAIN w.buildings
    /\ DOMAIN v.fields = DOMAIN w.fields /\ DOMAIN v.drops = DOMAIN w.drops
    /\ \A i \in DOMAIN w.units : v.units[i] = UnitSnapshot(w.units[i])
    /\ \A i \in DOMAIN w.buildings : v.buildings[i] = BuildingSnapshot(w.buildings[i])
    /\ \A uid \in Uids : v.player_res[uid] = w.player_res[uid]

\* Nothing is marked.
Unmarked(w) ==
    w.dirty = {} /\ w.spawned = {} /\ w.despawned = {} /\ w.resource_dirty = {}

\* Without marks a world is good for an exact view.
LEMMA ClearFrameChangesGood ==
    ASSUME NEW v, NEW sync, NEW w \in World, Consistent(w), sync => Exact(v, w),
           NEW x, Is(x, ClearFrameChanges(w))
    PROVE  /\ x \in Good(v, sync, {}) /\ Unmarked(x)
           /\ Alive(w) => Alive(x)
  <1>1. /\ x.units = w.units /\ x.buildings = w.buildings /\ x.fields = w.fields
        /\ x.drops = w.drops /\ x.player_res = w.player_res /\ x.next_entity_id = w.next_entity_id
        /\ Unmarked(x)
    BY DEF Is, ClearFrameChanges, World, Unmarked
  <1>2. x \in World
    BY DEF Is, ClearFrameChanges, World
  <1>3. Consistent(x)
    BY <1>1 DEF Consistent, Ids, Unmarked
  <1>4. Exact(v, w) => Covered(v, x, {})
    BY <1>1 DEF Exact, Covered
  <1>5. Alive(w) => Alive(x)
    BY <1>1 DEF Alive
  <1> QED
    BY <1>1, <1>2, <1>3, <1>4, <1>5 DEF Good

\* What the messages say of a unit and of a building.
LEMMA ShotFacts ==
    /\ \A u \in Unit : UnitSnapshot(u) \in UnitShot
    /\ \A b \in Building : BuildingSnapshot(b) \in BuildingShot
  <1>1. ASSUME NEW u \in Unit
        PROVE  UnitSnapshot(u) \in UnitShot
    BY UnitFields DEF UnitSnapshot, UnitShot
  <1>2. ASSUME NEW b \in Building
        PROVE  BuildingSnapshot(b) \in BuildingShot
    <2>1. b.built \in Nat
      BY BuildingFields, RoomNumbers
    <2> QED
      BY <2>1, BuildingFields DEF BuildingSnapshot, BuildingShot
  <1> QED
    BY <1>1, <1>2

\* A full snapshot is exact.
LEMMA SnapshotFacts ==
    ASSUME NEW w \in World
    PROVE  Snapshot(w) \in View /\ Exact(Snapshot(w), w)
  <1> DEFINE us == [i \in DOMAIN w.units |-> UnitSnapshot(w.units[i])]
             bs == [i \in DOMAIN w.buildings |-> BuildingSnapshot(w.buildings[i])]
  <1>1. us \in PFun(UnitShot) /\ DOMAIN us = DOMAIN w.units
    <2>1. DOMAIN w.units \in SUBSET Nat /\ us \in [DOMAIN w.units -> UnitShot]
      BY WorldFacts, ShotFacts
    <2> HIDE DEF us
    <2> QED
      BY <2>1, MapIntro
  <1>2. bs \in PFun(BuildingShot) /\ DOMAIN bs = DOMAIN w.buildings
    <2>1. DOMAIN w.buildings \in SUBSET Nat /\ bs \in [DOMAIN w.buildings -> BuildingShot]
      BY WorldFacts, ShotFacts
    <2> HIDE DEF bs
    <2> QED
      BY <2>1, MapIntro
  <1>3. Snapshot(w) = [units |-> us, buildings |-> bs, fields |-> w.fields, drops |-> w.drops,
                       player_res |-> w.player_res]
    <2>1. DOMAIN w.units \cap DOMAIN w.units = DOMAIN w.units
          /\ DOMAIN w.buildings \cap DOMAIN w.buildings = DOMAIN w.buildings
      OBVIOUS
    <2> QED
      BY <2>1 DEF Snapshot, Snapshots
  <1>4. /\ \A i \in DOMAIN w.units : us[i] = UnitSnapshot(w.units[i])
        /\ \A i \in DOMAIN w.buildings : bs[i] = BuildingSnapshot(w.buildings[i])
    OBVIOUS
  <1> HIDE DEF us, bs
  <1> QED
    BY <1>1, <1>2, <1>3, <1>4, WorldFacts DEF View, Exact

\* What a delta does to one kind of entity: some are sent, some are gone, and
\* the others are as the client had them.
DeltaOf(T, sentNow, old, gone, new) ==
    /\ new \in PFun(T) /\ DOMAIN new = (DOMAIN sentNow \cup DOMAIN old) \ gone
    /\ \A i \in DOMAIN sentNow \ gone : new[i] = sentNow[i]
    /\ \A i \in DOMAIN old \ gone : i \notin DOMAIN sentNow => new[i] = old[i]

\* Applying a delta to the entities of one kind.
LEMMA DeltaMap ==
    ASSUME NEW T, NEW sentNow \in PFun(T), NEW old \in PFun(T), NEW gone, NEW new,
           Is(new, Erase(Merge(sentNow, old), gone))
    PROVE  DeltaOf(T, sentNow, old, gone, new)
  <1> DEFINE m == Merge(sentNow, old)
             D == DOMAIN sentNow \cup DOMAIN old
  <1>1. /\ DOMAIN sentNow \in SUBSET Nat /\ DOMAIN old \in SUBSET Nat
        /\ \A i \in DOMAIN sentNow : sentNow[i] \in T
        /\ \A i \in DOMAIN old : old[i] \in T
    BY MapFacts
  <1>2. m = [i \in D |-> IF i \in DOMAIN sentNow THEN sentNow[i] ELSE old[i]] /\ D \in SUBSET Nat
    BY <1>1 DEF Merge
  <1>3. m \in [D -> T]
    BY <1>1, <1>2
  <1>4. new = Erase(m, gone)
    BY DEF Is
  <1>5. /\ \A i \in DOMAIN sentNow : m[i] = sentNow[i]
        /\ \A i \in DOMAIN old : i \notin DOMAIN sentNow => m[i] = old[i]
    BY <1>2
  <1> HIDE DEF m
  <1>6. m \in PFun(T) /\ DOMAIN m = D
    BY <1>2, <1>3, MapIntro
  <1>7. /\ new \in PFun(T) /\ DOMAIN new = DOMAIN m \ gone
        /\ \A i \in DOMAIN m \ gone : new[i] = m[i]
    BY <1>4, <1>6, EraseFacts
  <1> QED
    BY <1>5, <1>6, <1>7 DEF DeltaOf

\* A delta that has all that changed makes the view exact.
LEMMA WithDeltaFacts ==
    ASSUME NEW v \in View, NEW w \in World, Consistent(w)
    PROVE  WithDelta(v, w) \in View /\ (Covered(v, w, {}) => Exact(WithDelta(v, w), w))
  <1> DEFINE M == w.spawned \cup w.dirty
             us == [i \in M \cap DOMAIN w.units |-> UnitSnapshot(w.units[i])]
             bs == [i \in M \cap DOMAIN w.buildings |-> BuildingSnapshot(w.buildings[i])]
             fs == Restrict(w.fields, w.spawned \cap DOMAIN w.fields)
             ds == Restrict(w.drops, w.spawned \cap DOMAIN w.drops)
             gone == w.despawned
             units == Erase(Merge(us, v.units), gone)
             buildings == Erase(Merge(bs, v.buildings), gone)
             fields == Erase(Merge(fs, v.fields), gone)
             drops == Erase(Merge(ds, v.drops), gone)
             res == [u \in Uids |-> IF u \in w.resource_dirty THEN w.player_res[u]
                                    ELSE v.player_res[u]]
             x == WithDelta(v, w)
  <1>1. /\ v.units \in PFun(UnitShot) /\ v.buildings \in PFun(BuildingShot)
        /\ v.fields \in PFun(Heap) /\ v.drops \in PFun(Heap) /\ v.player_res \in [Uids -> Account]
    BY DEF View
  <1>2. us \in PFun(UnitShot) /\ DOMAIN us = M \cap DOMAIN w.units
    <2>1. M \cap DOMAIN w.units \in SUBSET Nat /\ us \in [M \cap DOMAIN w.units -> UnitShot]
      BY WorldFacts, ShotFacts
    <2> HIDE DEF us
    <2> QED
      BY <2>1, MapIntro
  <1>3. bs \in PFun(BuildingShot) /\ DOMAIN bs = M \cap DOMAIN w.buildings
    <2>1. /\ M \cap DOMAIN w.buildings \in SUBSET Nat
          /\ bs \in [M \cap DOMAIN w.buildings -> BuildingShot]
      BY WorldFacts, ShotFacts
    <2> HIDE DEF bs
    <2> QED
      BY <2>1, MapIntro
  <1>4. fs \in PFun(Heap) /\ DOMAIN fs = w.spawned \cap DOMAIN w.fields
    <2>1. /\ w.spawned \cap DOMAIN w.fields \in SUBSET Nat
          /\ fs \in [w.spawned \cap DOMAIN w.fields -> Heap]
      BY WorldFacts DEF Restrict
    <2> HIDE DEF fs
    <2> QED
      BY <2>1, MapIntro
  <1>5. ds \in PFun(Heap) /\ DOMAIN ds = w.spawned \cap DOMAIN w.drops
    <2>1. /\ w.spawned \cap DOMAIN w.drops \in SUBSET Nat
          /\ ds \in [w.spawned \cap DOMAIN w.drops -> Heap]
      BY WorldFacts DEF Restrict
    <2> HIDE DEF ds
    <2> QED
      BY <2>1, MapIntro
  <1>6. x = [units |-> units, buildings |-> buildings, fields |-> fields, drops |-> drops,
             player_res |-> res]
    BY DEF WithDelta, Snapshots
  <1>7. /\ \A i \in DOMAIN us : us[i] = UnitSnapshot(w.units[i])
        /\ \A i \in DOMAIN bs : bs[i] = BuildingSnapshot(w.buildings[i])
    BY <1>2, <1>3
  <1>8. /\ Is(units, Erase(Merge(us, v.units), gone))
        /\ Is(buildings, Erase(Merge(bs, v.buildings), gone))
        /\ Is(fields, Erase(Merge(fs, v.fields), gone))
        /\ Is(drops, Erase(Merge(ds, v.drops), gone))
    BY DEF Is
  <1>9. res \in [Uids -> Account]
    BY <1>1, WorldFacts
  <1> HIDE DEF us, bs, fs, ds, units, buildings, fields, drops, x
  <1>16. /\ DeltaOf(UnitShot, us, v.units, gone, units)
         /\ DeltaOf(BuildingShot, bs, v.buildings, gone, buildings)
         /\ DeltaOf(Heap, fs, v.fields, gone, fields) /\ DeltaOf(Heap, ds, v.drops, gone, drops)
    <2> HIDE DEF gone
    <2> QED
      BY <1>1, <1>2, <1>3, <1>4, <1>5, <1>8, DeltaMap
  <1>10. /\ units \in PFun(UnitShot) /\ DOMAIN units = (DOMAIN us \cup DOMAIN v.units) \ gone
         /\ \A i \in DOMAIN us \ gone : units[i] = us[i]
         /\ \A i \in DOMAIN v.units \ gone : i \notin DOMAIN us => units[i] = v.units[i]
    BY <1>16 DEF DeltaOf
  <1>11. /\ buildings \in PFun(BuildingShot)
         /\ DOMAIN buildings = (DOMAIN bs \cup DOMAIN v.buildings) \ gone
         /\ \A i \in DOMAIN bs \ gone : buildings[i] = bs[i]
         /\ \A i \in DOMAIN v.buildings \ gone : i \notin DOMAIN bs => buildings[i] = v.buildings[i]
    BY <1>16 DEF DeltaOf
  <1>12. fields \in PFun(Heap) /\ DOMAIN fields = (DOMAIN fs \cup DOMAIN v.fields) \ gone
    BY <1>16 DEF DeltaOf
  <1>13. drops \in PFun(Heap) /\ DOMAIN drops = (DOMAIN ds \cup DOMAIN v.drops) \ gone
    BY <1>16 DEF DeltaOf
  <1>14. x \in View
    <2> HIDE DEF res
    <2> QED
      BY <1>6, <1>9, <1>10, <1>11, <1>12, <1>13 DEF View
  <1>15. ASSUME Covered(v, w, {})
         PROVE  Exact(x, w)
    <2>1. /\ gone \cap DOMAIN w.units = {} /\ gone \cap DOMAIN w.buildings = {}
          /\ gone \cap DOMAIN w.fields = {} /\ gone \cap DOMAIN w.drops = {}
      BY DEF Consistent
    <2>2. DOMAIN units = DOMAIN w.units
      BY <1>2, <1>10, <1>15, <2>1 DEF Covered
    <2>3. ASSUME NEW i \in DOMAIN w.units
          PROVE  units[i] = UnitSnapshot(w.units[i])
      BY <1>2, <1>7, <1>10, <1>15, <2>1 DEF Covered
    <2>4. DOMAIN buildings = DOMAIN w.buildings
      BY <1>3, <1>11, <1>15, <2>1 DEF Covered
    <2>5. ASSUME NEW i \in DOMAIN w.buildings
          PROVE  buildings[i] = BuildingSnapshot(w.buildings[i])
      BY <1>3, <1>7, <1>11, <1>15, <2>1 DEF Covered
    <2>6. DOMAIN fields = DOMAIN w.fields /\ DOMAIN drops = DOMAIN w.drops
      BY <1>4, <1>5, <1>12, <1>13, <1>15, <2>1 DEF Covered
    <2>7. \A uid \in Uids : res[uid] = w.player_res[uid]
      BY <1>15 DEF Covered
    <2> HIDE DEF res
    <2> QED
      BY <1>6, <2>2, <2>3, <2>4, <2>5, <2>6, <2>7 DEF Exact
  <1> QED
    BY <1>14, <1>15 DEF x

\* An exact view is what the run compares.
LEMMA KnownRecord ==
    ASSUME NEW a, NEW b, NEW f, NEW d, NEW p
    PROVE  KnownWorld([units |-> a, buildings |-> b, fields |-> f, drops |-> d, player_res |-> p]) =
           [units |-> a, buildings |-> b, fields |-> DOMAIN f, drops |-> DOMAIN d, player_res |-> p]
  <1> DEFINE r == [units |-> a, buildings |-> b, fields |-> f, drops |-> d, player_res |-> p]
             x == DOMAIN f
             y == DOMAIN d
             r1 == [units |-> a, buildings |-> b, fields |-> x, drops |-> d, player_res |-> p]
  <1>1. r.fields = f /\ r.drops = d
    OBVIOUS
  <1> HIDE DEF x, y
  <1>2. [r EXCEPT !.fields = x] = r1
    <2>1. r \in [units : {a}, buildings : {b}, fields : {f, x}, drops : {d}, player_res : {p}]
      OBVIOUS
    <2> HIDE DEF r
    <2> QED
      BY <2>1
  <1>3. [r1 EXCEPT !.drops = y] =
        [units |-> a, buildings |-> b, fields |-> x, drops |-> y, player_res |-> p]
    <2>1. r1 \in [units : {a}, buildings : {b}, fields : {x}, drops : {d, y}, player_res : {p}]
      OBVIOUS
    <2> HIDE DEF r1
    <2> QED
      BY <2>1
  <1> HIDE DEF r, r1
  <1>4. KnownWorld(r) = [[r EXCEPT !.fields = DOMAIN r.fields] EXCEPT !.drops = DOMAIN r.drops]
    BY DEF KnownWorld
  <1> QED
    BY <1>1, <1>2, <1>3, <1>4 DEF r, x, y

\* Maps with the same entries are equal.
LEMMA SameMap ==
    ASSUME NEW T, NEW f \in PFun(T), NEW g \in PFun(T), DOMAIN f = DOMAIN g,
           \A i \in DOMAIN f : f[i] = g[i]
    PROVE  f = g
  <1>1. f \in [DOMAIN f -> T] /\ g \in [DOMAIN g -> T]
    BY MapFacts
  <1> QED
    BY <1>1

\* An exact view is what ViewFollowsWorld asks for.
LEMMA ExactIsKnown ==
    ASSUME NEW v \in View, NEW w \in World, Exact(v, w)
    PROVE  KnownWorld(v) = KnownWorld(Snapshot(w))
  <1> DEFINE s == Snapshot(w)
  <1>1. s \in View /\ Exact(s, w)
    BY SnapshotFacts
  <1> HIDE DEF s
  <1>2. ASSUME NEW t \in View
        PROVE  /\ t = [units |-> t.units, buildings |-> t.buildings, fields |-> t.fields,
                       drops |-> t.drops, player_res |-> t.player_res]
               /\ t.units \in PFun(UnitShot) /\ t.buildings \in PFun(BuildingShot)
               /\ t.player_res \in [Uids -> Account]
    BY DEF View
  <1>3. v.units = s.units
    <2> DEFINE f == v.units
               g == s.units
    <2>1. f \in PFun(UnitShot) /\ g \in PFun(UnitShot)
      BY <1>1, <1>2
    <2>2. DOMAIN f = DOMAIN g /\ \A i \in DOMAIN f : f[i] = g[i]
      BY <1>1 DEF Exact
    <2> HIDE DEF f, g
    <2>3. f = g
      BY <2>1, <2>2, SameMap
    <2> QED
      BY <2>3 DEF f, g
  <1>4. v.buildings = s.buildings
    <2> DEFINE f == v.buildings
               g == s.buildings
    <2>1. f \in PFun(BuildingShot) /\ g \in PFun(BuildingShot)
      BY <1>1, <1>2
    <2>2. DOMAIN f = DOMAIN g /\ \A i \in DOMAIN f : f[i] = g[i]
      BY <1>1 DEF Exact
    <2> HIDE DEF f, g
    <2>3. f = g
      BY <2>1, <2>2, SameMap
    <2> QED
      BY <2>3 DEF f, g
  <1>5. v.player_res = s.player_res
    <2> DEFINE f == v.player_res
               g == s.player_res
    <2>1. f \in [Uids -> Account] /\ g \in [Uids -> Account]
      BY <1>1, <1>2
    <2>2. \A i \in Uids : f[i] = g[i]
      BY <1>1 DEF Exact
    <2> HIDE DEF f, g
    <2>3. f = g
      BY <2>1, <2>2
    <2> QED
      BY <2>3 DEF f, g
  <1>6. DOMAIN v.fields = DOMAIN s.fields /\ DOMAIN v.drops = DOMAIN s.drops
    BY <1>1 DEF Exact
  <1>7. ASSUME NEW t \in View
        PROVE  KnownWorld(t) = [units |-> t.units, buildings |-> t.buildings,
                                fields |-> DOMAIN t.fields, drops |-> DOMAIN t.drops,
                                player_res |-> t.player_res]
    <2> DEFINE a == t.units
               b == t.buildings
               f == t.fields
               d == t.drops
               p == t.player_res
    <2>1. t = [units |-> a, buildings |-> b, fields |-> f, drops |-> d, player_res |-> p]
      BY <1>2
    <2> HIDE DEF a, b, f, d, p
    <2>2. KnownWorld(t) = [units |-> a, buildings |-> b, fields |-> DOMAIN f,
                           drops |-> DOMAIN d, player_res |-> p]
      BY <2>1, KnownRecord
    <2> QED
      BY <2>2 DEF a, b, f, d, p
  <1>8. KnownWorld(v) = KnownWorld(s)
    BY <1>1, <1>3, <1>4, <1>5, <1>6, <1>7
  <1> QED
    BY <1>8 DEF s

-----------------------------------------------------------------------------
(* The first world.                                                        *)

\* Worlds on which all that stands has health; what the client has is not in
\* question yet.
Founded == {w \in Good(0, FALSE, {}) : Alive(w)}

\* What is spawned has health.
LEMMA SpawnedIsFounded ==
    ASSUME NEW w \in Founded, NEW x \in Good(0, FALSE, {}),
           UnitAdded(w, x) \/ BuildingAdded(w, x) \/ FieldAdded(w, x)
    PROVE  x \in Founded
  BY DEF Founded, Alive, UnitAdded, BuildingAdded, FieldAdded, Grown

\* The villagers next to a crystal.
Villagers(w, u) == FoldSet(LAMBDA i, y : SpawnUnit(y, u, FALSE), w, 1 .. kStartUnitsPerPlayer)

\* The villagers are spawned one after the other.
LEMMA VillagersFounded ==
    ASSUME NEW w \in Founded, NEW u \in Uids
    PROVE  Villagers(w, u) \in Founded
  <1> DEFINE S == 1 .. kStartUnitsPerPlayer
             W == Founded
             R == (SUBSET S) \X W
             Op(s, y) == SpawnUnit(y, u, FALSE)
             step == [p \in (SUBSET S) \X W |-> Op(p[1], p[2])]
             Fold(h) == h = [s \in SUBSET S |-> IF s = {} THEN w ELSE Op(s, h[Rest(s)])]
             fold == CHOOSE h : Fold(h)
  <1>1. IsFiniteSet(S) /\ w \in W
    <2>1. 1 \in Int /\ kStartUnitsPerPlayer \in Int
      BY RoomNumbers
    <2> QED
      BY <2>1, FS_Interval
  <1>2. ASSUME NEW s \in SUBSET S, s # {}, NEW y \in W
        PROVE  Op(s, y) \in W
    <2> DEFINE z == SpawnUnit(y, u, FALSE)
    <2>1. Is(z, SpawnUnit(y, u, FALSE)) /\ y \in Good(0, FALSE, {}) /\ FALSE \in BOOLEAN
      BY DEF Is, Founded
    <2> HIDE DEF z
    <2>2. z \in Good(0, FALSE, {}) /\ UnitAdded(y, z)
      BY <2>1, SpawnUnitGood
    <2>3. z \in Founded
      BY <2>2, SpawnedIsFounded
    <2> QED
      BY <2>3 DEF z
  <1> HIDE DEF W, Op
  <1>3. ASSUME NEW s \in SUBSET S, s # {}, NEW y \in W
        PROVE  step[<<s, y>>] = Op(s, y) /\ step[<<s, y>>] \in W
    BY <1>2, <1>3
  <1>4. PICK g : IsFold(g, S, w, step) /\ \A s \in SUBSET S : <<s, g[s]>> \in R
    <2>1. /\ <<{}, w>> \in R /\ R \in SUBSET ((SUBSET S) \X W)
          /\ StepsKeep(R, S, W, step)
      BY <1>1, <1>3 DEF StepsKeep
    <2> HIDE DEF R, step, S
    <2>2. \E g : FoldIn(R, g, S, w, step)
      BY <1>1, <2>1, FoldExists
    <2> QED
      BY <2>2 DEF FoldIn
  <1> HIDE DEF S
  <1>5. Fold(g)
    <2>1. \A s \in SUBSET S : s # {} => Rest(s) \in SUBSET S /\ g[Rest(s)] \in W
      BY <1>1, <1>4, RestFacts
    <2>2. \A s \in SUBSET S : s # {} => step[<<s, g[Rest(s)]>>] = Op(s, g[Rest(s)])
      BY <1>3, <2>1
    <2> HIDE DEF step
    <2> QED
      BY <1>4, <2>2 DEF IsFold
  <1>6. Fold(fold)
    <2> HIDE DEF Fold
    <2> QED
      BY <1>5
  <1>7. fold[S] = g[S]
    <2> HIDE DEF fold
    <2>1. /\ fold[{}] = g[{}]
          /\ \A s \in SUBSET S : s # {} /\ fold[Rest(s)] = g[Rest(s)] => fold[s] = g[s]
      BY <1>5, <1>6
    <2> QED
      BY <1>1, <2>1, SameFold
  <1>8. Villagers(w, u) = fold[S]
    BY DEF Villagers, FoldSet, MapThenFoldSet, Op, Rest, Pick, S
  <1> QED
    BY <1>4, <1>7, <1>8 DEF W

\* The fields next to a crystal.
Lands(w, u) == FoldFunction(LAMBDA f, y : SpawnResourceField(y, f), w, Fields[u])

\* The fields are spawned one after the other.
LEMMA LandsFounded ==
    ASSUME NEW w \in Founded, NEW u \in Uids
    PROVE  Lands(w, u) \in Founded
  <1> DEFINE S == DOMAIN Fields[u]
             W == Founded
             R == (SUBSET S) \X W
             Op(s, y) == SpawnResourceField(y, Fields[u][Pick(s)])
             step == [p \in (SUBSET S) \X W |-> Op(p[1], p[2])]
             Fold(h) == h = [s \in SUBSET S |-> IF s = {} THEN w ELSE Op(s, h[Rest(s)])]
             fold == CHOOSE h : Fold(h)
  <1>1. IsFiniteSet(S) /\ w \in W
    <2>1. Fields[u] \in Seq(Heap)
      BY RoomData DEF Heap
    <2>2. S = 1 .. Len(Fields[u]) /\ Len(Fields[u]) \in Int /\ 1 \in Int
      BY <2>1
    <2>3. IsFiniteSet(1 .. Len(Fields[u]))
      BY <2>2, FS_Interval
    <2> QED
      BY <2>2, <2>3
  <1>2. ASSUME NEW s \in SUBSET S, s # {}, NEW y \in W
        PROVE  Op(s, y) \in W
    <2> DEFINE f == Fields[u][Pick(s)]
               z == SpawnResourceField(y, f)
    <2>1. Fields[u] \in Seq(Heap)
      BY RoomData DEF Heap
    <2>2. Pick(s) \in S
      BY <1>2 DEF Pick
    <2>3. f \in Heap
      BY <2>1, <2>2
    <2>4. Is(z, SpawnResourceField(y, f)) /\ y \in Good(0, FALSE, {})
      BY DEF Is, Founded
    <2> HIDE DEF z, f
    <2>5. z \in Good(0, FALSE, {}) /\ FieldAdded(y, z)
      BY <2>3, <2>4, SpawnResourceFieldGood
    <2>6. z \in Founded
      BY <2>5, SpawnedIsFounded
    <2> QED
      BY <2>6 DEF z, f
  <1> HIDE DEF W, Op
  <1>3. ASSUME NEW s \in SUBSET S, s # {}, NEW y \in W
        PROVE  step[<<s, y>>] = Op(s, y) /\ step[<<s, y>>] \in W
    BY <1>2, <1>3
  <1>4. PICK g : IsFold(g, S, w, step) /\ \A s \in SUBSET S : <<s, g[s]>> \in R
    <2>1. /\ <<{}, w>> \in R /\ R \in SUBSET ((SUBSET S) \X W)
          /\ StepsKeep(R, S, W, step)
      BY <1>1, <1>3 DEF StepsKeep
    <2> HIDE DEF R, step, S
    <2>2. \E g : FoldIn(R, g, S, w, step)
      BY <1>1, <2>1, FoldExists
    <2> QED
      BY <2>2 DEF FoldIn
  <1> HIDE DEF S
  <1>5. Fold(g)
    <2>1. \A s \in SUBSET S : s # {} => Rest(s) \in SUBSET S /\ g[Rest(s)] \in W
      BY <1>1, <1>4, RestFacts
    <2>2. \A s \in SUBSET S : s # {} => step[<<s, g[Rest(s)]>>] = Op(s, g[Rest(s)])
      BY <1>3, <2>1
    <2> HIDE DEF step
    <2> QED
      BY <1>4, <2>2 DEF IsFold
  <1>6. Fold(fold)
    <2> HIDE DEF Fold
    <2> QED
      BY <1>5
  <1>7. fold[S] = g[S]
    <2> HIDE DEF fold
    <2>1. /\ fold[{}] = g[{}]
          /\ \A s \in SUBSET S : s # {} /\ fold[Rest(s)] = g[Rest(s)] => fold[s] = g[s]
      BY <1>5, <1>6
    <2> QED
      BY <1>1, <2>1, SameFold
  <1>8. Lands(w, u) = fold[S]
    BY DEF Lands, FoldFunction, FoldFunctionOnSet, MapThenFoldSet, Op, Rest, Pick, S
  <1> QED
    BY <1>4, <1>7, <1>8 DEF W

\* What one player has at the beginning.
Base(w, u) == Lands(Villagers(SpawnBuilding(w, u, "crystal", FALSE), u), u)

\* One player's crystal, villagers and fields.
LEMMA BaseFounded ==
    ASSUME NEW w \in Founded, NEW u \in Uids
    PROVE  Base(w, u) \in Founded
  <1> DEFINE y == SpawnBuilding(w, u, "crystal", FALSE)
  <1>1. /\ Is(y, SpawnBuilding(w, u, "crystal", FALSE)) /\ w \in Good(0, FALSE, {})
        /\ "crystal" \in BuildingTypes /\ FALSE \in BOOLEAN
    BY DEF Is, Founded, BuildingTypes
  <1>2. Base(w, u) = Lands(Villagers(y, u), u)
    BY DEF Base
  <1> HIDE DEF y
  <1>3. y \in Good(0, FALSE, {}) /\ BuildingAdded(w, y)
    BY <1>1, SpawnBuildingGood
  <1>4. y \in Founded
    BY <1>3, SpawnedIsFounded
  <1>5. Villagers(y, u) \in Founded
    BY <1>4, VillagersFounded
  <1> QED
    BY <1>2, <1>5, LandsFounded

\* All players, from a world.
Bases(w, U) == FoldSet(LAMBDA u, y : Base(y, u), w, U)

\* And so for every player.
LEMMA BasesFounded ==
    ASSUME NEW w \in Founded, NEW U, U = Uids
    PROVE  Bases(w, U) \in Founded
  <1> DEFINE S == U
             W == Founded
             R == (SUBSET S) \X W
             Op(s, y) == Base(y, Pick(s))
             step == [p \in (SUBSET S) \X W |-> Op(p[1], p[2])]
             Fold(h) == h = [s \in SUBSET S |-> IF s = {} THEN w ELSE Op(s, h[Rest(s)])]
             fold == CHOOSE h : Fold(h)
  <1>1. IsFiniteSet(S) /\ w \in W
    BY RoomData
  <1>2. ASSUME NEW s \in SUBSET S, s # {}, NEW y \in W
        PROVE  Op(s, y) \in W
    <2>1. Pick(s) \in Uids
      BY <1>2 DEF Pick
    <2> QED
      BY <2>1, BaseFounded
  <1> HIDE DEF W, Op
  <1>3. ASSUME NEW s \in SUBSET S, s # {}, NEW y \in W
        PROVE  step[<<s, y>>] = Op(s, y) /\ step[<<s, y>>] \in W
    BY <1>2, <1>3
  <1>4. PICK g : IsFold(g, S, w, step) /\ \A s \in SUBSET S : <<s, g[s]>> \in R
    <2>1. /\ <<{}, w>> \in R /\ R \in SUBSET ((SUBSET S) \X W)
          /\ StepsKeep(R, S, W, step)
      BY <1>1, <1>3 DEF StepsKeep
    <2> HIDE DEF R, step, S
    <2>2. \E g : FoldIn(R, g, S, w, step)
      BY <1>1, <2>1, FoldExists
    <2> QED
      BY <2>2 DEF FoldIn
  <1> HIDE DEF S
  <1>5. Fold(g)
    <2>1. \A s \in SUBSET S : s # {} => Rest(s) \in SUBSET S /\ g[Rest(s)] \in W
      BY <1>1, <1>4, RestFacts
    <2>2. \A s \in SUBSET S : s # {} => step[<<s, g[Rest(s)]>>] = Op(s, g[Rest(s)])
      BY <1>3, <2>1
    <2> HIDE DEF step
    <2> QED
      BY <1>4, <2>2 DEF IsFold
  <1>6. Fold(fold)
    <2> HIDE DEF Fold
    <2> QED
      BY <1>5
  <1>7. fold[S] = g[S]
    <2> HIDE DEF fold
    <2>1. /\ fold[{}] = g[{}]
          /\ \A s \in SUBSET S : s # {} /\ fold[Rest(s)] = g[Rest(s)] => fold[s] = g[s]
      BY <1>5, <1>6
    <2> QED
      BY <1>1, <2>1, SameFold
  <1>8. Bases(w, U) = fold[S]
    BY DEF Bases, FoldSet, MapThenFoldSet, Op, Rest, Pick, S
  <1> QED
    BY <1>4, <1>7, <1>8 DEF W

\* The world of the lobby.
LEMMA EmptyWorldFacts ==
    EmptyWorld \in World /\ Consistent(EmptyWorld) /\ EmptyWorld \in Founded
  <1>1. EmptyMap = [i \in {} |-> i] /\ DOMAIN EmptyMap = {}
    BY DEF EmptyMap, Restrict
  <1>2. \A T : EmptyMap \in PFun(T)
    <2> SUFFICES ASSUME NEW T PROVE EmptyMap \in PFun(T)
      OBVIOUS
    <2>1. {} \in SUBSET Nat /\ EmptyMap \in [{} -> T]
      BY <1>1
    <2> QED
      BY <2>1, MapIntro
  <1> DEFINE res == [u \in Uids |-> [food |-> 0, wood |-> 0, gold |-> 0]]
             m == EmptyMap
  <1>3. res \in [Uids -> Account]
    BY DEF Account
  <1> HIDE DEF res, m
  <1>4. EmptyWorld = [units |-> m, buildings |-> m, fields |-> m, drops |-> m,
                      player_res |-> res, next_entity_id |-> 1, dirty |-> {}, spawned |-> {},
                      despawned |-> {}, resource_dirty |-> {}]
    BY DEF EmptyWorld, res, m
  <1>5. EmptyWorld \in World
    BY <1>2, <1>3, <1>4 DEF World, m
  <1>6. Consistent(EmptyWorld)
    BY <1>1, <1>4 DEF Consistent, m
  <1>7. Alive(EmptyWorld)
    BY <1>1, <1>4 DEF Alive, m
  <1> QED
    BY <1>5, <1>6, <1>7 DEF Founded, Good

\* The world the battle begins with.
LEMMA BeginBattleFacts ==
    BeginBattle \in World /\ Consistent(BeginBattle) /\ Alive(BeginBattle)
  <1> DEFINE w == SpawnInitialUnits
             res == [u \in Uids |-> [food |-> kStartFood, wood |-> kStartWood,
                                     gold |-> kStartGold]]
             x == BeginBattle
  <1>1. w = Bases(EmptyWorld, Uids)
    BY DEF SpawnInitialUnits, Bases, Base, Lands, Villagers
  <1>2. w \in Founded
    <2>1. Bases(EmptyWorld, Uids) \in Founded
      BY EmptyWorldFacts, BasesFounded
    <2> QED
      BY <1>1, <2>1
  <1>3. res \in [Uids -> Account]
    BY RoomNumbers DEF Account
  <1>4. x = [w EXCEPT !.player_res = res, !.resource_dirty = Uids]
    BY DEF BeginBattle
  <1> HIDE DEF w, res, x
  <1>5. w \in World /\ Consistent(w) /\ Alive(w)
    BY <1>2 DEF Founded, Good
  <1>6. x \in World
    BY <1>3, <1>4, <1>5 DEF World
  <1>7. /\ x.units = w.units /\ x.buildings = w.buildings /\ x.fields = w.fields
        /\ x.drops = w.drops /\ x.next_entity_id = w.next_entity_id /\ x.despawned = w.despawned
    BY <1>4, <1>5 DEF World
  <1>8. Consistent(x) /\ Alive(x)
    BY <1>5, <1>7 DEF Consistent, Alive, Ids
  <1> QED
    BY <1>6, <1>8 DEF x

-----------------------------------------------------------------------------
(* The invariant.                                                          *)

\* The lobby.
LEMMA InitGood == RoomInit => RoomInv
  <1> SUFFICES ASSUME RoomInit PROVE RoomInv
    OBVIOUS
  <1>1. /\ world = EmptyWorld /\ view = Snapshot(EmptyWorld) /\ phase = "lobby" /\ pending = <<>>
        /\ in_sync = TRUE
    BY DEF RoomInit
  <1>2. view \in View /\ Exact(view, world) /\ world \in World /\ Consistent(world)
    BY <1>1, EmptyWorldFacts, SnapshotFacts
  <1>3. Covered(view, world, {})
    BY <1>2 DEF Exact, Covered
  <1>4. <<>> \in Seq(Command)
    OBVIOUS
  <1> QED
    BY <1>1, <1>2, <1>3, <1>4 DEF RoomInv, Good

\* The battle begins with a full snapshot.
LEMMA StartBattleKeeps ==
    ASSUME RoomInv, StartBattle
    PROVE  RoomInv'
  <1> DEFINE w == BeginBattle
  <1>1. /\ phase' = "idle" /\ Is(world', ClearFrameChanges(w)) /\ view' = Snapshot(w)
        /\ pending' = pending /\ in_sync' = in_sync
    BY DEF StartBattle, Is
  <1> HIDE DEF w
  <1>2. w \in World /\ Consistent(w) /\ Alive(w)
    BY BeginBattleFacts DEF w
  <1>3. view' \in View /\ Exact(view', w)
    BY <1>1, <1>2, SnapshotFacts
  <1>4. /\ world' \in Good(view', in_sync', {}) /\ Unmarked(world') /\ Alive(world')
    BY <1>1, <1>2, <1>3, ClearFrameChangesGood
  <1> QED
    BY <1>1, <1>3, <1>4 DEF RoomInv, Unmarked

\* A command changes nothing but the queue.
LEMMA EnqueueKeeps ==
    ASSUME RoomInv, NEW uid \in Uids, EnqueueCommand(uid)
    PROVE  RoomInv'
  <1>1. PICK c \in ParsedCommands(uid) : pending' = Append(pending, c)
    BY DEF EnqueueCommand
  <1>2. PICK order \in Orders[uid] :
          c \in [type : {order[1]}, aux_type : {order[2]}, owner_uid : {uid},
                 unit_ids : Selections(uid, order[1]), target : Targets(order[1])]
    BY <1>1 DEF ParsedCommands
  <1>3. world \in World
    BY DEF RoomInv, Good
  <1>4. /\ order[1] \in PlainOrders \cup {"Build", "Train"}
        /\ order[2] \in {""} \cup BuildingTypes \cup UnitTypes
        /\ order[1] = "Build" => order[2] \in BuildingTypes
    <2>1. order \in (PlainOrders \X {""}) \cup ({"Build"} \X BuildingTypes)
                    \cup ({"Train"} \X UnitTypes)
      BY RoomData
    <2> QED
      BY <2>1 DEF PlainOrders
  <1>5. c.target \in Nat
    <2> DEFINE type == order[1]
               target == c.target
    <2>1. type \in PlainOrders \cup {"Build", "Train"} /\ target \in Targets(type)
      BY <1>2, <1>4
    <2> HIDE DEF type, target
    <2>2. \/ target = 0 \/ target \in DOMAIN world.units \/ target \in DOMAIN world.buildings
          \/ target \in DOMAIN world.fields \/ target \in DOMAIN world.drops
          \/ target = world.next_entity_id
      BY <2>1 DEF Targets, PlainOrders
    <2>3. /\ DOMAIN world.units \subseteq Nat /\ DOMAIN world.buildings \subseteq Nat
          /\ DOMAIN world.fields \subseteq Nat /\ DOMAIN world.drops \subseteq Nat
          /\ world.next_entity_id \in Nat
      BY <1>3, WorldFacts
    <2> QED
      BY <2>2, <2>3 DEF target
  <1>6. c.unit_ids \in SUBSET Nat
    <2>1. DOMAIN world.units \subseteq Nat
      BY <1>3, WorldFacts
    <2>2. c.unit_ids \in Selections(uid, order[1])
      BY <1>2
    <2>3. c.unit_ids \subseteq DOMAIN world.units
      BY <2>2 DEF Selections
    <2> QED
      BY <2>1, <2>3
  <1>7. c \in Command
    BY <1>2, <1>4, <1>5, <1>6 DEF Command
  <1>8. pending' \in Seq(Command)
    <2>1. pending \in Seq(Command) /\ pending' = Append(pending, c)
      BY <1>1 DEF RoomInv
    <2> QED
      BY <1>7, <2>1
  <1>9. /\ world' = world /\ phase' = phase /\ todo' = todo /\ view' = view
        /\ in_sync' = in_sync
    BY DEF EnqueueCommand, clientVars
  <1> QED
    BY <1>8, <1>9 DEF RoomInv

\* The commands are applied.
LEMMA ApplyPendingKeeps ==
    ASSUME RoomInv, ApplyPending
    PROVE  RoomInv'
  <1> DEFINE w == Applied[Len(pending)]
  <1>1. /\ phase' = "step" /\ world' = w /\ todo' \subseteq DOMAIN w.units
        /\ pending' = <<>> /\ view' = view /\ in_sync' = in_sync
    BY DEF ApplyPending, clientVars
  <1>2. w \in Good(view, in_sync, {})
    BY AppliedGood
  <1> HIDE DEF w
  <1>3. <<>> \in Seq(Command)
    OBVIOUS
  <1> QED
    BY <1>1, <1>2, <1>3 DEF RoomInv

\* One unit's turn.
LEMMA StepKeeps ==
    ASSUME RoomInv, NEW id \in todo, Step(id)
    PROVE  RoomInv'
  <1>1. /\ phase = "step" /\ world' \in StepUnit(world, id) /\ todo' = todo \ {id}
        /\ phase' = phase /\ pending' = pending /\ view' = view /\ in_sync' = in_sync
    BY DEF Step, clientVars
  <1>2. /\ world \in Good(view, in_sync, {})
        /\ id \in DOMAIN world.units /\ todo \subseteq DOMAIN world.units
    BY <1>1 DEF RoomInv
  <1>3. world' \in Stepped(view, in_sync, world)
    BY <1>1, <1>2, StepUnitGood
  <1> QED
    BY <1>1, <1>2, <1>3 DEF RoomInv, Stepped

\* The end of the tick: what the messages carry makes the view exact again, and
\* the marks are taken away.
LEMMA EndTickKeeps ==
    ASSUME RoomInv, EndTick
    PROVE  RoomInv'
  <1> DEFINE b == StepBuildings(world)
             w == RemoveDead(b)
  <1>1. /\ Receive(w, SnapshotDue) /\ Is(world', ClearFrameChanges(w))
        /\ phase' = "idle" /\ pending' = pending
    BY DEF EndTick, Is
  <1>2. Is(b, StepBuildings(world)) /\ Is(w, RemoveDead(b))
    BY DEF Is
  <1> HIDE DEF b, w
  <1>3. view \in View /\ in_sync \in BOOLEAN /\ world \in Good(view, in_sync, {})
    BY DEF RoomInv
  <1>4. b \in Good(view, in_sync, {})
    BY <1>2, <1>3, StepBuildingsGood
  <1>5. w \in Good(view, in_sync, {}) /\ Alive(w)
    BY <1>2, <1>4, RemoveDeadGood
  <1>6. w \in World /\ Consistent(w) /\ (in_sync => Covered(view, w, {}))
    BY <1>5 DEF Good
  <1>7. view' \in View /\ in_sync' \in BOOLEAN /\ (in_sync' => Exact(view', w))
    <2>1. Snapshot(w) \in View /\ Exact(Snapshot(w), w) /\ Snapshot(EmptyWorld) \in View
      BY <1>6, SnapshotFacts, EmptyWorldFacts
    <2>2. WithDelta(view, w) \in View /\ (in_sync => Exact(WithDelta(view, w), w))
      BY <1>3, <1>6, WithDeltaFacts
    <2>3. SnapshotDue \in BOOLEAN
      BY DEF SnapshotDue
    <2>4. CASE /\ view' = IF SnapshotDue THEN Snapshot(w)
                          ELSE IF in_sync THEN WithDelta(view, w) ELSE view
               /\ in_sync' = (in_sync \/ SnapshotDue)
      BY <1>3, <2>1, <2>2, <2>3, <2>4
    <2>5. CASE in_sync' = FALSE /\ view' = Snapshot(EmptyWorld)
      BY <2>1, <2>5
    <2> QED
      BY <1>1, <2>4, <2>5 DEF Receive
  <1>8. /\ world' \in Good(view', in_sync', {}) /\ Unmarked(world') /\ Alive(world')
    BY <1>1, <1>5, <1>6, <1>7, ClearFrameChangesGood
  <1>9. pending \in Seq(Command)
    BY DEF RoomInv
  <1> QED
    BY <1>1, <1>7, <1>8, <1>9 DEF RoomInv, Unmarked

\* Every step of the room keeps the invariant.
LEMMA NextKeeps == RoomInv /\ [RoomNext]_roomVars => RoomInv'
  <1> SUFFICES ASSUME RoomInv, [RoomNext]_roomVars PROVE RoomInv'
    OBVIOUS
  <1>1. CASE StartBattle
    BY <1>1, StartBattleKeeps
  <1>2. CASE ApplyPending
    BY <1>2, ApplyPendingKeeps
  <1>3. CASE EndTick
    BY <1>3, EndTickKeeps
  <1>4. ASSUME NEW id \in todo, Step(id)
        PROVE  RoomInv'
    BY <1>4, StepKeeps
  <1>5. ASSUME NEW uid \in Uids, EnqueueCommand(uid)
        PROVE  RoomInv'
    BY <1>5, EnqueueKeeps
  <1>6. CASE UNCHANGED roomVars
    <2>1. /\ world' = world /\ phase' = phase /\ todo' = todo /\ pending' = pending
          /\ view' = view /\ in_sync' = in_sync
      BY <1>6 DEF roomVars, clientVars
    <2> QED
      BY <2>1 DEF RoomInv
  <1> QED
    BY <1>1, <1>2, <1>3, <1>4, <1>5, <1>6 DEF RoomNext, Tick

\* The inductive invariant: the world is well formed, and at all times, within a
\* tick too, what differs between it and the view of a client in sync is marked
\* in dirty, spawned, despawned or resource_dirty.
THEOREM RoomInvariant == RoomSpec => []RoomInv
  <1>1. RoomInit => RoomInv
    BY InitGood
  <1>2. RoomInv /\ [RoomNext]_roomVars => RoomInv'
    BY NextKeeps
  <1> QED
    BY <1>1, <1>2, PTL DEF RoomSpec

\* The type invariant of the runs follows.
LEMMA InvGivesType == RoomInv => RoomTypeOK
  <1> SUFFICES ASSUME RoomInv PROVE RoomTypeOK
    OBVIOUS
  <1>1. phase \in {"lobby", "idle", "step"} /\ in_sync \in BOOLEAN
    BY DEF RoomInv
  <1>2. world \in World /\ Consistent(world) /\ (phase = "idle" => Alive(world))
    BY DEF RoomInv, Good
  <1>3. ASSUME NEW i \in DOMAIN world.units
        PROVE  LET u == world.units[i] IN
               /\ u.hp \in (IF phase = "idle" THEN 1 ELSE 0) .. UnitStrikes
               /\ u.carried_amount \in 0 .. kVillagerCarryCapacity /\ u.carried_raw \in Raws
               /\ u.task \in Tasks /\ (u.attack_target # 0 => u.task = "None")
    <2> DEFINE u == world.units[i]
    <2>1. u \in Unit /\ (phase = "idle" => u.hp >= 1)
      BY <1>2, WorldFacts DEF Alive
    <2> HIDE DEF u
    <2>2. u.hp \in (IF phase = "idle" THEN 1 ELSE 0) .. UnitStrikes
      BY <2>1, UnitFields, RoomNumbers
    <2>3. /\ u.carried_amount \in 0 .. kVillagerCarryCapacity /\ u.carried_raw \in Raws
          /\ u.task \in Tasks /\ (u.attack_target # 0 => u.task = "None")
      BY <2>1, UnitFields
    <2> QED
      BY <2>2, <2>3 DEF u
  <1>4. ASSUME NEW i \in DOMAIN world.buildings
        PROVE  LET b == world.buildings[i] IN
               /\ b.hp \in (IF phase = "idle" THEN 1 ELSE 0) .. MaxHp(b.type)
               /\ b.under_construction <=> b.built < ConstructTicks
               /\ b.train_queue \in Seq(1 .. TrainTicks)
    <2> DEFINE b == world.buildings[i]
    <2>1. b \in Building /\ (phase = "idle" => b.hp >= 1)
      BY <1>2, WorldFacts DEF Alive
    <2> HIDE DEF b
    <2>2. b.hp \in (IF phase = "idle" THEN 1 ELSE 0) .. MaxHp(b.type)
      BY <2>1, BuildingFields, MaxHpFacts
    <2>3. /\ b.under_construction <=> b.built < ConstructTicks
          /\ b.train_queue \in Seq(1 .. TrainTicks)
      BY <2>1, BuildingFields
    <2> QED
      BY <2>2, <2>3 DEF b
  <1>5. \A u \in Uids : \A r \in DOMAIN world.player_res[u] : world.player_res[u][r] \in Nat
    <2>1. world.player_res \in [Uids -> Account]
      BY <1>2, WorldFacts
    <2>2. \A a \in Account : \A r \in DOMAIN a : a[r] \in Nat
      BY DEF Account
    <2> QED
      BY <2>1, <2>2
  <1>6. LET kinds == <<world.units, world.buildings, world.fields, world.drops>> IN
        \A k, l \in 1 .. 4 : /\ DOMAIN kinds[k] \subseteq 1 .. world.next_entity_id - 1
                             /\ k # l => DOMAIN kinds[k] \cap DOMAIN kinds[l] = {}
    <2> DEFINE kinds == <<world.units, world.buildings, world.fields, world.drops>>
               D == <<DOMAIN world.units, DOMAIN world.buildings, DOMAIN world.fields,
                      DOMAIN world.drops>>
    <2>1. \A k \in 1 .. 4 : DOMAIN kinds[k] = D[k]
      OBVIOUS
    <2>2. \A k, l \in 1 .. 4 : /\ D[k] \subseteq 1 .. world.next_entity_id - 1
                               /\ k # l => D[k] \cap D[l] = {}
      BY <1>2 DEF Consistent, Ids
    <2> QED
      BY <2>1, <2>2
  <1> QED
    BY <1>1, <1>3, <1>4, <1>5, <1>6 DEF RoomTypeOK

\* No worker ever carries more than its capacity, nothing that stands between
\* two ticks is without health, a foundation has work left, no account goes below
\* zero and no id names two entities (the Spawn and Step functions, ApplyBuild
\* and ApplyTrain): for any players, fields, prices, orders and intervals.
THEOREM RoomTypeCorrect == RoomSpec => []RoomTypeOK
  <1>1. RoomInv => RoomTypeOK
    BY InvGivesType
  <1> QED
    BY <1>1, RoomInvariant, PTL

\* Between ticks nothing is marked, so nothing differs.
LEMMA InvGivesView == RoomInv => ViewFollowsWorld
  <1> SUFFICES ASSUME RoomInv, phase = "idle", in_sync
               PROVE  KnownWorld(view) = KnownWorld(Snapshot(world))
    BY DEF ViewFollowsWorld
  <1>1. /\ view \in View /\ world \in World /\ Consistent(world) /\ Covered(view, world, {})
        /\ Unmarked(world)
    BY DEF RoomInv, Good, Unmarked
  <1>2. Exact(view, world)
    BY <1>1 DEF Covered, Unmarked, Exact
  <1> QED
    BY <1>1, <1>2, ExactIsKnown

\* Between ticks a client that has lost nothing since its last snapshot has the
\* server's units, buildings and accounts, whatever the units and the commands of
\* the tick did: no function of the room that changes an entity forgets its mark
\* (SendDelta, SendFullSnapshot, ClearFrameChanges).
THEOREM ViewAlwaysFollows == RoomSpec => []ViewFollowsWorld
  <1>1. RoomInv => ViewFollowsWorld
    BY InvGivesView
  <1> QED
    BY <1>1, RoomInvariant, PTL
=============================================================================
