---------------------------- MODULE DungeonRoom ----------------------------
(***************************************************************************)
(* The simulation of one battle: commands, economy, fighting, building and *)
(* training, and what a tick sends to the clients.                         *)
(*                                                                         *)
(* A tick runs on the shard's thread without interruption, unit by unit in *)
(* the order of a hash map.  It is a sequence of actions here, one for     *)
(* ApplyPending, one per unit and one for the rest; commands are queued    *)
(* between ticks.  Positions, distances and timers are floating point:     *)
(* whether a unit has arrived, is in range, may strike again or is done    *)
(* waiting is a choice.  Health is counted in strikes.  The world is one   *)
(* record, and the functions of the room that change it map a world to a   *)
(* world.                                                                  *)
(***************************************************************************)
EXTENDS Integers, Sequences, FiniteSets, FiniteSetsExt, Functions, TLC

CONSTANTS
    Uids,                    \* the players
    team,                    \* uid -> team
    Fields,                  \* uid -> sequence of [raw, amount]: fields near its crystal
    kStartUnitsPerPlayer,
    kVillagerCarryCapacity,
    kStartFood, kStartWood, kStartGold,
    UnitStrikes,             \* strikes a unit, a crystal or a building survives
    CrystalStrikes,
    BuildingStrikes,
    UnitPrice,               \* UnitCost: food per unit
    BuildingPrice,           \* BuildingCost: wood per building, by type
    TrainTicks,              \* ticks to train a unit
    ConstructTicks,          \* ticks of one worker to finish a building
    kAggroScanTicks,         \* ticks from one scan for enemies to the next
    kFullSnapshotInterval,
    Orders,                  \* uid -> the commands it gives: <<type, aux_type>>
    MaxPending,              \* bound: commands queued in the room
    MaxCommands,             \* bound: commands in a run
    MaxLosses                \* bound: ticks in a run whose messages are lost

ASSUME RoomNumbers ==
    /\ {kStartUnitsPerPlayer, kStartFood, kStartWood, kStartGold, UnitPrice,
        MaxPending, MaxCommands, MaxLosses} \subseteq Nat
    /\ {kVillagerCarryCapacity, UnitStrikes, CrystalStrikes, BuildingStrikes, TrainTicks,
        ConstructTicks, kAggroScanTicks, kFullSnapshotInterval} \subseteq Nat \ {0}
    /\ kFullSnapshotInterval % kAggroScanTicks = 0

VARIABLES
    world,       \* entities, players' resources and the frame's changes
    phase,       \* "lobby", "idle" between two ticks, "step" in one
    todo,        \* units Step has not come to yet
    pending,     \* pending_
    frame,       \* of this tick: who commanded, who was rejected, the crystals it found
    server_tick, \* server_tick_ modulo kFullSnapshotInterval; aggro_scan_tick_ keeps step
    game_over,
    view,        \* the world as one client has it from the messages it received
    in_sync,     \* no tick's messages were lost since the client's last snapshot
    losses,      \* ticks lost so far
    sent,        \* what the last handler gave to SendToPlayers
    commands     \* commands so far

clientVars == <<view, in_sync, losses>>
roomVars == <<world, phase, todo, pending, frame, server_tick, game_over, clientVars, sent,
              commands>>

-----------------------------------------------------------------------------
(* Entities.  Ids of all kinds come from one counter, 0 is no entity.      *)

Raws == {"berries", "farm", "wood", "gold"}
BuildingTypes == {"camp", "inn", "barracks", "crystal"}
UnitTypes == {"villager", "other"}
Tasks == {"None", "Gathering", "PreparingReturn", "Returning", "Pickup", "Constructing"}
PlainOrders == {"Move", "Stop", "Attack", "Harvest", "Store", "Pickup", "Construct"}

ASSUME RoomData ==
    /\ IsFiniteSet(Uids)
    /\ Fields \in [Uids -> Seq([raw : Raws, amount : Nat \ {0}])]
    /\ \A uid \in Uids :
         Orders[uid] \subseteq (PlainOrders \X {""}) \cup ({"Build"} \X BuildingTypes)
                               \cup ({"Train"} \X UnitTypes)
    /\ BuildingPrice \in [BuildingTypes -> Nat]

RawToResourceType(raw) == IF raw \in {"berries", "farm"} THEN "food" ELSE raw

BuildingTrainsUnit(building_type, unit_type) ==
    IF unit_type = "villager" THEN building_type \in {"inn", "crystal"}
    ELSE building_type = "barracks"

NewUnit(owner) ==
    [owner |-> owner, hp |-> UnitStrikes, state |-> "Idle", has_target |-> FALSE,
     attack_target |-> 0, auto_aggro |-> FALSE, task |-> "None", gather_field_id |-> 0,
     dropoff_id |-> 0, pickup_drop_id |-> 0, build_target_id |-> 0,
     carried_amount |-> 0, carried_raw |-> "berries"]

MaxHp(type) == IF type = "crystal" THEN CrystalStrikes ELSE BuildingStrikes

\* A foundation stands at 5 percent of its health, which one strike takes.
NewBuilding(owner, type, under_construction) ==
    [owner |-> owner, type |-> type, under_construction |-> under_construction,
     hp |-> IF under_construction THEN 1 ELSE MaxHp(type),
     built |-> IF under_construction THEN 0 ELSE ConstructTicks,
     train_queue |-> <<>>]

Put(f, k, v) == [i \in DOMAIN f \cup {k} |-> IF i = k THEN v ELSE f[i]]
Merge(f, g) == [i \in DOMAIN f \cup DOMAIN g |-> IF i \in DOMAIN f THEN f[i] ELSE g[i]]
Erase(f, K) == Restrict(f, DOMAIN f \ K)
EmptyMap == Restrict(<<>>, {})

\* next_entity_id_++ of every Spawn function.
NewId(w) == [w EXCEPT !.spawned = @ \cup {w.next_entity_id}, !.next_entity_id = @ + 1]

SpawnUnit(w, owner, walks) ==
    [NewId(w) EXCEPT
        !.units = Put(@, w.next_entity_id, [NewUnit(owner) EXCEPT !.has_target = walks])]

SpawnBuilding(w, owner, type, under_construction) ==
    [NewId(w) EXCEPT
        !.buildings = Put(@, w.next_entity_id, NewBuilding(owner, type, under_construction))]

SpawnResourceField(w, f) ==
    [NewId(w) EXCEPT !.fields = Put(@, w.next_entity_id, f)]

SpawnResourceDrop(w, raw, amount) ==
    [NewId(w) EXCEPT !.drops = Put(@, w.next_entity_id, [raw |-> raw, amount |-> amount])]

TeamOf(w, id) == team[w.units[id].owner]

\* A unit as the step left it, marked dirty.
SetUnit(w, id, u) == [w EXCEPT !.units[id] = u, !.dirty = @ \cup {id}]

ClearFrameChanges(w) ==
    [w EXCEPT !.dirty = {}, !.spawned = {}, !.despawned = {}, !.resource_dirty = {}]

-----------------------------------------------------------------------------
(* Applying commands.                                                      *)

CanAfford(res, cost) == \A r \in DOMAIN cost : res[r] >= cost[r]
Pay(res, cost) == [r \in DOMAIN res |-> IF r \in DOMAIN cost THEN res[r] - cost[r] ELSE res[r]]
UnitCost == [food |-> UnitPrice]
BuildingCost(type) == [wood |-> BuildingPrice[type]]

PayFor(w, uid, cost) ==
    [w EXCEPT !.player_res[uid] = Pay(@, cost), !.resource_dirty = @ \cup {uid}]

ClearWorkerTask(u) ==
    [u EXCEPT !.task = "None", !.gather_field_id = 0, !.dropoff_id = 0, !.pickup_drop_id = 0,
              !.build_target_id = 0]

\* Only units of the player who gives the order obey it.
OwnedUnits(w, cmd) == {i \in cmd.unit_ids \cap DOMAIN w.units : w.units[i].owner = cmd.owner_uid}

Order(w, S, F(_)) ==
    [w EXCEPT !.units = [i \in DOMAIN @ |-> IF i \in S THEN F(@[i]) ELSE @[i]],
              !.dirty = @ \cup S]

\* The common part of the orders that give a unit work.
PutToWork(u, task) ==
    [ClearWorkerTask(u) EXCEPT !.task = task, !.attack_target = 0, !.has_target = FALSE,
                               !.state = "Moving"]

DropCarried_KeepsCargo(w, id) ==
    LET u == w.units[id] IN
    IF u.carried_amount = 0 THEN w ELSE SpawnResourceDrop(w, u.carried_raw, u.carried_amount)

DropCarried(w, id) ==
    LET u == w.units[id] IN
    IF u.carried_amount = 0 THEN w
    ELSE [SpawnResourceDrop(w, u.carried_raw, u.carried_amount)
            EXCEPT !.units[id].carried_amount = 0]

ApplyMove(w, cmd) ==
    Order(w, OwnedUnits(w, cmd), LAMBDA u :
          [ClearWorkerTask(u) EXCEPT !.has_target = TRUE, !.attack_target = 0, !.state = "Moving"])

ApplyStop(w, cmd) ==
    LET dropped == FoldSet(LAMBDA i, v : DropCarried(v, i), w, OwnedUnits(w, cmd)) IN
    Order(dropped, OwnedUnits(w, cmd), LAMBDA u :
          [ClearWorkerTask(u) EXCEPT !.has_target = FALSE, !.attack_target = 0, !.state = "Idle"])

ApplyAttack(w, cmd) ==
    Order(w, OwnedUnits(w, cmd) \ {cmd.target}, LAMBDA u :
          [ClearWorkerTask(u) EXCEPT !.attack_target = cmd.target, !.auto_aggro = FALSE,
                                     !.has_target = FALSE, !.state = "Attacking"])

ApplyHarvest(w, cmd) ==
    IF cmd.target \notin DOMAIN w.fields THEN w
    ELSE Order(w, OwnedUnits(w, cmd), LAMBDA u :
               [PutToWork(u, "Gathering") EXCEPT !.gather_field_id = cmd.target])

ApplyStore(w, cmd) ==
    Order(w, OwnedUnits(w, cmd), LAMBDA u :
          [PutToWork(u, "Returning") EXCEPT !.dropoff_id = cmd.target])

ApplyPickup(w, cmd) ==
    IF cmd.target \notin DOMAIN w.drops THEN w
    ELSE Order(w, OwnedUnits(w, cmd), LAMBDA u :
               [PutToWork(u, "Pickup") EXCEPT !.pickup_drop_id = cmd.target])

AssignConstructors(w, cmd, building_id) ==
    Order(w, OwnedUnits(w, cmd), LAMBDA u :
          [PutToWork(u, "Constructing") EXCEPT !.build_target_id = building_id])

BuildRejected(w, cmd) ==
    \/ cmd.aux_type = "crystal"
    \/ ~CanAfford(w.player_res[cmd.owner_uid], BuildingCost(cmd.aux_type))

ApplyBuild(w, cmd) ==
    IF BuildRejected(w, cmd) THEN w
    ELSE AssignConstructors(SpawnBuilding(PayFor(w, cmd.owner_uid, BuildingCost(cmd.aux_type)),
                                          cmd.owner_uid, cmd.aux_type, TRUE),
                            cmd, w.next_entity_id)

ApplyConstruct(w, cmd) ==
    IF cmd.target \in DOMAIN w.buildings /\ w.buildings[cmd.target].under_construction
    THEN AssignConstructors(w, cmd, cmd.target)
    ELSE w

TrainRejected(w, cmd) ==
    \/ cmd.target \notin DOMAIN w.buildings
    \/ w.buildings[cmd.target].owner # cmd.owner_uid
    \/ w.buildings[cmd.target].under_construction
    \/ ~BuildingTrainsUnit(w.buildings[cmd.target].type, cmd.aux_type)
    \/ ~CanAfford(w.player_res[cmd.owner_uid], UnitCost)

ApplyTrain_Unpaid(w, cmd) ==
    IF TrainRejected(w, cmd) THEN w
    ELSE [w EXCEPT !.buildings[cmd.target].train_queue = Append(@, TrainTicks),
                   !.dirty = @ \cup {cmd.target}]

ApplyTrain(w, cmd) ==
    IF TrainRejected(w, cmd) THEN w
    ELSE [PayFor(w, cmd.owner_uid, UnitCost)
            EXCEPT !.buildings[cmd.target].train_queue = Append(@, TrainTicks),
                   !.dirty = @ \cup {cmd.target}]

Rejected(w, cmd) == \/ cmd.type = "Build" /\ BuildRejected(w, cmd)
                    \/ cmd.type = "Train" /\ TrainRejected(w, cmd)

Apply(w, cmd) ==
    CASE cmd.type = "Move" -> ApplyMove(w, cmd)
      [] cmd.type = "Stop" -> ApplyStop(w, cmd)
      [] cmd.type = "Attack" -> ApplyAttack(w, cmd)
      [] cmd.type = "Harvest" -> ApplyHarvest(w, cmd)
      [] cmd.type = "Store" -> ApplyStore(w, cmd)
      [] cmd.type = "Pickup" -> ApplyPickup(w, cmd)
      [] cmd.type = "Build" -> ApplyBuild(w, cmd)
      [] cmd.type = "Construct" -> ApplyConstruct(w, cmd)
      [] cmd.type = "Train" -> ApplyTrain(w, cmd)

\* The world after the first n commands of the queue.
Applied[n \in 0 .. Len(pending)] == IF n = 0 THEN world ELSE Apply(Applied[n - 1], pending[n])

-----------------------------------------------------------------------------
(* One unit in Step.  Each operator is the set of worlds the unit can      *)
(* leave: the choices are distances, cooldowns and timers.                 *)

Idle(u) == [ClearWorkerTask(u) EXCEPT !.state = "Idle"]
SwitchToPreparingReturn(u) ==
    [u EXCEPT !.task = "PreparingReturn", !.has_target = FALSE, !.state = "Working"]
SwitchToReturn(u) == [u EXCEPT !.task = "Returning", !.state = "Moving"]

\* MoveToward has not arrived.
Walking(w, id) == SetUnit(w, id, [w.units[id] EXCEPT !.state = "Moving"])

StepMove(w, id) ==
    {Walking(w, id), SetUnit(w, id, [w.units[id] EXCEPT !.has_target = FALSE, !.state = "Idle"])}

Enemies(w, id) ==
    {i \in DOMAIN w.units : TeamOf(w, i) # TeamOf(w, id) /\ w.units[i].hp > 0}

EngageAuto(w, id, target) ==
    SetUnit(w, id, [w.units[id] EXCEPT !.attack_target = target, !.auto_aggro = TRUE,
                                       !.state = "Attacking"])

PutDown_KeepsTask(w, id) == IF w.units[id].task = "None" THEN w ELSE DropCarried(w, id)

\* A worker that an enemy comes close to puts down what it carries.
PutDown(w, id) ==
    IF w.units[id].task = "None" THEN w
    ELSE [DropCarried(w, id) EXCEPT !.units[id] = [ClearWorkerTask(@) EXCEPT !.has_target = FALSE]]

Scans == (server_tick + 1) % kAggroScanTicks = 0

\* The enemies that may be the nearest in range, on a tick that looks for one.
Threats(w, id) ==
    IF ~Scans \/ (w.units[id].task = "None" /\ w.units[id].has_target) THEN {}
    ELSE Enemies(w, id)

StopAttack(u) == [u EXCEPT !.attack_target = 0, !.auto_aggro = FALSE, !.state = "Idle"]

CanBeStruck(w, id, target) ==
    \/ target \in Enemies(w, id)
    \/ /\ target \in DOMAIN w.buildings
       /\ w.buildings[target].hp > 0
       /\ team[w.buildings[target].owner] # TeamOf(w, id)

Strike(w, target) ==
    IF target \in DOMAIN w.units
    THEN [w EXCEPT !.units[target].hp = @ - 1, !.dirty = @ \cup {target}]
    ELSE [w EXCEPT !.buildings[target].hp = @ - 1, !.dirty = @ \cup {target}]

Fight(w, id) ==
    LET u == w.units[id]
        closer == SetUnit(w, id, [u EXCEPT !.state = "Attacking"])
    IN  IF CanBeStruck(w, id, u.attack_target)
        THEN {closer, Strike(closer, u.attack_target)}
        ELSE {SetUnit(w, id, StopAttack(u))}

\* A unit that chose its target itself and is led too far walks back.
StepCombat(w, id) ==
    LET u == w.units[id] IN
    Fight(w, id) \cup
    IF u.auto_aggro
    THEN {SetUnit(w, id, [u EXCEPT !.auto_aggro = FALSE, !.attack_target = 0,
                                   !.has_target = TRUE, !.state = "Moving"])}
    ELSE {}

Harvested(w, id, take) ==
    LET u == w.units[id]
        field_id == u.gather_field_id
        left == w.fields[field_id].amount - take
        v == [u EXCEPT !.state = "Working", !.carried_raw = w.fields[field_id].raw,
                       !.carried_amount = @ + take]
        done == left = 0 \/ v.carried_amount >= kVillagerCarryCapacity
        w2 == SetUnit(w, id, IF done THEN SwitchToPreparingReturn(v) ELSE v)
    IN  IF left = 0
        THEN [w2 EXCEPT !.fields = Erase(@, {field_id}), !.despawned = @ \cup {field_id}]
        ELSE [w2 EXCEPT !.fields[field_id].amount = left]

StepGather(w, id) ==
    LET u == w.units[id] IN
    IF u.carried_amount >= kVillagerCarryCapacity THEN {SetUnit(w, id, SwitchToPreparingReturn(u))}
    ELSE IF u.gather_field_id \notin DOMAIN w.fields
    THEN {SetUnit(w, id, IF u.carried_amount > 0 THEN SwitchToPreparingReturn(u) ELSE Idle(u))}
    ELSE {Walking(w, id)} \cup {Harvested(w, id, take) : take \in {0, 1}}

StepPreparingReturn(w, id) ==
    {SetUnit(w, id, [w.units[id] EXCEPT !.state = "Working"]),
     SetUnit(w, id, SwitchToReturn(w.units[id]))}

\* Back to the field the worker came from, if it is still there.
ReturnToWork(w, u) ==
    IF u.gather_field_id \in DOMAIN w.fields
    THEN [u EXCEPT !.task = "Gathering", !.state = "Moving"]
    ELSE Idle(u)

UsableDropoff(w, id, building_id) ==
    /\ building_id \in DOMAIN w.buildings
    /\ ~w.buildings[building_id].under_construction
    /\ team[w.buildings[building_id].owner] = TeamOf(w, id)

\* The dropoff the worker has, or the nearest of these.
Dropoffs(w, id) ==
    IF UsableDropoff(w, id, w.units[id].dropoff_id) THEN {w.units[id].dropoff_id}
    ELSE {b \in DOMAIN w.buildings :
            UsableDropoff(w, id, b) /\ w.buildings[b].type \in {"camp", "crystal"}}

Stored_Unmarked(w, id) ==
    LET u == w.units[id] IN
    [SetUnit(w, id, ReturnToWork(w, [u EXCEPT !.carried_amount = 0]))
        EXCEPT !.player_res[u.owner][RawToResourceType(u.carried_raw)] = @ + u.carried_amount]

Stored(w, id) ==
    LET u == w.units[id] IN
    [SetUnit(w, id, ReturnToWork(w, [u EXCEPT !.carried_amount = 0]))
        EXCEPT !.player_res[u.owner][RawToResourceType(u.carried_raw)] = @ + u.carried_amount,
               !.resource_dirty = @ \cup {u.owner}]

StepReturn(w, id) ==
    LET u == w.units[id]
        heading(b) == [w EXCEPT !.units[id].dropoff_id = b]
    IN  IF u.carried_amount = 0 THEN {SetUnit(w, id, ReturnToWork(w, u))}
        ELSE IF Dropoffs(w, id) = {} THEN {SetUnit(w, id, [u EXCEPT !.state = "Idle"])}
        ELSE UNION {{Walking(heading(b), id), Stored(heading(b), id)} : b \in Dropoffs(w, id)}

PickedUp(w, id) ==
    LET u == w.units[id]
        drop == w.drops[u.pickup_drop_id]
        take == Min({kVillagerCarryCapacity - u.carried_amount, drop.amount})
        w2 == SetUnit(w, id, SwitchToReturn([u EXCEPT !.carried_raw = drop.raw,
                                                      !.carried_amount = @ + take]))
    IN  IF take = drop.amount
        THEN [w2 EXCEPT !.drops = Erase(@, {u.pickup_drop_id}),
                        !.despawned = @ \cup {u.pickup_drop_id}]
        ELSE [w2 EXCEPT !.drops[u.pickup_drop_id].amount = @ - take]

StepPickup(w, id) ==
    LET u == w.units[id] IN
    IF u.pickup_drop_id \in DOMAIN w.drops THEN {Walking(w, id), PickedUp(w, id)}
    ELSE {SetUnit(w, id, IF u.carried_amount > 0 THEN SwitchToReturn(u) ELSE Idle(u))}

\* The part of the full health that the progress stands for, in strikes.
HpOfProgress(b) == (MaxHp(b.type) * b.built + ConstructTicks - 1) \div ConstructTicks

Progressed(b) ==
    LET more == [b EXCEPT !.built = @ + 1] IN
    IF more.built = ConstructTicks
    THEN [more EXCEPT !.under_construction = FALSE, !.hp = MaxHp(b.type)]
    ELSE [more EXCEPT !.hp = Max({@, HpOfProgress(more)})]

Constructed(w, id) ==
    LET u == [w.units[id] EXCEPT !.state = "Working"]
        b == Progressed(w.buildings[u.build_target_id])
    IN  [SetUnit(w, id, IF b.under_construction THEN u ELSE Idle(u))
            EXCEPT !.buildings[u.build_target_id] = b, !.dirty = @ \cup {u.build_target_id}]

StepConstruct(w, id) ==
    LET target == w.units[id].build_target_id IN
    IF target \in DOMAIN w.buildings /\ w.buildings[target].under_construction
    THEN {Walking(w, id), Constructed(w, id)}
    ELSE {SetUnit(w, id, Idle(w.units[id]))}

\* What the unit does if it has no target and no enemy disturbs it.
StepTask(w, id) ==
    LET u == w.units[id] IN
    CASE u.task = "Gathering" -> StepGather(w, id)
      [] u.task = "PreparingReturn" -> StepPreparingReturn(w, id)
      [] u.task = "Returning" -> StepReturn(w, id)
      [] u.task = "Pickup" -> StepPickup(w, id)
      [] u.task = "Constructing" -> StepConstruct(w, id)
      [] u.task = "None" /\ u.has_target -> StepMove(w, id)
      [] OTHER -> {w}

StepUnit(w, id) ==
    LET u == w.units[id] IN
    IF u.hp = 0 THEN {w}
    ELSE IF u.attack_target # 0 THEN StepCombat(w, id)
    ELSE StepTask(w, id) \cup
         UNION {Fight(EngageAuto(PutDown(w, id), id, t), id) : t \in Threats(w, id)}

-----------------------------------------------------------------------------
(* The buildings' turn, and the end of the tick.                           *)

TrainingBuildings(w) ==
    {b \in DOMAIN w.buildings :
        w.buildings[b].train_queue # <<>> /\ ~w.buildings[b].under_construction}

StepTraining_Stalls(id, w) ==
    LET queue == w.buildings[id].train_queue IN
    IF queue[1] = 1
    THEN [SpawnUnit(w, w.buildings[id].owner, TRUE)
            EXCEPT !.buildings[id].train_queue = Tail(queue), !.dirty = @ \cup {id}]
    ELSE [w EXCEPT !.dirty = @ \cup {id}]

StepTraining(id, w) ==
    LET queue == w.buildings[id].train_queue IN
    IF queue[1] = 1
    THEN [SpawnUnit(w, w.buildings[id].owner, TRUE)
            EXCEPT !.buildings[id].train_queue = Tail(queue), !.dirty = @ \cup {id}]
    ELSE [w EXCEPT !.buildings[id].train_queue[1] = @ - 1, !.dirty = @ \cup {id}]

StepBuildings(w) == FoldSet(StepTraining, w, TrainingBuildings(w))

Dead(f) == {i \in DOMAIN f : f[i].hp = 0}

RemoveDead(w) ==
    [w EXCEPT !.units = Erase(@, Dead(@)), !.buildings = Erase(@, Dead(@)),
              !.despawned = @ \cup Dead(w.units) \cup Dead(w.buildings)]

CrystalTeams(w) ==
    {team[w.buildings[b].owner] :
        b \in {i \in DOMAIN w.buildings : w.buildings[i].type = "crystal"}}

CheckGameOver_LastCrystal(w) ==
    Cardinality({team[u] : u \in Uids}) >= 2 /\ CrystalTeams(w) = {}

\* Read after RemoveDead: every crystal that stands has health.  Units have
\* the teams of the crystals, so the rule for maps without crystals adds
\* nothing.
CheckGameOver(w) ==
    Cardinality({team[u] : u \in Uids}) >= 2 /\ Cardinality(CrystalTeams(w)) <= 1

-----------------------------------------------------------------------------
(* What the clients are told.                                              *)

UnitSnapshot(u) == [hp |-> u.hp, state |-> u.state,
                    carried_amount |-> u.carried_amount, carried_raw |-> u.carried_raw]

BuildingSnapshot(b) == [type |-> b.type, hp |-> b.hp, built |-> b.built]

Snapshots(f, S, Fill(_)) == [i \in S \cap DOMAIN f |-> Fill(f[i])]

Snapshot(w) ==
    [units |-> Snapshots(w.units, DOMAIN w.units, UnitSnapshot),
     buildings |-> Snapshots(w.buildings, DOMAIN w.buildings, BuildingSnapshot),
     fields |-> w.fields, drops |-> w.drops, player_res |-> w.player_res]

\* Entities that appeared, then those that went, then those that changed: of
\* fields and drops only the first two.
WithDelta(v, w) ==
    [units |-> Erase(Merge(Snapshots(w.units, w.spawned \cup w.dirty, UnitSnapshot), v.units),
                     w.despawned),
     buildings |-> Erase(Merge(Snapshots(w.buildings, w.spawned \cup w.dirty, BuildingSnapshot),
                               v.buildings), w.despawned),
     fields |-> Erase(Merge(Restrict(w.fields, w.spawned \cap DOMAIN w.fields), v.fields),
                      w.despawned),
     drops |-> Erase(Merge(Restrict(w.drops, w.spawned \cap DOMAIN w.drops), v.drops),
                     w.despawned),
     player_res |-> [u \in Uids |-> IF u \in w.resource_dirty THEN w.player_res[u]
                                    ELSE v.player_res[u]]]

\* SendDelta has something to send.
HasChanges(w) ==
    \/ w.despawned # {} \/ w.resource_dirty # {}
    \/ (w.spawned \cup w.dirty) \cap (DOMAIN w.units \cup DOMAIN w.buildings) # {}
    \/ w.spawned \cap (DOMAIN w.fields \cup DOMAIN w.drops) # {}

-----------------------------------------------------------------------------
(* The room starts in the lobby, full, with everybody ready but the player *)
(* of the highest team.                                                    *)

LastPlayer == CHOOSE u \in Uids : \A v \in Uids : team[v] <= team[u]

EmptyWorld ==
    [units |-> EmptyMap, buildings |-> EmptyMap, fields |-> EmptyMap, drops |-> EmptyMap,
     player_res |-> [u \in Uids |-> [food |-> 0, wood |-> 0, gold |-> 0]],
     next_entity_id |-> 1, dirty |-> {}, spawned |-> {}, despawned |-> {}, resource_dirty |-> {}]

\* A crystal, the first villagers and the fields next to the crystal.
SpawnInitialUnits ==
    LET base(w, u) ==
          FoldFunction(LAMBDA f, v : SpawnResourceField(v, f),
             FoldSet(LAMBDA i, v : SpawnUnit(v, u, FALSE), SpawnBuilding(w, u, "crystal", FALSE),
                     1 .. kStartUnitsPerPlayer),
             Fields[u])
    IN  FoldSet(LAMBDA u, w : base(w, u), EmptyWorld, Uids)

\* The rest of HandlePlayerReady when the last player is ready: BeginBattle,
\* which hands out the first resources, and a full snapshot.
BeginBattle ==
    [SpawnInitialUnits EXCEPT
        !.player_res = [u \in Uids |-> [food |-> kStartFood, wood |-> kStartWood,
                                        gold |-> kStartGold]],
        !.resource_dirty = Uids]

ToAll(msg, arg) == {[to |-> u, msg |-> msg, room |-> 1, arg |-> arg] : u \in Uids}

NoFrame == [issuers |-> <<>>, rejected |-> {}, crystals |-> {}]

RoomInit ==
    /\ world = EmptyWorld /\ view = Snapshot(EmptyWorld)
    /\ phase = "lobby" /\ todo = {} /\ pending = <<>> /\ frame = NoFrame
    /\ server_tick = 0 /\ game_over = FALSE
    /\ in_sync = TRUE /\ losses = 0 /\ sent = {} /\ commands = 0

StartBattle ==
    /\ phase = "lobby" /\ phase' = "idle"
    /\ world' = ClearFrameChanges(BeginBattle)
    /\ view' = Snapshot(BeginBattle)
    /\ sent' = ToAll("RoomStateNtf", 0) \cup ToAll("GameStartNtf", 0) \cup ToAll("SnapshotNtf", 0)
    /\ UNCHANGED <<todo, pending, frame, server_tick, game_over, in_sync, losses, commands>>

-----------------------------------------------------------------------------
(* Commands a client can send in this world.  What a target has become by  *)
(* the tick is for the Apply functions to find out.                        *)

Targets(type) ==
    CASE type \in {"Move", "Stop", "Build"} -> {0}
      [] type = "Attack" -> DOMAIN world.units \cup DOMAIN world.buildings \cup {0}
      [] type = "Harvest" -> DOMAIN world.fields
      [] type = "Store" -> DOMAIN world.buildings \cup {0}
      [] type = "Pickup" -> DOMAIN world.drops
      [] type = "Construct" -> DOMAIN world.buildings
      [] type = "Train" -> DOMAIN world.buildings \cup {world.next_entity_id}

\* unit_ids: the client picks any of its own units, and names the others' as
\* well, which are not its own to command.  TrainUnitCmd names none.
Selections(uid, type) ==
    IF type = "Train" THEN {{}}
    ELSE {DOMAIN world.units \ S :
            S \in SUBSET {i \in DOMAIN world.units : world.units[i].owner = uid}}

\* The commands HandlePlayerCommand makes of what a client may send.
ParsedCommands(uid) ==
    UNION {[type : {order[1]}, aux_type : {order[2]}, owner_uid : {uid},
            unit_ids : Selections(uid, order[1]), target : Targets(order[1])] :
           order \in Orders[uid]}

EnqueueCommand(uid) ==
    /\ phase \in {"lobby", "idle"}
    /\ Len(pending) < MaxPending /\ commands < MaxCommands
    /\ \E cmd \in ParsedCommands(uid) : pending' = Append(pending, cmd)
    /\ commands' = commands + 1
    /\ sent' = {}
    /\ UNCHANGED <<world, phase, todo, frame, server_tick, game_over, clientVars>>

\* A unit the loop of Step does something about.
Busy(u) == u.attack_target # 0 \/ u.task # "None" \/ u.has_target \/ Scans

ApplyPending ==
    /\ phase = "idle" /\ ~game_over
    /\ phase' = "step"
    /\ world' = Applied[Len(pending)]
    /\ todo' = {id \in DOMAIN Applied[Len(pending)].units : Busy(Applied[Len(pending)].units[id])}
    /\ frame' = [issuers |-> [i \in DOMAIN pending |-> pending[i].owner_uid],
                 rejected |->
                    {pending[i].owner_uid :
                       i \in {n \in DOMAIN pending : Rejected(Applied[n - 1], pending[n])}},
                 crystals |-> CrystalTeams(world)]
    /\ pending' = <<>>
    /\ UNCHANGED <<server_tick, game_over, clientVars, sent, commands>>

Step(id) ==
    /\ phase = "step" /\ id \in todo
    /\ world' \in StepUnit(world, id)
    /\ todo' = todo \ {id}
    /\ UNCHANGED <<phase, pending, frame, server_tick, game_over, clientVars, sent, commands>>

Winner(w) == IF CrystalTeams(w) = {} THEN 4 ELSE CHOOSE t \in CrystalTeams(w) : TRUE

\* The client receives the messages of the tick, or a queue on the way was
\* full and dropped some: what it makes of the deltas from then to the next
\* snapshot is left out.
Receive(w, full) ==
    \/ /\ view' = IF full THEN Snapshot(w) ELSE IF in_sync THEN WithDelta(view, w) ELSE view
       /\ in_sync' = (in_sync \/ full)
       /\ UNCHANGED losses
    \/ /\ losses < MaxLosses /\ losses' = losses + 1
       /\ in_sync' = FALSE
       /\ view' = Snapshot(EmptyWorld)

SnapshotDue_OffByOne == server_tick + 1 > kFullSnapshotInterval

SnapshotDue == (server_tick + 1) % kFullSnapshotInterval = 0

EndTick ==
    /\ phase = "step" /\ todo = {}
    /\ \E w \in {RemoveDead(StepBuildings(world))} :
         /\ Receive(w, SnapshotDue)
         /\ world' = ClearFrameChanges(w)
         /\ game_over' = CheckGameOver(w)
         /\ sent' = {[to |-> u, msg |-> "CommandRejectedNtf", room |-> 1, arg |-> 1] :
                        u \in frame.rejected}
                    \cup (IF SnapshotDue \/ HasChanges(w) THEN ToAll("SnapshotNtf", 0) ELSE {})
                    \cup (IF CheckGameOver(w) THEN ToAll("GameOverNtf", Winner(w)) ELSE {})
    /\ server_tick' = (server_tick + 1) % kFullSnapshotInterval
    /\ phase' = "idle" /\ frame' = NoFrame
    /\ UNCHANGED <<todo, pending, commands>>

Tick == ApplyPending \/ EndTick \/ \E id \in todo : Step(id)

RoomNext == StartBattle \/ Tick \/ \E uid \in Uids : EnqueueCommand(uid)

\* The shard's timer runs the tick again and again.
RoomSpec == RoomInit /\ [][RoomNext]_roomVars /\ WF_roomVars(Tick)

-----------------------------------------------------------------------------
(* Properties.                                                             *)

\* Workers carry at most their capacity, nothing alive at the start of a tick
\* has lost all its health, a building under construction has work left, and
\* no two entities of any kind share an id (DungeonRoom.h, the Spawn functions
\* and the caps in StepGather and StepPickup).
RoomTypeOK ==
    /\ phase \in {"lobby", "idle", "step"} /\ in_sync \in BOOLEAN
    /\ \A i \in DOMAIN world.units :
         LET u == world.units[i] IN
         /\ u.hp \in (IF phase = "idle" THEN 1 ELSE 0) .. UnitStrikes
         /\ u.carried_amount \in 0 .. kVillagerCarryCapacity /\ u.carried_raw \in Raws
         /\ u.task \in Tasks /\ (u.attack_target # 0 => u.task = "None")
    /\ \A i \in DOMAIN world.buildings :
         LET b == world.buildings[i] IN
         /\ b.hp \in (IF phase = "idle" THEN 1 ELSE 0) .. MaxHp(b.type)
         /\ b.under_construction <=> b.built < ConstructTicks
         /\ b.train_queue \in Seq(1 .. TrainTicks)
    /\ \A u \in Uids : \A r \in DOMAIN world.player_res[u] : world.player_res[u][r] \in Nat
    /\ LET kinds == <<world.units, world.buildings, world.fields, world.drops>> IN
       \A k, l \in 1 .. 4 : /\ DOMAIN kinds[k] \subseteq 1 .. world.next_entity_id - 1
                            /\ k # l => DOMAIN kinds[k] \cap DOMAIN kinds[l] = {}

Total(f, Value(_)) == SumFunction([i \in DOMAIN f |-> Value(f[i])])

WealthOfUnit(u) == u.carried_amount + UnitPrice
WealthOfBuilding(b) == Len(b.train_queue) * UnitPrice + BuildingPrice[b.type]

Wealth(w) ==
    Total(w.fields, LAMBDA f : f.amount) + Total(w.drops, LAMBDA d : d.amount)
    + Total(w.units, WealthOfUnit) + Total(w.buildings, WealthOfBuilding)
    + Total(w.player_res, LAMBDA r : r.food + r.wood + r.gold)

WealthOfDead(w) == Total(Restrict(w.units, Dead(w.units)), WealthOfUnit)
                   + Total(Restrict(w.buildings, Dead(w.buildings)), WealthOfBuilding)

\* Nothing is won or lost between the fields, the ground, the workers' backs,
\* the players' accounts and what was bought with them, whatever orders and
\* steps of units of both sides mix in a tick: a field that workers of both
\* sides empty together, a drop one of them takes, wholly or in part, while the
\* other walks to it, a worker that puts its load down to defend itself
\* (StepGather, StepPickup, StepReturn, DropCarried, ApplyBuild), units paid
\* for, queued, trained and killed (ApplyTrain, StepBuildings).  Only what the
\* dead carried and embodied goes with them (RemoveDead).
WealthIsConserved ==
    [][phase # "lobby" =>
         Wealth(world') = Wealth(world) -
            IF phase = "step" /\ phase' = "idle" THEN WealthOfDead(StepBuildings(world))
            ELSE 0]_roomVars

KnownWorld(v) == [v EXCEPT !.fields = DOMAIN @, !.drops = DOMAIN @]

\* Between ticks, a client that has received everything since its last
\* snapshot has every unit, building and account as the server has them, and
\* knows which fields and drops exist: each change of a tick was marked for
\* the delta (the dirty, spawned and despawned sets, SendDelta, SendFullSnapshot).
ViewFollowsWorld ==
    phase = "idle" /\ in_sync => KnownWorld(view) = KnownWorld(Snapshot(world))

\* A client that lost a tick has the server's world again after a later
\* snapshot, as long as the battle goes on (kFullSnapshotInterval; Protocol.h
\* counts on it where a full queue drops its oldest packet).
ViewIsRealigned == (~in_sync) ~> (in_sync \/ game_over)

\* Units that are paid for do not wait for ever: the queues of the buildings
\* that stand become empty, whatever is trained, fights and falls meanwhile, or
\* the battle ends (StepBuildings).  The commands of a run are bounded, so that
\* new ones do not keep the queues filled.
TrainingCompletes ==
    (TrainingBuildings(world) # {}) ~> (game_over \/ TrainingBuildings(world) = {})

-----------------------------------------------------------------------------
(* The battle implements the room of module LogicShard, where a tick is    *)
(* one step and the world is the set of teams with a crystal.  The tick is *)
(* done, there, when its last part is.                                     *)

AbsRoom ==
    [max_players |-> Cardinality(Uids), team |-> team,
     ready |-> IF phase = "lobby" THEN Uids \ {LastPlayer} ELSE Uids,
     started |-> phase # "lobby", game_over |-> game_over,
     crystals |-> IF phase = "step" THEN frame.crystals ELSE CrystalTeams(world),
     initial_crystal_team_count |-> IF phase = "lobby" THEN 0
                                    ELSE Cardinality({team[u] : u \in Uids}),
     pending |-> IF phase = "step" THEN frame.issuers
                 ELSE [i \in DOMAIN pending |-> pending[i].owner_uid]]

L == INSTANCE LogicShard WITH
        Routes <- {0}, RoomSizes <- {Cardinality(Uids)}, ShardCount <- 1, MaxRooms <- 1,
        rooms <- [s \in {0} |-> [r \in {1} |-> AbsRoom]],
        uid_to_room <- [s \in {0} |-> [u \in Uids |-> 1]],
        uid_route <- [s \in {0} |-> [u \in Uids |-> 0]],
        next_room_id <- [s \in {0} |-> 2]

\* Every step of the battle is a step of the room LogicShard models, or no
\* step of it: the last player's ready starts it, a command is queued, a whole
\* tick is one TickRooms with its rejections, state messages and end of the
\* battle, and a crystal that falls stays fallen.
ImplementsLogicRoom ==
    [][CASE phase = "lobby" /\ phase' = "idle" -> L!HandlePlayerReady(0, LastPlayer, 0, 1, TRUE)
         [] phase = "step" /\ phase' = "idle" -> L!TickRooms(0)
         [] commands' # commands -> \E u \in Uids : L!HandlePlayerCommand(0, u, 0, "valid")
         [] OTHER -> UNCHANGED L!vars]_roomVars
=============================================================================
