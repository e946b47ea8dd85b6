# TLA+ verification of the RTS game server

The repository is a two-tier server for small real-time-strategy battles: a
gateway (`src/GateServer`) that holds the clients' TCP sessions, and a game
server (`src/GameServer`) that holds the rooms and simulates the battles.
Both are actor systems on boost.asio: every shard is one thread with one
`io_context`, and shards post tasks to each other. This directory holds TLA+
models of the parts where that design can go wrong, TLC runs over small
instances of them, and TLAPS proofs of the core results.

## 1. Inventory

| Component | State | Operations | Talks to |
| --- | --- | --- | --- |
| `LogicShard` | `rooms_`, `uid_to_room_`, `uid_route_`, `next_room_id_` | create, join, leave, ready, enter battle, command, client disconnected, tick (20 Hz) | gets `LogicTask`s from network shards, posts `NetworkTask`s back |
| `DungeonRoom` | players with team and ready flag, started/over flags, units, buildings, resources, queued commands | AddPlayer, SetReady, RemovePlayer, EnqueueCommand, ApplyPending, Step, BeginBattle, CheckGameOver | called by its logic shard |
| State synchronisation | dirty, spawned and despawned sets of a room | SendFullSnapshot, SendDelta, ClearFrameChanges | part of the tick |
| `NetworkShard` | `slots_` (state, generation, session), accept chain, retry timer, `next_logic_idx_` | accept, OnPacket, OnSessionClosed, HandleNetworkTask, Stop | posts to logic shards; called by its sessions |
| `GatewayLinkSession` | state, `send_que_`, `is_writing_`, two coroutines | Start, read, PostSend, write, Close | its network shard |
| `GameServerConnPool` | `sessions_`, `rr_idx_`, detection coroutine | PostMessage, detection, Init, Stop | its connections; `Stop` comes from another thread |
| `ClientSession` | state, `send_que_`, `is_writing_`, `last_pong_time_`, coroutines | connect, timeout, read, write, heartbeat, close | game server; hands replies to the gateway's sessions |
| `Csession` | state, uid, `send_que_`, `is_writing_`, three coroutines (reader, heartbeat, writer) | start, read, BindUid, SendData, close | its work shard, the routers |
| `WorkShard`, `GateSessionRegistry`, routers, `Cserver` | `user_session_mgr`, `user_id_mgr` per shard; one registry with a lock; turn of the shards | accept, login, ping, forward, send to uid, broadcast | connection pool, other work shards |
| Metrics, configuration, mains, codec | counters; nothing | - | - |

What is hard here, and what would make each part correct:

* **Sequences of requests.** A shard keeps membership twice (in the room and in
  `uid_to_room_`) and updates the two separately, with an implicit leave inside
  create and join. They must agree after any sequence; empty rooms must go; a
  battle must be fought by a full room and end once.
* **Ordering between actors.** One client's messages travel over several links
  in turn, are read by different network shards and posted to several logic
  shards. A request must be handled where its room is, and a client that left
  must be forgotten everywhere.
* **Reuse.** A link slot is used again after it breaks; generations must keep
  late replies, late closes and late reads from touching the new link.
* **Queued handlers.** A completion that is queued is delivered after the object
  was closed. No such handler may bring a closed connection back to life, free
  a slot that is used again, or leave a packet in a queue with nobody writing.
* **Timeouts and retries.** Connect timeout against connect, heartbeat against a
  late pong, accept retry, rebuilding of dead connections.
* **A tick with many hands.** Units of both sides act in the order of a hash
  map on one world: fields are emptied together, loads dropped, buildings razed
  while they are built. Nothing may be taken twice or lost, and each change must
  be marked for the delta by the function that makes it.
* **Clients that miss messages.** Full queues drop packets; the next full
  snapshot must put a client right.
* **Several maps for one client.** A work shard's two maps, the process-wide
  registry and the session itself name each other, across logins, late packets
  and closes.
* **Shutdown.** `Stop` must drain a network shard, and the gateway's pool is
  stopped from a foreign thread.

`PROJECT.json` lists every hazard at its line with the properties about it.

## 2. Modules

| Module | Models | Notes |
| --- | --- | --- |
| `LogicShard` | logic shards and the lobby part of `DungeonRoom` | the abstract specification: any request at any time |
| `LogicShardProofs` | proofs about it: what holds in every state | |
| `LogicShardActionProofs` | proofs about it: what holds of every step | extends `LogicShardProofs` |
| `GameServer` | gateway events, links, network shards' routing, task queues; extends `LogicShard` and runs its handlers | shown to implement `LogicSpec` |
| `GameServerProofs` | proofs about it | |
| `NetworkShard` | one network shard with its sessions, accept chain, egress and `Stop` | self-contained |
| `NetworkShardProofs` | proofs about it | |
| `ConnPool` | the pool and its `ClientSession`s on one work shard | self-contained |
| `ConnPoolProofs` | proofs about it | |
| `GateSessions` | the gateway's client side: `Csession`, the shards' maps, the registry, routers, acceptor | self-contained |
| `GateSessionsProofs` | proofs about it | |
| `DungeonRoom` | the simulation of a battle and the state synchronisation | shown to implement the room of `LogicShard` |
| `DungeonRoomLemmas` | the room's functions: recursion, maps of entities, what a function keeps of a world | extends `DungeonRoom` |
| `DungeonRoomProofs` | proofs about the room: turns, commands, ticks, the client's view | extends `DungeonRoomLemmas` |
| `MC*` | model values, request sets, symmetry and views for TLC | |

### LogicShard

A handler runs to completion on its shard's thread, so it is one action, with
its broadcasts. All four variables are functions of the shard. `sent` holds
what the last handler gave to `SendToPlayers`; no action reads it, so it is left
out of TLC's view. A room is a record of the roster (uid to team), the ready
set, the flags, the *set of teams with a living crystal* and the issuers of
queued commands. The simulation is abstracted to its two outcomes that matter
here: which crystals survive a tick (any subset, as long as the room had two
sides to begin with, because only an enemy attacks a crystal) and whose
commands are rejected (any of the issuers). Payloads are abstracted; a payload
that does not parse is `HandleMalformed` or command `"unparsable"`.
`ForfeitWinners` is a choice because the code takes the first player of an
`unordered_map`.

### GameServer

A *route* stands for one incarnation of a link (network shard, slot,
generation): it comes up once, may break, and then loses any suffix of what
was in flight. `PostMessage` picks any link that is up: the pools of several
work shards rotate independently, so no order can be relied on. `OnPacket` takes
the next message of a link and posts it; a disconnect becomes a fan-out that
posts to one logic shard per step (`FanOut`), because other threads run between
two posts. `HandleTask` runs the head of a shard's queue through `Dispatch`, the
table of `LogicRouter`.

Of a client's session the model has what the game server can notice: whether it
is open (`client`) and the uid it is logged in as (`bound`, the code's `uid_`,
which `close()` leaves set). A session logs in, asks and closes at any time. A
second login replaces the uid and nobody is told of the old one. `handle_read`
checks the state before a body and not after it, so a session that closes may
have one packet left (`"late"`): a login or a request that is handled after the
disconnect was posted. A session is never logged in as another's uid
(`SessionsAssumption`: `MakeLoginUid` hashes the uuid). `told` is a history
variable for the property: the last thing the gateway posted about a uid.

### NetworkShard

An action is a completion handler up to its next `co_await`, or the world
completing an operation. `reader` and `writer` of a session say where its two
coroutines stand: waiting, or with a result queued. `Close` turns waiting
operations into aborted ones and leaves queued results alone, which is what
asio does. Queued handlers run in any order. asio runs them first in, first
out, but completions of different descriptors and timers enter the queue in
the order the reactor reports them, and a coroutine that reads in two steps
re-enters behind them, so every order the model has between *different*
operations is possible. A session is named by slot and generation; packets in a
send queue are known by the generation they were addressed to. The logic shard
appears only with its `uid_route_` and the grouping of `SendToPlayers`.

### ConnPool

The same style for the gateway's end. `silent` counts heartbeat intervals since
the last pong; after exactly `TimeoutIntervals` (15 s / 5 s = 3 in the code) the
comparison may go either way. `Error` and `Timeout` are not states of the model:
each is overwritten by the `close()` that follows in the same handler. `Stop`
runs on another thread, in three steps (cancel the timer, close and clear,
stop the `io_context`) between which the work shard's thread runs.

### GateSessions

The style of `NetworkShard` again: `reader`, `timer` and `writer` say where a
session's three coroutines stand, and a queued result outlives the close. `Close`
and `HandleLoginReq` (with `BindUid` in it) change the session, the shard's two
maps, the registry and what the pool is given, in one handler. `MakeLoginUid`
hashes the session's uuid with account and token, so a uid is a pair of session
and account. The registry holds sessions by `weak_ptr`; `Alive` says who still
holds one. Replies come in on any work shard: one is sent directly if the shard
has the uid, else posted to the shard the registry names (`posted`, `RunPosted`).
The acceptor's thread inserts into a shard's map without a lock; the model takes
that as atomic.

### DungeonRoom

The world is a record of entities, accounts and the frame's change sets; the
functions of `DungeonRoom.h` are operators from a world to a world, or to the set
of worlds its choices allow. What is floating point is a choice: whether a unit
arrived, is in range, may strike, or is done waiting; which enemy or dropoff is
the nearest. Health is counted in strikes. A foundation falls to one strike, as
5 percent of any building's health does to 20 points of damage. The server runs
a tick without interruption; the model breaks it into `ApplyPending`, one `Step`
per unit in any order, and `EndTick` (buildings, removal of the dead, messages,
victory), and takes commands only between ticks. `view` is the world as one
client rebuilds it: a snapshot replaces it, a delta is merged by `WithDelta`; a
tick whose messages are lost makes it unknown until the next snapshot.
`server_tick` and the scan counter are kept modulo the snapshot interval.

`L == INSTANCE LogicShard WITH ...` maps the battle to a room of `LogicShard`:
teams with a crystal, issuers of queued commands, flags. `ImplementsLogicRoom`
says that starting is the last `HandlePlayerReady`, a command is a
`HandlePlayerCommand`, a whole tick is one `TickRooms` with its messages, and
everything between is no step. It justifies the abstraction of the simulation
that `LogicShard`, and through it `GameServer`, rest on.

## 3. Runs

| Run | Bounds | Shows |
| --- | --- | --- |
| `logic_rooms` | 3 players, 1 shard, 2 rooms, requested sizes 0 (taken as 2), 1, 3 and 5 (cut to 4) | typing, `MembershipAgrees`, `NoEmptyRoom`, `MembersRoutable`, `ActiveRoomIsFull`, `ErasedRoomStaysErased`, `RosterChangeIsAnnounced`, `GameOverOnceForAll` |
| `game_routing` | 2 sessions, 1 login, 2 links of 2 network shards, 2 logic shards, 3 requests, one link breaks | `RequestsReachTheirRoom`, `RoomIdsOfShard`, and `RefinesLogic`: the whole implements `LogicSpec` |
| `game_reclaim` | 1 link, 2 shards, 2 sessions, one with 2 accounts, 2 logins, 2 requests of every kind, fair | `DisconnectedIsForgotten` |
| `net_links` | 2 slots, 3 generations each, 2 packets, 1 reply, queue limit 1, fair | slot ownership, accept chain, write loop, send queue; `FreeSlotIsOffered`, `StopDrains` |
| `pool_conn` | 1 slot and two connections in it, queue limit 1, 1 message besides hello and pings, `Stop` | `ReplacedIsClosed`, `ClosedStaysClosed`, `AvailableIsWatched`, `BackendQueueIsWritten` |
| `pool_live` | the same without messages and `Stop`, fair | `DeadSlotIsRebuilt`, `SilentLinkIsClosed` |
| `gate_sessions` | 1 session with 2 accounts, 2 work shards, 4 packets, 2 replies, queue limit 2, fair | `LiveSessionIsReachable`, `FoundSessionIsLive`, `RegistryEntryIsCurrent`, `SessionQueueIsWritten`, `SilentSessionIsClosed` |
| `room_battle` | 2 players with a villager and a crystal each; both attack, one also trains, food for 2; 2 commands, 1 lost tick, a snapshot every second tick, fair | `ImplementsLogicRoom`, `TrainingCompletes`, `ViewIsRealigned`, `WealthIsConserved` |
| `room_economy` | 2 players with a villager and a crystal each, one field of 3, loads of 2; both harvest, stop and pick up, one also stores, moves and builds; 3 commands, every tick looks for enemies | `WealthIsConserved`, `ViewFollowsWorld`, typing |

The bounds are chosen for cases, not for completeness: three players make a
forfeit ambiguous and let one leave while two stay; two rooms let a player move
and an id be used again; two shards tell the congruence classes apart; two
generations per slot let stale meet new; a queue limit of one is reached. One
slot is enough for the pool's properties, which are about one connection or
about a connection and its successor: slots share only `rr_idx_`.
One session is enough for the gateway's, since no two sessions have a uid in
common: they share only the turn of the shards. Queued commands are left to
`game_routing`, `game_reclaim` and the battle runs (`logic_rooms` has
`MaxPending = 0`). `game_routing` has one client at work at a time, since its
question is where a request goes; several at a time are in `logic_rooms`,
`game_reclaim` and the proofs. In `game_reclaim` two logins are two clients, or
one that changes its account.

The two battle runs divide the nine commands between them. In `room_economy`
workers of both sides harvest one field, which empties under one of them; a load is
put down on order or because an enemy comes near, both may walk to it, and one who
carries something already takes only a part. In `room_battle` a queue of two is
trained, a crystal falls with units in its queue, the battle ends with a queue
waiting, both crystals fall in one tick, and the lost tick may be the snapshot
itself. That these cases are reached was checked by asking TLC to refute each of them.
Not reached by either: three commands about fighting, an inn that trains (it takes
building, finishing and training), and more than one villager each at the start. The
typing and the client's view are proved for all of
these; `WealthIsConserved`, `ImplementsLogicRoom` and the liveness are not.

The lobby has one shard because shards share nothing (the proofs need no such
reduction); `game_routing` has two. Symmetry over players is used only in runs
without liveness. The runs of the network shard, the pool, the gateway's
sessions and the battle say `CHECK_DEADLOCK
FALSE` since a stopped shard, a battle that is over, and a world whose bounded supply of events is used
up, really stop.

Three runs expect a violation; each refutes one sentence of the repository:

| Run | What the code does | What is said |
| --- | --- | --- |
| `logic_teams` | a newcomer gets `players_.size()` as team, which after a departure is the team of somebody who stayed | tests: "assigns sequential teams" |
| `game_overtaken` | a disconnect overtakes the create sent before it over another link; the room stays | comment `WorkShard.h:30` |
| `net_stale_read` | a body whose read had completed when the link was closed is routed with the *slot's* generation, the new link's | README.md:78 |

More disagreements were met and are in the models without a run of their own:

* Two creates of one client go to two shards in turn (`NetworkShard.cc:414`), and
  `LeaveRoomInternal` knows only its own shard's rooms, so the client is in two
  rooms; the comment at `LogicShard.cc:726` says it leaves the old one first.
* `GameServerConnPool::Stop` clears `sessions_` on the stopping thread while the
  detection loop may be about to index it (`overrun` in `ConnPool`); README.md:82
  says that threads share no memory. The same holds for the acceptor, which
  inserts into a work shard's map (`Cserver.cc:73`).
* With three or four players, leaving a battle awards it to one of several sides
  left (`LogicShard.cc:686`, `ForfeitWinners`; the comment above it speaks of the
  one side left).
* `SendToPlayers` merges uids whose routes have different generations of one
  link into a target with one generation (`LogicShard.cc:588`), so that the
  comparison of README.md:70 is made with somebody else's generation.
* A client that logs in on another account leaves its old uid behind without a
  `ClientDisconnectedNtf` (`BindUid`, `Csession.cc:97`; `ClientLogin` in
  `GameServer`), and a request whose body was read when the session closed is
  forwarded after the notification (`Csession.cc:140`; the `"late"` sessions of
  `GameServer`, `OnBody` in `GateSessions`). Either leaves a room and a route
  behind even on one link; `WorkShard.h:30` says the game server is told to
  reclaim the room. `DisconnectedIsForgotten` leaves both out, by what it says of
  `told`: it is about what the links and the fan-out do with a disconnect that was
  the last word.
* A field's amount, and a drop's when it is taken in parts, are never in a delta:
  `field_dirty_` is filled and nobody reads it. README.md:117 says that what Step
  changes is marked dirty and packed into the delta. `ViewFollowsWorld` therefore
  asks only which fields and drops exist; snapshots have the amounts.
* A worker that goes to a field or drop of another kind turns what it carries
  into that kind (`DungeonRoom.h:1292`, `1442`): `WealthIsConserved` counts all
  kinds together.
* A foundation that is struck to zero is raised again if its builder's turn comes
  later in the same tick (`DungeonRoom.h:1484`). What the dead carried, and the
  training queue of a razed building, are lost; `WealthIsConserved` says so.

For `net_stale_read` the order is possible with asio's queue when a write error,
the retry timer and the completed body come in one batch of the reactor: the
write handler closes the session, the timer's handler takes the slot, and the
read's completion, posted behind them, finds the new generation.

### Fairness

Weak fairness of each handler, and of timers: each shard has a thread that runs
its `io_context` until it is stopped, and a timer that is armed fires. Nothing
is assumed of the network or of clients: no read, write, accept or connect has
to complete. In `DungeonRoom` the tick is fair (`TickLoop` re-arms its timer for
as long as the shard runs), which unit moves when is not, and losses are bounded
by `MaxLosses`: a client whose every snapshot is lost stays wrong.
`DisconnectedIsForgotten` also needs the disconnect to be delivered:
`game_reclaim` has one link that does not break, so that the order of messages
is kept and nothing is lost; `game_overtaken` shows that a second link is
enough to lose it. No client is assumed to close, and no late packet to be there.

## 4. Proofs

`LogicShardProofs` proves `LogicSpec => []IInv` (theorem `LogicInvariant`) for
every finite set of players, every set of routes, every positive number of
shards and all bounds. `IInv` is the conjunction of `LogicTypeOK`,
`MembershipAgrees`, `NoEmptyRoom`, `RoomIdsOfShard`, `MembersRoutable` and
`ActiveRoomIsFull`; none is inductive alone. That a departure touches the right
room rests on `MembershipAgrees`; that a created room is new, so that nobody's
index entry already points to it, rests on `RoomIdsOfShard`; that the number of
players is a team for the newcomer rests on the size of the roster; that the
battle a tick works on has players rests on `NoEmptyRoom`. `ShardInv` restates
`IInv` on the maps of one shard, so that what leaving, joining and creating do
to the maps is proved once, in lemmas about maps (`Put`, `Erase`) and rooms
(`AddPlayer`, `RemovePlayer`, `BeginBattle`, `TickRoom`), and each handler only
names the maps it leaves behind. Six theorems follow, one per conjunct.

`LogicShardActionProofs` proves, from the same assumptions, three properties of
steps. The ids of erased rooms do not come back (`RoomIdsNeverReused`), a change of a
roster is announced to everybody in it afterwards (`RosterChangesAnnounced`), and
a battle ends once and audibly (`BattlesEndOnce`). `StepOK` says of one shard's
room map, before and after a handler, and of what the handler sends, how the map
may change: `FreshIds` of the rooms that appear, `Change` of those that stay. It is
shown first for a departure, which create, join, leave and disconnect share, then
for each handler. That *every* player is told rests on `IInv`: `SendToPlayers`
skips a uid without a route, and `MembersRoutable` says that no member is one;
the handler that acts on the room a player is in acts on the right one because of
`MembershipAgrees`.

`GameServerProofs` proves, for any links, network shards and requests that meet
the named assumptions, that the queues hold only messages of the protocol and
sessions speak only for their own uids (`GSTypeCorrect`), that every step of the game server is a step of `LogicShard`
or leaves it alone (`GameServerImplementsLogic`), and, carrying the logic
invariant over, that a queued request that names a room is at the only shard
that can have it (`RequestsAlwaysReachTheirRoom`). The last one needs the
congruence of room ids to hold for *later* rooms too, which is why the invariant
(`GSInv`) records, for each queued task, that it lies at `room % ShardCount`; the
rooms' own congruence comes from `LogicInvariant` through the refinement.

`GateSessionsProofs` proves `GateSpec => []GateInv` (theorem `GateInvariant`) for
any sessions and accounts, every positive number of work shards and every
positive queue limit (`GateShardsPositive`, `GateDepthPositive`,
`GateBoundsNat`). A session, the two maps of its shard and the registry name each
other, and each step changes some of the four, so none of the checked
properties is inductive alone. `GateInv` joins `GateTypeOK` with
  - `SessionsOK`: an object no connection was accepted on has nothing under way,
    a session's uid is one `MakeLoginUid` gives to it and to no other, and
    `is_writing_` tells the truth about the write loop;
  - `OwnedOK`: the shard's map has exactly the connected sessions;
  - `IndexOK`: `user_id_mgr` names a session only by a uid it was given, and a
    connected one only by the uid it has. It does *not* say that it names
    connected sessions: a login that was already read when its session closed
    still enters the index, and only the map of sessions stops it from being
    found;
  - `RegistryOK`: an entry is under the session's present uid, and a logged-in
    session has one. That `close` and a second login remove only their own
    entries rests on no two sessions ever being given the same uid.

A lemma per kind of step (a coroutine moves, a session closes, logs in, is
accepted, a reply is delivered) shows what it leaves of the four. Five theorems
follow: `GateTypeCorrect`, `LiveSessionsReachable`, `FoundSessionsLive`,
`RegistryEntriesCurrent` and `SessionQueuesWritten`.

`NetworkShardProofs` proves `NetSpec => []NetInv` (theorem `NetInvariant`) for any
positive number of links and any bounds on generations, packets, replies and the
queue (`LinkCountPositive`, `NetBoundsNat`). A queued result may be delivered
after its session was closed and its slot taken again, so `NetInv` speaks of every
session there has been, not only of those in the slots:
  - `CoreOK`: a slot's state fits the session in it, a session that is open or being
    accepted is the one its slot names, `is_writing_` tells the truth, and no session
    has a generation its slot has not reached. The last part is what makes an accept
    start with an untouched session;
  - `AcceptsOK`: the accept under way and the retry timer exclude each other, and a
    pending accept holds its slot;
  - `BoundOK`: while an accept may still start, a generation is left for it;
  - `LogicOK`: a `NetworkTask` names a link at most once. `HandleNetworkTask` compares
    the generation of a target with the slot's, so the packet it queues is of the
    session's own generation; with two targets for a link, the packet of one could
    pass with the comparison of the other.

Five theorems follow: `NetTypeCorrect`, `LiveLinksAlwaysOwn`, `AcceptsOneAtATime`,
`QueuedPacketsWritten` and `OwnPacketsOnly`.

`ConnPoolProofs` proves `PoolSpec => []PoolInv` (theorem `PoolInvariant`) for any
positive number of connections per slot, any slots, queue limit and heartbeat timeout
(`ConnCountPositive`, `PoolBoundsNat`). `PoolInv` says of every connection object,
also of a closed or replaced one, that `is_writing_` tells the truth (`FlagOK`), that
it is watched (`WatchOK`) and written (`WriteOK`) while it is available; that
replaced connections are closed; and that the objects after a slot's current one
are untouched (`UnusedIsNull`), without which a new connection could not be known to
start with no handlers of its own. `FlagOK` must hold of closed and connecting
objects too, since a connection that opens sends its hello at once. Five theorems
follow: `PoolTypeCorrect`, `ReplacedAlwaysClosed`, `AvailableAlwaysWatched`,
`BackendQueuesWritten` and, for every step, `ClosedForGood`: the lemma of each handler
says that it leaves a closed connection closed.

`DungeonRoomProofs` proves `RoomSpec => []RoomInv` (theorem `RoomInvariant`) for
any finite set of players, any fields near the crystals, any starting numbers,
prices and health in strikes, and any orders (`RoomNumbers` and `RoomData`).
`ViewFollowsWorld` speaks of the world between ticks only, and a tick changes it in
many steps, so the invariant has to say what the view is worth in the middle of one:
`Good(v, sync, E)` is the set of worlds that are well formed, whose ids are all below
`next_entity_id` with no id in two maps or both in a map and despawned
(`Consistent`), and of which, if the client is in sync, everything that differs from
its view v is in `spawned`, `dirty`, `despawned` or `resource_dirty` (`Covered`), but
for the units in E. The exception is needed because the code marks some units after
it changed them: `DropCarried`, for one, empties a worker and leaves the mark to its
callers, which go on to change its task. `RoomInv` says that the world is good for the client's view with
no exceptions; that between ticks nothing is dead and nothing is marked; and that the
units whose turn is to come are on the field. TLC checked it as an invariant with the
bounds of a battle run before it was proved.

Every function of the room gets a lemma that says it leaves a good world good; all
rest on two (`AppearedIsGood`: an entity comes with a new id and is spawned;
`UpdatedIsGood`: one is changed and marked). Then come the command queue, the folds of a tick over
buildings and over the dead, the snapshot and the delta as the client applies them
(what is marked is sent, so `Covered` becomes equality), and the first world, which
deals out entities player by player. The folds and recursive functions are data the
library's induction theorems cannot reach, since those take the property as an
operator; `DungeonRoomLemmas` begins with the same facts in terms of sets and
functions (a least counterexample among the naturals, the existence of a function
defined by recursion over a finite set, an invariant that is a set). Two theorems
follow: `RoomTypeCorrect` and `ViewAlwaysFollows`.

Only model-checked: all liveness (`DisconnectedIsForgotten`, `FreeSlotIsOffered`,
`StopDrains`, `DeadSlotIsRebuilt`, `SilentLinkIsClosed`, `SilentSessionIsClosed`,
`ViewIsRealigned`, `TrainingCompletes`), which the prover does not handle; and the
two action properties of `DungeonRoom`. `WealthIsConserved` needs the sum over a map
of entities to change as its entries do, which is induction over the sum.
`ImplementsLogicRoom` is open: the tick's step of `LogicShard` is reached through an
instance with constant expressions for its maps. Every invariant that a run checks
and expects to hold is proved.

## 5. Not modelled

The geometry of the simulation (positions, paths, formations, ranges, timers) is
floating point and out of TLC's reach; the models choose its outcomes. The data
race of the acceptor with a work shard is taken as an atomic insertion. Metrics,
configuration, the main programs, the packet buffers and the codec have no
behaviour of interest; the load generators and tests are not part of the
service. The processes' own start and stop (`GameServer::Start` and `Stop`,
`Cserver::stop`, `WorkShard::stop`) are left out; the stop of one network shard is
in `NetworkShard`, that of the pool in `ConnPool`.

## 6. Plan

1. Done: `LogicShard`, `GameServer`, `NetworkShard`, `ConnPool`, `GateSessions`,
   `DungeonRoom`; their invariants proved, the action properties of `LogicShard`
   and `ConnPool`, and the refinement of `LogicShard` by `GameServer`.
2. Proofs: the two action properties of `DungeonRoom`, first `ImplementsLogicRoom`,
   then `WealthIsConserved` with the lemmas about sums that it needs.
3. `ServerStop`: the order in which the game server stops its shards while tasks
   are posted.

## 7. Running it

    tlc -workers 2 -config MCLogicRooms.cfg MCLogicShard
    tlapm LogicShardProofs.tla
    tlapm LogicShardActionProofs.tla
    tlapm GameServerProofs.tla
    tlapm NetworkShardProofs.tla
    tlapm ConnPoolProofs.tla
    tlapm GateSessionsProofs.tla
    tlapm DungeonRoomLemmas.tla
    tlapm DungeonRoomProofs.tla

`PROJECT.json` names the module and the configuration of every run, the mutants
that show each property can fail, and the source lines of every definition.
