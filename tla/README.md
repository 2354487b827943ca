# TLA+ models of the trading system

The repository is a small exchange: clients talk to a **gateway server**, which checks and
reserves their money and forwards commands to one **engine server** per symbol, which matches
orders and sends events back. This directory models the parts of it whose correctness depends
on sequences, interleavings and crashes, model-checks them with TLC on small instances, and
proves most of their safety properties, and that the engine implements price-time priority, with
TLAPS for every instance.

## The system

| Part | State it keeps | Operations |
|---|---|---|
| Order book (`engine/order_book.rs`) | slab of orders, id index, one FIFO queue of slab keys and a total per side and price | `insert_resting`, `cancel`, `match_taker`, snapshot and restore |
| Matching engine (`engine/engine.rs`) | book, risk state, `command_seq`, `server_seq` | `process` of NewOrder, Cancel, Replace, SetRiskLimits, QueryAccount |
| Engine risk (`engine/account_manager.rs`) | position and limits per account | `check_risk`, `apply_fill` |
| Persistence (`persistence/lib.rs`) | batch, journal file, snapshot files | `append`, `flush`, `rotate`, `read_all`, `save`, `load_latest`, `cleanup_old` |
| Engine server (`engine_server`) | bounded ingress channel, one gateway connection | forward commands, forward events, stop with the gateway |
| Gateway accounts (`gateway_server/account_manager.rs`) | buying power, `tentative_reserved`, positions; own journal and snapshots | check and reserve, adjust, release, `apply_fill` |
| Gateway connections (`gateway_server/client_handler.rs`) | `pending_orders` shared by all tasks, one private map per connection, sessions, the registry of connections and a bounded channel for each | one read loop and one write task per client, one response task |
| Gateway persistence (`gateway_server/persistence.rs`, `main.rs`) | account journal, account snapshots | load at start-up, create accounts, snapshot task |
| Engine router, reconciliation (`engine_router.rs`, `reconciliation.rs`) | connections to the engines, event channel | connect, route, query all orders at start-up, rebuild reservations |

The engine is one thread that takes a command from a channel, journals it, processes it, sends
its events and possibly takes a snapshot and rotates the journal. The gateway is a set of tokio
tasks: the read loops and the response task share `pending_orders` (a read-write lock) and the
accounts (a lock per entry), and each of them takes and drops these locks several times per
command or event. The response task also waits for a client's channel with the registry of
connections locked. Either process can die between and inside its writes, and a start of the
gateway depends on engines that may still be serving its predecessor. That is what is hard to
test here.

What has to be right:

* **Book**: a slot is never handed out while it is in use; the index finds exactly the live
  orders; a level exists exactly while somebody waits there; the book is never crossed; orders
  trade in price-time order; no lot is lost or invented.
* **Risk**: positions balance; an order never takes its sender past the limits checked for it.
* **Recovery**: a restart brings back what was journalled, in order, nothing twice; what it may
  lose is bounded by the batch.
* **Gateway**: every reserved amount is owed to exactly one order; no account reserves more than
  it has; reservations cover the open orders and return when these are gone; a cancel that is
  waited for is answered.
* **Gateway restarts**: accounts come back; what is rebuilt from the engines covers the orders it
  was rebuilt from and is not released twice; a start-up ends, whatever the engines do.
* **Channels**: one client cannot stop the answers of the others, and a client that has left is
  forgotten.

## Modules

| Module | Models |
|---|---|
| `OrderBook` | state and state changes of the book; the slab with its free list, tombstones of cancelled orders, eager removal of levels |
| `MatchingEngine` | `process`: one action per command; `handle_new` is cut into its check (`RejectNew`, `AcceptNew`), one step per iteration of the matching loop (`MatchStep`) and its end (`FinishNew`) |
| `PriceTimeBook` | abstract specification: plain queues, best price first, oldest first |
| `EngineRefinement` | the mapping from the slab to the plain queues, and the refinement property |
| `EngineRestart` | `MatchingEngine` with restarts from an up-to-date snapshot |
| `EngineRecovery` | journal, snapshots, rotation, crashes, `restore_from_persistence` |
| `Gateway` | read loops, response task, account manager, routing, ingress channel; the engine behind it is `PriceTimeBook` |
| `GatewayAnswers` | `Gateway` with a response task that waits for its clients; the liveness of cancels |
| `GatewayRecovery` | the gateway across crashes: account journal and snapshots, start-up, reconciliation with its timeout, the snapshot task, engines that lose their gateway |
| `ClientChannels` | registry and its lock, connection and write tasks, bounded channels, the sending half of the response task |
| `MCMatchingEngine`, `MCEngineRecovery`, `MCGateway`, `MCGatewayAnswers`, `MCGatewayRecovery` | constants for TLC |
| `OrderBookProofs`, `MatchingEngineProofs`, `EngineRefinementProofs`, `EngineRecoveryProofs`, `GatewayProofs`, `GatewayRecoveryProofs`, `ClientChannelsProofs` | theorems about the module each extends |
| `SumTheorems` | lemmas about `SumFunction`, used by the others |

### OrderBook and MatchingEngine

Variables carry the names of the code's fields: `orders` is the slab (`Nil` for a vacant slot),
`free` its list of vacant keys in the order they are handed out, `index` the id map, `book` the
two BTreeMaps; `NoLevel` stands for an absent price. `cancel` zeroes the quantity, drops the
index entry and adjusts the level, and leaves slot and queue entry behind (a tombstone);
`match_taker` skips tombstones, pops a filled maker and pushes a partly filled one back. The
slab of the code grows on demand; `MaxSlots` bounds it, and an order that would rest in a full
slab is not sent. `stage` follows one command; since the engine is a single thread, nothing else
happens before it is "idle" again. The positions of both sides of a fill are updated in the step
of the fill: in the code this is a second loop over the fills, which nothing can observe in
between. Average price and P&L are left out: no check reads them. `UniqueIds` says whether
clients reuse the id of a live order, which the engine does not prevent.

### EngineRecovery

Commands are numbers and the state of book and accounts is the sequence of commands applied to
reach it; a frame of the journal is complete or cut in its length, payload or checksum, and
`ReadStops` and `ReadFails` say what `read_all` makes of it. The loop is cut at each write, so
that `Crash` can fall between any two, and inside one when `TornWrites` is set. The history
variables `taken`, `sent`, `archived` and `degraded` (a restore failed and the engine runs
without the state it should have) only serve the properties. A crash of the process keeps
what was written (the page cache survives); loss of power is not modelled.

### Gateway

A step is what happens under one lock. A command goes through `Read...`, `AdjustReservation`
(Replace only), `TrackOrder` and `Route`; a fill is read from the map (`OnFill`) and then applied
and removed for maker and taker in up to four `Respond` steps. `tracked` is the private map of a
read loop. `EngineReceives` is `try_send` into the bounded ingress channel, which drops a command
when it is full. The engine may refuse any order (`EngineRejects`): its own limits are not in
this module, so SetRiskLimits only produces its ack, which names order 0 (`Zero`). Events return
in order over one channel. What clients are told is in `ClientChannels`.

The gateway checks that a connection is authenticated and nothing more: clients name any account
and any order id, of other clients too. `UniqueIds` says whether every new order has an id that was
never used; nothing in the code sees to it. Without it an order overwrites the entry of another in
the shared map, with the consequences in the table at the end, and the engine may not find an
order in its index (`NotFound`). The runs and theorems about reservations and positions are for
`UniqueIds`.

`GatewayAnswers` adds that the response task, after an event, waits for room in a client's channel
(`client_handler.rs:659`, `669`, `742`) before it takes the next; `waiting` says whether it does.
Apart from `waiting` its behaviours are those of `Gateway`: a wait delays steps and changes nothing
else. The passing gateway runs use it (`AnswersSpec`), the theorems are about `Gateway`.

### GatewayRecovery

`stage` is how far the process is: "create" the accounts one by one (only if there are none),
"connect" to all engines, "query" them for their orders, "serve". Disk is the journal, whose frames
may be cut, and the snapshot files. An engine is "listening" for its single connection, "serving"
it, an "orphan" whose gateway has died but which has not noticed, or "down"; an orphan accepts no
other connection, so the query of a restarted gateway gets no answer and its five seconds pass
(`Timeout`). `book` and `saved` are what is left of each order in the engine's memory and on its
disk. While the gateway serves, a command with its execution or an event is one step: the steps in
between are in `Gateway`. The other side of a trade is not represented.

A running gateway does not connect again to an engine that has gone: what it sends there fails
(`RouteFails`) or is accepted by the socket and lost (`CommandLost`). An order that cannot be routed
has its reservation released and stays in the shared map, as in the code; the history variable
`unrouted` has these, and `Holding` the others. A cancel that cannot be routed makes the order Active
again. Ids may be used again, within a process and after a restart, when nothing is left of the order
that had them (`Fresh`); two open orders of one id are in `Gateway` only, since `book` has one entry
per id. `OwnSymbol` says whether a cancel names the symbol of its order, which nothing checks; if
it does not, a cancel of an unroutable order can reach another engine, whose answer releases the
money a second time.

### ClientChannels

The registry's lock serves waiters in the order they came, as tokio's does: readers too, so a
connection that waits to register stands in the response task's way and the reverse. The response
task takes an event, decides who hears of it (`current`), waits for the lock and then sends with
the lock held, each send waiting for room in the client's channel. The end of a write task drops
the receiver, so that later sends return at once. `socket` stands for everything between a channel
and a client that reads. What events do to accounts is in `Gateway`.

## Runs

| Run | Checks | Shows |
|---|---|---|
| `engine_book` | `FreeListExact`, `IndexExact`, `QueuesExact`, `LevelTotals`, `Uncrossed`, `QuantityConserved`, `PostOnlyNeverTakes`, `PriceTimePriority` | slab, index, queues and totals agree through all sequences of orders, cancels and replaces; a post-only order takes nothing, also when it is replaced; the engine implements `PriceTimeBook` |
| `engine_commands` | `TypeOK`, `PositionsBalance`, `TakerWithinLimits`, `QueuesExact`, `RestartReclaims` | all five commands, an id used again while its order rests, a foreign symbol, limits that tighten while orders rest, restarts from a snapshot, which free the tombstones |
| `restart_priority` | `PriceTimePriority` (violated) | the snapshot lists orders by slot, so a restart can put a newer order first |
| `recovery_journal` | `ReplayInOrder`, `LossBounded` | journal alone, in batches: replayed in order, less than a batch is lost |
| `recovery_faults` | `TypeOK`, `SequenceCountsCommands`, `ReplayInOrder` | batches, snapshots, rotation, every I/O error and torn write: the engine comes up, `command_seq` counts what its state reflects, and until a restore fails nothing is applied twice or out of order |
| `gateway_reservations` | `ReservationsTracked`, `Solvent` | new orders with ids of their own, cancels of any order in any account's name, partial fills and rejects on two connections: each token is counted once between any two locks, and nobody reserves more than he has |
| `gateway_unit_orders` | `OrdersCovered`, `ReservationsReturn`, `PositionsAgree` | for orders of one lot with ids of their own and without cancels, reservations and positions are those of the engine's book |
| `gateway_cancel_resolves` | `TypeOK`, `CancelResolved` | all commands, ids used again, disconnects, routing failures, waits at full client channels: a pending cancel is resolved if clients read or leave |
| `gateway_partial_fill` | `OrdersCovered` (violated) | the first partial fill releases the whole reservation |
| `gateway_restart` | `TypeOK`, `ReservationsAccounted`, `RestartCoversOpenOrders`, `AccountsPersist`, `StartUpEnds` | crashes of the gateway and of engines anywhere, commands lost or not routed, an append or a save cut short, and a restart |
| `gateway_balances` | `BalancesSurvive` (violated) | the journal's replay creates every account anew over what the snapshot restored |
| `client_answers` | `TypeOK`, `AnswersFlow`, `AnswersDelivered`, `LeaversForgotten` | clients that come, read slowly and go: answers flow, those who stay get theirs, those who left are forgotten |

**Bounds.** Engine runs: three ids, two prices and quantities up to two give a queue of two
orders and a taker, a tombstone before and behind a live order, a reused slot, a partial fill
and a sweep over two levels; two accounts give trades between and within accounts. `engine_commands`
uses one id, again and again, to afford every symbol, limit and restart: up to three live orders
share it, so that a taker meets several makers and the index has lost some of them; `engine_book` has
one account to afford three ids with both values of the post-only flag. Three slots let a replace,
which leaves a tombstone behind and needs a free slot, meet another resting order. Ids and accounts are interchangeable, so these runs
use symmetry. Recovery runs: five commands and three crashes with a batch, snapshot interval
and rotation threshold of one to three, so that every file is written, cut, replaced and read
back, and a second restart reads what ran after the first; three snapshots are kept as in the
code. Gateway runs: two connections, a buyer who cannot afford all his orders and a
seller; three or four commands in flight reach every pair of a read loop and the response task
in every order. `gateway_restart`: two engines, so that one can answer and the other not, two orders
of one account, one of them of two lots, so that sums and partial fills matter, either of which can
be sent twice, so that an id is used again; two starts, one engine crash, so that a route fails and
the engine comes back, one write that is cut and one snapshot. `AccountsPersist` was also checked
with three accounts, four starts, two faults and a snapshot at each of four ticks, without orders
(240,000 states): there a creation is cut in the middle, served, restarted and served again, and a
snapshot replaces an older one. `client_answers`: two
connections, channels and sockets of one frame and two events fill every queue and let the
response task wait for one client while the other connects, leaves or waits for its own answer.
The cfg of each run names its constants.

**Deadlock** is checked in the engine runs (the engine can always take another command). The
other runs end at their bounds on commands and crashes.

**Fairness** is assumed in three runs. `CancelResolved`: weak fairness of each read loop that has a
command to finish, the response task, the engine server's read loop and the engine thread
(`TasksRun`): the runtime polls every woken task and the engine thread loops on its channel. The
response task waits for clients whose channel is full, without a timeout, so the run also assumes
that such a client reads or leaves (`ClientsRead`). The code does not enforce that, and without it
the property fails (below). Reading a command, authenticating and disconnecting are left to
the client and are not fair. The ingress channel of this run holds all its commands; with a smaller
one the property fails too. `StartUpEnds`: weak fairness of the start-up, which is one task with
a timer; nothing is assumed of the engines. `client_answers`: weak fairness of the tasks of the
gateway (`TasksRun`) and of clients: a client with something to read reads it or leaves
(`ClientsRead`), which the code again does not enforce: without it `AnswersFlow` fails (below). No client has to leave or to send.

## Proofs

The theorems hold for every value of the constants that satisfies the assumption of the module:
`BookAssumption`, `EngineAssumption`, `RefinementAssumption`, `RecoveryAssumption`,
`GatewayAssumption`, `GatewayRecoveryAssumption` and `ClientChannelsAssumption` give the constants
their types, make bounds positive where the code needs it, keep `Nil` apart from the values it
stands in for, and make the sets that sums range over (accounts, ids, connections) finite. Each is
evaluated by TLC in the runs. Where a theorem needs more than its module's assumption, the
hypothesis is in its statement and named below.

**Order book and engine** (`OrderBookProofs`, `MatchingEngineProofs`)

* `TypeCorrect`: `TypeOK`, strengthened by "an order is in hand during `handle_new`".
* `BookCorrect`: `BookInv == FreeListExact /\ QueuesExact /\ TotalsExact /\ IndexSound`, with or
  without unique ids. None of the four is inductive alone: `cancel` removes a level when its total
  reaches zero, which strands no order only because the total is the sum of the live orders in
  the queue; a maker's slot may be freed only because no other queue holds its key; and a fill
  removes an index entry by the maker's id, which is right only if the entry leads to a live
  order. The argument is one lemma per state change of the book (`InsertRestingInv`,
  `CancelOrderInv`, `TradeInv`, `DropLevelInv`); `BookChanges` shows that every action of the
  engine is one of them or leaves the book alone. `SlotsExact` (`FreeListExact`) and
  `LevelTotalsExact` (`LevelTotals`: a level's total is the sum of what waits there and is
  positive) follow.
* `NeverCrossed`: `Uncrossed`, from `BookInv`: `FinishNew` rests an order only when the
  matching loop has ended, that is when the order is filled or no longer crosses.
* `TakerStaysWithinLimits`: the invariant is position plus what is still to fill, on the taker's
  side, within the limit (`RiskInv`); a self-trade leaves the position where it was.
* `IndexComplete`: with `UniqueIds`, `IndexExact`; it needs that the id of the order in hand has
  no index entry (`TakerUnindexed`), for a replace because its cancel came first. The hypothesis
  says that clients do not reuse the id of a live order; the engine does not check that.
* `PostOnlyKept`: `PostOnlyNeverTakes`; the invariant also says that a post-only order in the
  matching loop does not cross, which the check before it established and nothing changes.
* `PositionsBalanced`: `PositionsBalance`; a fill moves the sum of all positions by the signed
  quantity twice, with opposite signs, also when both sides are the same account.
* `QuantitiesConserved`: with `UniqueIds`, `QuantityConserved`. The invariant `ConservedInv` adds
  that fills and remainder add up while the order is matched, and that no event is left over
  from the command before. A reused id makes the sum per id meaningless, hence the hypothesis.

**Refinement** (`EngineRefinementProofs`)

* `EngineRefines`: `PriceTimePriority`, that is `Spec` implies the specification of
  `PriceTimeBook` under the mapping of `EngineRefinement`. The abstract queue of a level is its slab
  keys with a live order, in their order: `InOrder(LivePositions(queue))` is the ascending listing of
  the positions of live orders, which exists and is unique (`ListsAgree`), so it can be computed after a
  step from what it was before. Appending a live key, killing one key, shrinking the head and
  dropping the head each change the listing in one way. Then every action is one abstract step
  or none: `cancel` takes one order out of its queue, a fill takes lots from the head of the best level,
  skipping a tombstone and removing a level are no step. That the first live key of the best level
  is the abstract maker rests on `BookInv`: a level that exists has somebody waiting, and a slot is in one queue
  only. A `Replace` is an abstract cancel, and the rest of it is a new order.

**Restarts from a snapshot** (`EngineRefinementProofs`, over `RestartSpec` of `EngineRestart`)

* `RestartsKeepInvariants`: with a restart possible whenever the engine is idle, `TypeOK`,
  `FreeListExact`, `QueuesExact`, `LevelTotals`, `IndexSound`, `Uncrossed`, `PositionsBalance` and
  `TakerWithinLimits` still hold. The rebuilt book satisfies `BookInv` whatever the old one was like,
  because it is built from the live orders alone: the snapshot lists each once (`SnapshotLists`), a
  level gets exactly the keys of its side and price (`LevelsRebuilt`), and the sum of its queue is the
  sum over the slab (`LevelRebuilt`, with `SumImage`). `Uncrossed` does need the old book: a level that
  comes back had a live order, hence a level, before (`RestartOpensNone`).
* `RestartsKeepIndex`: with `UniqueIds`, `IndexExact`. When two live orders share an id, the later
  slot wins and the theorem would be false.
* `RestartsReclaim`: `RestartReclaims`, an action property: only a restart leads from idle to idle, and
  it leaves the slots `0 .. n - 1` occupied for `n` live orders and all others free.

**Engine recovery** (`EngineRecoveryProofs`)

* `SequenceCounts`: `SequenceCountsCommands`, with the shapes of files and batch (`CountInv`). A
  snapshot's number is what a restart uses as an index, so this is what the next theorem stands on.
* `OrderRecovered`: `ReplayInOrder`. What a restart replays depends on files that may have lost
  frames, so the invariant `OrderInv` speaks of `Journal`, the file followed by what the batch may
  still add to it: its frames are in order and none is younger than the last command taken
  (`FramesOrdered`, `FramesTaken`); it has no more readable frames than commands applied or in
  hand (`Fits`); and every readable frame behind a snapshot's number is later than all the snapshot has
  (`Later`). All four survive when frames are missing or damaged (`ShortenedKeeps`), and every
  write, failed write, cut write and rotation leaves a shortened journal. `Fits` breaks when an engine
  goes on after a failed restore: that is the exception `degraded` makes, and it is a real one.
* `RecoveryTypes`: `TypeOK`, also for engines that went on after a failed restore. A snapshot's
  number is bounded because neither the journal nor the state is ever longer than the number of
  commands taken (`Bounded`).
* `JournalRecovered` and `LossIsBounded`: `RecoversJournal` and `LossBounded`, for every batch size,
  under `Intact`: writes are not torn, the journal is not rotated, and there are no snapshots or
  batches have at most one command. Each part is needed: without it TLC finds a command that was applied
  and journalled and is lost (the rows of the table below, and `LossBounded` fails with them). The
  run `recovery_journal` is the case of batches without snapshots, where `RecoversJournal` says little
  more than what a restart does; in the other case, with `BatchSize = 1`, `SnapshotInterval = 2`,
  `MaxCmds = 8` and `MaxCrashes = 4` in `Recovery_journal`, TLC confirms it too. The invariant
  `KeptInv`: a running engine has applied what file and batch hold except the command in flight
  (`InStep`), a dead one what its file holds and less than a full batch beyond (`Behindhand`), and a
  snapshot has what the file has up to its number (`SnapshotsInFile`).

**Gateway** (`GatewayProofs`)

* `GatewayTypes`: `TypeOK` for all commands, disconnects and routing failures, with the types of the
  queues, what a read loop holds at each point of a command (`LoopShape`) and what can be left of an
  event (`TodoShape`).
* `GatewayReservations`: `ReservationsTracked`, and `GatewaySolvent`: `Solvent`, under
  `PlainCommands`: every order has an id of its own (`UniqueIds`), no Replace and no routing failure.
  Each of the three is a condition on clients and engines that the code does not enforce, and
  without any one of them both theorems are false (the first three rows about `Solvent` of the table
  below). Clients may still cancel any order in any account's
  name. The first needs that an order is in one place only, from the read loop to the
  book (`Places`), that the fill being handled names two different orders (`TodoDistinct`), and that
  the shared map holds the token which is going to be released (`Linked`): then each step moves one
  token from one of the three sums to another. The second needs that the reservation of an order
  pays for the order wherever it is (`Backed`), so that what a fill takes from the buying power is
  at most what it releases.

The other three compare the gateway with the engine, and hold only in a setting which `OneLot`
describes: `PlainCommands`, no cancels, and orders of one lot. The first fill of a larger order
releases the whole reservation and takes the order out of the shared map, so that later fills are
not posted (`gateway_partial_fill`, and `PositionsAgree` fails too); a cancel read before the
order's own ack releases the reservation of an order that then rests and trades. The orders, prices,
accounts, connections and their number are arbitrary. The inductive invariant is `LotInv`, which
adds to the one above that an order which is `Live` (being routed, in a queue, being matched, or in
the book) has the entry in the shared map that its command calls for, and is neither filled nor
refused nor being handled (`Apart`), that no two places of the book and no two fills on their way
are about the same order (`BookOnce`, `FillsOnce`), and that every quantity is one (`UnitQtys`).
Each step moves an order from one of these states to the next.

* `GatewayPositions`: `PositionsAgree`. `Balance` states the difference that exists while something is
  in flight: the engine's position is the gateway's plus the sum over the orders whose fill has been
  made and not yet applied (`UnpostedSum`). A trade moves both sides by one lot for two orders, and
  `apply_fill` for one of them at a time.
* `GatewayOrdersCovered`: `OrdersCovered`. By `BookOnce` the places of the book map one to one to order
  ids, and by `LiveApart` the map holds, under that id, a token of exactly the order's price: the sum over the
  book is at most the sum over the map, which `ReservationsTracked` counts in what is reserved.
* `GatewayReservationsReturn`: `ReservationsReturn`, the converse: nothing else is reserved. It needs
  more: the orders rest (`AllRest`), because an Ioc order that does not trade is acknowledged
  like one that rests and keeps its reservation, and the engine server never finds its queue full (`NeverFull`),
  because a command it drops is answered by nothing. Without either TLC finds a reservation that
  is never returned (table below). The invariant `Kept`: every order in the map is
  live, or an event that makes the map forget it is on its way or being handled.
* `GatewayNeverFull` and `GatewayReturnsAll`: `NeverFull` holds when clients send at most as many orders
  as the channel has places, since every command is in one read loop or one queue (`Room`); hence
  `ReservationsReturn` under a condition on the constants alone, the one of the run `gateway_unit_orders`.

**Gateway restarts** (`GatewayRecoveryProofs`); `AccountsKept` without further hypotheses, the others
under `OwnSymbol` and with ids that are used again only when they are `Fresh`

* `AccountsKept`: `AccountsPersist`. The invariant `PersistInv` says what every start ends up with:
  the accounts before the first damaged frame, or all of them if there are none (`Kept`). Snapshots
  have exactly these, and while accounts are being created either the journal has exactly the ones
  created so far and nothing was ever served, or its first frame is damaged and it never counts.
* `RestartTypes`, `ReservationsAccountedFor`, `OpenOrdersStayCovered`: `TypeOK`,
  `ReservationsAccounted` and `RestartCoversOpenOrders`, from one invariant `RestartInv`. Until
  the gateway serves, an engine it has connected to has on disk what it has in memory (`SettledInv`), so
  the answers are those of different engines and are still true when they are counted
  (`QueryInv`): as many answers as engines are the answers of all engines, although an engine
  may crash after it answered. An order that could not be routed keeps a token in the map whose money
  is gone; `UnroutedInv` says why it is not released again: its engine does not serve this process
  any more, and nothing that is on its way tells of it. Without `OwnSymbol` that is false, and so is
  `ReservationsAccounted` (table below). Afterwards an engine that crashes comes back with no more than was
  reported (`CoverInv` speaks of the lots an order has or can come back with).

**Channels** (`ClientChannelsProofs`)

* `ChannelTypes`: `TypeOK`, with which no channel ever holds more than its capacity although two
  tasks send to it, and the response task never holds the registry's lock with nobody to send to.

**Sums** (`SumTheorems`). Totals, positions and reservations are `SumFunction` of the community
modules, a fold. The library's induction theorems take an operator as parameter, which the provers
cannot instantiate; `SumTheorems` shows by induction over a *set* of numbers (`NatSetInduction`, from
well-foundedness) that the fold's recursion is well defined on the subsets of a finite domain, and
from it that a change at one place changes the sum by as much, and that sums are monotonic,
additive, and invariant under renaming. No theorem of the project depends on the order in which the fold takes
elements.

The strengthened invariants were checked with TLC before they were proved.

**Only model-checked.** Every invariant and action property of a passing run is stated by a theorem.
`PriceTimePriority` is proved without restarts only, because with them it is false
(`restart_priority`). All liveness properties (`CancelResolved`, `StartUpEnds`, `AnswersFlow`,
`AnswersDelivered`, `LeaversForgotten`): fairness and ENABLED are out of the reach of this prover.

## Where code and documentation disagree

Three disagreements are runs: `restart_priority`, `gateway_partial_fill` and `gateway_balances`. The
following were found with the same modules and can be repeated by changing the constants of a
cfg; line numbers are of the files under `crates/`.

| Statement | Does not hold with | What happens |
|---|---|---|
| `ReplaceAtomic` (README "Cancel+Replace atomic operation") | `Engine_commands` | `engine.rs:308` removes the order before the checks that refuse its new version |
| `PositionsWithinLimits` (`types.rs:42` "Maximum long position") | `Engine_book` with two accounts, `DefaultLimits <- MCLongOne` | makers are not checked when they fill |
| `QueryReportsLiveOrders` (`order_book.rs:372` "all active orders") | `Engine_book` with `UniqueIds = FALSE` | a reused id hides the first order from the index |
| `RecoversJournal` (`engine.rs:111` "Replay journal commands after snapshot") | `Recovery_journal` with `SnapshotInterval = 2` | a snapshot ahead of the batch makes a later restart skip journalled commands |
| `RecoversJournal` (`persistence/lib.rs:151` "skips corrupted entries") | `Recovery_journal` with `BatchSize = 1`, `TornWrites = TRUE` | frames behind a torn one are never read |
| `RecoversJournal` (README "can rebuild exact state") | `Recovery_journal` with `BatchSize = 1`, `RotationThreshold = 2` | nothing reads the renamed file, and the offset of the snapshot is applied to the new one |
| `ReplayAlwaysInOrder` (PROJECT_CONTEXT "Deterministic state") | `Recovery_faults` | an engine that went on after a failed restore counts anew on the old journal, and a later restart replays what it already did |
| `ServerSeqFresh` (`engine.rs:108` "server_seq continues from snapshot") | `Recovery_faults` | numbers are derived from the command count and are sent twice |
| `Solvent`, `ReservationsTracked` (README "No double-spend or overselling") | `Gateway_unit_orders` with `CollidingOrders`, `UniqueIds = FALSE` | an order under the id of an open one overwrites its entry (`client_handler.rs:476`); the fill of the first releases the token of the second, the token of the first is in no map |
| `Solvent`, `ReservationsTracked` (gateway `account_manager.rs:335` "atomic: release old, reserve new") | `Gateway_unit_orders` with `OneBuy`, `Conns = {c1}`, `Accounts = {a1}`, Replace | a replace adjusts a token it read before the response task released it |
| `Solvent`, `ReservationsTracked` (`client_handler.rs:536` "Release reservation since we couldn't route") | `Gateway_unit_orders` with `OneBuy`, `Conns = {c1}`, Cancel, `RoutingFails = TRUE` | an order that cannot be routed, for a symbol without an engine, stays in the shared map; the answer to a cancel of it that names another symbol releases its token again |
| `Solvent`, `ReservationsTracked` (gateway `account_manager.rs:335` "atomic: release old, reserve new") | `Gateway_unit_orders` with `OneBuy`, `Conns = {c1}`, Replace | a Replace that names another account is charged to it and credited with the token of the order's account |
| `OrdersCovered` (`client_handler.rs:683` "This is a CancelAck") | `Gateway_unit_orders` with `OneBuy`, `Conns = {c1}`, Cancel | a cancel read before the order's own ack turns that ack into the cancel's: the order rests with nothing reserved |
| `OrdersCovered` (gateway `account_manager.rs:38` "Money locked for pending orders") | the same, also with an `IsCancelAck` that is never true | a cancel that names another account is rejected, and every reject releases the order's reservation |
| `ReservationsReturn` (`client_handler.rs:693`) | `Gateway_unit_orders` with `OneIoc` | an Ioc order that does not trade keeps its reservation |
| `ReservationsReturn` (`client_handler.rs:693`) | `Gateway_unit_orders` with `IngressCap = 1` | a command dropped at the full channel is never answered, and its order keeps its reservation |
| `CancelResolved` (`client_handler.rs:37`) | `Gateway_cancel_resolves` with `IngressCap = 1` | a command dropped at the full channel is never answered |
| `CancelResolved` (`client_handler.rs:37`) | `Gateway_cancel_resolves` with `SPECIFICATION TasksSpec` | the response task waits for a client that neither reads nor leaves |
| `ReservationsAccounted` (README "No double-spend or overselling") | `GatewayRecovery_restart` with `SPECIFICATION Spec`, `OwnSymbol = FALSE` | a cancel of an unroutable order that names another symbol is answered by another engine and releases the money again |
| `OpenOrdersCovered` (`reconciliation.rs:32` "rebuilds the in-memory tentative_reserved values") | `GatewayRecovery_restart` with `SPECIFICATION Spec` | an engine still serving the old connection does not answer; after the timeout the gateway serves with nothing reserved |
| `ReservationsReturn` of `GatewayRecovery` (gateway `account_manager.rs:38` "Money locked for pending orders") | `GatewayRecovery_restart` with `SPECIFICATION Spec`, `MaxCrashes = 0` | orders from before a restart are in no map: their cancel or fill returns nothing |
| `AnswersFlow` (`client_handler.rs:582`) | `Clients_answers` with `SPECIFICATION TasksSpec` | a client that neither reads nor leaves stops all answers, and all connects and disconnects |
| `MakersHear` (`client_handler.rs:651` "Send Fill to BOTH maker and taker clients") | `Clients_answers` with `SPECIFICATION Spec` | the first fill takes an order out of the map, so its maker does not hear of the next |

## Not modelled

* Codecs, configuration, API keys (a lookup table), metrics, admin server, benchmarks and test
  clients: no protocol state.
* `OrderBook::replace`, `check_and_reserve_replace`, `reject_overloaded`, `reconcile_engine_restart`:
  not called. `MarketData`, `Pong` and `EngineReady` are only logged by the gateway, and no engine
  sends them.
* Average price and realized P&L: no check reads them.
* Integer overflow: quantities and prices of the models are small.
* `replay_command` (`engine.rs:515`) does not check the symbol of a cancel as `process` does. The
  gateway routes by symbol, so the two differ only when `engines.toml` and an engine's command line
  disagree.
* Loss of power: a crash loses the process, not what was written.

## What could follow

1. Average price and realized P&L of `apply_fill`, in the engine and in the gateway, against a
   reference.
2. `Gateway` and `ClientChannels` composed: `GatewayAnswers` has the waits of the response task, but not
   which client it waits for.
3. Colliding ids in `GatewayRecovery`, where the book has one entry per id.
