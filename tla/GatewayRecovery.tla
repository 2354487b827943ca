-------------------------- MODULE GatewayRecovery --------------------------
(***************************************************************************)
(* The gateway across crashes and restarts: the journal of account         *)
(* creations and the account snapshots (gateway_server/persistence.rs),    *)
(* the start-up of main.rs, and the rebuilding of reservations from the    *)
(* engines' answers (reconciliation.rs, engine_router.rs).  While it       *)
(* serves, a command with its execution, or an event, is one step: module  *)
(* Gateway has what can come in between.  An engine is its open orders, in *)
(* memory and on disk, and the life of its process, which ends with its    *)
(* one gateway connection.  The other side of a trade is not represented,  *)
(* nor is what an order's limits would refuse.  Clients use an id again    *)
(* only when nothing is left of the order that had it (Fresh): what the    *)
(* code does with two open orders of one id is a matter of module Gateway. *)
(***************************************************************************)
EXTENDS Integers, Sequences, FiniteSetsExt, Functions

CONSTANTS
    NumAccounts,    \* accounts created at the first start
    BuyingPower,    \* what each of them starts with
    NumEngines,     \* engines, in the order of engines.toml
    Orders,         \* the orders clients send, by id
    OwnSymbol,      \* does a cancel name the symbol of its order?  Nothing checks it
    SnapshotTicks,  \* ticks of the snapshot task between two snapshots
    MaxTicks,       \* bound: ticks of the snapshot task
    MaxStarts,      \* bound: starts of the gateway's process
    MaxCrashes,     \* bound: crashes of an engine
    MaxFaults,      \* bound: writes of the gateway that fail or are cut by a crash
    MaxInbox,       \* bound: events waiting in the event channel
    MaxOrders       \* bound: orders sent

Accounts == 1 .. NumAccounts
Engines == 1 .. NumEngines
Ids == DOMAIN Orders

ASSUME GatewayRecoveryAssumption ==
    /\ NumAccounts \in Nat \ {0} /\ NumEngines \in Nat \ {0}
    /\ BuyingPower \in Nat /\ SnapshotTicks \in Nat
    /\ MaxTicks \in Nat /\ MaxStarts \in Nat /\ MaxCrashes \in Nat /\ MaxFaults \in Nat
    /\ MaxInbox \in Nat \ {0} /\ MaxOrders \in Nat /\ OwnSymbol \in BOOLEAN
    /\ Orders \in [Ids -> [account_id : Accounts, engine : Engines, side : {"Buy", "Sell"},
                           price : Nat \ {0}, qty : Nat \ {0}]]
    /\ IsFiniteSet(Ids)

\* AccountState; position is the sum over the symbols.
AccountState == [buying_power : Int, position : Int, tentative_reserved : Int]
NewAccount(power, position) ==
    [buying_power |-> power, position |-> position, tentative_reserved |-> 0]

\* A frame of the journal: complete, cut within its payload, or in its length or checksum.
Cuts == {"payload", "edge"}
Frames == [account_id : Accounts, cut : Cuts \cup {"no"}]

\* An account in a snapshot file: without its reservation.
SavedAccount == [buying_power : Int, position : Int]
KeepSnapshots == 3

VARIABLES
    stage,          \* how far the gateway's process is
    accounts,       \* AccountManager.accounts, a map on the accounts that exist
    pending_orders, \* ids in GatewayContext.pending_orders
    cancelling,     \* those of them marked CancelPending
    inbox,          \* the event channel of the router
    all_orders,     \* what the engines reported so far during reconciliation
    waits,          \* how many answers were awaited so far
    updates,        \* updates_since_snapshot
    journal,        \* disk of the gateway: frames of the account journal
    snapshots,      \* and snapshot files, complete enough to load or not
    engine,         \* each engine's process
    queried,        \* engines with an unanswered QueryAllOrders
    book, saved,    \* lots open of each order: in the engine's memory and on its disk
    ticks, starts, crashes, faults, sent,  \* bounds
    append_failed,  \* history: a log_update failed
    served,         \* history: accounts known when the gateway served
    rebuilt,        \* history: the reservations this process started with
    before,         \* history: the orders open when a reconciliation succeeded
    unrouted        \* history: orders in the map that were not routed, their money released

gateway == <<accounts, pending_orders, cancelling, inbox, all_orders, waits, updates>>
disk == <<journal, snapshots>>
engines == <<engine, queried, book, saved>>
history == <<ticks, starts, crashes, faults, sent, append_failed, served, rebuilt, before, unrouted>>
vars == <<stage, gateway, disk, engines, history>>

Nobody == [a \in {} |-> 0]
Nothing == [a \in Accounts |-> 0]
Known == DOMAIN accounts

\* The first start: no files, engines with empty books.
Init ==
    /\ stage = "down"
    /\ accounts = Nobody
    /\ pending_orders = {} /\ cancelling = {}
    /\ inbox = <<>> /\ all_orders = {} /\ waits = 0 /\ updates = 0
    /\ journal = <<>> /\ snapshots = {}
    /\ engine = [e \in Engines |-> "listening"]
    /\ queried = {}
    /\ book = [i \in Ids |-> 0] /\ saved = book
    /\ ticks = 0 /\ starts = 0 /\ crashes = 0 /\ faults = 0 /\ sent = 0 /\ append_failed = FALSE
    /\ served = {} /\ rebuilt = Nothing /\ before = {} /\ unrouted = {}

-----------------------------------------------------------------------------
(* AccountJournal and AccountSnapshot *)

\* read_all: the accounts before the first damaged frame.
Intact(i) == \A j \in 1 .. i : journal[j].cut = "no"
LastUnread == {journal[i].account_id : i \in {j \in 1 .. (Len(journal) - 1) : Intact(j)}}  \* mutant
Replayed == {journal[i].account_id : i \in {j \in 1 .. Len(journal) : Intact(j)}}

\* read_all returns what it has at a short length or checksum at the end of the file and at a
\* checksum that does not match; a short payload, or frames appended behind a short length,
\* can also be an error.
ReadAllReturns ==
    \A i \in 1 .. Len(journal) :
        Intact(i - 1) /\ journal[i].cut = "payload" => i < Len(journal)

\* write_frame for an account, complete or cut short.
Appended(a, cut) == Append(journal, [account_id |-> a, cut |-> cut])
CutAppend(a) == {journal} \cup {Appended(a, c) : c \in Cuts}

Fault == faults < MaxFaults /\ faults' = faults + 1

\* create_snapshot leaves the reservations out.
CreateSnapshot ==
    [a \in Known |-> [buying_power |-> accounts[a].buying_power, position |-> accounts[a].position]]

\* save replaces the file of this sequence number, cleanup_old keeps the last ones.
WithSnapshot(seq, loads, data) ==
    {f \in snapshots : f.sequence # seq} \cup {[sequence |-> seq, loads |-> loads, data |-> data]}
Newest(files) ==
    {f \in files : Cardinality({g \in files : g.sequence > f.sequence}) < KeepSnapshots}

\* A save cut short: no file yet, an incomplete one, or one that lacks only its checksum,
\* which load_from_file accepts.
CutSave(seq) ==
    {snapshots, WithSnapshot(seq, FALSE, Nobody), WithSnapshot(seq, TRUE, CreateSnapshot)}

\* load_latest goes by the file name.
IsLatest(f) == \A g \in snapshots : g.sequence <= f.sequence

RestoreFromSnapshot(data) ==
    [a \in DOMAIN data |-> NewAccount(data[a].buying_power, data[a].position)]

\* replay_journal inserts every account of the journal anew, whatever was restored before.
ReplayJournal(restored) ==
    [a \in Replayed \cup DOMAIN restored |->
        IF a \in Replayed THEN NewAccount(BuyingPower, 0) ELSE restored[a]]

-----------------------------------------------------------------------------
(* Start-up *)

\* An error of load_latest or read_all ends the process: it stays down.
LoadAccounts ==
    /\ stage = "down"
    /\ starts < MaxStarts
    /\ starts' = starts + 1
    /\ ReadAllReturns
    /\ \/ snapshots = {} /\ accounts' = ReplayJournal(Nobody)
       \/ \E f \in snapshots :
             IsLatest(f) /\ f.loads /\ accounts' = ReplayJournal(RestoreFromSnapshot(f.data))
    /\ stage' = IF DOMAIN accounts' = {} THEN "create" ELSE "connect"
    /\ UNCHANGED <<pending_orders, cancelling, inbox, all_orders, waits, updates, disk, engines,
                   ticks, crashes, faults, sent, append_failed, served, rebuilt, before, unrouted>>

\* The accounts are created one by one, but only if there are none at all.
IsNext(a) == stage = "create" /\ Known = 1 .. (a - 1)

CreateAccount(a) ==
    /\ IsNext(a)
    /\ accounts' = [x \in Known \cup {a} |-> IF x = a THEN NewAccount(BuyingPower, 0) ELSE accounts[x]]
    /\ stage' = IF a = NumAccounts THEN "connect" ELSE "create"
    /\ \/ journal' = Appended(a, "no") /\ UNCHANGED <<faults, append_failed>>
       \/ journal' \in CutAppend(a) /\ Fault /\ append_failed' = TRUE  \* only logged
    /\ UNCHANGED <<pending_orders, cancelling, inbox, all_orders, waits, updates, snapshots,
                   engines, ticks, starts, crashes, sent, served, rebuilt, before, unrouted>>

DownEngines == {e \in Engines : engine[e] = "down"}

\* EngineRouter::new and the queries.  An engine that still handles the connection of the
\* gateway's previous process accepts no other: its query waits in a socket nobody reads.
Connect ==
    /\ stage = "connect"
    /\ DownEngines = {}
    /\ stage' = "query"
    /\ queried' = {e \in Engines : engine[e] = "listening"}
    /\ engine' = [e \in Engines |-> IF engine[e] = "listening" THEN "serving" ELSE engine[e]]
    /\ UNCHANGED <<gateway, disk, book, saved, history>>

\* An engine that cannot be reached ends the process; the engines connected before lose
\* their gateway.
ConnectFails ==
    /\ stage = "connect"
    /\ DownEngines # {}
    /\ stage' = "down"
    /\ accounts' = Nobody
    /\ engine' = [e \in Engines |-> IF engine[e] = "listening" /\ e < Min(DownEngines)
                                    THEN "orphan" ELSE engine[e]]
    /\ UNCHANGED <<pending_orders, cancelling, inbox, all_orders, waits, updates, disk, queried, book, saved, history>>

Amount(i, lots) == IF Orders[i].side = "Buy" THEN Orders[i].price * lots ELSE 0

\* reserved_amount of the reported orders, summed by account.
FirstReported(reports, a) ==  \* mutant: an account's first order only
    LET mine == {r \in reports : Orders[r.id].account_id = a}
    IN  IF mine = {} THEN 0 ELSE LET r == CHOOSE r \in mine : TRUE IN Amount(r.id, r.lots)
ReservedBy(reports, a) ==
    SumFunction([r \in {x \in reports : Orders[x.id].account_id = a} |-> Amount(r.id, r.lots)])

\* rebuild_reservations: set_tentative_reserved for the accounts the gateway knows.
Rebuild(reports) ==
    [a \in Known |-> [accounts[a] EXCEPT !.tentative_reserved = ReservedBy(reports, a)]]

Open == {i \in Ids : book[i] > 0}

StartServing ==
    /\ stage' = "serve"
    /\ waits' = 0 /\ all_orders' = {}
    /\ served' = served \cup Known

\* One of the awaited events; any other than AllOrders is ignored and counts all the same.
ReceiveAnswer ==
    LET reports == all_orders \cup IF Head(inbox).type = "AllOrders" THEN Head(inbox).orders ELSE {}
    IN  /\ stage = "query"
        /\ inbox # <<>>
        /\ inbox' = Tail(inbox)
        /\ IF waits + 1 < NumEngines
           THEN /\ waits' = waits + 1
                /\ all_orders' = reports
                /\ UNCHANGED <<stage, accounts, served, rebuilt, before>>
           ELSE /\ StartServing
                /\ accounts' = Rebuild(reports)
                /\ rebuilt' = [a \in Accounts |-> ReservedBy(reports, a)]
                /\ before' = Open
        /\ UNCHANGED <<pending_orders, cancelling, updates, disk, engines, ticks, starts, crashes, faults,
                       sent, append_failed, unrouted>>

Never == FALSE  \* mutant: the answers are awaited without a timeout
\* Five seconds without an event: "Continuing with empty reservation state".
TimedOut == stage = "query" /\ inbox = <<>>

Timeout ==
    /\ TimedOut
    /\ StartServing
    /\ UNCHANGED <<accounts, pending_orders, cancelling, inbox, updates, disk, engines, ticks,
                   starts, crashes, faults, sent, append_failed, rebuilt, before, unrouted>>

-----------------------------------------------------------------------------
(* Serving *)

Reserve(a, amount) == [accounts EXCEPT ![a].tentative_reserved = @ + amount]

\* What an engine sends goes to the event channel.
Emit(event) == Len(inbox) < MaxInbox /\ inbox' = Append(inbox, event)
Event(type, i) == [type |-> type, id |-> i]

Serving(e) == engine[e] = "serving" /\ e \notin queried

\* Nothing is left of an order that had this id: no reservation, no lots, no event on its way.
Fresh(i) ==
    /\ i \notin pending_orders \ unrouted
    /\ book[i] = 0 /\ saved[i] = 0
    /\ \A k \in 1 .. Len(inbox) : inbox[k].type # "AllOrders" => inbox[k].id # i

\* What is written to the socket of a process that is gone is refused, or still accepted and
\* lost; an orphan's connection accepts and nobody reads.
RouteFails(e) == engine[e] \in {"down", "listening"}
CommandLost(e) == engine[e] # "serving"

\* check_and_reserve_order, the shared map, and the engine, which accepts the order, refuses
\* it, or never gets it.  An order that cannot be routed stays in the shared map, and its
\* reservation is released.
PlaceOrder(i) ==
    LET a == Orders[i].account_id
        e == Orders[i].engine
        required == Amount(i, Orders[i].qty)
    IN  /\ stage = "serve"
        /\ sent < MaxOrders /\ Fresh(i)
        /\ a \in Known
        /\ required <= accounts[a].buying_power - accounts[a].tentative_reserved
        /\ pending_orders' = pending_orders \cup {i}
        /\ cancelling' = cancelling \ {i}
        /\ sent' = sent + 1
        /\ before' = before \ {i}
        /\ \/ /\ accounts' = Reserve(a, required)
              /\ unrouted' = unrouted \ {i}
              /\ \/ Serving(e) /\ book' = [book EXCEPT ![i] = Orders[i].qty] /\ Emit(Event("Ack", i))
                 \/ Serving(e) /\ UNCHANGED book /\ Emit(Event("Reject", i))
                 \/ CommandLost(e) /\ UNCHANGED <<book, inbox>>
           \/ /\ RouteFails(e)
              /\ unrouted' = unrouted \cup {i}
              /\ UNCHANGED <<accounts, book, inbox>>
        /\ UNCHANGED <<stage, all_orders, waits, updates, disk, engine, queried, saved, ticks, starts,
                       crashes, faults, append_failed, served, rebuilt>>

RestsAt(i, e) == book[i] > 0 /\ Orders[i].engine = e

\* A cancel is routed by the symbol it names, whether the order is in the map or not; one that
\* cannot be routed leaves the order Active.
CancelOrder(i, e) ==
    /\ stage = "serve"
    /\ OwnSymbol => e = Orders[i].engine
    /\ \/ /\ cancelling' = cancelling \cup ({i} \cap pending_orders)
          /\ \/ Serving(e) /\ RestsAt(i, e) /\ book' = [book EXCEPT ![i] = 0] /\ Emit(Event("Ack", i))
             \/ Serving(e) /\ ~RestsAt(i, e) /\ UNCHANGED book /\ Emit(Event("Reject", i))
             \/ CommandLost(e) /\ UNCHANGED <<book, inbox>>
       \/ /\ RouteFails(e)
          /\ cancelling' = cancelling \ {i}
          /\ UNCHANGED <<book, inbox>>
    /\ UNCHANGED <<stage, accounts, pending_orders, all_orders, waits, updates, disk, engine,
                   queried, saved, history>>

KeepsPending(i) == UNCHANGED <<pending_orders, cancelling>>  \* mutant
Forget(i) == pending_orders' = pending_orders \ {i} /\ cancelling' = cancelling \ {i}

\* Fill, Ack or Reject: only an order in the map changes an account.  An Ack of a marked
\* order is the cancel's.  A late AllOrders is only logged.
HandleEvent ==
    LET ev == Head(inbox)
        i == ev.id
        a == Orders[i].account_id
        token == Amount(i, Orders[i].qty)
        sign == IF Orders[i].side = "Buy" THEN 1 ELSE -1
    IN  /\ stage = "serve"
        /\ inbox # <<>>
        /\ inbox' = Tail(inbox)
        /\ \/ /\ ev.type = "Fill" /\ i \in pending_orders
              /\ accounts' = [accounts EXCEPT
                    ![a] = [buying_power |-> @.buying_power - sign * Orders[i].price * ev.lots,
                            position |-> @.position + sign * ev.lots,
                            tentative_reserved |-> @.tentative_reserved - token]]
              /\ Forget(i)
           \/ /\ \/ ev.type = "Reject" /\ i \in pending_orders
                 \/ ev.type = "Ack" /\ i \in cancelling
              /\ accounts' = Reserve(a, -token)
              /\ Forget(i)
           \/ /\ \/ ev.type \in {"Fill", "Reject"} /\ i \notin pending_orders
                 \/ ev.type = "Ack" /\ i \notin cancelling
                 \/ ev.type = "AllOrders"
              /\ UNCHANGED <<accounts, pending_orders, cancelling>>
        /\ UNCHANGED <<stage, all_orders, waits, updates, disk, engines, history>>

\* A tick of the snapshot task.  The sequence number is the count of ticks, which starts
\* again at zero after a save that succeeded.
Tick ==
    /\ stage = "serve"
    /\ ticks < MaxTicks
    /\ ticks' = ticks + 1
    /\ \/ /\ updates + 1 < SnapshotTicks
          /\ updates' = updates + 1
          /\ UNCHANGED <<snapshots, faults>>
       \/ /\ updates + 1 >= SnapshotTicks
          /\ snapshots' = Newest(WithSnapshot(updates + 1, TRUE, CreateSnapshot))
          /\ updates' = 0
          /\ UNCHANGED faults
       \/ /\ updates + 1 >= SnapshotTicks
          /\ snapshots' \in CutSave(updates + 1)
          /\ Fault
          /\ updates' = updates + 1
    /\ UNCHANGED <<stage, accounts, pending_orders, cancelling, inbox, all_orders, waits, journal,
                   engines, starts, crashes, sent, append_failed, served, rebuilt, before, unrouted>>

\* The process dies, and its memory with it ...
Dies ==
    /\ stage # "down"
    /\ stage' = "down"
    /\ accounts' = Nobody
    /\ pending_orders' = {} /\ cancelling' = {}
    /\ inbox' = <<>> /\ all_orders' = {} /\ waits' = 0 /\ updates' = 0
    /\ engine' = [e \in Engines |-> IF engine[e] = "serving" THEN "orphan" ELSE engine[e]]
    /\ queried' = {}
    /\ rebuilt' = Nothing /\ before' = {} /\ unrouted' = {}
    /\ UNCHANGED <<book, saved, ticks, starts, crashes, sent, append_failed, served>>

GatewayCrash ==
    /\ Dies
    /\ UNCHANGED <<disk, faults>>

\* ... or in the middle of an append or of a save, of which it leaves a part.
CrashWhileWriting ==
    /\ Dies
    /\ Fault
    /\ \/ /\ \E a \in Accounts :
                IsNext(a) /\ journal' \in {Appended(a, c) : c \in Cuts \cup {"no"}}
          /\ UNCHANGED snapshots
       \/ /\ stage = "serve" /\ updates + 1 >= SnapshotTicks /\ ticks < MaxTicks
          /\ snapshots' \in CutSave(updates + 1) \ {snapshots}
          /\ UNCHANGED journal

-----------------------------------------------------------------------------
(* The engines *)

\* get_all_order_snapshots: what is left of each order.
OrderSnapshots(e) ==
    {[id |-> i, lots |-> book[i]] : i \in {j \in Open : Orders[j].engine = e}}

\* The engine thread answers when it has restored its state; the connection handles nothing
\* else before.
EngineAnswers(e) ==
    /\ e \in queried
    /\ queried' = queried \ {e}
    /\ Emit([type |-> "AllOrders", orders |-> OrderSnapshots(e)])
    /\ UNCHANGED <<stage, accounts, pending_orders, cancelling, all_orders, waits, updates, disk,
                   engine, book, saved, history>>

\* A trade.  An engine that lost its gateway may still execute the commands it has; nobody
\* hears of the fill.
EngineFills(i) ==
    /\ \E n \in 1 .. book[i] :
          /\ book' = [book EXCEPT ![i] = @ - n]
          /\ \/ /\ stage = "serve" /\ Serving(Orders[i].engine)
                /\ Emit([type |-> "Fill", id |-> i, lots |-> n])
             \/ engine[Orders[i].engine] = "orphan" /\ UNCHANGED inbox
    /\ UNCHANGED <<stage, accounts, pending_orders, cancelling, all_orders, waits, updates, disk,
                   engine, queried, saved, history>>

OnEngine(e, new, old) == [i \in Ids |-> IF Orders[i].engine = e THEN new[i] ELSE old[i]]

\* The journal of an engine catches up with its book.
EngineSaves(e) ==
    /\ engine[e] \in {"serving", "orphan"}
    /\ saved' = OnEngine(e, book, saved)
    /\ UNCHANGED <<stage, gateway, disk, engine, queried, book, history>>

KeepsQuery(e) ==  \* mutant: the query of the dead process is still answered
    /\ engine' = [engine EXCEPT ![e] = "down"]
    /\ UNCHANGED queried
LosesGateway(e) ==
    /\ engine' = [engine EXCEPT ![e] = "down"]
    /\ queried' = queried \ {e}

\* The process of an engine ends after its gateway is gone, its last batch written or not ...
EngineExits(e) ==
    /\ engine[e] = "orphan"
    /\ LosesGateway(e)
    /\ \/ saved' = OnEngine(e, book, saved) /\ UNCHANGED book
       \/ book' = OnEngine(e, saved, book) /\ UNCHANGED saved
    /\ UNCHANGED <<stage, gateway, disk, history>>

\* ... or crashes.
EngineCrashes(e) ==
    /\ engine[e] \in {"listening", "serving"}
    /\ crashes < MaxCrashes
    /\ crashes' = crashes + 1
    /\ LosesGateway(e)
    /\ book' = OnEngine(e, saved, book)
    /\ UNCHANGED <<stage, gateway, disk, saved, ticks, starts, faults, sent, append_failed,
                   served, rebuilt, before, unrouted>>

\* It comes back with what its disk holds and waits for a connection.  A gateway that is
\* running does not connect again.
EngineStarts(e) ==
    /\ engine[e] = "down"
    /\ engine' = [engine EXCEPT ![e] = "listening"]
    /\ UNCHANGED <<stage, gateway, disk, queried, book, saved, history>>

-----------------------------------------------------------------------------
StartUp ==
    \/ \E a \in Accounts : CreateAccount(a)
    \/ Connect \/ ConnectFails \/ ReceiveAnswer \/ Timeout

Next ==
    \/ LoadAccounts
    \/ StartUp
    \/ \E i \in Ids : PlaceOrder(i)
    \/ \E i \in Ids, e \in Engines : CancelOrder(i, e)
    \/ HandleEvent
    \/ Tick
    \/ GatewayCrash
    \/ CrashWhileWriting
    \/ \E e \in Engines : EngineAnswers(e) \/ EngineSaves(e)
    \/ \E i \in Ids : EngineFills(i)
    \/ \E e \in Engines : EngineExits(e) \/ EngineCrashes(e) \/ EngineStarts(e)

Spec == Init /\ [][Next]_vars

\* The runtime runs the start-up and fires its timer.
FairSpec == Spec /\ WF_vars(StartUp)

-----------------------------------------------------------------------------
(* Properties *)

Events == [type : {"Fill"}, id : Ids, lots : Nat] \cup [type : {"Ack", "Reject"}, id : Ids]
Reports == [id : Ids, lots : Nat]

TypeOK ==
    /\ stage \in {"down", "create", "connect", "query", "serve"}
    /\ Known \subseteq Accounts /\ \A a \in Known : accounts[a] \in AccountState
    /\ pending_orders \subseteq Ids /\ cancelling \subseteq pending_orders
    /\ unrouted \subseteq Ids /\ sent \in 0 .. MaxOrders
    /\ \A k \in 1 .. Len(inbox) :
          \/ inbox[k] \in Events
          \/ inbox[k].type = "AllOrders" /\ inbox[k].orders \subseteq Reports
    /\ all_orders \subseteq Reports /\ waits \in 0 .. NumEngines
    /\ updates \in 0 .. MaxTicks
    /\ \A k \in 1 .. Len(journal) : journal[k] \in Frames
    /\ \A f \in snapshots :
          /\ f.sequence \in 1 .. MaxTicks /\ f.loads \in BOOLEAN
          /\ DOMAIN f.data \subseteq Accounts
          /\ \A a \in DOMAIN f.data : f.data[a] \in SavedAccount
    /\ \A e \in Engines : engine[e] \in {"down", "listening", "serving", "orphan"}
    /\ \A i \in Ids : book[i] \in 0 .. Orders[i].qty /\ saved[i] \in 0 .. Orders[i].qty
    /\ queried \subseteq {e \in Engines : engine[e] = "serving"}

\* What so many lots of each order keep reserved on an account.
AmountOf(a, lots) ==
    SumFunction([i \in Ids |-> IF Orders[i].account_id = a THEN Amount(i, lots[i]) ELSE 0])

\* The lots of some of the orders.
Part(ids, lots) == [i \in Ids |-> IF i \in ids THEN lots[i] ELSE 0]

\* The orders in the map that hold a reservation, and what they hold.
Holding == pending_orders \ unrouted
TokensOf(a) == AmountOf(a, Part(Holding, [i \in Ids |-> Orders[i].qty]))

\* What is reserved is what the process started with plus one token for each routed order in
\* the map: the orders of earlier processes are in no map, so nothing that happens to them
\* returns their reservation, and nothing releases it twice.
ReservationsAccounted ==
    stage = "serve" =>
        \A a \in Known : accounts[a].tentative_reserved = rebuilt[a] + TokensOf(a)

\* After a reconciliation that succeeded, the orders found open in the engines stay covered
\* beside those placed since, through fills, cancels, lost events, failed routes and crashes
\* of an engine.
RestartCoversOpenOrders ==
    stage = "serve" =>
        \A a \in Known :
            AmountOf(a, Part(before, book)) + TokensOf(a) <= accounts[a].tentative_reserved

\* "ensure zero data loss for account creation": unless an append failed, an account the
\* gateway has served exists after every later start.
AccountsPersist == stage = "serve" /\ ~append_failed => served \subseteq Known

\* A start-up ends, with the gateway serving or its process gone: no engine that keeps silent
\* holds it up.
StartUpEnds == stage \in {"create", "connect", "query"} ~> stage \in {"serve", "down"}

\* "Restore state from snapshot": a start brings back balances and positions of the snapshot.
BalancesSurvive ==
    [][stage = "down" /\ stage' # "down" =>
          \A f \in snapshots : IsLatest(f) => \A a \in DOMAIN f.data :
              /\ accounts'[a].buying_power = f.data[a].buying_power
              /\ accounts'[a].position = f.data[a].position]_vars

\* "rebuilds the in-memory tentative_reserved values": a gateway that begins to serve has reserved
\* the money of every order the engines have open, reconciliation answered or timed out.
OpenOrdersCovered ==
    [][stage = "query" /\ stage' = "serve" =>
          \A a \in Known : AmountOf(a, book) <= accounts'[a].tentative_reserved]_vars

\* With no order in the map and nothing on its way, only open orders keep money reserved.
ReservationsReturn ==
    stage = "serve" /\ pending_orders = {} /\ inbox = <<>> /\ queried = {} =>
        \A a \in Known : accounts[a].tentative_reserved <= AmountOf(a, book)
=============================================================================
