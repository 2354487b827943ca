------------------------------ MODULE Gateway ------------------------------
(***************************************************************************)
(* The gateway between its clients and one engine: the read loop of every  *)
(* client connection, the task that handles the engine's answers, and the  *)
(* account manager the two share.  A lock the code takes and releases, or  *)
(* an await, ends a step; what happens under one lock is one step.  The    *)
(* engine is the abstract book MatchingEngine implements (PriceTimeBook)   *)
(* behind its bounded ingress queue; it answers in order.  What a client   *)
(* is told is not kept, except through the state it leaves behind.         *)
(***************************************************************************)
EXTENDS Integers, Sequences, FiniteSetsExt, Functions

CONSTANTS
    Ids, Accounts, Conns, Prices, MaxQty,
    Zero,               \* the order id 0, which the ack of SetRiskLimits names
    NewOrders,          \* the orders clients may send, for whatever account they name
    UniqueIds,          \* do clients choose a new id for every order?  Nothing checks it
    Commands,           \* which commands clients send, of CommandTypes
    MaxCommands,        \* bound: commands read by the gateway
    IngressCap,         \* capacity of the engine's ingress channel
    RoutingFails,       \* may route_to_engine fail?
    BuyingPower,        \* buying power every account starts with
    Limits,             \* risk limits of every account: the gateway never changes them
    Nil

CommandTypes == {"NewOrder", "Cancel", "Replace", "SetRiskLimits", "Disconnect"}

OrderType == [order_id : Ids, account_id : Accounts, side : {"Buy", "Sell"}, price : Prices,
              qty : 1 .. MaxQty, gtc : BOOLEAN]

ReservationToken == [account_id : Accounts, amount : Nat]
OrderMetadata == [token : ReservationToken, side : {"Buy", "Sell"},
                  operation : {"Active", "CancelPending"}]

ASSUME GatewayAssumption ==
    /\ IsFiniteSet(Ids) /\ IsFiniteSet(Conns)
    /\ Prices \subseteq Nat \ {0}
    /\ MaxQty \in Nat \ {0} /\ MaxCommands \in Nat /\ IngressCap \in Nat \ {0}
    /\ BuyingPower \in Nat
    /\ RoutingFails \in BOOLEAN /\ UniqueIds \in BOOLEAN
    /\ Zero \in Ids
    /\ Commands \subseteq CommandTypes
    /\ NewOrders \subseteq OrderType
    /\ Limits \in [max_order_size : Nat, max_long_position : Nat, max_short_position : Nat]
    /\ Nil \notin Ids \cup Accounts \cup {"Buy", "Sell"}
    /\ Nil \notin OrderMetadata /\ Nil \notin OrderType

VARIABLES
    buying_power,       \* AccountState, by account
    tentative_reserved,
    positions,
    pending_orders,     \* GatewayContext: metadata by order id, shared by all tasks
    sessions,           \* SessionManager: the authenticated connections
    tracked,            \* the read loop's own map, by connection: the side of its orders
    handler,            \* where each connection's read loop is
    todo,               \* what is left of the event handle_engine_responses is handling
    toEngine,           \* routed messages the engine server has not read
    ingress,            \* commands waiting for the engine thread
    toGateway,          \* events on their way back
    queues, incoming,   \* the engine's book and the order it is matching
    engine_positions,   \* the positions the engine keeps
    used, issued        \* ids and number of the commands read so far

accountVars == <<buying_power, tentative_reserved, positions>>
loopVars == <<sessions, tracked, handler, used, issued>>
engineVars == <<ingress, queues, incoming, engine_positions>>
vars == <<accountVars, pending_orders, loopVars, todo, toEngine, toGateway, engineVars>>

Idle == [at |-> "idle", cmd |-> Nil, token |-> Nil]

Engine == INSTANCE PriceTimeBook WITH None <- Nil

Init ==
    /\ buying_power = [a \in Accounts |-> BuyingPower]
    /\ tentative_reserved = [a \in Accounts |-> 0]
    /\ positions = [a \in Accounts |-> 0]
    /\ pending_orders = [i \in Ids |-> Nil]
    /\ sessions = {}
    /\ tracked = [c \in Conns |-> [i \in Ids |-> Nil]]
    /\ handler = [c \in Conns |-> Idle]
    /\ todo = <<>>
    /\ toEngine = <<>>
    /\ ingress = <<>>
    /\ toGateway = <<>>
    /\ Engine!AbstractInit
    /\ engine_positions = [a \in Accounts |-> 0]
    /\ used = {}
    /\ issued = 0

-----------------------------------------------------------------------------
(* Account manager *)

Signed(side, qty) == IF side = "Buy" THEN qty ELSE -qty

Required(no) == IF no.side = "Buy" THEN no.price * no.qty ELSE 0

IgnoresReserved(account) == buying_power[account]  \* mutant
Available(account) == buying_power[account] - tentative_reserved[account]

\* The checks of check_and_reserve_order.
CheckOrder(no) ==
    LET new == positions[no.account_id] + Signed(no.side, no.qty)
    IN  /\ no.qty <= Limits.max_order_size
        /\ new <= Limits.max_long_position
        /\ new >= -Limits.max_short_position
        /\ Required(no) <= Available(no.account_id)

\* adjust_reservation: the new amount is price times quantity on either side of the book.
NewAmount(r) == r.price * r.qty

CheckReplace(r, old) ==
    /\ r.qty <= Limits.max_order_size
    /\ NewAmount(r) <= Available(r.account_id) + old.amount

Reserve(account, amount) ==
    tentative_reserved' = [tentative_reserved EXCEPT ![account] = @ + amount]

ReleaseReservation(token) == Reserve(token.account_id, -token.amount)

BuyerOnly(fill, meta) ==  \* mutant: sellers are credited but keep their position
    /\ ReleaseReservation(meta.token)
    /\ buying_power' = [buying_power EXCEPT ![meta.token.account_id] =
                           @ - Signed(meta.side, fill.price * fill.qty)]
    /\ positions' = IF meta.side = "Buy"
                    THEN [positions EXCEPT ![meta.token.account_id] = @ + fill.qty]
                    ELSE positions
\* apply_fill: the whole token is released, whatever part of the order the fill is.
ApplyFill(fill, meta) ==
    /\ ReleaseReservation(meta.token)
    /\ buying_power' = [buying_power EXCEPT ![meta.token.account_id] =
                           @ - Signed(meta.side, fill.price * fill.qty)]
    /\ positions' = [positions EXCEPT ![meta.token.account_id] = @ + Signed(meta.side, fill.qty)]

-----------------------------------------------------------------------------
(* The read loop of a connection *)

\* Authenticate with a known key; the loop answers QueryAccount and an unknown key at once.
Authenticate(c) ==
    /\ handler[c] = Idle
    /\ c \notin sessions
    /\ sessions' = sessions \cup {c}
    /\ UNCHANGED <<accountVars, pending_orders, tracked, handler, used, issued, todo, toEngine,
                   toGateway, engineVars>>

\* The client goes away: its session and its own map go, its orders stay.
Disconnect(c) ==
    /\ "Disconnect" \in Commands
    /\ handler[c] = Idle
    /\ c \in sessions
    /\ sessions' = sessions \ {c}
    /\ tracked' = [tracked EXCEPT ![c] = [i \in Ids |-> Nil]]
    /\ UNCHANGED <<accountVars, pending_orders, handler, used, issued, todo, toEngine,
                   toGateway, engineVars>>

\* An authenticated connection reads its next command.
Reads(c, type) ==
    /\ type \in Commands
    /\ handler[c] = Idle
    /\ c \in sessions
    /\ issued < MaxCommands
    /\ issued' = issued + 1

Goto(c, at, cmd, token) == handler' = [handler EXCEPT ![c] = [at |-> at, cmd |-> cmd, token |-> token]]

\* NewOrder: check and reserve under the account's lock, then the loop's own map.  The session
\* is authenticated, but the account and the id are what the client says.
ReadNewOrder(c, no) ==
    /\ Reads(c, "NewOrder")
    /\ UniqueIds => no.order_id \notin used
    /\ used' = used \cup {no.order_id}
    /\ \/ /\ ~CheckOrder(no)
          /\ UNCHANGED <<tentative_reserved, tracked, handler>>
       \/ /\ CheckOrder(no)
          /\ Reserve(no.account_id, Required(no))
          /\ tracked' = [tracked EXCEPT ![c][no.order_id] = no.side]
          /\ Goto(c, "track", [type |-> "NewOrder", order |-> no],
                  [account_id |-> no.account_id, amount |-> Required(no)])
    /\ UNCHANGED <<buying_power, positions, pending_orders, sessions, todo, toEngine,
                   toGateway, engineVars>>

\* Cancel: mark the order in the shared map, if it is there.
ReadCancel(c, id, account) ==
    /\ Reads(c, "Cancel")
    /\ Goto(c, "route", [type |-> "Cancel", order_id |-> id, account_id |-> account], Nil)
    /\ pending_orders' = IF pending_orders[id] = Nil THEN pending_orders
                         ELSE [pending_orders EXCEPT ![id].operation = "CancelPending"]
    /\ UNCHANGED <<accountVars, sessions, tracked, used, todo, toEngine, toGateway, engineVars>>

\* Replace: look the reservation up; the lock on the map is released before it is adjusted.
ReadReplace(c, r) ==
    /\ Reads(c, "Replace")
    /\ IF pending_orders[r.order_id] = Nil THEN UNCHANGED handler
       ELSE Goto(c, "adjust", r, pending_orders[r.order_id].token)
    /\ UNCHANGED <<accountVars, pending_orders, sessions, tracked, used, todo, toEngine,
                   toGateway, engineVars>>

\* SetRiskLimits is routed with a token of nothing.
ReadSetRiskLimits(c, account) ==
    /\ Reads(c, "SetRiskLimits")
    /\ Goto(c, "route", [type |-> "SetRiskLimits", account_id |-> account],
            [account_id |-> account, amount |-> 0])
    /\ UNCHANGED <<accountVars, pending_orders, sessions, tracked, used, todo, toEngine,
                   toGateway, engineVars>>

\* adjust_reservation, under the account's lock: the old amount goes, the new one is reserved.
AdjustReservation(c) ==
    LET r   == handler[c].cmd
        old == handler[c].token
    IN  /\ handler[c].at = "adjust"
        /\ \/ /\ ~CheckReplace(r, old)
              /\ handler' = [handler EXCEPT ![c] = Idle]
              /\ UNCHANGED tentative_reserved
           \/ /\ CheckReplace(r, old)
              /\ Reserve(r.account_id, NewAmount(r) - old.amount)
              /\ Goto(c, "track", r, [account_id |-> r.account_id, amount |-> NewAmount(r)])
        /\ UNCHANGED <<buying_power, positions, pending_orders, sessions, tracked, used, issued,
                       todo, toEngine, toGateway, engineVars>>

AnyReplace(c, id) == TRUE  \* mutant: no check that this connection knows the order's side
\* A replace updates the shared map only if the connection itself sent the order.
KnowsSide(c, id) == tracked[c][id] # Nil

\* The shared map learns of the order, or of the replaced order's new reservation.
TrackOrder(c) ==
    LET cmd == handler[c].cmd
        id  == IF cmd.type = "NewOrder" THEN cmd.order.order_id ELSE cmd.order_id
    IN  /\ handler[c].at = "track"
        /\ pending_orders' = IF cmd.type = "NewOrder" \/ KnowsSide(c, id)
                             THEN [pending_orders EXCEPT ![id] =
                                      [token |-> handler[c].token, side |-> tracked[c][id],
                                       operation |-> "Active"]]
                             ELSE pending_orders
        /\ Goto(c, "route", cmd, handler[c].token)
        /\ UNCHANGED <<accountVars, sessions, tracked, used, issued, todo, toEngine, toGateway,
                       engineVars>>

Route(c) ==
    /\ handler[c].at = "route"
    /\ toEngine' = Append(toEngine, handler[c].cmd)
    /\ handler' = [handler EXCEPT ![c] = Idle]
    /\ UNCHANGED <<accountVars, pending_orders, sessions, tracked, used, issued, todo, toGateway,
                   engineVars>>

\* A command other than Cancel that cannot be routed: its token is released, and a new order
\* leaves the connection's own map.  The shared map is not touched.
RouteFails(c) ==
    LET cmd == handler[c].cmd
    IN  /\ RoutingFails
        /\ handler[c].at = "route"
        /\ cmd.type # "Cancel"
        /\ ReleaseReservation(handler[c].token)
        /\ tracked' = IF cmd.type = "NewOrder" THEN [tracked EXCEPT ![c][cmd.order.order_id] = Nil]
                      ELSE tracked
        /\ handler' = [handler EXCEPT ![c] = Idle]
        /\ UNCHANGED <<buying_power, positions, pending_orders, sessions, used, issued, todo,
                       toEngine, toGateway, engineVars>>

\* A Cancel that cannot be routed.
CancelRouteFails(c) ==
    /\ RoutingFails
    /\ handler[c].at = "route"
    /\ handler[c].cmd.type = "Cancel"
    /\ Goto(c, "restore", handler[c].cmd, Nil)
    /\ UNCHANGED <<accountVars, pending_orders, sessions, tracked, used, issued, todo, toEngine,
                   toGateway, engineVars>>

\* The order is Active again, if it is still known.
RestoreActive(c) ==
    LET id == handler[c].cmd.order_id
    IN  /\ handler[c].at = "restore"
        /\ pending_orders' = IF pending_orders[id] = Nil THEN pending_orders
                             ELSE [pending_orders EXCEPT ![id].operation = "Active"]
        /\ handler' = [handler EXCEPT ![c] = Idle]
        /\ UNCHANGED <<accountVars, sessions, tracked, used, issued, todo, toEngine, toGateway,
                       engineVars>>

-----------------------------------------------------------------------------
(* handle_engine_responses *)

\* What a fill does to one of its two orders: apply_fill, then the shared map forgets it.
FillSteps(fill, id) ==
    IF pending_orders[id] = Nil THEN <<>>
    ELSE <<[do |-> "apply", id |-> id, meta |-> pending_orders[id], fill |-> fill],
           [do |-> "remove", id |-> id]>>

Receives(type) == todo = <<>> /\ toGateway # <<>> /\ Head(toGateway).type = type

OnFill ==
    LET fill == Head(toGateway)
    IN  /\ Receives("Fill")
        /\ todo' = FillSteps(fill, fill.maker) \o FillSteps(fill, fill.taker)
        /\ toGateway' = Tail(toGateway)
        /\ UNCHANGED <<accountVars, pending_orders, loopVars, toEngine, engineVars>>

AnyAck(id) == pending_orders[id] # Nil  \* mutant: an ack of the order itself releases too
\* An ack is a cancel's if the order is marked.
IsCancelAck(id) ==
    pending_orders[id] # Nil /\ pending_orders[id].operation = "CancelPending"

OnAck ==
    LET id == Head(toGateway).order_id
    IN  /\ Receives("Ack")
        /\ toGateway' = Tail(toGateway)
        /\ IF IsCancelAck(id)
           THEN /\ ReleaseReservation(pending_orders[id].token)
                /\ pending_orders' = [pending_orders EXCEPT ![id] = Nil]
           ELSE UNCHANGED <<tentative_reserved, pending_orders>>
        /\ UNCHANGED <<buying_power, positions, loopVars, todo, toEngine, engineVars>>

KeepsRejected(id) ==  \* mutant: the reservation goes, the order stays in the map
    /\ todo' = IF pending_orders[id] = Nil THEN <<>>
               ELSE <<[do |-> "release", token |-> pending_orders[id].token]>>
    /\ UNCHANGED pending_orders
ForgetsToken(id) ==  \* mutant: the order goes, its reservation stays
    /\ todo' = <<>>
    /\ pending_orders' = [pending_orders EXCEPT ![id] = Nil]
\* The order leaves the map under its lock; its token is released after.
RemoveRejected(id) ==
    /\ todo' = IF pending_orders[id] = Nil THEN <<>>
               ELSE <<[do |-> "release", token |-> pending_orders[id].token]>>
    /\ pending_orders' = [pending_orders EXCEPT ![id] = Nil]

OnReject ==
    /\ Receives("Reject")
    /\ RemoveRejected(Head(toGateway).order_id)
    /\ toGateway' = Tail(toGateway)
    /\ UNCHANGED <<accountVars, loopVars, toEngine, engineVars>>

\* The next step of the event being handled.
Respond ==
    LET step == Head(todo)
    IN  /\ todo # <<>>
        /\ todo' = Tail(todo)
        /\ \/ /\ step.do = "apply"
              /\ ApplyFill(step.fill, step.meta)
              /\ UNCHANGED pending_orders
           \/ /\ step.do = "remove"
              /\ pending_orders' = [pending_orders EXCEPT ![step.id] = Nil]
              /\ UNCHANGED accountVars
           \/ /\ step.do = "release"
              /\ ReleaseReservation(step.token)
              /\ UNCHANGED <<buying_power, positions, pending_orders>>
        /\ UNCHANGED <<loopVars, toEngine, toGateway, engineVars>>

-----------------------------------------------------------------------------
(* The engine server: its ingress queue, and the engine as the book it implements *)

\* gateway_read_loop: try_send drops the command when the channel is full.
EngineReceives ==
    /\ toEngine # <<>>
    /\ toEngine' = Tail(toEngine)
    /\ ingress' = IF Len(ingress) < IngressCap THEN Append(ingress, Head(toEngine)) ELSE ingress
    /\ UNCHANGED <<accountVars, pending_orders, loopVars, todo, toGateway, queues, incoming,
                   engine_positions>>

Emit(event) == toGateway' = Append(toGateway, event)
Reject(id) == [type |-> "Reject", order_id |-> id]
Ack(id) == [type |-> "Ack", order_id |-> id]

\* Where an order rests, as side, price and place in the queue.
Resting(id, account) ==
    {x \in {"Buy", "Sell"} \X Prices \X (1 .. MaxCommands) :
        /\ x[3] <= Len(queues[x[1]][x[2]])
        /\ queues[x[1]][x[2]][x[3]].order_id = id
        /\ queues[x[1]][x[2]][x[3]].account_id = account}

\* The engine takes its next command when the one before is answered.
Takes(type) == ingress # <<>> /\ incoming = Nil /\ Head(ingress).type = type

EngineNewOrder ==
    /\ Takes("NewOrder")
    /\ Engine!Arrive(Head(ingress).order)
    /\ ingress' = Tail(ingress)
    /\ UNCHANGED toGateway

\* The engine refuses the order: its own limits, or a post-only order that would trade.
EngineRejects ==
    /\ Takes("NewOrder")
    /\ Emit(Reject(Head(ingress).order.order_id))
    /\ ingress' = Tail(ingress)
    /\ UNCHANGED <<queues, incoming>>

EngineTrades ==
    /\ Engine!TradeWithFirst
    /\ \E p \in Engine!Acceptable :
        LET maker == Head(queues[Engine!Other(incoming.side)][p])
            qty   == incoming.qty - incoming'.qty
        IN  /\ Engine!Best(p)
            /\ Emit([type |-> "Fill", maker |-> maker.order_id, taker |-> incoming.order_id,
                     price |-> p, qty |-> qty])
            /\ engine_positions' =
                  LET pos == [engine_positions EXCEPT ![incoming.account_id] =
                                 @ + Signed(incoming.side, qty)]
                  IN  [pos EXCEPT ![maker.account_id] = @ - Signed(incoming.side, qty)]
    /\ UNCHANGED ingress

EngineSettles ==
    /\ Engine!Settle
    /\ Emit(Ack(incoming.order_id))
    /\ UNCHANGED ingress

\* The engine's index has one entry per id, which goes when an order of the id trades: of two
\* orders with one id it finds one or none.  Which, is left open once ids may be used again.
NotFound(found) == found = {} \/ ~UniqueIds

EngineCancel ==
    /\ Takes("Cancel")
    /\ ingress' = Tail(ingress)
    /\ LET c     == Head(ingress)
           found == Resting(c.order_id, c.account_id)
       IN  \/ /\ NotFound(found)
              /\ Emit(Reject(c.order_id))
              /\ UNCHANGED <<queues, incoming>>
           \/ /\ \E x \in found : Engine!Withdraw(x[1], x[2], x[3])
              /\ Emit(Ack(c.order_id))

\* Replace takes the order out and runs handle_new with its new version, which is matched
\* or refused.
EngineReplace ==
    /\ Takes("Replace")
    /\ ingress' = Tail(ingress)
    /\ LET r     == Head(ingress)
           found == Resting(r.order_id, r.account_id)
       IN  \/ /\ NotFound(found)
              /\ Emit(Reject(r.order_id))
              /\ UNCHANGED <<queues, incoming>>
           \/ \E x \in found :
              /\ queues' = Engine!Without(x[1], x[2], x[3])
              /\ \/ /\ incoming' = [order_id |-> r.order_id, account_id |-> r.account_id,
                                    side |-> x[1], price |-> r.price, qty |-> r.qty, gtc |-> TRUE]
                    /\ UNCHANGED toGateway
                 \/ /\ Emit(Reject(r.order_id))
                    /\ UNCHANGED incoming

\* The limits themselves show only in which orders are refused (EngineRejects).
EngineSetsLimits ==
    /\ Takes("SetRiskLimits")
    /\ ingress' = Tail(ingress)
    /\ Emit(Ack(Zero))
    /\ UNCHANGED <<queues, incoming>>

EngineStep ==
    /\ \/ EngineTrades
       \/ /\ \/ EngineNewOrder \/ EngineRejects \/ EngineSettles \/ EngineCancel \/ EngineReplace
             \/ EngineSetsLimits
          /\ UNCHANGED engine_positions
    /\ UNCHANGED <<accountVars, pending_orders, loopVars, todo, toEngine>>

-----------------------------------------------------------------------------
Replaces == [type : {"Replace"}, order_id : Ids, account_id : Accounts, price : Prices,
             qty : 1 .. MaxQty]

ReadCommand(c) ==
    \/ \E no \in NewOrders : ReadNewOrder(c, no)
    \/ \E i \in Ids, a \in Accounts : ReadCancel(c, i, a)
    \/ \E r \in Replaces : ReadReplace(c, r)
    \/ \E a \in Accounts : ReadSetRiskLimits(c, a)

\* The steps a read loop still has to take for the command it has read.
HandleCommand(c) ==
    \/ AdjustReservation(c)
    \/ TrackOrder(c)
    \/ Route(c)
    \/ RouteFails(c)
    \/ CancelRouteFails(c)
    \/ RestoreActive(c)

HandleResponse == OnFill \/ OnAck \/ OnReject \/ Respond

Next ==
    \/ \E c \in Conns : Authenticate(c)
    \/ \E c \in Conns : Disconnect(c)
    \/ \E c \in Conns : ReadCommand(c)
    \/ \E c \in Conns : HandleCommand(c)
    \/ HandleResponse
    \/ EngineReceives
    \/ EngineStep

Spec == Init /\ [][Next]_vars

-----------------------------------------------------------------------------
(* Properties *)

Cmd == [type : {"NewOrder"}, order : OrderType]
       \cup [type : {"Cancel"}, order_id : Ids, account_id : Accounts] \cup Replaces
       \cup [type : {"SetRiskLimits"}, account_id : Accounts]

TypeOK ==
    /\ buying_power \in [Accounts -> Int]
    /\ tentative_reserved \in [Accounts -> Int]
    /\ positions \in [Accounts -> Int]
    /\ pending_orders \in [Ids -> OrderMetadata \cup {Nil}]
    /\ sessions \subseteq Conns
    /\ tracked \in [Conns -> [Ids -> {"Buy", "Sell", Nil}]]
    /\ handler \in [Conns -> {Idle} \cup
          [at : {"adjust", "track", "route", "restore"}, cmd : Cmd,
           token : ReservationToken \cup {Nil}]]
    /\ Len(todo) <= 4
    /\ Len(ingress) <= IngressCap
    /\ \A i \in 1 .. Len(ingress) : ingress[i] \in Cmd
    /\ incoming \in [order_id : Ids, account_id : Accounts, side : {"Buy", "Sell"},
                     price : Prices, qty : 0 .. MaxQty, gtc : BOOLEAN] \cup {Nil}
    /\ used \subseteq Ids
    /\ issued \in 0 .. MaxCommands

AmountOf(token, a) == IF token.account_id = a THEN token.amount ELSE 0

\* The order whose token apply_fill has released and the shared map still names.
Applied == IF todo # <<>> /\ Head(todo).do = "remove" THEN {Head(todo).id} ELSE {}

PendingAmount(a) ==
    SumFunction([i \in Ids |-> IF pending_orders[i] = Nil \/ i \in Applied THEN 0
                               ELSE AmountOf(pending_orders[i].token, a)])

\* Tokens reserved that the shared map does not name yet.
HeldAmount(a) ==
    SumFunction([c \in Conns |-> IF handler[c].at # "track" THEN 0
                                 ELSE AmountOf(handler[c].token, a)])

\* Tokens it no longer names that are not released yet.
ReleasingAmount(a) ==
    IF todo # <<>> /\ Head(todo).do = "release" THEN AmountOf(Head(todo).token, a) ELSE 0

\* tentative_reserved counts every outstanding token exactly once, at every point between
\* the locks of the read loops and the response task.
ReservationsTracked ==
    \A a \in Accounts :
        tentative_reserved[a] = PendingAmount(a) + HeldAmount(a) + ReleasingAmount(a)

\* "No double-spend": an account never reserves more than it has, whatever fills arrive
\* between the check and the release.
Solvent ==
    \A a \in Accounts : 0 <= tentative_reserved[a] /\ tentative_reserved[a] <= buying_power[a]

\* The buy orders in the engine's book, as price and place in the queue.
BuySlots == UNION {{p} \X (1 .. Len(queues["Buy"][p])) : p \in Prices}

\* What an account's buy orders in the engine can still cost.
OpenNotional(a) ==
    SumFunction([x \in BuySlots |->
        LET o == queues["Buy"][x[1]][x[2]]
        IN  IF o.account_id = a THEN x[1] * o.qty ELSE 0])

\* "Money locked for pending orders (prevents double-spend)": the reservation covers every
\* buy order of the account that rests in the engine's book.
OrdersCovered == \A a \in Accounts : OpenNotional(a) <= tentative_reserved[a]

Drained ==
    /\ todo = <<>> /\ toEngine = <<>> /\ ingress = <<>> /\ toGateway = <<>> /\ incoming = Nil
    /\ \A c \in Conns : handler[c] = Idle

\* When nothing is in flight, nothing is locked but what the open orders can cost.
ReservationsReturn == Drained => \A a \in Accounts : tentative_reserved[a] = OpenNotional(a)

\* When nothing is in flight, the positions the gateway checks orders against are those the
\* fills of the engine add up to.
PositionsAgree == Drained => positions = engine_positions
=============================================================================
