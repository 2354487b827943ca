----------------------------- MODULE OrderBook -----------------------------
(***************************************************************************)
(* The limit order book of one symbol (crates/engine/src/order_book.rs):   *)
(* a slab of orders, an index from order id to slab key, and one FIFO      *)
(* queue of slab keys per side and price.  The module declares the state   *)
(* and the state changes of the book; MatchingEngine calls them.           *)
(***************************************************************************)
EXTENDS Integers, Sequences, FiniteSets, Functions

CONSTANTS
    Ids,        \* order ids the clients choose from
    Accounts,   \* account ids
    Prices,     \* prices in ticks
    MaxQty,     \* bound: largest quantity of one order
    MaxSlots,   \* bound: slab slots (the slab of the code grows on demand)
    Flags,      \* values of the post_only flag that clients use
    Nil         \* "no slot", "no order", "no level"

Sides == {"Buy", "Sell"}

Opposite(s) == IF s = "Buy" THEN "Sell" ELSE "Buy"

Tifs == {"Gtc", "Ioc"}

Keys == 0 .. (MaxSlots - 1)

\* struct Order, without symbol_id: handle_new rests only orders of the book's own symbol.
Order == [order_id : Ids, account_id : Accounts, side : Sides, price : Prices,
          qty_rem : 0 .. MaxQty, tif : Tifs, post_only : Flags]

Level == [queue : Seq(Keys), total_qty : Int]

ASSUME BookAssumption ==
    /\ Prices \subseteq Int
    /\ Flags \subseteq BOOLEAN
    /\ MaxQty \in Nat \ {0}
    /\ MaxSlots \in Nat \ {0}
    /\ Nil \notin Order
    /\ Nil \notin Keys
    /\ Nil \notin Prices

VARIABLES
    orders,     \* slab: key -> order, Nil where the slot is vacant
    free,       \* slab: vacant keys in the order the slab hands them out
    index,      \* order id -> slab key, Nil where the map has no entry
    book        \* side -> price -> level (bids is book["Buy"], asks book["Sell"])

bookVars == <<orders, free, index, book>>

\* The level a price has when the BTreeMap holds no entry for it.  A level of the map
\* never has this value: its total_qty is positive (LevelAfter, InsertResting).
NoLevel == [queue |-> <<>>, total_qty |-> 0]

BookInit ==
    /\ orders = [k \in Keys |-> Nil]
    /\ free = [i \in 1 .. MaxSlots |-> i - 1]
    /\ index = [id \in Ids |-> Nil]
    /\ book = [s \in Sides |-> [p \in Prices |-> NoLevel]]

-----------------------------------------------------------------------------
(* Queries *)

\* What pop_live_front asks of a key: the slot is occupied and not a cancelled tombstone.
Live(k) == orders[k] # Nil /\ orders[k].qty_rem > 0

LiveKeys == {k \in Keys : Live(k)}

HasLevel(s, p) == book[s][p] # NoLevel

\* p is at least as good as q for an incoming order that trades against side s.
AtLeastAsGood(s, p, q) == IF s = "Buy" THEN p >= q ELSE p <= q

\* best_bid (last key of bids) and best_ask (first key of asks).
IsBest(s, p) ==
    /\ HasLevel(s, p)
    /\ \A q \in Prices : HasLevel(s, q) => AtLeastAsGood(s, p, q)

\* An incoming order of the given side and price accepts opposite price p.
AcceptsBetter(side, px, p) == IF side = "Buy" THEN px > p ELSE px < p  \* mutant
Accepts(side, px, p) == IF side = "Buy" THEN px >= p ELSE px <= p

\* The code compares px with the best opposite price; some opposite price is acceptable
\* exactly when the best one is.
WouldCross(side, px) ==
    \E p \in Prices : HasLevel(Opposite(side), p) /\ Accepts(side, px, p)

\* The order an id stands for, as get() finds it.
Found(id) == index[id] # Nil /\ orders[index[id]] # Nil

OwnedBy(id, account) == Found(id) /\ orders[index[id]].account_id = account

\* Positions in the queue of a level at which pop_live_front stops: none or one.
LiveFront(queue) ==
    {i \in 1 .. Len(queue) : Live(queue[i]) /\ \A j \in 1 .. (i - 1) : ~Live(queue[j])}

\* get_all_order_snapshots, which reads the index; the answer to a reconciliation query.
OrderSnapshots ==
    {[order_id |-> id, key |-> index[id],
      reserved |-> IF orders[index[id]].side = "Buy"
                   THEN orders[index[id]].price * orders[index[id]].qty_rem ELSE 0]
        : id \in {x \in Ids : Found(x)}}

-----------------------------------------------------------------------------
(* State changes *)

\* A level with this queue and total, dropped from the map as soon as nothing is left.
LevelKept(queue, total) ==  \* mutant: a level survives its last order
    IF total < 0 THEN NoLevel ELSE [queue |-> queue, total_qty |-> total]
LevelAfter(queue, total) ==
    IF total <= 0 THEN NoLevel ELSE [queue |-> queue, total_qty |-> total]

\* insert_resting.
InsertResting(o) ==
    LET key == Head(free) IN
    /\ free # <<>>
    /\ orders' = [orders EXCEPT ![key] = o]
    /\ free' = Tail(free)
    /\ index' = [index EXCEPT ![o.order_id] = key]
    /\ book' = [book EXCEPT ![o.side][o.price] =
                   [queue |-> Append(@.queue, key), total_qty |-> @.total_qty + o.qty_rem]]

\* The part of cancel after its checks: the slot stays in the slab as a tombstone, and
\* stays in the queue when the level survives.
CancelOrder(id) ==
    LET key == index[id]
        o   == orders[key]
    IN  /\ index' = [index EXCEPT ![id] = Nil]
        /\ orders' = [orders EXCEPT ![key] = [o EXCEPT !.qty_rem = 0]]
        /\ book' = [book EXCEPT ![o.side][o.price] =
                       LevelAfter(@.queue, @.total_qty - o.qty_rem)]
        /\ UNCHANGED free

\* The queue after pop_live_front stopped at i: a partly filled maker is pushed back in front.
QueueWithoutPushFront(queue, i, done) == SubSeq(queue, i + 1, Len(queue))  \* mutant
QueueWithPushBack(queue, i, done) ==                                       \* mutant
    IF done THEN SubSeq(queue, i + 1, Len(queue))
            ELSE Append(SubSeq(queue, i + 1, Len(queue)), queue[i])
QueueAfter(queue, i, done) == SubSeq(queue, IF done THEN i + 1 ELSE i, Len(queue))

\* Slab and index after a trade with the maker in slot key.
FreeAlways(key, done) == <<key>> \o free  \* mutant: the slot is freed after any fill
FreeAfter(key, done) == IF done THEN <<key>> \o free ELSE free
UnindexAlways(id, done) == [index EXCEPT ![id] = Nil]  \* mutant: unindexed after any fill
IndexAfter(id, done) == IF done THEN [index EXCEPT ![id] = Nil] ELSE index

\* One iteration of match_taker that trades qty with the maker at position i of the
\* level (s, p): tombstones before i are dropped, a filled maker leaves the slab, the
\* index and the queue, a partly filled one stays in front.
Trade(s, p, i, qty) ==
    LET lvl   == book[s][p]
        key   == lvl.queue[i]
        maker == orders[key]
        done  == maker.qty_rem = qty
    IN  /\ orders' = [orders EXCEPT ![key] =
                         IF done THEN Nil ELSE [maker EXCEPT !.qty_rem = maker.qty_rem - qty]]
        /\ free' = FreeAfter(key, done)
        /\ index' = IndexAfter(maker.order_id, done)
        /\ book' = [book EXCEPT ![s][p] =
                       LevelAfter(QueueAfter(lvl.queue, i, done), lvl.total_qty - qty)]

\* The iteration that finds no live maker: the level goes.
DropLevel(s, p) ==
    /\ book' = [book EXCEPT ![s][p] = NoLevel]
    /\ UNCHANGED <<orders, free, index>>

-----------------------------------------------------------------------------
(* Invariants of the book *)

BookTypeOK ==
    /\ orders \in [Keys -> Order \cup {Nil}]
    /\ free \in Seq(Keys)
    /\ index \in [Ids -> Keys \cup {Nil}]
    /\ book \in [Sides -> [Prices -> Level]]

InQueue(k, q) == \E i \in 1 .. Len(q) : q[i] = k

\* The slab's free list holds every vacant key once: a slot is never handed out twice,
\* and never while a queue or the index still uses it.
FreeListExact ==
    /\ \A i, j \in 1 .. Len(free) : free[i] = free[j] => i = j
    /\ \A k \in Keys : orders[k] = Nil <=> InQueue(k, free)

\* An index entry leads to a live order of that id, even when clients reuse ids.
IndexSound ==
    \A id \in Ids : index[id] # Nil =>
        Live(index[id]) /\ orders[index[id]].order_id = id

\* The index finds exactly the live orders, each under its own id: cancel, replace and the
\* reconciliation query reach every order that can still trade, and nothing else.
IndexExact ==
    /\ IndexSound
    /\ \A k \in Keys : Live(k) => index[orders[k].order_id] = k

\* A key in the queue of a level is an occupied slot of that side and price and occurs once.
QueuesSound ==
    \A s \in Sides, p \in Prices :
        LET q == book[s][p].queue IN
        /\ \A i \in 1 .. Len(q) : /\ orders[q[i]] # Nil
                                  /\ orders[q[i]].side = s
                                  /\ orders[q[i]].price = p
        /\ \A i, j \in 1 .. Len(q) : q[i] = q[j] => i = j

\* A queue holds only orders of its own side and price, each once, and every live order
\* waits in the queue of its side and price: eager removal of a level never strands one.
QueuesExact ==
    /\ QueuesSound
    /\ \A k \in Keys : Live(k) => InQueue(k, book[orders[k].side][orders[k].price].queue)

\* What each slot of the slab has waiting at a price of a side.
Waiting(s, p) ==
    [k \in Keys |-> IF Live(k) /\ orders[k].side = s /\ orders[k].price = p
                    THEN orders[k].qty_rem ELSE 0]

\* A level's total_qty is the live quantity waiting at its price, and a price has a level
\* exactly when somebody waits there: best_bid and best_ask never show an empty price, and
\* pop_live_front always finds a maker.
LevelTotals ==
    \A s \in Sides, p \in Prices :
        /\ book[s][p].total_qty = SumFunction(Waiting(s, p))
        /\ HasLevel(s, p) => book[s][p].total_qty > 0

\* No bid is at or above an ask.
Uncrossed ==
    \A b, a \in Prices : HasLevel("Buy", b) /\ HasLevel("Sell", a) => b < a
=============================================================================
