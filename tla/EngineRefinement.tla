-------------------------- MODULE EngineRefinement --------------------------
(***************************************************************************)
(* MatchingEngine implements PriceTimeBook: the abstract queue of a level  *)
(* is the level's slab keys without the tombstones.                        *)
(***************************************************************************)
EXTENDS MatchingEngine

\* What the abstract specification sees of an order in the book and of the order in hand.
OpenOrderOf(o) ==
    [order_id |-> o.order_id, account_id |-> o.account_id, qty |-> o.qty_rem]

IncomingOf(t, qty) ==
    [order_id |-> t.order_id, account_id |-> t.account_id, side |-> t.side,
     price |-> t.price, qty |-> qty, gtc |-> t.tif = "Gtc"]

ASSUME RefinementAssumption ==
    Nil \notin [order_id : Ids, account_id : Accounts, side : Sides, price : Prices,
                qty : 0 .. MaxQty, gtc : BOOLEAN]

\* f lists the numbers of a finite set, the least first.
Ascending(f, P) ==
    /\ \A i, j \in DOMAIN f : i < j => f[i] < f[j]
    /\ \A x \in P : \E i \in DOMAIN f : f[i] = x

InOrder(P) == CHOOSE f \in [1 .. Cardinality(P) -> P] : Ascending(f, P)

LivePositions(queue) == {i \in 1 .. Len(queue) : Live(queue[i])}

\* The open orders of a queue of slab keys, without the tombstones.
OpenOrders(queue) ==
    LET at == InOrder(LivePositions(queue))
    IN  [i \in DOMAIN at |-> OpenOrderOf(orders[queue[at[i]]])]

OpenQueues == [s \in Sides |-> [p \in Prices |-> OpenOrders(book[s][p].queue)]]

InHand == IF stage = "match" THEN IncomingOf(taker, rem) ELSE Nil

Abstract == INSTANCE PriceTimeBook WITH None <- Nil, queues <- OpenQueues, incoming <- InHand

\* Price-time priority ("FIFO at each price level"): every step of the engine on its slab,
\* index and levels is a step of the plain queues, or leaves them alone.
PriceTimePriority == Abstract!PriceTimeSpec
=============================================================================
