--------------------------- MODULE PriceTimeBook ---------------------------
(***************************************************************************)
(* What the order book promises, without slab, index, tombstones or level  *)
(* totals: one queue of open orders per side and price, served best price  *)
(* first and in arrival order within a price.  MatchingEngine implements   *)
(* this specification (EngineRefinement).                                  *)
(***************************************************************************)
EXTENDS Integers, SequencesExt

CONSTANTS Ids, Accounts, Prices, MaxQty, None

VARIABLES
    queues,     \* side -> price -> open orders, the next to trade first
    incoming    \* the order being matched, None between commands

abstractVars == <<queues, incoming>>

OpenOrder == [order_id : Ids, account_id : Accounts, qty : 1 .. MaxQty]

Incoming == [order_id : Ids, account_id : Accounts, side : {"Buy", "Sell"}, price : Prices,
             qty : 1 .. MaxQty, gtc : BOOLEAN]

Other(s) == IF s = "Buy" THEN "Sell" ELSE "Buy"

AbstractInit ==
    /\ queues = [s \in {"Buy", "Sell"} |-> [p \in Prices |-> <<>>]]
    /\ incoming = None

\* The opposite prices the incoming order accepts, and the best of them.
Acceptable == {p \in Prices :
                  /\ queues[Other(incoming.side)][p] # <<>>
                  /\ IF incoming.side = "Buy" THEN incoming.price >= p ELSE incoming.price <= p}

Best(p) == \A q \in Acceptable : IF incoming.side = "Buy" THEN p <= q ELSE p >= q

\* A new order (or the new version of a replaced one) starts to match.
Arrive(o) == incoming = None /\ incoming' = o /\ UNCHANGED queues

\* The incoming order trades with the oldest order at the best price.
TradeWithFirst ==
    /\ incoming # None
    /\ incoming.qty > 0
    /\ \E p \in Acceptable :
        LET s     == Other(incoming.side)
            first == Head(queues[s][p])
            qty   == IF incoming.qty < first.qty THEN incoming.qty ELSE first.qty
        IN  /\ Best(p)
            /\ incoming' = [incoming EXCEPT !.qty = @ - qty]
            /\ queues' = [queues EXCEPT ![s][p] =
                  IF qty = first.qty THEN Tail(@)
                  ELSE <<[first EXCEPT !.qty = @ - qty]>> \o Tail(@)]

\* Nothing more to trade: a Gtc remainder goes to the end of its queue, an Ioc one is gone.
Settle ==
    /\ incoming # None
    /\ incoming.qty = 0 \/ Acceptable = {}
    /\ incoming' = None
    /\ queues' = IF incoming.qty > 0 /\ incoming.gtc
                 THEN [queues EXCEPT ![incoming.side][incoming.price] =
                          Append(@, [order_id |-> incoming.order_id,
                                     account_id |-> incoming.account_id,
                                     qty |-> incoming.qty])]
                 ELSE queues

\* The queues when one order is taken out and no other moves.
Without(s, p, i) == [queues EXCEPT ![s][p] = RemoveAt(@, i)]

\* A cancel, or the first half of a replace.
Withdraw(s, p, i) ==
    /\ incoming = None
    /\ i \in 1 .. Len(queues[s][p])
    /\ queues' = Without(s, p, i)
    /\ UNCHANGED incoming

AbstractNext ==
    \/ \E o \in Incoming : Arrive(o)
    \/ TradeWithFirst
    \/ Settle
    \/ \E s \in {"Buy", "Sell"}, p \in Prices : \E i \in 1 .. Len(queues[s][p]) : Withdraw(s, p, i)

PriceTimeSpec == AbstractInit /\ [][AbstractNext]_abstractVars
=============================================================================
