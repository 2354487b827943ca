------------------------------ MODULE MCGateway ------------------------------
(* Small instances of Gateway for TLC. *)
EXTENDS Gateway, TLC

CONSTANTS i1, i2, i3, a1, a2, c1, c2

Order(i, a, s, p, n, gtc) ==
    [order_id |-> i, account_id |-> a, side |-> s, price |-> p, qty |-> n, gtc |-> gtc]

MCLimits == [max_order_size |-> 2, max_long_position |-> 2, max_short_position |-> 2]

\* A buyer who can afford its second order only when the first has become cheaper, and a seller.
Buys(i, prices, qtys, gtcs) == {Order(i, a1, "Buy", p, n, g) : p \in prices, n \in qtys, g \in gtcs}
Sells(qtys) == {Order(i3, a2, "Sell", 1, n, TRUE) : n \in qtys}

MixedOrders == Buys(i1, {2}, {2}, {TRUE}) \cup Buys(i2, {1}, {1}, {FALSE}) \cup Sells({2})
OneBuy == Buys(i1, {1}, {1}, {TRUE})
OneIoc == Buys(i1, {1}, {1}, {FALSE})
OwnTrade == OneBuy \cup {Order(i3, a1, "Sell", 1, 1, TRUE)}
UnitOrders == Buys(i1, Prices, {1}, {TRUE}) \cup Buys(i2, Prices, {1}, {TRUE}) \cup Sells({1})
PartialOrders == Buys(i1, {2}, {2}, {TRUE}) \cup Sells({1})

\* Two orders of the buyer under one id.
CollidingOrders == Buys(i1, {1, 2}, {1}, {TRUE}) \cup Sells({1})

\* Connections differ in nothing: any client may name any account.
Symmetry == Permutations(Conns)
=============================================================================
