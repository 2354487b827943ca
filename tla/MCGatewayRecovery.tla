------------------------- MODULE MCGatewayRecovery -------------------------
(* Small instances of GatewayRecovery for TLC. *)
EXTENDS GatewayRecovery

Order(a, e, s, p, n) == [account_id |-> a, engine |-> e, side |-> s, price |-> p, qty |-> n]

\* Two buy orders of one account in different engines, the first of two lots.
TwoBuys == <<Order(1, 1, "Buy", 1, 2), Order(1, 2, "Buy", 1, 1)>>
BuyAndSell == <<Order(1, 1, "Buy", 1, 2), Order(2, 1, "Sell", 1, 1)>>
OneBuy == <<Order(1, 1, "Buy", 1, 1)>>
=============================================================================
