--------------------------- MODULE MatchingEngine ---------------------------
(***************************************************************************)
(* The engine thread of one symbol (crates/engine/src/engine.rs) with its  *)
(* order book (order_book.rs) and its risk state (account_manager.rs).     *)
(* One command is processed at a time: it is taken when stage is "idle",   *)
(* handled in the forced steps "new", "match" and "done", and its events   *)
(* are sent when the stage returns to "idle".  Nothing else of the engine  *)
(* runs in between.                                                        *)
(***************************************************************************)
EXTENDS OrderBook

CONSTANTS
    Symbols,        \* symbol ids that commands carry
    Limits,         \* the RiskLimits an account may be given
    DefaultLimits,  \* RiskLimits of an account that was given none
    UniqueIds       \* TRUE: clients never send a new order under the id of a live one

\* Engine::new_with_config builds OrderBook::new(1) whatever symbol the server is given.
BookSymbol == 1

RiskLimits == [max_order_size : Nat, max_long_position : Nat, max_short_position : Nat]

NewOrders ==
    [order_id : Ids, account_id : Accounts, symbol_id : Symbols, side : Sides,
     price : Prices, qty : 0 .. MaxQty, tif : Tifs, post_only : Flags]

ASSUME EngineAssumption ==
    /\ BookSymbol \in Symbols
    /\ Limits \subseteq RiskLimits
    /\ IsFiniteSet(Accounts)
    /\ DefaultLimits \in RiskLimits
    /\ UniqueIds \in BOOLEAN
    /\ Nil \notin NewOrders

Reasons == {"Invalid", "NotFound", "Risk", "PostOnlyWouldCross"}

Event ==
    [type : {"Reject"}, order_id : Ids, reason : Reasons]
    \cup [type : {"Fill"}, taker : Ids, maker : Ids, price : Prices, qty : Int]
    \cup [type : {"BookTop"}, bid : Prices \cup {Nil}, bid_qty : Int,
          ask : Prices \cup {Nil}, ask_qty : Int]
    \cup [type : {"Ack"}, order_id : Ids \cup {0}]
    \cup [type : {"AccountState"}, account_id : Accounts, position : Int, limits : RiskLimits]

VARIABLES
    stage,      \* "idle", "new", "match" or "done"
    taker,      \* the order in handle_new
    rem,        \* taker_qty of match_taker: the quantity of taker still to fill
    replaced,   \* the order the current Replace has removed from the book
    positions,  \* net_position per account
    limits,     \* risk limits per account, the default where none were set
    events      \* the events of the current command

engineVars == <<stage, taker, rem, replaced, positions, limits, events>>
vars == <<bookVars, engineVars>>

Init ==
    /\ BookInit
    /\ stage = "idle"
    /\ taker = Nil
    /\ rem = 0
    /\ replaced = Nil
    /\ positions = [a \in Accounts |-> 0]
    /\ limits = [a \in Accounts |-> DefaultLimits]
    /\ events = <<>>

-----------------------------------------------------------------------------
(* Account manager *)

Signed(side, qty) == IF side = "Buy" THEN qty ELSE -qty

OrderSizeOnly(account, side, qty) == qty <= limits[account].max_order_size  \* mutant
\* check_risk: the position if the order filled completely, against the account's limits.
CheckRisk(account, side, qty) ==
    LET lim == limits[account]
        new == positions[account] + Signed(side, qty)
    IN  /\ qty <= lim.max_order_size
        /\ new <= lim.max_long_position
        /\ new >= -lim.max_short_position

AddFill(pos, account, side, qty) == [pos EXCEPT ![account] = @ + qty]  \* mutant
\* The net_position part of apply_fill; no check reads the average price or the P&L.
ApplyFill(pos, account, side, qty) == [pos EXCEPT ![account] = @ + Signed(side, qty)]

-----------------------------------------------------------------------------
(* Events *)

Reject(id, reason) == [type |-> "Reject", order_id |-> id, reason |-> reason]
Ack(id) == [type |-> "Ack", order_id |-> id]
FillEvent(t, maker, price, qty) ==
    [type |-> "Fill", taker |-> t.order_id, maker |-> maker, price |-> price, qty |-> qty]

\* book_top_event, evaluated on the book the command leaves behind.
BestPrice(s) ==
    IF \E p \in Prices : IsBest(s, p) THEN CHOOSE p \in Prices : IsBest(s, p) ELSE Nil
BestQty(s) == IF BestPrice(s) = Nil THEN 0 ELSE book[s][BestPrice(s)].total_qty
BookTop ==
    [type |-> "BookTop", bid |-> BestPrice("Buy"), bid_qty |-> BestQty("Buy"),
     ask |-> BestPrice("Sell"), ask_qty |-> BestQty("Sell")]

\* The command is over and answers with these events only.
Answer(evs) == stage' = "done" /\ events' = evs

-----------------------------------------------------------------------------
(* Commands: the arms of process *)

NewOrder(no) ==
    /\ stage = "idle"
    /\ free # <<>>
    /\ UniqueIds => index[no.order_id] = Nil
    /\ stage' = "new"
    /\ taker' = no
    /\ UNCHANGED <<bookVars, rem, replaced, positions, limits, events>>

Cancel(id, account, symbol) ==
    /\ stage = "idle"
    /\ \/ /\ symbol # BookSymbol
          /\ Answer(<<Reject(id, "Invalid")>>)
          /\ UNCHANGED bookVars
       \/ /\ symbol = BookSymbol
          /\ ~OwnedBy(id, account)
          /\ Answer(<<Reject(id, "NotFound")>>)
          /\ UNCHANGED bookVars
       \/ /\ symbol = BookSymbol
          /\ OwnedBy(id, account)
          /\ CancelOrder(id)
          /\ Answer(<<BookTop', Ack(id)>>)
    /\ UNCHANGED <<taker, rem, replaced, positions, limits>>

FlagsDropped(old, symbol, price, qty) ==  \* mutant: the new version forgets post_only
    [order_id |-> old.order_id, account_id |-> old.account_id, symbol_id |-> symbol,
     side |-> old.side, price |-> price, qty |-> qty, tif |-> old.tif, post_only |-> FALSE]
\* The order Replace hands to handle_new: side, tif and flags of the order it removes.
Replacement(old, symbol, price, qty) ==
    [order_id |-> old.order_id, account_id |-> old.account_id, symbol_id |-> symbol,
     side |-> old.side, price |-> price, qty |-> qty, tif |-> old.tif,
     post_only |-> old.post_only]

Replace(id, account, symbol, price, qty) ==
    /\ stage = "idle"
    /\ free # <<>>
    /\ \/ /\ symbol # BookSymbol \/ qty <= 0
          /\ Answer(<<Reject(id, "Invalid")>>)
          /\ UNCHANGED <<bookVars, taker, replaced>>
       \/ /\ symbol = BookSymbol /\ qty > 0
          /\ ~OwnedBy(id, account)
          /\ Answer(<<Reject(id, "NotFound")>>)
          /\ UNCHANGED <<bookVars, taker, replaced>>
       \/ /\ symbol = BookSymbol /\ qty > 0
          /\ OwnedBy(id, account)
          /\ CancelOrder(id)
          /\ replaced' = orders[index[id]]
          /\ taker' = Replacement(orders[index[id]], symbol, price, qty)
          /\ stage' = "new"
          /\ UNCHANGED events
    /\ UNCHANGED <<rem, positions, limits>>

SetRiskLimits(account, lim) ==
    /\ stage = "idle"
    /\ limits' = [limits EXCEPT ![account] = lim]
    /\ Answer(<<Ack(0)>>)
    /\ UNCHANGED <<bookVars, taker, rem, replaced, positions>>

QueryAccount(account) ==
    /\ stage = "idle"
    /\ Answer(<<[type |-> "AccountState", account_id |-> account,
                 position |-> positions[account], limits |-> limits[account]]>>)
    /\ UNCHANGED <<bookVars, taker, rem, replaced, positions, limits>>

-----------------------------------------------------------------------------
(* handle_new *)

\* The checks of handle_new in the order they are made: the first that fails, if any.
FailedCheck(no) ==
    IF no.symbol_id # BookSymbol \/ no.qty <= 0 THEN "Invalid"
    ELSE IF ~CheckRisk(no.account_id, no.side, no.qty) THEN "Risk"
    ELSE IF no.post_only /\ WouldCross(no.side, no.price) THEN "PostOnlyWouldCross"
    ELSE "None"

RejectNew ==
    /\ stage = "new"
    /\ FailedCheck(taker) # "None"
    /\ Answer(<<Reject(taker.order_id, FailedCheck(taker))>>)
    /\ UNCHANGED <<bookVars, taker, rem, replaced, positions, limits>>

AcceptNew ==
    /\ stage = "new"
    /\ FailedCheck(taker) = "None"
    /\ stage' = "match"
    /\ rem' = taker.qty
    /\ UNCHANGED <<bookVars, taker, replaced, positions, limits, events>>

\* The loop condition of match_taker.
Matching == rem > 0 /\ WouldCross(taker.side, taker.price)

\* The quantity that a taker and a maker trade.
WholeMaker(maker) == maker.qty_rem  \* mutant: no minimum with what the taker still wants
TradeQty(maker) == IF rem < maker.qty_rem THEN rem ELSE maker.qty_rem

\* One iteration of match_taker.  The code applies the fills and emits their events after
\* the loop, in the order of the loop, before anything else can look.
MatchStep ==
    /\ stage = "match"
    /\ Matching
    /\ \E p \in Prices :
        LET s == Opposite(taker.side)
            q == book[s][p].queue
        IN  /\ IsBest(s, p)
            /\ IF LiveFront(q) = {}
               THEN DropLevel(s, p) /\ UNCHANGED <<rem, positions, events>>
               ELSE \E i \in LiveFront(q) :
                    LET maker == orders[q[i]]
                        qty   == TradeQty(maker)
                    IN  /\ Trade(s, p, i, qty)
                        /\ rem' = rem - qty
                        /\ positions' = ApplyFill(
                                            ApplyFill(positions, taker.account_id, taker.side, qty),
                                            maker.account_id, s, qty)
                        /\ events' = Append(events, FillEvent(taker, maker.order_id, p, qty))
    /\ UNCHANGED <<stage, taker, replaced, limits>>

WholeOrder(t, qty) ==  \* mutant: what was already filled rests again
    [order_id |-> t.order_id, account_id |-> t.account_id, side |-> t.side,
     price |-> t.price, qty_rem |-> t.qty, tif |-> t.tif, post_only |-> t.post_only]
\* The order that rests when a Gtc order has quantity left.
RestingOrder(t, qty) ==
    [order_id |-> t.order_id, account_id |-> t.account_id, side |-> t.side,
     price |-> t.price, qty_rem |-> qty, tif |-> t.tif, post_only |-> t.post_only]

\* The end of handle_new: the remainder rests or is discarded, then BookTop and Ack.
FinishNew ==
    /\ stage = "match"
    /\ ~Matching
    /\ IF rem > 0 /\ taker.tif = "Gtc"
       THEN InsertResting(RestingOrder(taker, rem))
       ELSE UNCHANGED bookVars
    /\ Answer(events \o <<BookTop', Ack(taker.order_id)>>)
    /\ UNCHANGED <<taker, rem, replaced, positions, limits>>

\* run hands the events of the command to the outbound channel and takes the next one.
SendEvents ==
    /\ stage = "done"
    /\ stage' = "idle"
    /\ taker' = Nil
    /\ rem' = 0
    /\ replaced' = Nil
    /\ events' = <<>>
    /\ UNCHANGED <<bookVars, positions, limits>>

-----------------------------------------------------------------------------
Next ==
    \/ \E no \in NewOrders : NewOrder(no)
    \/ \E id \in Ids, a \in Accounts, y \in Symbols : Cancel(id, a, y)
    \/ \E id \in Ids, a \in Accounts, y \in Symbols, p \in Prices, n \in 0 .. MaxQty :
           Replace(id, a, y, p, n)
    \/ \E a \in Accounts, lim \in Limits : SetRiskLimits(a, lim)
    \/ \E a \in Accounts : QueryAccount(a)
    \/ RejectNew
    \/ AcceptNew
    \/ MatchStep
    \/ FinishNew
    \/ SendEvents

Spec == Init /\ [][Next]_vars

-----------------------------------------------------------------------------
(* Properties *)

TypeOK ==
    /\ BookTypeOK
    /\ stage \in {"idle", "new", "match", "done"}
    /\ taker \in NewOrders \cup {Nil}
    /\ rem \in 0 .. MaxQty
    /\ replaced \in Order \cup {Nil}
    /\ positions \in [Accounts -> Int]
    /\ limits \in [Accounts -> RiskLimits]
    /\ events \in Seq(Event)

FillQty(e) == IF e.type = "Fill" THEN e.qty ELSE 0
FilledQty == SumFunction([i \in 1 .. Len(events) |-> FillQty(events[i])])

Accepted == events # <<>> /\ events[Len(events)].type = "Ack" /\ taker # Nil

\* handle_new accounts for every lot of an accepted order: it is filled, rests under the
\* order's id, or belongs to an Ioc order, which leaves nothing in the book.
QuantityConserved ==
    /\ stage = "match" => FilledQty + rem = taker.qty
    /\ stage = "done" /\ Accepted =>
          LET id == taker.order_id
              resting == IF Found(id) THEN orders[index[id]].qty_rem ELSE 0
          IN  IF taker.tif = "Gtc" THEN FilledQty + resting = taker.qty ELSE resting = 0

\* apply_fill is called for both sides of every fill: positions of all accounts sum to zero.
PositionsBalance == SumFunction(positions) = 0

\* However many makers an order trades with, the position of the account that sent it ends
\* within the limits check_risk read before the first fill.
TakerWithinLimits ==
    stage = "match" =>
        LET pos == positions[taker.account_id]
            lim == limits[taker.account_id]
        IN  IF taker.side = "Buy" THEN pos <= lim.max_long_position
                                  ELSE pos >= -lim.max_short_position

\* A post-only order never takes liquidity, neither when it arrives nor when a replace sends
\* it through handle_new again.
PostOnlyNeverTakes ==
    (taker # Nil /\ taker.post_only) \/ (replaced # Nil /\ replaced.post_only) =>
        \A i \in 1 .. Len(events) : events[i].type # "Fill"

\* "Maximum long position" and "Maximum short position" of RiskLimits (common/types.rs), as
\* limits on what an account may hold.
PositionsWithinLimits ==
    \A a \in Accounts :
        /\ positions[a] <= limits[a].max_long_position
        /\ positions[a] >= -limits[a].max_short_position

\* A replace is one operation: when it is refused, the original order is still in the book.
ReplaceAtomic ==
    stage = "done" /\ replaced # Nil /\ ~Accepted =>
        Found(replaced.order_id) /\ orders[index[replaced.order_id]] = replaced

\* The reconciliation query answers with every order that can still trade.
QueryReportsLiveOrders == LiveKeys = {o.key : o \in OrderSnapshots}
=============================================================================
