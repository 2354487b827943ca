------------------------ MODULE MatchingEngineProofs ------------------------
(***************************************************************************)
(* Proofs about MatchingEngine for every set of ids, accounts and prices,  *)
(* every quantity and slab bound and every choice of limits.               *)
(***************************************************************************)
EXTENDS MatchingEngine, OrderBookProofs

-----------------------------------------------------------------------------
(* Types *)

\* The top of the book that a command leaves behind is an event.
LEMMA BookTopType ==
    ASSUME BookTypeOK'
    PROVE  BookTop' \in Event
<1>1. \A s \in Sides : BestPrice(s)' \in Prices \cup {Nil} /\ BestQty(s)' \in Int
  <2> TAKE s \in Sides
  <2>1. BestPrice(s)' \in Prices \cup {Nil}
      BY DEF BestPrice
  <2>2. \A p \in Prices : book'[s][p].total_qty \in Int
      BY DEF BookTypeOK, Level
  <2>3. BestQty(s)' \in Int
    <3>1. CASE BestPrice(s)' = Nil
        BY <3>1 DEF BestQty
    <3>2. CASE BestPrice(s)' # Nil
        BY <2>1, <2>2, <3>2 DEF BestQty
    <3> QED BY <3>1, <3>2
  <2> QED BY <2>1, <2>3
<1>2. "Buy" \in Sides /\ "Sell" \in Sides
    BY DEF Sides
<1> QED BY <1>1, <1>2 DEF BookTop, Event

\* A refusal is an event.
LEMMA RejectType ==
    ASSUME NEW id \in Ids, NEW r \in Reasons
    PROVE  <<Reject(id, r)>> \in Seq(Event)
BY DEF Reject, Event

\* apply_fill keeps positions integers.
LEMMA ApplyFillType ==
    ASSUME NEW pos \in [Accounts -> Int], NEW a \in Accounts, NEW s, NEW n \in Int
    PROVE  ApplyFill(pos, a, s, n) \in [Accounts -> Int]
BY DEF ApplyFill, Signed

\* handle_new runs only with an order in hand.
HasTaker == stage \in {"new", "match"} => taker \in NewOrders

TypeInv == TypeOK /\ HasTaker

\* What rests of an order with lots left is an order of the book.
LEMMA RestingOrderType ==
    ASSUME NEW t \in NewOrders, NEW n \in 0 .. MaxQty
    PROVE  RestingOrder(t, n) \in Order
BY DEF RestingOrder, NewOrders, Order

\* The new version of a replaced order is a new order.
LEMMA ReplacementType ==
    ASSUME NEW o \in Order, NEW p \in Prices, NEW n \in 0 .. MaxQty
    PROVE  Replacement(o, BookSymbol, p, n) \in NewOrders
BY EngineAssumption DEF Replacement, NewOrders, Order

\* A trade takes at least one lot and no more than either side has.
LEMMA TradeQtyRange ==
    ASSUME NEW m, m.qty_rem \in 1 .. MaxQty, rem \in 0 .. MaxQty, rem > 0
    PROVE  /\ TradeQty(m) \in 1 .. m.qty_rem
           /\ rem - TradeQty(m) \in 0 .. MaxQty
<1>1. MaxQty \in Nat
    BY BookAssumption
<1> QED BY <1>1 DEF TradeQty

\* Types of everything a command can touch besides the book.
LEMMA TypeStep ==
    ASSUME TypeInv, [Next]_vars
    PROVE  TypeInv'
<1> USE DEF TypeInv
<1>1. ASSUME NEW no \in NewOrders, NewOrder(no)
      PROVE  TypeInv'
    BY <1>1 DEF NewOrder, TypeOK, HasTaker, bookVars, BookTypeOK
<1>2. ASSUME NEW id \in Ids, NEW a \in Accounts, NEW y \in Symbols, Cancel(id, a, y)
      PROVE  TypeInv'
  <2>1. CASE /\ events' \in {<<Reject(id, "Invalid")>>, <<Reject(id, "NotFound")>>}
             /\ stage' = "done" /\ UNCHANGED bookVars
    <3>1. events' \in Seq(Event)
        BY <2>1, RejectType DEF Reasons
    <3> QED BY <1>2, <2>1, <3>1 DEF Cancel, TypeOK, HasTaker, bookVars, BookTypeOK
  <2>2. CASE OwnedBy(id, a) /\ CancelOrder(id) /\ events' = <<BookTop', Ack(id)>>
    <3>1. BookTypeOK'
        BY <2>2, CancelOrderType DEF TypeOK, OwnedBy
    <3>2. events' \in Seq(Event)
        BY <2>2, <3>1, BookTopType DEF Ack, Event
    <3> QED BY <1>2, <3>1, <3>2 DEF Cancel, Answer, TypeOK, HasTaker
  <2> QED BY <1>2, <2>1, <2>2 DEF Cancel, Answer
<1>3. ASSUME NEW id \in Ids, NEW a \in Accounts, NEW y \in Symbols, NEW p \in Prices,
             NEW n \in 0 .. MaxQty, Replace(id, a, y, p, n)
      PROVE  TypeInv'
  <2>1. CASE /\ events' \in {<<Reject(id, "Invalid")>>, <<Reject(id, "NotFound")>>}
             /\ stage' = "done" /\ UNCHANGED <<bookVars, taker, replaced>>
    <3>1. events' \in Seq(Event)
        BY <2>1, RejectType DEF Reasons
    <3> QED BY <1>3, <2>1, <3>1 DEF Replace, TypeOK, HasTaker, bookVars, BookTypeOK
  <2>2. CASE /\ y = BookSymbol /\ OwnedBy(id, a) /\ CancelOrder(id)
             /\ replaced' = orders[index[id]]
             /\ taker' = Replacement(orders[index[id]], y, p, n)
             /\ stage' = "new" /\ UNCHANGED events
    <3>1. BookTypeOK'
        BY <2>2, CancelOrderType DEF TypeOK, OwnedBy
    <3>2. orders[index[id]] \in Order
        BY <2>2 DEF TypeOK, BookTypeOK, OwnedBy, Found
    <3>3. taker' \in NewOrders
        BY <2>2, <3>2, ReplacementType
    <3> QED BY <1>3, <2>2, <3>1, <3>2, <3>3 DEF Replace, TypeOK, HasTaker
  <2> QED BY <1>3, <2>1, <2>2 DEF Replace, Answer
<1>4. ASSUME NEW a \in Accounts, NEW lim \in Limits, SetRiskLimits(a, lim)
      PROVE  TypeInv'
  <2>1. <<Ack(0)>> \in Seq(Event)
      BY DEF Ack, Event
  <2>2. limits' \in [Accounts -> RiskLimits]
      BY <1>4, EngineAssumption DEF SetRiskLimits, TypeOK
  <2> QED BY <1>4, <2>1, <2>2 DEF SetRiskLimits, Answer, TypeOK, HasTaker, bookVars, BookTypeOK
<1>5. ASSUME NEW a \in Accounts, QueryAccount(a)
      PROVE  TypeInv'
  <2>1. positions[a] \in Int /\ limits[a] \in RiskLimits
      BY DEF TypeOK
  <2>2. events' \in Seq(Event)
      BY <1>5, <2>1 DEF QueryAccount, Answer, Event
  <2> QED BY <1>5, <2>2 DEF QueryAccount, Answer, TypeOK, HasTaker, bookVars, BookTypeOK
<1>6. ASSUME RejectNew
      PROVE  TypeInv'
  <2>1. FailedCheck(taker) \in Reasons /\ taker.order_id \in Ids
      BY <1>6 DEF RejectNew, FailedCheck, Reasons, HasTaker, NewOrders
  <2>2. events' \in Seq(Event)
      BY <1>6, <2>1 DEF RejectNew, Answer, Reject, Event
  <2> QED BY <1>6, <2>2 DEF RejectNew, Answer, TypeOK, HasTaker, bookVars, BookTypeOK
<1>7. ASSUME AcceptNew
      PROVE  TypeInv'
    BY <1>7 DEF AcceptNew, TypeOK, HasTaker, NewOrders, bookVars, BookTypeOK
<1>8. ASSUME MatchStep
      PROVE  TypeInv'
  <2> DEFINE s == Opposite(taker.side)
  <2>1. /\ stage = "match" /\ rem > 0 /\ taker \in NewOrders /\ s \in Sides
        /\ taker.order_id \in Ids /\ taker.account_id \in Accounts /\ rem \in 0 .. MaxQty
      BY <1>8 DEF MatchStep, Matching, HasTaker, NewOrders, Opposite, Sides, TypeOK
  <2>2. PICK p \in Prices :
            IF LiveFront(book[s][p].queue) = {}
            THEN DropLevel(s, p) /\ UNCHANGED <<rem, positions, events>>
            ELSE \E i \in LiveFront(book[s][p].queue) :
                    LET maker == orders[book[s][p].queue[i]]
                        qty   == TradeQty(maker)
                    IN  /\ Trade(s, p, i, qty)
                        /\ rem' = rem - qty
                        /\ positions' = ApplyFill(
                                            ApplyFill(positions, taker.account_id, taker.side, qty),
                                            maker.account_id, s, qty)
                        /\ events' = Append(events, FillEvent(taker, maker.order_id, p, qty))
      BY <1>8 DEF MatchStep
  <2>3. CASE LiveFront(book[s][p].queue) = {}
    <3>1. BookTypeOK'
        BY <2>1, <2>2, <2>3, DropLevelType DEF TypeOK
    <3> QED BY <1>8, <2>1, <2>2, <2>3, <3>1 DEF MatchStep, TypeOK, HasTaker
  <2>4. CASE LiveFront(book[s][p].queue) # {}
    <3>1. PICK i \in LiveFront(book[s][p].queue) :
            LET maker == orders[book[s][p].queue[i]]
                qty   == TradeQty(maker)
            IN  /\ Trade(s, p, i, qty)
                /\ rem' = rem - qty
                /\ positions' = ApplyFill(
                                    ApplyFill(positions, taker.account_id, taker.side, qty),
                                    maker.account_id, s, qty)
                /\ events' = Append(events, FillEvent(taker, maker.order_id, p, qty))
        BY <2>2, <2>4
    <3> DEFINE maker == orders[book[s][p].queue[i]]
               qty == TradeQty(maker)
    <3>2. maker.qty_rem \in 1 .. MaxQty /\ maker.order_id \in Ids /\ maker.account_id \in Accounts
      <4>1. Live(book[s][p].queue[i]) /\ book[s][p].queue[i] \in Keys
          BY <2>1 DEF LiveFront, TypeOK, BookTypeOK, Level
      <4>2. maker \in Order /\ maker.qty_rem > 0
          BY <4>1 DEF Live, TypeOK, BookTypeOK
      <4> QED BY <4>2, BookAssumption DEF Order
    <3>3. qty \in 1 .. maker.qty_rem /\ rem - qty \in 0 .. MaxQty /\ qty \in Int
        BY <2>1, <3>2, TradeQtyRange
    <3>4. BookTypeOK'
        BY <2>1, <3>1, <3>3, TradeType DEF Tradable, TypeOK
    <3>5. positions' \in [Accounts -> Int]
      <4>1. ApplyFill(positions, taker.account_id, taker.side, qty) \in [Accounts -> Int]
          BY <2>1, <3>3, ApplyFillType DEF TypeOK
      <4>2. ApplyFill(ApplyFill(positions, taker.account_id, taker.side, qty),
                      maker.account_id, s, qty) \in [Accounts -> Int]
          BY <3>2, <3>3, <4>1, ApplyFillType
      <4> QED BY <3>1, <4>2
    <3>6. FillEvent(taker, maker.order_id, p, qty) \in Event
        BY <2>1, <3>2, <3>3 DEF FillEvent, Event
    <3>7. events' \in Seq(Event)
      <4>1. events' = Append(events, FillEvent(taker, maker.order_id, p, qty))
          BY <3>1
      <4>2. events \in Seq(Event)
          BY DEF TypeOK
      <4> HIDE DEF maker, qty
      <4> QED BY <3>6, <4>1, <4>2
    <3> QED BY <1>8, <2>1, <3>1, <3>3, <3>4, <3>5, <3>7 DEF MatchStep, TypeOK, HasTaker
  <2> QED BY <2>3, <2>4
<1>9. ASSUME FinishNew
      PROVE  TypeInv'
  <2>1. taker \in NewOrders /\ rem \in 0 .. MaxQty /\ taker.order_id \in Ids
      BY <1>9 DEF FinishNew, HasTaker, TypeOK, NewOrders
  <2>2. BookTypeOK'
    <3>1. CASE rem > 0 /\ taker.tif = "Gtc"
        BY <1>9, <2>1, <3>1, RestingOrderType, InsertRestingType DEF FinishNew, TypeOK
    <3>2. CASE ~(rem > 0 /\ taker.tif = "Gtc")
        BY <1>9, <3>2 DEF FinishNew, TypeOK, bookVars, BookTypeOK
    <3> QED BY <3>1, <3>2
  <2>3. events' \in Seq(Event)
    <3>1. BookTop' \in Event /\ Ack(taker.order_id) \in Event
        BY <2>1, <2>2, BookTopType DEF Ack, Event
    <3>2. <<BookTop', Ack(taker.order_id)>> \in Seq(Event) /\ events \in Seq(Event)
        BY <3>1 DEF TypeOK
    <3>3. events \o <<BookTop', Ack(taker.order_id)>> \in Seq(Event)
        BY <3>2
    <3> QED BY <1>9, <3>3 DEF FinishNew, Answer
  <2> QED BY <1>9, <2>2, <2>3 DEF FinishNew, Answer, TypeOK, HasTaker
<1>10. ASSUME SendEvents
       PROVE  TypeInv'
  <2>1. 0 \in 0 .. MaxQty
      BY BookAssumption
  <2> QED BY <1>10, <2>1 DEF SendEvents, TypeOK, HasTaker, bookVars, BookTypeOK
<1>11. ASSUME UNCHANGED vars
       PROVE  TypeInv'
    BY <1>11 DEF vars, bookVars, engineVars, TypeOK, HasTaker, BookTypeOK
<1> QED BY <1>1, <1>2, <1>3, <1>4, <1>5, <1>6, <1>7, <1>8, <1>9, <1>10, <1>11 DEF Next

\* The initial state is well typed.
LEMMA TypeInit == Init => TypeInv
<1> SUFFICES ASSUME Init PROVE TypeInv
    OBVIOUS
<1>1. free \in Seq(Keys)
  <2>1. MaxSlots \in Nat
      BY BookAssumption
  <2> QED BY <2>1 DEF Init, BookInit, Keys
<1>2. BookTypeOK
    BY <1>1 DEF Init, BookInit, BookTypeOK, NoLevel, Level
<1>3. 0 \in 0 .. MaxQty
    BY BookAssumption
<1> QED BY <1>2, <1>3, EngineAssumption DEF Init, TypeInv, TypeOK, HasTaker

\* Every state of the engine is well typed: quantities stay within the order that brought
\* them (a maker is never filled beyond what it has, match_taker never below zero), and
\* every event a command emits names an order, a price and a quantity that exist.
THEOREM TypeCorrect == Spec => []TypeOK
<1>1. Init => TypeInv
    BY TypeInit
<1>2. TypeInv /\ [Next]_vars => TypeInv'
    BY TypeStep
<1>3. TypeInv => TypeOK
    BY DEF TypeInv
<1> QED BY <1>1, <1>2, <1>3, PTL DEF Spec

-----------------------------------------------------------------------------
(* Every step of the engine changes the book in one of five ways            *)

BookChange ==
    \/ UNCHANGED bookVars
    \/ \E id \in Ids : Found(id) /\ CancelOrder(id)
    \/ \E s \in Sides, p \in Prices : LiveFront(book[s][p].queue) = {} /\ DropLevel(s, p)
    \/ \E s \in Sides, p \in Prices, i \in Nat, qty \in Nat :
            Tradable(s, p, i, qty) /\ Trade(s, p, i, qty)
    \/ \E o \in Order : o.qty_rem > 0 /\ ~WouldCross(o.side, o.price) /\ InsertResting(o)

\* An iteration of match_taker that fills qty.
Fill(s, p, i, qty) ==
    /\ IsBest(s, p)
    /\ qty = TradeQty(orders[book[s][p].queue[i]])
    /\ Tradable(s, p, i, qty)
    /\ Trade(s, p, i, qty)
    /\ qty <= rem
    /\ rem' = rem - qty
    /\ positions' = ApplyFill(ApplyFill(positions, taker.account_id, taker.side, qty),
                              orders[book[s][p].queue[i]].account_id, s, qty)
    /\ events' = Append(events, FillEvent(taker, orders[book[s][p].queue[i]].order_id, p, qty))

\* An iteration of match_taker that drops a level without a live maker.
Drop(s, p) ==
    /\ LiveFront(book[s][p].queue) = {}
    /\ DropLevel(s, p)
    /\ UNCHANGED <<rem, positions, events>>

\* An iteration of the matching loop trades with the best maker, or drops a level.
LEMMA MatchStepCases ==
    ASSUME TypeInv, MatchStep
    PROVE  \E s \in Sides, p \in Prices :
              /\ s = Opposite(taker.side)
              /\ Drop(s, p) \/ \E i \in Nat, qty \in Nat : Fill(s, p, i, qty)
<1> USE DEF TypeInv
<1>1. /\ stage = "match" /\ rem > 0 /\ taker \in NewOrders /\ rem \in 0 .. MaxQty
    BY DEF MatchStep, Matching, HasTaker, TypeOK
<1>2. PICK s \in Sides : s = Opposite(taker.side)
    BY <1>1 DEF NewOrders, Opposite, Sides
<1>3. PICK p \in Prices :
        /\ IsBest(s, p)
        /\ IF LiveFront(book[s][p].queue) = {}
           THEN DropLevel(s, p) /\ UNCHANGED <<rem, positions, events>>
           ELSE \E i \in LiveFront(book[s][p].queue) :
                LET maker == orders[book[s][p].queue[i]]
                    qty   == TradeQty(maker)
                IN  /\ Trade(s, p, i, qty)
                    /\ rem' = rem - qty
                    /\ positions' = ApplyFill(
                                        ApplyFill(positions, taker.account_id, taker.side, qty),
                                        maker.account_id, s, qty)
                    /\ events' = Append(events, FillEvent(taker, maker.order_id, p, qty))
    BY <1>2 DEF MatchStep
<1>4. CASE LiveFront(book[s][p].queue) = {}
    BY <1>2, <1>3, <1>4 DEF Drop
<1>5. CASE LiveFront(book[s][p].queue) # {}
  <2>1. PICK i \in LiveFront(book[s][p].queue) :
            LET maker == orders[book[s][p].queue[i]]
                qty   == TradeQty(maker)
            IN  /\ Trade(s, p, i, qty)
                /\ rem' = rem - qty
                /\ positions' = ApplyFill(
                                    ApplyFill(positions, taker.account_id, taker.side, qty),
                                    maker.account_id, s, qty)
                /\ events' = Append(events, FillEvent(taker, maker.order_id, p, qty))
      BY <1>3, <1>5
  <2>2. PICK maker : maker = orders[book[s][p].queue[i]]
      OBVIOUS
  <2>3. maker.qty_rem \in 1 .. MaxQty
    <3>1. Live(book[s][p].queue[i]) /\ book[s][p].queue[i] \in Keys
        BY <1>1 DEF LiveFront, TypeOK, BookTypeOK, Level
    <3>2. maker \in Order /\ maker.qty_rem > 0
        BY <2>2, <3>1 DEF Live, TypeOK, BookTypeOK
    <3> QED BY <3>2, BookAssumption DEF Order
  <2>4. PICK qty : qty = TradeQty(maker)
      OBVIOUS
  <2>5. qty \in 1 .. maker.qty_rem
      BY <1>1, <2>3, <2>4, TradeQtyRange
  <2>6. qty <= rem /\ qty \in Nat
      BY <1>1, <2>3, <2>4, <2>5, BookAssumption DEF TradeQty
  <2>7. Tradable(s, p, i, qty)
      BY <2>2, <2>5 DEF Tradable
  <2>8. Fill(s, p, i, qty)
      BY <1>3, <2>1, <2>2, <2>4, <2>6, <2>7 DEF Fill
  <2>9. i \in Nat
      BY DEF LiveFront
  <2> QED BY <1>2, <2>6, <2>8, <2>9
<1> QED BY <1>4, <1>5

\* Every action of the engine is one of the four changes of the book, or leaves it alone.
LEMMA BookChanges ==
    ASSUME TypeInv, [Next]_vars
    PROVE  BookChange
<1> USE DEF TypeInv
<1>1. ASSUME NEW id \in Ids, NEW a \in Accounts, NEW y \in Symbols, Cancel(id, a, y)
      PROVE  BookChange
    BY <1>1 DEF Cancel, OwnedBy, BookChange
<1>2. ASSUME NEW id \in Ids, NEW a \in Accounts, NEW y \in Symbols, NEW p \in Prices,
             NEW n \in 0 .. MaxQty, Replace(id, a, y, p, n)
      PROVE  BookChange
  <2>1. UNCHANGED bookVars \/ (Found(id) /\ CancelOrder(id))
      BY <1>2 DEF Replace, OwnedBy
  <2> QED BY <2>1 DEF BookChange
<1>3. ASSUME MatchStep
      PROVE  BookChange
  <2>1. PICK s \in Sides, p \in Prices :
            Drop(s, p) \/ \E i \in Nat, qty \in Nat : Fill(s, p, i, qty)
      BY <1>3, MatchStepCases
  <2> QED BY <2>1 DEF BookChange, Drop, Fill
<1>4. ASSUME FinishNew
      PROVE  BookChange
  <2>1. taker \in NewOrders /\ rem \in 0 .. MaxQty
      BY <1>4 DEF FinishNew, HasTaker, TypeOK
  <2>2. CASE rem > 0 /\ taker.tif = "Gtc"
    <3>1. PICK o : o = RestingOrder(taker, rem)
        OBVIOUS
    <3>2. o \in Order
        BY <2>1, <3>1, RestingOrderType
    <3>3. o.qty_rem = rem /\ o.side = taker.side /\ o.price = taker.price
        BY <3>1 DEF RestingOrder
    <3>4. ~WouldCross(taker.side, taker.price) /\ InsertResting(RestingOrder(taker, rem))
        BY <1>4, <2>2 DEF FinishNew, Matching
    <3> QED BY <2>2, <3>1, <3>2, <3>3, <3>4 DEF BookChange
  <2>3. CASE ~(rem > 0 /\ taker.tif = "Gtc")
      BY <1>4, <2>3 DEF FinishNew, BookChange
  <2> QED BY <2>2, <2>3
<1>5. ASSUME \/ \E no \in NewOrders : NewOrder(no)
             \/ \E a \in Accounts, lim \in Limits : SetRiskLimits(a, lim)
             \/ \E a \in Accounts : QueryAccount(a)
             \/ RejectNew
             \/ AcceptNew
             \/ SendEvents
             \/ UNCHANGED vars
      PROVE  BookChange
    BY <1>5 DEF NewOrder, SetRiskLimits, QueryAccount, RejectNew, AcceptNew, SendEvents, vars,
                BookChange
<1> QED BY <1>1, <1>2, <1>3, <1>4, <1>5 DEF Next

-----------------------------------------------------------------------------
(* The book                                                                 *)

\* Every step keeps the book's invariant.
LEMMA BookInvStep ==
    ASSUME BookTypeOK, BookInv, BookChange
    PROVE  BookInv'
<1>1. CASE UNCHANGED bookVars
    BY <1>1 DEF bookVars, BookInv, FreeListExact, QueuesExact, QueuesSound, TotalsExact, Waiting,
                LevelsNonempty, HasLevel, IndexSound, Live
<1>2. ASSUME NEW id \in Ids, Found(id), CancelOrder(id)
      PROVE  BookInv'
    BY <1>2, CancelOrderInv
<1>3. ASSUME NEW s \in Sides, NEW p \in Prices, LiveFront(book[s][p].queue) = {}, DropLevel(s, p)
      PROVE  BookInv'
    BY <1>3, DropLevelInv
<1>4. ASSUME NEW s \in Sides, NEW p \in Prices, NEW i \in Nat, NEW qty \in Nat,
             Tradable(s, p, i, qty), Trade(s, p, i, qty)
      PROVE  BookInv'
    BY <1>4, TradeInv
<1>5. ASSUME NEW o \in Order, o.qty_rem > 0, InsertResting(o)
      PROVE  BookInv'
    BY <1>5, InsertRestingInv
<1> QED BY <1>1, <1>2, <1>3, <1>4, <1>5 DEF BookChange

\* The empty book satisfies the invariant.
LEMMA BookInvInit == Init => BookInv
<1> SUFFICES ASSUME Init PROVE BookInv
    OBVIOUS
<1>1. MaxSlots \in Nat \ {0} /\ Keys = 0 .. (MaxSlots - 1)
    BY BookAssumption DEF Keys
<1>2. \A k \in Keys : orders[k] = Nil /\ ~Live(k)
    BY DEF Init, BookInit, Live
<1>3. Len(free) = MaxSlots /\ \A i \in 1 .. MaxSlots : free[i] = i - 1
    BY <1>1 DEF Init, BookInit
<1>4. FreeListExact
  <2>1. \A i, j \in 1 .. Len(free) : free[i] = free[j] => i = j
      BY <1>1, <1>3
  <2>2. \A k \in Keys : InQueue(k, free)
    <3> TAKE k \in Keys
    <3>1. k + 1 \in 1 .. Len(free) /\ free[k + 1] = k
        BY <1>1, <1>3
    <3> QED BY <3>1 DEF InQueue
  <2> QED BY <1>2, <2>1, <2>2 DEF FreeListExact
<1>5. \A s \in Sides, p \in Prices : book[s][p] = NoLevel
    BY DEF Init, BookInit
<1>6. QueuesExact
    BY <1>2, <1>5 DEF QueuesExact, QueuesSound, NoLevel
<1>7. TotalsExact
  <2> SUFFICES ASSUME NEW s \in Sides, NEW p \in Prices
               PROVE  IsSum(Waiting(s, p), book[s][p].total_qty)
      BY DEF TotalsExact
  <2>1. Waiting(s, p) = [k \in Keys |-> 0]
      BY <1>2 DEF Waiting
  <2>2. book[s][p].total_qty = 0
      BY <1>5 DEF NoLevel
  <2> QED BY <2>1, <2>2, SlabSumZero
<1>8. IndexSound
    BY DEF IndexSound, Init, BookInit
<1>9. LevelsNonempty
    BY <1>5 DEF LevelsNonempty, HasLevel
<1> QED BY <1>4, <1>6, <1>7, <1>8, <1>9 DEF BookInv

\* Slab, free list, queues and level totals agree in every reachable state, whatever ids
\* clients reuse: no slot is handed out twice, no queue holds a stranger or a key twice,
\* every live order waits in its queue, and the index leads only to live orders.
THEOREM BookCorrect == Spec => [](FreeListExact /\ QueuesExact /\ LevelTotals /\ IndexSound)
<1>1. Init => TypeInv /\ BookInv
    BY TypeInit, BookInvInit
<1>2. TypeInv /\ BookInv /\ [Next]_vars => TypeInv' /\ BookInv'
    BY TypeStep, BookChanges, BookInvStep DEF TypeInv, TypeOK
<1>3. BookInv => FreeListExact /\ QueuesExact /\ LevelTotals /\ IndexSound
    BY DEF BookInv, TotalsExact, LevelsNonempty, LevelTotals, IsSum
<1> QED BY <1>1, <1>2, <1>3, PTL DEF Spec

-----------------------------------------------------------------------------
(* No crossed book                                                          *)

\* Only insert_resting opens a level.
NoNewLevel == \A s \in Sides, p \in Prices : HasLevel(s, p)' => HasLevel(s, p)

\* A level that lost n lots and is still there was there before.
LEMMA ShrinkOpensNone ==
    ASSUME BookTypeOK, NEW s0 \in Sides, NEW p0 \in Prices, NEW n \in Nat, NEW q,
           book' = [book EXCEPT ![s0][p0] = LevelAfter(q, book[s0][p0].total_qty - n)]
    PROVE  NoNewLevel
<1> DEFINE t == book[s0][p0].total_qty
           new == LevelAfter(q, t - n)
<1>1. t \in Int
    BY DEF BookTypeOK, Level
<1>2. new # NoLevel => t > 0
  <2>1. t - n <= 0 => new = NoLevel
      BY DEF LevelAfter
  <2>2. ~(t - n <= 0) => t > 0
    <3> HIDE DEF t
    <3> QED BY <1>1
  <2> QED BY <2>1, <2>2
<1>3. t > 0 => book[s0][p0] # NoLevel
    BY DEF NoLevel
<1>4. /\ book'[s0][p0] = new
      /\ \A s \in Sides, p \in Prices : ~(s = s0 /\ p = p0) => book'[s][p] = book[s][p]
  <2>1. book' = [book EXCEPT ![s0][p0] = new]
      OBVIOUS
  <2> HIDE DEF new
  <2> QED BY <2>1 DEF BookTypeOK
<1> HIDE DEF new, t
<1> QED BY <1>2, <1>3, <1>4 DEF NoNewLevel, HasLevel

\* Every step keeps bids below asks between commands.
LEMMA UncrossedStep ==
    ASSUME BookTypeOK, BookInv, Uncrossed, BookChange
    PROVE  Uncrossed'
<1>1. "Buy" \in Sides /\ "Sell" \in Sides
    BY DEF Sides
<1>2. ASSUME NoNewLevel
      PROVE  Uncrossed'
    BY <1>1, <1>2 DEF Uncrossed, NoNewLevel, HasLevel
<1>3. CASE UNCHANGED bookVars
    BY <1>3 DEF bookVars, Uncrossed, HasLevel
<1>4. ASSUME NEW id \in Ids, Found(id), CancelOrder(id)
      PROVE  Uncrossed'
  <2>1. PICK o \in Order : o = orders[index[id]]
      BY <1>4 DEF Found, BookTypeOK
  <2>2. PICK s \in Sides, p \in Prices, n \in Nat : s = o.side /\ p = o.price /\ n = o.qty_rem
    <3>1. o.side \in Sides /\ o.price \in Prices /\ o.qty_rem \in Nat
        BY <2>1, BookAssumption DEF Order
    <3> QED BY <3>1
  <2>3. PICK q : q = book[s][p].queue
      OBVIOUS
  <2>4. book' = [book EXCEPT ![s][p] = LevelAfter(q, book[s][p].total_qty - n)]
      BY <1>4, <2>1, <2>2, <2>3 DEF CancelOrder
  <2> QED BY <1>2, <2>4, ShrinkOpensNone
<1>5. ASSUME NEW s \in Sides, NEW p \in Prices, DropLevel(s, p)
      PROVE  Uncrossed'
    BY <1>2, <1>5 DEF DropLevel, NoNewLevel, HasLevel, BookTypeOK
<1>6. ASSUME NEW s \in Sides, NEW p \in Prices, NEW i \in Nat, NEW n \in Nat, Trade(s, p, i, n)
      PROVE  Uncrossed'
  <2>1. PICK q : q = QueueAfter(book[s][p].queue, i, orders[book[s][p].queue[i]].qty_rem = n)
      OBVIOUS
  <2>2. book' = [book EXCEPT ![s][p] = LevelAfter(q, book[s][p].total_qty - n)]
      BY <1>6, <2>1 DEF Trade
  <2> QED BY <1>2, <2>2, ShrinkOpensNone
<1>7. ASSUME NEW o \in Order, ~WouldCross(o.side, o.price), InsertResting(o)
      PROVE  Uncrossed'
  <2>1. o.side \in Sides /\ o.price \in Prices /\ o.price \in Int /\ Prices \subseteq Int
      BY BookAssumption DEF Order
  <2>2. \A s \in Sides, p \in Prices : HasLevel(s, p)' => HasLevel(s, p) \/ (s = o.side /\ p = o.price)
      BY <1>7, <2>1 DEF InsertResting, HasLevel, BookTypeOK
  <2>3. \A p \in Prices : HasLevel(Opposite(o.side), p) => ~Accepts(o.side, o.price, p)
      BY <1>7 DEF WouldCross
  <2>4. ASSUME NEW b \in Prices, NEW a \in Prices, HasLevel("Buy", b)', HasLevel("Sell", a)'
        PROVE  b < a
    <3>1. CASE o.side = "Buy"
      <4>1. HasLevel("Sell", a)
          BY <1>1, <2>2, <2>4, <3>1
      <4>2. o.price < a
          BY <2>1, <2>3, <3>1, <4>1 DEF Opposite, Accepts
      <4>3. HasLevel("Buy", b) \/ b = o.price
          BY <1>1, <2>2, <2>4
      <4> QED BY <4>1, <4>2, <4>3 DEF Uncrossed
    <3>2. CASE o.side = "Sell"
      <4>1. HasLevel("Buy", b)
          BY <1>1, <2>2, <2>4, <3>2
      <4>2. b < o.price
          BY <2>1, <2>3, <3>2, <4>1 DEF Opposite, Accepts
      <4>3. HasLevel("Sell", a) \/ a = o.price
          BY <1>1, <2>2, <2>4
      <4> QED BY <4>1, <4>2, <4>3 DEF Uncrossed
    <3> QED BY <2>1, <3>1, <3>2 DEF Sides
  <2> QED BY <2>4 DEF Uncrossed
<1> QED BY <1>3, <1>4, <1>5, <1>6, <1>7 DEF BookChange

\* handle_new matches until nothing crosses before it rests the remainder, so a bid never
\* stands at or above an ask, also while an order is being matched.
THEOREM NeverCrossed == Spec => []Uncrossed
<1>1. Init => TypeInv /\ BookInv /\ Uncrossed
  <2>1. ASSUME Init PROVE Uncrossed
      BY <2>1 DEF Init, BookInit, Uncrossed, HasLevel, Sides
  <2> QED BY <2>1, TypeInit, BookInvInit
<1>2. TypeInv /\ BookInv /\ Uncrossed /\ [Next]_vars => TypeInv' /\ BookInv' /\ Uncrossed'
    BY TypeStep, BookChanges, BookInvStep, UncrossedStep DEF TypeInv, TypeOK
<1> QED BY <1>1, <1>2, PTL DEF Spec

-----------------------------------------------------------------------------
(* Positions                                                                *)

\* What check_risk established for the whole order still holds for its remainder.
RiskInv ==
    stage = "match" =>
        LET pos == positions[taker.account_id]
            lim == limits[taker.account_id]
        IN  IF taker.side = "Buy" THEN pos + rem <= lim.max_long_position
                                  ELSE pos - rem >= -lim.max_short_position

\* A fill moves the taker's position by its quantity, or not at all when the account trades
\* with itself.
LEMMA TakerPosition ==
    ASSUME NEW pos \in [Accounts -> Int], NEW a \in Accounts, NEW b \in Accounts,
           NEW side \in Sides, NEW n \in Nat
    PROVE  ApplyFill(ApplyFill(pos, a, side, n), b, Opposite(side), n)[a] \in
              {pos[a], pos[a] + Signed(side, n)}
<1> DEFINE one == ApplyFill(pos, a, side, n)
           two == ApplyFill(one, b, Opposite(side), n)
<1>1. one \in [Accounts -> Int] /\ one[a] = pos[a] + Signed(side, n)
    BY DEF ApplyFill, Signed
<1> HIDE DEF one
<1>2. CASE a = b
  <2>1. two[a] = one[a] + Signed(Opposite(side), n)
      BY <1>1, <1>2 DEF ApplyFill
  <2>2. pos[a] \in Int
      OBVIOUS
  <2>3. two[a] = pos[a]
    <3>1. (pos[a] + n) + (-n) = pos[a] /\ (pos[a] + (-n)) + n = pos[a]
        BY <2>2
    <3>2. CASE side = "Buy"
        BY <1>1, <2>1, <3>1, <3>2 DEF Signed, Opposite
    <3>3. CASE side = "Sell"
        BY <1>1, <2>1, <3>1, <3>3 DEF Signed, Opposite
    <3> QED BY <3>2, <3>3 DEF Sides
  <2> QED BY <2>3 DEF one
<1>3. CASE a # b
  <2>1. two[a] = one[a]
      BY <1>1, <1>3 DEF ApplyFill
  <2> QED BY <1>1, <2>1 DEF one
<1> QED BY <1>2, <1>3

\* Every step keeps the taker's position, with all it has still to fill, within the limits.
LEMMA RiskStep ==
    ASSUME TypeInv, RiskInv, [Next]_vars
    PROVE  RiskInv'
<1> USE DEF TypeInv
<1>1. ASSUME AcceptNew
      PROVE  RiskInv'
  <2>1. taker \in NewOrders /\ stage = "new"
      BY <1>1 DEF AcceptNew, HasTaker
  <2>2. CheckRisk(taker.account_id, taker.side, taker.qty)
      BY <1>1 DEF AcceptNew, FailedCheck
  <2>3. /\ UNCHANGED <<taker, positions, limits>> /\ rem' = taker.qty
      BY <1>1 DEF AcceptNew
  <2>4. /\ positions[taker.account_id] \in Int /\ taker.qty \in Nat
        /\ taker.side \in Sides
      BY <2>1, BookAssumption DEF TypeOK, NewOrders
  <2>5. CASE taker.side = "Buy"
    <3>1. positions[taker.account_id] + taker.qty <= limits[taker.account_id].max_long_position
        BY <2>2, <2>5 DEF CheckRisk, Signed
    <3> QED BY <2>3, <2>5, <3>1 DEF RiskInv
  <2>6. CASE taker.side = "Sell"
    <3>1. positions[taker.account_id] + (-taker.qty) >= -limits[taker.account_id].max_short_position
        BY <2>2, <2>6 DEF CheckRisk, Signed
    <3>2. positions[taker.account_id] - taker.qty >= -limits[taker.account_id].max_short_position
        BY <2>4, <3>1
    <3> QED BY <2>3, <2>6, <3>2 DEF RiskInv
  <2> QED BY <2>4, <2>5, <2>6 DEF Sides
<1>2. ASSUME MatchStep
      PROVE  RiskInv'
  <2>1. stage = "match" /\ UNCHANGED <<stage, taker, limits>>
      BY <1>2 DEF MatchStep
  <2>2. PICK s \in Sides, p \in Prices :
            /\ s = Opposite(taker.side)
            /\ Drop(s, p) \/ \E i \in Nat, n \in Nat : Fill(s, p, i, n)
      BY <1>2, MatchStepCases
  <2>3. CASE Drop(s, p)
      BY <2>1, <2>3 DEF Drop, RiskInv
  <2>4. ASSUME NEW i \in Nat, NEW n \in Nat, Fill(s, p, i, n)
        PROVE  RiskInv'
    <3>1. taker \in NewOrders
        BY <2>1 DEF HasTaker
    <3>2. taker.account_id \in Accounts /\ taker.side \in Sides
        BY <3>1 DEF NewOrders
    <3>3. PICK a \in Accounts, b \in Accounts, side \in Sides :
            a = taker.account_id /\ b = orders[book[s][p].queue[i]].account_id /\ side = taker.side
      <4>1. orders[book[s][p].queue[i]].account_id \in Accounts
          BY <2>4, TradableFacts DEF Fill, TypeOK
      <4> QED BY <3>2, <4>1
    <3>4. positions' = ApplyFill(ApplyFill(positions, a, side, n), b, Opposite(side), n)
        BY <2>2, <2>4, <3>3 DEF Fill
    <3>5. positions \in [Accounts -> Int] /\ rem \in Nat /\ rem' = rem - n /\ n <= rem
      <4>1. rem' = rem - n /\ n <= rem
          BY <2>4 DEF Fill
      <4> QED BY <4>1, BookAssumption DEF TypeOK
    <3>6. positions'[a] \in {positions[a], positions[a] + Signed(side, n)}
        BY <3>4, <3>5, TakerPosition
    <3>7. /\ limits[a].max_long_position \in Nat /\ limits[a].max_short_position \in Nat
          /\ positions[a] \in Int
        BY <3>5 DEF TypeOK, RiskLimits
    <3>8. CASE side = "Buy"
      <4>1. positions[a] + rem <= limits[a].max_long_position
          BY <2>1, <3>3, <3>8 DEF RiskInv
      <4>2. positions'[a] + rem' <= limits[a].max_long_position
          BY <3>5, <3>6, <3>7, <3>8, <4>1 DEF Signed
      <4> QED BY <2>1, <3>3, <3>8, <4>2 DEF RiskInv
    <3>9. CASE side = "Sell"
      <4>1. positions[a] - rem >= -limits[a].max_short_position
          BY <2>1, <3>3, <3>9 DEF RiskInv
      <4>2. positions'[a] - rem' >= -limits[a].max_short_position
          BY <3>5, <3>6, <3>7, <3>9, <4>1 DEF Signed
      <4> QED BY <2>1, <3>3, <3>9, <4>2 DEF RiskInv
    <3> QED BY <3>8, <3>9 DEF Sides
  <2> QED BY <2>2, <2>3, <2>4
<1>3. ASSUME \/ \E no \in NewOrders : NewOrder(no)
             \/ \E id \in Ids, a \in Accounts, y \in Symbols : Cancel(id, a, y)
             \/ \E id \in Ids, a \in Accounts, y \in Symbols, p \in Prices, n \in 0 .. MaxQty :
                    Replace(id, a, y, p, n)
             \/ \E a \in Accounts, lim \in Limits : SetRiskLimits(a, lim)
             \/ \E a \in Accounts : QueryAccount(a)
             \/ RejectNew
             \/ FinishNew
             \/ SendEvents
      PROVE  RiskInv'
  <2>1. stage' # "match"
      BY <1>3 DEF NewOrder, Cancel, Replace, SetRiskLimits, QueryAccount, RejectNew, FinishNew,
                  SendEvents, Answer
  <2> QED BY <2>1 DEF RiskInv
<1>4. CASE UNCHANGED vars
    BY <1>4 DEF vars, engineVars, RiskInv
<1> QED BY <1>1, <1>2, <1>3, <1>4 DEF Next

\* check_risk read the limits of the whole order, so what is filled so far is within them.
LEMMA RiskInvMeans ==
    ASSUME TypeInv, RiskInv
    PROVE  TakerWithinLimits
<1> SUFFICES ASSUME stage = "match"
             PROVE  TakerWithinLimits
    BY DEF TakerWithinLimits
<1>1. /\ taker.account_id \in Accounts /\ rem \in Nat
    BY BookAssumption DEF TypeInv, TypeOK, HasTaker, NewOrders
<1>2. /\ positions[taker.account_id] \in Int
      /\ limits[taker.account_id].max_long_position \in Nat
      /\ limits[taker.account_id].max_short_position \in Nat
    BY <1>1 DEF TypeInv, TypeOK, RiskLimits
<1> QED BY <1>1, <1>2 DEF RiskInv, TakerWithinLimits

\* check_risk runs once, before the first fill, on the whole order; no sequence of fills,
\* with other accounts or with its own orders, takes the sender over the limit it read.
THEOREM TakerStaysWithinLimits == Spec => []TakerWithinLimits
<1>1. Init => TypeInv /\ RiskInv
  <2>1. Init => RiskInv
      BY DEF Init, RiskInv
  <2> QED BY <2>1, TypeInit
<1>2. TypeInv /\ RiskInv /\ [Next]_vars => TypeInv' /\ RiskInv'
    BY TypeStep, RiskStep
<1>3. TypeInv /\ RiskInv => TakerWithinLimits
    BY RiskInvMeans
<1> QED BY <1>1, <1>2, <1>3, PTL DEF Spec

-----------------------------------------------------------------------------
(* The index, when clients do not reuse the id of a live order              *)

Indexed == \A k \in Keys : Live(k) => index[orders[k].order_id] = k

\* The order in handle_new has no older order of its id in the book.
TakerUnindexed == stage \in {"new", "match"} => index[taker.order_id] = Nil

\* What the five changes of the book do to the index.
LEMMA CancelIndex ==
    ASSUME BookTypeOK, IndexSound, Indexed, NEW id \in Ids, Found(id), CancelOrder(id)
    PROVE  Indexed' /\ index'[id] = Nil
<1>1. PICK key \in Keys : key = index[id]
    BY DEF Found, BookTypeOK
<1>2. index'[id] = Nil /\ \A x \in Ids : x # id => index'[x] = index[x]
    BY DEF CancelOrder, BookTypeOK
<1>3. orders' = [orders EXCEPT ![key] = [orders[key] EXCEPT !.qty_rem = 0]] /\ orders[key] \in Order
    BY <1>1 DEF CancelOrder, Found, BookTypeOK
<1>4. ASSUME NEW k \in Keys, Live(k)'
      PROVE  index'[orders'[k].order_id] = k
  <2>1. k # key
    <3>1. orders'[key].qty_rem = 0
        BY <1>3 DEF BookTypeOK, Order
    <3> QED BY <1>4, <3>1 DEF Live
  <2>2. orders'[k] = orders[k] /\ Live(k)
      BY <1>3, <1>4, <2>1 DEF Live, BookTypeOK
  <2>3. orders[k].order_id \in Ids /\ index[orders[k].order_id] = k
      BY <2>2 DEF Indexed, Live, BookTypeOK, Order
  <2> QED BY <1>1, <1>2, <2>1, <2>2, <2>3
<1> QED BY <1>2, <1>4 DEF Indexed

\* A trade keeps the index exact.
LEMMA TradeIndex ==
    ASSUME BookTypeOK, IndexSound, Indexed, NEW s, NEW p, NEW i, NEW qty,
           Tradable(s, p, i, qty), Trade(s, p, i, qty)
    PROVE  Indexed' /\ \A x \in Ids : index[x] = Nil => index'[x] = Nil
<1>1. PICK key : key = book[s][p].queue[i]
    OBVIOUS
<1>2. /\ key \in Keys /\ orders[key] \in Order /\ orders[key].order_id \in Ids
    BY <1>1, TradableFacts
<1>3. Live(key)
    BY <1>1 DEF Tradable, LiveFront
<1>4. PICK x0 \in Ids : x0 = orders[key].order_id
    BY <1>2
<1>5. index[x0] = key
    BY <1>2, <1>3, <1>4 DEF Indexed
<1>6. CASE orders[key].qty_rem = qty
  <2>1. orders' = [orders EXCEPT ![key] = Nil] /\ index' = [index EXCEPT ![x0] = Nil]
      BY <1>1, <1>4, <1>6 DEF Trade, IndexAfter
  <2>2. ASSUME NEW k \in Keys, Live(k)'
        PROVE  index'[orders'[k].order_id] = k
    <3>1. k # key /\ orders'[k] = orders[k] /\ Live(k)
        BY <1>2, <2>1, <2>2 DEF Live, BookTypeOK
    <3>2. orders[k].order_id \in Ids /\ index[orders[k].order_id] = k
        BY <3>1 DEF Indexed, Live, BookTypeOK, Order
    <3> QED BY <1>5, <2>1, <3>1, <3>2 DEF BookTypeOK
  <2>3. \A x \in Ids : index[x] = Nil => index'[x] = Nil
      BY <2>1 DEF BookTypeOK
  <2> QED BY <2>2, <2>3 DEF Indexed
<1>7. CASE orders[key].qty_rem # qty
  <2>1. /\ orders' = [orders EXCEPT ![key] = [orders[key] EXCEPT !.qty_rem = orders[key].qty_rem - qty]]
        /\ index' = index
      BY <1>1, <1>7 DEF Trade, IndexAfter
  <2>2. ASSUME NEW k \in Keys, Live(k)'
        PROVE  index'[orders'[k].order_id] = k
    <3>1. CASE k = key
      <4>1. orders'[key].order_id = x0
          BY <1>2, <1>4, <2>1 DEF BookTypeOK, Order
      <4> QED BY <1>5, <2>1, <3>1, <4>1
    <3>2. CASE k # key
      <4>1. orders'[k] = orders[k] /\ Live(k)
          BY <1>2, <2>1, <2>2, <3>2 DEF Live, BookTypeOK
      <4> QED BY <2>1, <4>1 DEF Indexed
    <3> QED BY <3>1, <3>2
  <2> QED BY <2>1, <2>2 DEF Indexed
<1> QED BY <1>6, <1>7

\* Resting an order whose id is not indexed keeps the index exact.
LEMMA InsertIndex ==
    ASSUME BookTypeOK, BookInv, Indexed, NEW o \in Order, index[o.order_id] = Nil,
           InsertResting(o)
    PROVE  Indexed'
<1>1. PICK key : key = Head(free)
    OBVIOUS
<1>2. key \in Keys /\ o.order_id \in Ids
    BY <1>1 DEF InsertResting, BookTypeOK, Order
<1>3. orders' = [orders EXCEPT ![key] = o] /\ index' = [index EXCEPT ![o.order_id] = key]
    BY <1>1 DEF InsertResting
<1>4. ASSUME NEW k \in Keys, Live(k)'
      PROVE  index'[orders'[k].order_id] = k
  <2>1. CASE k = key
      BY <1>2, <1>3, <2>1 DEF BookTypeOK
  <2>2. CASE k # key
    <3>1. orders'[k] = orders[k] /\ Live(k)
        BY <1>2, <1>3, <1>4, <2>2 DEF Live, BookTypeOK
    <3>2. orders[k].order_id \in Ids /\ index[orders[k].order_id] = k
        BY <3>1 DEF Indexed, Live, BookTypeOK, Order
    <3>3. k # Nil
        BY BookAssumption
    <3> QED BY <1>2, <1>3, <3>1, <3>2, <3>3 DEF BookTypeOK
  <2> QED BY <2>1, <2>2
<1> QED BY <1>4 DEF Indexed

\* With unique ids every step keeps the index exact and the order in hand out of it.
LEMMA IndexStep ==
    ASSUME UniqueIds, TypeInv, BookInv, Indexed, TakerUnindexed, [Next]_vars
    PROVE  Indexed' /\ TakerUnindexed'
<1>0. BookTypeOK /\ IndexSound
    BY DEF TypeInv, TypeOK, BookInv
<1>1. ASSUME NEW no \in NewOrders, NewOrder(no)
      PROVE  Indexed' /\ TakerUnindexed'
    BY <1>1 DEF NewOrder, bookVars, Indexed, TakerUnindexed, Live
<1>2. ASSUME NEW id \in Ids, NEW a \in Accounts, NEW y \in Symbols, Cancel(id, a, y)
      PROVE  Indexed' /\ TakerUnindexed'
  <2>1. stage' = "done"
      BY <1>2 DEF Cancel, Answer
  <2>2. CASE UNCHANGED bookVars
      BY <2>1, <2>2 DEF bookVars, Indexed, TakerUnindexed, Live
  <2>3. CASE Found(id) /\ CancelOrder(id)
      BY <1>0, <2>1, <2>3, CancelIndex DEF TakerUnindexed
  <2> QED BY <1>2, <2>2, <2>3 DEF Cancel, OwnedBy
<1>3. ASSUME NEW id \in Ids, NEW a \in Accounts, NEW y \in Symbols, NEW p \in Prices,
             NEW n \in 0 .. MaxQty, Replace(id, a, y, p, n)
      PROVE  Indexed' /\ TakerUnindexed'
  <2>1. CASE UNCHANGED bookVars /\ stage' = "done"
      BY <2>1 DEF bookVars, Indexed, TakerUnindexed, Live
  <2>2. CASE /\ Found(id) /\ CancelOrder(id)
             /\ taker' = Replacement(orders[index[id]], y, p, n)
    <3>1. Indexed' /\ index'[id] = Nil
        BY <1>0, <2>2, CancelIndex
    <3>2. taker'.order_id = id
        BY <1>0, <2>2 DEF IndexSound, Found, Replacement
    <3> QED BY <3>1, <3>2 DEF TakerUnindexed
  <2> QED BY <1>3, <2>1, <2>2 DEF Replace, Answer, OwnedBy
<1>4. ASSUME MatchStep
      PROVE  Indexed' /\ TakerUnindexed'
  <2>1. stage = "match" /\ UNCHANGED <<stage, taker>>
      BY <1>4 DEF MatchStep
  <2>2. taker.order_id \in Ids
      BY <2>1 DEF TypeInv, HasTaker, NewOrders
  <2>3. PICK s \in Sides, p \in Prices :
            Drop(s, p) \/ \E i \in Nat, qty \in Nat : Fill(s, p, i, qty)
      BY <1>4, MatchStepCases
  <2>4. CASE Drop(s, p)
      BY <2>1, <2>4 DEF Drop, DropLevel, Indexed, TakerUnindexed, Live
  <2>5. ASSUME NEW i \in Nat, NEW qty \in Nat, Fill(s, p, i, qty)
        PROVE  Indexed' /\ TakerUnindexed'
    <3>1. Indexed' /\ \A x \in Ids : index[x] = Nil => index'[x] = Nil
        BY <1>0, <2>5, TradeIndex DEF Fill
    <3> QED BY <2>1, <2>2, <3>1 DEF TakerUnindexed
  <2> QED BY <2>3, <2>4, <2>5
<1>5. ASSUME FinishNew
      PROVE  Indexed' /\ TakerUnindexed'
  <2>1. stage = "match" /\ stage' = "done" /\ taker \in NewOrders /\ rem \in 0 .. MaxQty
      BY <1>5 DEF FinishNew, Answer, TypeInv, HasTaker, TypeOK
  <2>2. CASE rem > 0 /\ taker.tif = "Gtc"
    <3>1. PICK o \in Order : o = RestingOrder(taker, rem)
        BY <2>1, RestingOrderType
    <3>2. o.order_id = taker.order_id
        BY <3>1 DEF RestingOrder
    <3>3. index[o.order_id] = Nil /\ InsertResting(o)
        BY <1>5, <2>1, <2>2, <3>1, <3>2 DEF FinishNew, TakerUnindexed
    <3>4. Indexed'
        BY <1>0, <3>3, InsertIndex
    <3> QED BY <2>1, <3>4 DEF TakerUnindexed
  <2>3. CASE ~(rem > 0 /\ taker.tif = "Gtc")
      BY <1>5, <2>1, <2>3 DEF FinishNew, bookVars, Indexed, TakerUnindexed, Live
  <2> QED BY <2>2, <2>3
<1>6. ASSUME \/ \E a \in Accounts, lim \in Limits : SetRiskLimits(a, lim)
             \/ \E a \in Accounts : QueryAccount(a)
             \/ RejectNew
             \/ AcceptNew
             \/ SendEvents
             \/ UNCHANGED vars
      PROVE  Indexed' /\ TakerUnindexed'
  <2>1. UNCHANGED bookVars /\ (stage' \in {"new", "match"} => stage \in {"new", "match"} /\ taker' = taker)
      BY <1>6 DEF SetRiskLimits, QueryAccount, RejectNew, AcceptNew, SendEvents, Answer, vars,
                  engineVars
  <2> QED BY <2>1 DEF bookVars, Indexed, TakerUnindexed, Live
<1> QED BY <1>1, <1>2, <1>3, <1>4, <1>5, <1>6 DEF Next

\* As long as no client sends a new order under the id of a live one, the index finds
\* exactly the live orders: cancel, replace and the reconciliation query reach all of them.
THEOREM IndexComplete == UniqueIds => (Spec => []IndexExact)
<1> SUFFICES ASSUME UniqueIds PROVE Spec => []IndexExact
    OBVIOUS
<1> DEFINE I == TypeInv /\ BookInv /\ Indexed /\ TakerUnindexed
<1>1. Init => I
  <2> SUFFICES ASSUME Init PROVE Indexed /\ TakerUnindexed
      BY TypeInit, BookInvInit
  <2>1. \A k \in Keys : ~Live(k)
      BY DEF Init, BookInit, Live
  <2> QED BY <2>1 DEF Init, Indexed, TakerUnindexed
<1>2. I /\ [Next]_vars => I'
    BY TypeStep, BookChanges, BookInvStep, IndexStep DEF TypeInv, TypeOK
<1>3. I => IndexExact
    BY DEF BookInv, Indexed, IndexExact
<1> QED BY <1>1, <1>2, <1>3, PTL DEF Spec

-----------------------------------------------------------------------------
(* Post-only orders *)

\* An order that replaces another is as post-only as the one it replaces.
SameFlags == taker # Nil /\ replaced # Nil => taker.post_only = replaced.post_only

\* A post-only order that passed its check still crosses nothing, and has traded nothing.
PostOnlyWaits ==
    stage = "match" /\ taker.post_only => ~WouldCross(taker.side, taker.price) /\ events = <<>>

\* Events are only pending between a command and SendEvents.
NothingPending ==
    /\ stage \in {"idle", "new"} => events = <<>>
    /\ stage = "idle" => taker = Nil /\ replaced = Nil

PostOnlyInv == SameFlags /\ PostOnlyWaits /\ NothingPending /\ PostOnlyNeverTakes

\* A post-only order that crosses is refused, so no step adds a fill to its events.
LEMMA PostOnlyStep ==
    ASSUME TypeInv, BookInv, PostOnlyInv, [Next]_vars
    PROVE  PostOnlyInv'
<1> USE DEF PostOnlyInv
<1>0. Nil \notin NewOrders
    BY EngineAssumption
<1>1. ASSUME NEW no \in NewOrders, NewOrder(no)
      PROVE  PostOnlyInv'
    BY <1>1 DEF NewOrder, SameFlags, PostOnlyWaits, NothingPending, PostOnlyNeverTakes
<1>2. ASSUME NEW e, e.type # "Fill", events' = <<e>>, UNCHANGED <<taker, replaced>>, stage' = "done"
      PROVE  PostOnlyInv'
  <2>1. \A i \in 1 .. Len(events') : events'[i].type # "Fill"
      BY <1>2
  <2> QED BY <1>2, <2>1 DEF SameFlags, PostOnlyWaits, NothingPending, PostOnlyNeverTakes
<1>3. ASSUME NEW t, NEW a, t.type # "Fill", a.type # "Fill",
             events' = <<t, a>>, UNCHANGED <<taker, replaced>>, stage' = "done"
      PROVE  PostOnlyInv'
  <2>1. \A i \in 1 .. Len(events') : events'[i].type # "Fill"
      BY <1>3
  <2> QED BY <1>3, <2>1 DEF SameFlags, PostOnlyWaits, NothingPending, PostOnlyNeverTakes
<1>4. \A id, r : Reject(id, r).type # "Fill"
    BY DEF Reject
<1>5. (\A id : Ack(id).type # "Fill") /\ BookTop'.type # "Fill"
    BY DEF Ack, BookTop
<1>6. ASSUME NEW id \in Ids, NEW a \in Accounts, NEW y \in Symbols, Cancel(id, a, y)
      PROVE  PostOnlyInv'
    BY <1>2, <1>3, <1>4, <1>5, <1>6 DEF Cancel, Answer
<1>7. ASSUME NEW id \in Ids, NEW a \in Accounts, NEW y \in Symbols, NEW p \in Prices,
             NEW n \in 0 .. MaxQty, Replace(id, a, y, p, n)
      PROVE  PostOnlyInv'
  <2>1. CASE /\ UNCHANGED <<taker, replaced>>
             /\ Answer(<<Reject(id, "Invalid")>>) \/ Answer(<<Reject(id, "NotFound")>>)
      BY <1>2, <1>4, <2>1 DEF Answer
  <2>2. CASE /\ replaced' = orders[index[id]]
             /\ taker' = Replacement(orders[index[id]], y, p, n)
             /\ stage = "idle" /\ stage' = "new" /\ UNCHANGED events
    <3>1. taker'.post_only = replaced'.post_only
        BY <2>2 DEF Replacement
    <3>2. events' = <<>>
        BY <2>2 DEF NothingPending
    <3> QED BY <2>2, <3>1, <3>2 DEF SameFlags, PostOnlyWaits, NothingPending, PostOnlyNeverTakes
  <2> QED BY <1>7, <2>1, <2>2 DEF Replace
<1>8. ASSUME NEW a \in Accounts, NEW lim \in Limits, SetRiskLimits(a, lim)
      PROVE  PostOnlyInv'
    BY <1>2, <1>5, <1>8 DEF SetRiskLimits, Answer
<1>9. ASSUME NEW a \in Accounts, QueryAccount(a)
      PROVE  PostOnlyInv'
    BY <1>2, <1>9 DEF QueryAccount, Answer
<1>10. CASE RejectNew
    BY <1>2, <1>4, <1>10 DEF RejectNew, Answer
<1>11. CASE AcceptNew
  <2>1. taker.post_only => ~WouldCross(taker.side, taker.price)
      BY <1>11 DEF AcceptNew, FailedCheck
  <2>2. (taker.post_only => ~WouldCross(taker.side, taker.price))'
      BY <1>11, <2>1 DEF AcceptNew, bookVars, WouldCross, HasLevel
  <2> QED BY <1>11, <2>2
          DEF AcceptNew, SameFlags, PostOnlyWaits, NothingPending, PostOnlyNeverTakes
<1>12. CASE MatchStep
  <2>1. stage = "match" /\ Matching /\ UNCHANGED <<stage, taker, replaced>>
      BY <1>12 DEF MatchStep
  <2>2. ~taker.post_only
      BY <2>1 DEF Matching, PostOnlyWaits
  <2>3. taker # Nil
      BY <1>0, <2>1 DEF TypeInv, HasTaker
  <2> QED BY <2>1, <2>2, <2>3 DEF SameFlags, PostOnlyWaits, NothingPending, PostOnlyNeverTakes
<1>13. CASE FinishNew
  <2>1. /\ stage = "match" /\ stage' = "done" /\ UNCHANGED <<taker, replaced>>
        /\ events' = events \o <<BookTop', Ack(taker.order_id)>>
      BY <1>13 DEF FinishNew, Answer
  <2>2. taker # Nil
      BY <1>0, <2>1 DEF TypeInv, HasTaker
  <2>3. CASE taker.post_only
    <3>1. events' = <<BookTop', Ack(taker.order_id)>>
        BY <2>1, <2>3 DEF PostOnlyWaits
    <3> QED BY <1>3, <1>5, <2>1, <3>1
  <2>4. CASE ~taker.post_only
      BY <2>1, <2>2, <2>4 DEF SameFlags, PostOnlyWaits, NothingPending, PostOnlyNeverTakes
  <2> QED BY <2>3, <2>4
<1>14. CASE SendEvents
    BY <1>14 DEF SendEvents, SameFlags, PostOnlyWaits, NothingPending, PostOnlyNeverTakes
<1>15. CASE UNCHANGED vars
    BY <1>15 DEF vars, engineVars, bookVars, SameFlags, PostOnlyWaits, NothingPending,
                 PostOnlyNeverTakes, WouldCross, HasLevel
<1> QED BY <1>1, <1>6, <1>7, <1>8, <1>9, <1>10, <1>11, <1>12, <1>13, <1>14, <1>15 DEF Next

\* A post-only order takes no liquidity: not when it arrives, and not when a replace takes it
\* out of the book and sends it through handle_new again.
THEOREM PostOnlyKept == Spec => []PostOnlyNeverTakes
<1> DEFINE I == TypeInv /\ BookInv /\ PostOnlyInv
<1>1. Init => I
  <2> SUFFICES ASSUME Init PROVE PostOnlyInv
      BY TypeInit, BookInvInit
  <2> QED BY DEF Init, PostOnlyInv, SameFlags, PostOnlyWaits, NothingPending, PostOnlyNeverTakes
<1>2. I /\ [Next]_vars => I'
    BY TypeStep, BookChanges, BookInvStep, PostOnlyStep DEF TypeInv, TypeOK
<1>3. I => PostOnlyNeverTakes
    BY DEF PostOnlyInv
<1> QED BY <1>1, <1>2, <1>3, PTL DEF Spec

\* The slab never hands out a slot that is in use, and never loses one.
THEOREM SlotsExact == Spec => []FreeListExact
BY BookCorrect, PTL

\* A level's total is what waits at its price, and a price nobody waits at has no level: what
\* best_bid, best_ask and the BookTop event show is there to be traded with.
THEOREM LevelTotalsExact == Spec => []LevelTotals
BY BookCorrect, PTL

-----------------------------------------------------------------------------
(* Sum of the positions                                                     *)

\* apply_fill moves the sum of the positions by the signed quantity.
LEMMA ApplyFillSum ==
    ASSUME NEW pos \in [Accounts -> Int], NEW a \in Accounts, NEW side, NEW n \in Int
    PROVE  SumFunction(ApplyFill(pos, a, side, n)) = SumFunction(pos) + Signed(side, n)
<1> DEFINE new == ApplyFill(pos, a, side, n)
<1>1. new \in [Accounts -> Int]
    BY ApplyFillType
<1>2. new[a] = pos[a] + Signed(side, n) /\ pos[a] \in Int /\ Signed(side, n) \in Int
    BY DEF ApplyFill, Signed
<1>3. \A x \in Accounts \ {a} : new[x] = pos[x]
    BY DEF ApplyFill
<1>4. IsFiniteSet(Accounts)
    BY EngineAssumption
<1> HIDE DEF new
<1>5. SumFunction(new) = SumFunction(pos) + (new[a] - pos[a])
    BY <1>1, <1>3, <1>4, SumUpdate
<1>6. new[a] - pos[a] = Signed(side, n)
    BY <1>2
<1> QED BY <1>5, <1>6 DEF new

\* Buying and selling the same quantity cancel out, also within one account.
LEMMA FillBalances ==
    ASSUME NEW pos \in [Accounts -> Int], NEW a \in Accounts, NEW b \in Accounts,
           NEW side \in Sides, NEW n \in Int
    PROVE  SumFunction(ApplyFill(ApplyFill(pos, a, side, n), b, Opposite(side), n)) = SumFunction(pos)
<1>1. PICK one : one = ApplyFill(pos, a, side, n)
    OBVIOUS
<1>2. one \in [Accounts -> Int]
    BY <1>1, ApplyFillType
<1>3. SumFunction(one) = SumFunction(pos) + Signed(side, n)
    BY <1>1, ApplyFillSum
<1>4. SumFunction(ApplyFill(one, b, Opposite(side), n)) = SumFunction(one) + Signed(Opposite(side), n)
    BY <1>2, ApplyFillSum
<1>5. SumFunction(pos) \in Int
    BY EngineAssumption, SumType
<1>6. \A t \in Int : (t + Signed(side, n)) + Signed(Opposite(side), n) = t
    BY DEF Sides, Signed, Opposite
<1> QED BY <1>1, <1>3, <1>4, <1>5, <1>6

\* Only a fill changes positions.
LEMMA BalanceStep ==
    ASSUME TypeInv, PositionsBalance, [Next]_vars
    PROVE  PositionsBalance'
<1>1. ASSUME MatchStep
      PROVE  PositionsBalance'
  <2>1. stage = "match" /\ taker \in NewOrders /\ BookTypeOK /\ positions \in [Accounts -> Int]
      BY <1>1 DEF MatchStep, TypeInv, HasTaker, TypeOK
  <2>2. PICK s \in Sides, p \in Prices :
            /\ s = Opposite(taker.side)
            /\ Drop(s, p) \/ \E i \in Nat, n \in Nat : Fill(s, p, i, n)
      BY <1>1, MatchStepCases
  <2>3. CASE Drop(s, p)
      BY <2>3 DEF Drop, PositionsBalance
  <2>4. ASSUME NEW i \in Nat, NEW n \in Nat, Fill(s, p, i, n)
        PROVE  PositionsBalance'
    <3>1. PICK a \in Accounts, b \in Accounts, side \in Sides :
            a = taker.account_id /\ b = orders[book[s][p].queue[i]].account_id /\ side = taker.side
      <4>1. orders[book[s][p].queue[i]].account_id \in Accounts
          BY <2>1, <2>4, TradableFacts DEF Fill
      <4> QED BY <2>1, <4>1 DEF NewOrders
    <3>2. positions' = ApplyFill(ApplyFill(positions, a, side, n), b, Opposite(side), n)
        BY <2>2, <2>4, <3>1 DEF Fill
    <3>3. SumFunction(ApplyFill(ApplyFill(positions, a, side, n), b, Opposite(side), n)) =
              SumFunction(positions)
      <4>1. n \in Int
          OBVIOUS
      <4> QED BY <2>1, <4>1, FillBalances
    <3> QED BY <3>2, <3>3 DEF PositionsBalance
  <2> QED BY <2>2, <2>3, <2>4
<1>2. ASSUME \/ \E no \in NewOrders : NewOrder(no)
             \/ \E id \in Ids, a \in Accounts, y \in Symbols : Cancel(id, a, y)
             \/ \E id \in Ids, a \in Accounts, y \in Symbols, p \in Prices, n \in 0 .. MaxQty :
                    Replace(id, a, y, p, n)
             \/ \E a \in Accounts, lim \in Limits : SetRiskLimits(a, lim)
             \/ \E a \in Accounts : QueryAccount(a)
             \/ RejectNew
             \/ AcceptNew
             \/ FinishNew
             \/ SendEvents
             \/ UNCHANGED vars
      PROVE  PositionsBalance'
  <2>1. UNCHANGED positions
      BY <1>2 DEF NewOrder, Cancel, Replace, SetRiskLimits, QueryAccount, RejectNew, AcceptNew,
                  FinishNew, SendEvents, vars, engineVars
  <2> QED BY <2>1 DEF PositionsBalance
<1> QED BY <1>1, <1>2 DEF Next

\* Every fill is applied to both sides: whatever the orders and however often an account
\* trades with itself, the positions of all accounts sum to zero.
THEOREM PositionsBalanced == Spec => []PositionsBalance
<1>1. Init => TypeInv /\ PositionsBalance
  <2> SUFFICES ASSUME Init PROVE PositionsBalance
      BY TypeInit
  <2>1. positions \in [Accounts -> Int] /\ \A a \in Accounts : positions[a] = 0
      BY DEF Init
  <2> QED BY <2>1, EngineAssumption, SumZero DEF PositionsBalance
<1>2. TypeInv /\ PositionsBalance /\ [Next]_vars => TypeInv' /\ PositionsBalance'
    BY TypeStep, BalanceStep
<1> QED BY <1>1, <1>2, PTL DEF Spec

-----------------------------------------------------------------------------
(* Quantities *)

\* The lots that the fills in a list of events trade; FilledQty is FillsIn(events).
FillsIn(evs) == SumFunction([i \in 1 .. Len(evs) |-> FillQty(evs[i])])

\* An event counts for an integer number of lots.
LEMMA FillQtyType ==
    ASSUME NEW e \in Event
    PROVE  FillQty(e) \in Int
BY DEF FillQty, Event

\* One more event adds what it filled.
LEMMA FillsInAppend ==
    ASSUME NEW evs \in Seq(Event), NEW e \in Event
    PROVE  /\ FillsIn(evs) \in Int /\ FillQty(e) \in Int
           /\ FillsIn(Append(evs, e)) = FillsIn(evs) + FillQty(e)
<1> DEFINE n == Len(evs)
           S == 1 .. n
           more == Append(evs, e)
           w == [i \in S |-> FillQty(evs[i])]
           v == [i \in 1 .. Len(more) |-> FillQty(more[i])]
<1>1. n \in Nat /\ Len(more) = n + 1 /\ more[n + 1] = e /\ \A i \in S : more[i] = evs[i] /\ evs[i] \in Event
    OBVIOUS
<1>2. \A i \in 1 .. (n + 1) : i \in S \/ i = n + 1
    BY <1>1
<1>3. FillQty(e) \in Int /\ \A i \in S : FillQty(evs[i]) \in Int
    BY <1>1, FillQtyType
<1>4. 1 .. Len(more) = S \cup {n + 1} /\ n + 1 \notin S /\ IsFiniteSet(S)
  <2>1. IsFiniteSet(S)
      BY <1>1, FS_Interval
  <2> QED BY <1>1, <2>1
<1>5. w \in [S -> Int]
    BY <1>3
<1> HIDE DEF n, more
<1>6. v \in [S \cup {n + 1} -> Int] /\ v[n + 1] = FillQty(e) /\ \A i \in S : v[i] = w[i]
    BY <1>1, <1>2, <1>3, <1>4
<1> HIDE DEF S, w, v
<1>7. SumFunction(v) = SumFunction(w) + v[n + 1]
  <2>1. PICK x : x = n + 1
      OBVIOUS
  <2>2. OneMore(w, v, S, x)
      BY <1>4, <1>5, <1>6, <2>1 DEF OneMore
  <2>3. SumFunction(v) = SumFunction(w) + v[x]
      BY <2>1, <2>2, SumExtend
  <2> QED BY <2>1, <2>3
<1>8. SumFunction(w) \in Int
    BY <1>4, <1>5, SumType
<1>9. SumFunction(w) = FillsIn(evs)
    BY DEF FillsIn, w, S, n
<1>10. SumFunction(v) = FillsIn(Append(evs, e))
    BY DEF FillsIn, v, more
<1> QED BY <1>3, <1>6, <1>7, <1>8, <1>9, <1>10

\* No events, no lots.
LEMMA FillsInNothing == FillsIn(<<>>) = 0
<1> DEFINE w == [i \in 1 .. Len(<<>>) |-> FillQty(<<>>[i])]
<1>1. w \in [{} -> Int] /\ IsFiniteSet({}) /\ \A x \in {} : w[x] = 0
    BY FS_EmptySet
<1> HIDE DEF w
<1>2. SumFunction(w) = 0
    BY <1>1, SumZero
<1> QED BY <1>2 DEF FillsIn, w

\* The order in handle_new is filled or still to fill.
FillsCounted == stage = "match" => FilledQty + rem = taker.qty

ConservedInv == FillsCounted /\ QuantityConserved /\ NothingPending

\* Every step accounts for all lots of the order in handle_new.
LEMMA ConservedStep ==
    ASSUME TypeInv, TypeInv', BookInv, TakerUnindexed, ConservedInv, NothingPending', [Next]_vars
    PROVE  ConservedInv'
<1>0. events \in Seq(Event) /\ FilledQty = FillsIn(events) /\ FilledQty' = FillsIn(events')
    BY DEF TypeInv, TypeOK, FilledQty, FillsIn
<1>1. ASSUME stage' \notin {"match", "done"}
      PROVE  ConservedInv'
    BY <1>1 DEF ConservedInv, FillsCounted, QuantityConserved
<1>2. ASSUME stage' = "done", ~Accepted'
      PROVE  ConservedInv'
    BY <1>2 DEF ConservedInv, FillsCounted, QuantityConserved
<1>3. ASSUME stage = "idle", stage' = "done", UNCHANGED taker
      PROVE  ConservedInv'
  <2>1. ~Accepted'
      BY <1>3 DEF ConservedInv, NothingPending, Accepted
  <2> QED BY <1>2, <1>3, <2>1
<1>4. ASSUME AcceptNew
      PROVE  ConservedInv'
  <2>1. /\ stage = "new" /\ stage' = "match" /\ rem' = taker.qty /\ taker' = taker /\ events' = events
        /\ taker \in NewOrders
      BY <1>4 DEF AcceptNew, TypeInv, HasTaker
  <2>2. events = <<>>
      BY <2>1 DEF ConservedInv, NothingPending
  <2>3. FilledQty' = 0
      BY <1>0, <2>1, <2>2, FillsInNothing
  <2>4. taker.qty \in Int
      BY <2>1, BookAssumption DEF NewOrders
  <2> QED BY <2>1, <2>3, <2>4 DEF ConservedInv, FillsCounted, QuantityConserved
<1>5. ASSUME MatchStep
      PROVE  ConservedInv'
  <2>1. /\ stage = "match" /\ stage' = "match" /\ taker' = taker /\ taker \in NewOrders
        /\ BookTypeOK /\ rem \in Int /\ taker.qty \in Int /\ FilledQty + rem = taker.qty
    <3>1. stage = "match" /\ stage' = "match" /\ taker' = taker
        BY <1>5 DEF MatchStep
    <3>2. taker \in NewOrders /\ BookTypeOK /\ rem \in 0 .. MaxQty
        BY <3>1 DEF TypeInv, HasTaker, TypeOK
    <3>3. rem \in Int /\ taker.qty \in Int
        BY <3>2, BookAssumption DEF NewOrders
    <3>4. FilledQty + rem = taker.qty
        BY <3>1 DEF ConservedInv, FillsCounted
    <3> QED BY <3>1, <3>2, <3>3, <3>4
  <2>2. PICK s \in Sides, p \in Prices :
            Drop(s, p) \/ \E i \in Nat, n \in Nat : Fill(s, p, i, n)
      BY <1>5, MatchStepCases
  <2>3. CASE Drop(s, p)
    <3>1. rem' = rem /\ events' = events
        BY <2>3 DEF Drop
    <3> QED BY <1>0, <2>1, <3>1 DEF ConservedInv, FillsCounted, QuantityConserved
  <2>4. ASSUME NEW i \in Nat, NEW n \in Nat, Fill(s, p, i, n)
        PROVE  ConservedInv'
    <3>1. PICK m \in Ids : m = orders[book[s][p].queue[i]].order_id
      <4>1. orders[book[s][p].queue[i]].order_id \in Ids
          BY <2>1, <2>4, TradableFacts DEF Fill
      <4> QED BY <4>1
    <3>2. PICK e : e = FillEvent(taker, m, p, n)
        OBVIOUS
    <3>3. e \in Event /\ FillQty(e) = n
        BY <2>1, <3>2 DEF FillEvent, Event, FillQty, NewOrders
    <3>4. events' = Append(events, e) /\ rem' = rem - n
        BY <2>4, <3>1, <3>2 DEF Fill
    <3>5. FilledQty \in Int /\ FilledQty' = FilledQty + n
        BY <1>0, <3>3, <3>4, FillsInAppend
    <3>6. FilledQty' + rem' = taker'.qty
        BY <2>1, <3>4, <3>5
    <3> QED BY <2>1, <3>6 DEF ConservedInv, FillsCounted, QuantityConserved
  <2> QED BY <2>2, <2>3, <2>4
<1>6. ASSUME FinishNew
      PROVE  ConservedInv'
  <2>1. /\ stage = "match" /\ stage' = "done" /\ taker' = taker /\ taker \in NewOrders
        /\ events' = events \o <<BookTop', Ack(taker.order_id)>>
        /\ BookTypeOK /\ rem \in 0 .. MaxQty
      BY <1>6 DEF FinishNew, Answer, TypeInv, HasTaker, TypeOK
  <2>2. /\ taker.qty \in Int /\ FilledQty + rem = taker.qty /\ taker.order_id \in Ids
        /\ index[taker.order_id] = Nil /\ rem \in Nat
      BY <2>1, BookAssumption DEF NewOrders, ConservedInv, FillsCounted, TakerUnindexed
  <2>3. FilledQty \in Int /\ FilledQty' = FilledQty
    <3>1. PICK t, a : t = BookTop' /\ a = Ack(taker.order_id)
        OBVIOUS
    <3>2. t \in Event /\ a \in Event
      <4>1. BookTypeOK'
          BY DEF TypeInv, TypeOK
      <4> QED BY <2>2, <3>1, <4>1, BookTopType DEF Ack, Event
    <3>3. FillQty(t) = 0 /\ FillQty(a) = 0
        BY <3>1 DEF FillQty, BookTop, Ack
    <3>4. Append(events, t) \in Seq(Event) /\ events' = Append(Append(events, t), a)
        BY <1>0, <2>1, <3>1, <3>2
    <3>5. FillsIn(events) \in Int /\ FillsIn(Append(events, t)) = FillsIn(events) + 0
        BY <1>0, <3>2, <3>3, FillsInAppend
    <3>6. FillsIn(Append(Append(events, t), a)) = FillsIn(Append(events, t)) + 0
        BY <3>2, <3>3, <3>4, FillsInAppend
    <3> QED BY <1>0, <3>4, <3>5, <3>6
  <2>4. CASE rem > 0 /\ taker.tif = "Gtc"
    <3>1. PICK o \in Order : o = RestingOrder(taker, rem)
        BY <2>1, RestingOrderType
    <3>2. InsertResting(o) /\ o.order_id = taker.order_id /\ o.qty_rem = rem
        BY <1>6, <2>4, <3>1 DEF FinishNew, RestingOrder
    <3>3. PICK key \in Keys : key = Head(free)
        BY <2>1, <3>2 DEF InsertResting, BookTypeOK
    <3>4. index'[taker.order_id] = key /\ orders'[key] = o
        BY <2>1, <2>2, <3>2, <3>3 DEF InsertResting, BookTypeOK
    <3>5. key # Nil /\ o # Nil
        BY BookAssumption
    <3> QED BY <2>1, <2>2, <2>3, <2>4, <3>2, <3>4, <3>5
            DEF ConservedInv, FillsCounted, QuantityConserved, Found
  <2>5. CASE ~(rem > 0 /\ taker.tif = "Gtc")
    <3>1. index'[taker'.order_id] = Nil
        BY <1>6, <2>1, <2>2, <2>5 DEF FinishNew, bookVars
    <3>2. ~Found(taker.order_id)'
        BY <3>1 DEF Found
    <3>3. taker'.tif = "Gtc" => FilledQty' + 0 = taker'.qty
        BY <2>1, <2>2, <2>3, <2>5
    <3> QED BY <2>1, <3>2, <3>3 DEF ConservedInv, FillsCounted, QuantityConserved
  <2> QED BY <2>4, <2>5
<1>7. ASSUME RejectNew
      PROVE  ConservedInv'
  <2>1. stage' = "done" /\ events' = <<Reject(taker.order_id, FailedCheck(taker))>>
      BY <1>7 DEF RejectNew, Answer
  <2>2. ~Accepted'
      BY <2>1 DEF Accepted, Reject
  <2> QED BY <1>2, <2>1, <2>2
<1>8. CASE UNCHANGED vars
    BY <1>0, <1>8 DEF vars, engineVars, bookVars, ConservedInv, FillsCounted, QuantityConserved,
                      Accepted, Found
<1>9. ASSUME \/ \E id \in Ids, a \in Accounts, y \in Symbols : Cancel(id, a, y)
             \/ \E id \in Ids, a \in Accounts, y \in Symbols, p \in Prices, n \in 0 .. MaxQty :
                    Replace(id, a, y, p, n)
             \/ \E a \in Accounts, lim \in Limits : SetRiskLimits(a, lim)
             \/ \E a \in Accounts : QueryAccount(a)
             \/ \E no \in NewOrders : NewOrder(no)
             \/ SendEvents
      PROVE  ConservedInv'
  <2>1. stage' \notin {"match", "done"} \/ (stage = "idle" /\ stage' = "done" /\ UNCHANGED taker)
      BY <1>9 DEF Cancel, Replace, SetRiskLimits, QueryAccount, NewOrder, SendEvents, Answer
  <2> QED BY <1>1, <1>3, <2>1
<1> QED BY <1>4, <1>5, <1>6, <1>7, <1>8, <1>9 DEF Next

\* handle_new loses and invents no lot: what it reports as filled and what it leaves in the
\* book make up the order, whatever it traded with, and an Ioc order leaves nothing behind.
\* A client that reuses the id of a live order finds the other order instead.
THEOREM QuantitiesConserved == UniqueIds => (Spec => []QuantityConserved)
<1> SUFFICES ASSUME UniqueIds PROVE Spec => []QuantityConserved
    OBVIOUS
<1> DEFINE I == TypeInv /\ BookInv /\ PostOnlyInv /\ Indexed /\ TakerUnindexed /\ ConservedInv
<1>1. Init => I
  <2> SUFFICES ASSUME Init PROVE PostOnlyInv /\ Indexed /\ TakerUnindexed /\ ConservedInv
      BY TypeInit, BookInvInit
  <2>1. \A k \in Keys : ~Live(k)
      BY DEF Init, BookInit, Live
  <2>2. PostOnlyInv
      BY DEF Init, PostOnlyInv, SameFlags, PostOnlyWaits, NothingPending, PostOnlyNeverTakes
  <2>3. ConservedInv
      BY <2>2 DEF Init, PostOnlyInv, ConservedInv, FillsCounted, QuantityConserved
  <2> QED BY <2>1, <2>2, <2>3 DEF Init, Indexed, TakerUnindexed
<1>2. I /\ [Next]_vars => I'
  <2> SUFFICES ASSUME I, [Next]_vars PROVE I'
      OBVIOUS
  <2>1. TypeInv' /\ BookInv'
      BY TypeStep, BookChanges, BookInvStep DEF TypeInv, TypeOK
  <2>2. PostOnlyInv'
      BY PostOnlyStep
  <2>3. Indexed' /\ TakerUnindexed'
      BY IndexStep
  <2>4. NothingPending'
      BY <2>2 DEF PostOnlyInv
  <2>5. ConservedInv'
      BY <2>1, <2>4, ConservedStep
  <2> QED BY <2>1, <2>2, <2>3, <2>5
<1>3. I => QuantityConserved
    BY DEF ConservedInv
<1> QED BY <1>1, <1>2, <1>3, PTL DEF Spec
=============================================================================
