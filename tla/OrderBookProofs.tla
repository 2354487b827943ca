--------------------------- MODULE OrderBookProofs ---------------------------
(***************************************************************************)
(* What the state changes of OrderBook preserve, for every set of ids,     *)
(* accounts and prices and every bound: types first, then the agreement of *)
(* slab, free list, queues, level totals and index.                        *)
(***************************************************************************)
EXTENDS OrderBook, SumTheorems, SequenceTheorems

-----------------------------------------------------------------------------
(* Types *)

\* What is left of a quantity within bounds is within bounds.
LEMMA QtyDifference ==
    ASSUME NEW m \in 1 .. MaxQty, NEW n \in 1 .. m
    PROVE  m - n \in 0 .. MaxQty
<1>1. MaxQty \in Nat
    BY BookAssumption
<1> QED BY <1>1

\* A resting order goes to a typed slot, queue and index entry.
LEMMA InsertRestingType ==
    ASSUME BookTypeOK, NEW o \in Order, InsertResting(o)
    PROVE  BookTypeOK'
<1>1. Head(free) \in Keys /\ Tail(free) \in Seq(Keys)
    BY DEF BookTypeOK, InsertResting
<1>2. orders' \in [Keys -> Order \cup {Nil}] /\ free' \in Seq(Keys)
    BY <1>1 DEF BookTypeOK, InsertResting
<1>3. index' \in [Ids -> Keys \cup {Nil}]
    BY <1>1 DEF BookTypeOK, InsertResting, Order
<1>4. book' \in [Sides -> [Prices -> Level]]
  <2> DEFINE lvl == book[o.side][o.price]
             new == [queue |-> Append(lvl.queue, Head(free)), total_qty |-> lvl.total_qty + o.qty_rem]
  <2>1. o.side \in Sides /\ o.price \in Prices /\ o.qty_rem \in Int
      BY BookAssumption DEF Order
  <2>2. lvl \in Level
      BY <2>1 DEF BookTypeOK
  <2>3. new \in Level
      BY <1>1, <2>1, <2>2 DEF Level
  <2>4. book' = [book EXCEPT ![o.side] = [book[o.side] EXCEPT ![o.price] = new]]
      BY <2>1 DEF BookTypeOK, InsertResting
  <2> QED BY <2>1, <2>3, <2>4 DEF BookTypeOK
<1> QED BY <1>2, <1>3, <1>4 DEF BookTypeOK

\* A level that shrinks is still a level.
LEMMA LevelAfterType ==
    ASSUME NEW q \in Seq(Keys), NEW t \in Int
    PROVE  LevelAfter(q, t) \in Level /\ NoLevel \in Level
BY DEF LevelAfter, NoLevel, Level

\* Writing one level keeps the type of the two sides of the book.
LEMMA SetLevelType ==
    ASSUME BookTypeOK, NEW s \in Sides, NEW p \in Prices, NEW l \in Level
    PROVE  [book EXCEPT ![s][p] = l] \in [Sides -> [Prices -> Level]]
BY DEF BookTypeOK

\* cancel leaves a typed tombstone and a typed level.
LEMMA CancelOrderType ==
    ASSUME BookTypeOK, NEW id \in Ids, Found(id), CancelOrder(id)
    PROVE  BookTypeOK'
<1> DEFINE key == index[id]
           o   == orders[key]
           lvl == book[o.side][o.price]
           new == LevelAfter(lvl.queue, lvl.total_qty - o.qty_rem)
<1>1. key \in Keys /\ o \in Order
    BY DEF BookTypeOK, Found
<1>2. o.side \in Sides /\ o.price \in Prices /\ o.qty_rem \in Int
    BY <1>1, BookAssumption DEF Order
<1>3. [o EXCEPT !.qty_rem = 0] \in Order
    BY <1>1, BookAssumption DEF Order
<1>4. orders' \in [Keys -> Order \cup {Nil}]
    BY <1>1, <1>3 DEF BookTypeOK, CancelOrder
<1>5. lvl \in Level /\ lvl.queue \in Seq(Keys) /\ lvl.total_qty - o.qty_rem \in Int
    BY <1>2 DEF BookTypeOK, Level
<1>6. new \in Level
    BY <1>5, LevelAfterType
<1>7. book' = [book EXCEPT ![o.side][o.price] = new]
    BY <1>2 DEF BookTypeOK, CancelOrder
<1>8. book' \in [Sides -> [Prices -> Level]]
    BY <1>2, <1>6, <1>7, SetLevelType
<1> QED BY <1>4, <1>8 DEF BookTypeOK, CancelOrder

\* What a trade finds: an occupied slot with something left, and a quantity within it.
Tradable(s, p, i, qty) ==
    /\ s \in Sides /\ p \in Prices
    /\ i \in LiveFront(book[s][p].queue)
    /\ qty \in 1 .. orders[book[s][p].queue[i]].qty_rem

\* What the type invariant says of a maker that can trade.
LEMMA TradableFacts ==
    ASSUME BookTypeOK, NEW s, NEW p, NEW i, NEW qty, Tradable(s, p, i, qty)
    PROVE  /\ book[s][p] \in Level
           /\ book[s][p].queue \in Seq(Keys) /\ book[s][p].total_qty \in Int
           /\ i \in 1 .. Len(book[s][p].queue)
           /\ book[s][p].queue[i] \in Keys
           /\ orders[book[s][p].queue[i]] \in Order
           /\ orders[book[s][p].queue[i]].qty_rem \in 1 .. MaxQty
           /\ orders[book[s][p].queue[i]].order_id \in Ids
           /\ orders[book[s][p].queue[i]].account_id \in Accounts
<1>1. book[s][p] \in Level
    BY DEF BookTypeOK, Tradable
<1>2. book[s][p].queue \in Seq(Keys) /\ book[s][p].total_qty \in Int
    BY <1>1 DEF Level
<1>3. i \in 1 .. Len(book[s][p].queue) /\ Live(book[s][p].queue[i])
    BY DEF Tradable, LiveFront
<1>4. book[s][p].queue[i] \in Keys
    BY <1>2, <1>3
<1>5. orders[book[s][p].queue[i]] \in Order
    BY <1>3, <1>4 DEF Live, BookTypeOK
<1>6. orders[book[s][p].queue[i]].qty_rem \in 1 .. MaxQty
    BY <1>3, <1>5, BookAssumption DEF Live, Order
<1> QED BY <1>1, <1>2, <1>3, <1>4, <1>5, <1>6 DEF Order

\* A trade keeps the book well typed.
LEMMA TradeType ==
    ASSUME BookTypeOK, NEW s, NEW p, NEW i, NEW qty, Tradable(s, p, i, qty), Trade(s, p, i, qty)
    PROVE  BookTypeOK'
<1> DEFINE lvl == book[s][p]
           key == lvl.queue[i]
           maker == orders[key]
           done == maker.qty_rem = qty
           q == QueueAfter(lvl.queue, i, done)
<1>1. /\ lvl \in Level /\ lvl.queue \in Seq(Keys) /\ lvl.total_qty \in Int
      /\ i \in 1 .. Len(lvl.queue) /\ key \in Keys /\ maker \in Order
      /\ maker.qty_rem \in 1 .. MaxQty /\ maker.order_id \in Ids
    BY TradableFacts
<1>2. qty \in 1 .. maker.qty_rem /\ s \in Sides /\ p \in Prices
    BY DEF Tradable
<1>3. [maker EXCEPT !.qty_rem = maker.qty_rem - qty] \in Order
  <2>1. maker.qty_rem - qty \in 0 .. MaxQty
      BY <1>1, <1>2, QtyDifference
  <2> HIDE DEF maker
  <2> QED BY <1>1, <2>1 DEF Order
<1>4. orders' \in [Keys -> Order \cup {Nil}]
    BY <1>1, <1>3 DEF BookTypeOK, Trade
<1>5. free' \in Seq(Keys)
  <2>1. <<key>> \in Seq(Keys) /\ free \in Seq(Keys)
      BY <1>1 DEF BookTypeOK
  <2>2. <<key>> \o free \in Seq(Keys)
      BY <2>1
  <2> QED BY <2>1, <2>2 DEF Trade, FreeAfter
<1>6. index' \in [Ids -> Keys \cup {Nil}]
    BY <1>1 DEF BookTypeOK, Trade, IndexAfter
<1>7. q \in Seq(Keys) /\ lvl.total_qty - qty \in Int
    BY <1>1, <1>2, BookAssumption DEF QueueAfter
<1>8. LevelAfter(q, lvl.total_qty - qty) \in Level
    BY <1>7, LevelAfterType
<1>9. book' = [book EXCEPT ![s][p] = LevelAfter(q, lvl.total_qty - qty)]
    BY DEF Trade
<1>10. book' \in [Sides -> [Prices -> Level]]
    BY <1>2, <1>8, <1>9, SetLevelType
<1> QED BY <1>4, <1>5, <1>6, <1>10 DEF BookTypeOK

\* Dropping a level keeps the book well typed.
LEMMA DropLevelType ==
    ASSUME BookTypeOK, NEW s \in Sides, NEW p \in Prices, DropLevel(s, p)
    PROVE  BookTypeOK'
BY DEF BookTypeOK, DropLevel, NoLevel, Level

-----------------------------------------------------------------------------
(* Sums over the slab *)

IsSum(w, t) == t = SumFunction(w)

\* Every nonempty set of naturals has a least element: induction in the form of a set.
LEMMA LeastNat ==
    ASSUME NEW T \in SUBSET Nat, T # {}
    PROVE  \E n \in T : \A m \in T : n <= m
<1> DEFINE R == OpToRel(<, Nat)
<1>1. IsWellFoundedOn(R, Nat)
    BY NatLessThanWellFounded
<1>2. \A x, y \in Nat : ~(<<x, y>> \in R) => y <= x
    BY DEF OpToRel
<1> HIDE DEF R
<1>3. \E n \in T : \A m \in T : ~(<<m, n>> \in R)
    BY <1>1, WFMin, Zenon
<1>4. \A n \in T : n \in Nat
    OBVIOUS
<1> QED BY <1>2, <1>3, <1>4, Zenon

\* The slab has finitely many slots.
LEMMA KeysFinite == IsFiniteSet(Keys)
<1>1. 0 \in Int /\ MaxSlots - 1 \in Int
    BY BookAssumption
<1> QED BY <1>1, FS_Interval DEF Keys

\* Changing one slot changes the sum by as much.
LEMMA SlabSumUpdate ==
    ASSUME NEW w \in [Keys -> Nat], NEW t, IsSum(w, t), NEW k \in Keys, NEW d \in Int,
           NEW v \in [Keys -> Nat], v[k] = w[k] + d, \A j \in Keys \ {k} : v[j] = w[j]
    PROVE  IsSum(v, t + d)
<1>1. w \in [Keys -> Int] /\ v \in [Keys -> Int] /\ w[k] \in Int
    OBVIOUS
<1>2. SumFunction(v) = SumFunction(w) + (v[k] - w[k])
    BY <1>1, KeysFinite, SumUpdate
<1>3. v[k] - w[k] = d
    BY <1>1
<1> QED BY <1>2, <1>3 DEF IsSum

\* Nothing sums to zero.
LEMMA SlabSumZero == IsSum([k \in Keys |-> 0], 0)
<1> DEFINE w == [k \in Keys |-> 0]
<1>1. w \in [Keys -> Int] /\ \A k \in Keys : w[k] = 0
    OBVIOUS
<1> HIDE DEF w
<1>2. SumFunction(w) = 0
    BY <1>1, KeysFinite, SumZero
<1> QED BY <1>2 DEF IsSum, w

\* A sum of naturals is not negative, and is zero only when all of them are.
LEMMA SlabSumNat ==
    ASSUME NEW w \in [Keys -> Nat], NEW t, IsSum(w, t)
    PROVE  t \in Nat /\ (t = 0 => \A k \in Keys : w[k] = 0)
<1>1. t \in Nat /\ \A k \in Keys : w[k] <= t
    BY KeysFinite, SumAtLeast DEF IsSum
<1> QED BY <1>1

-----------------------------------------------------------------------------
(* The agreement of slab, free list, queues, totals and index               *)

\* The two halves of LevelTotals.
TotalsExact == \A s \in Sides, p \in Prices : IsSum(Waiting(s, p), book[s][p].total_qty)

LevelsNonempty == \A s \in Sides, p \in Prices : HasLevel(s, p) => book[s][p].total_qty > 0

BookInv == FreeListExact /\ QueuesExact /\ TotalsExact /\ LevelsNonempty /\ IndexSound

\* The weight of a slot is a natural number.
LEMMA WaitingType ==
    ASSUME BookTypeOK, NEW s, NEW p
    PROVE  Waiting(s, p) \in [Keys -> Nat]
<1>1. \A k \in Keys : orders[k] # Nil => orders[k].qty_rem \in Nat
    BY BookAssumption DEF BookTypeOK, Order
<1> QED BY <1>1 DEF Waiting, Live

\* The same in the next state.
LEMMA WaitingTypePrime ==
    ASSUME BookTypeOK', NEW s, NEW p
    PROVE  Waiting(s, p)' \in [Keys -> Nat]
<1>1. \A k \in Keys : orders'[k] # Nil => orders'[k].qty_rem \in Nat
    BY BookAssumption DEF BookTypeOK, Order
<1> QED BY <1>1 DEF Waiting, Live

\* Reading back a book in which one level was written.
LEMMA SetLevel ==
    ASSUME BookTypeOK, NEW s0 \in Sides, NEW p0 \in Prices, NEW l
    PROVE  \A s \in Sides, p \in Prices :
              [book EXCEPT ![s0][p0] = l][s][p] = IF s = s0 /\ p = p0 THEN l ELSE book[s][p]
BY DEF BookTypeOK

\* A level is dropped exactly when nothing is left at its price.
LEMMA LevelAfterTotal ==
    ASSUME NEW v \in [Keys -> Nat], NEW t, IsSum(v, t), NEW q
    PROVE  /\ IsSum(v, LevelAfter(q, t).total_qty)
           /\ LevelAfter(q, t).queue = q \/ (LevelAfter(q, t).queue = <<>> /\ \A k \in Keys : v[k] = 0)
<1>1. t \in Nat /\ (t = 0 => \A k \in Keys : v[k] = 0)
    BY SlabSumNat
<1>2. CASE t = 0
    BY <1>1, <1>2 DEF LevelAfter, NoLevel
<1>3. CASE t # 0
  <2>1. ~(t <= 0)
      BY <1>1, <1>3
  <2> QED BY <2>1 DEF LevelAfter
<1> QED BY <1>2, <1>3

\* insert_resting of an order with something left.
LEMMA InsertRestingInv ==
    ASSUME BookTypeOK, BookInv, NEW o \in Order, o.qty_rem > 0, InsertResting(o)
    PROVE  BookInv'
<1> DEFINE key == Head(free)
           old == book[o.side][o.price]
           new == [queue |-> Append(old.queue, key), total_qty |-> old.total_qty + o.qty_rem]
<1>1. BookTypeOK'
    BY InsertRestingType
<1>2. /\ free \in Seq(Keys) /\ free # <<>> /\ key = free[1] /\ key \in Keys
      /\ free' = Tail(free) /\ Len(free) >= 1
    BY DEF BookTypeOK, InsertResting
<1>3. orders[key] = Nil
  <2>1. InQueue(key, free)
      BY <1>2 DEF InQueue
  <2> QED BY <1>2, <2>1 DEF BookInv, FreeListExact
<1>4. /\ o.side \in Sides /\ o.price \in Prices /\ o.qty_rem \in Nat /\ o.order_id \in Ids
      /\ o # Nil
    BY BookAssumption DEF Order
<1>5. /\ orders' = [orders EXCEPT ![key] = o]
      /\ orders'[key] = o
      /\ \A k \in Keys : k # key => orders'[k] = orders[k]
    BY <1>2 DEF BookTypeOK, InsertResting
<1>6. \A k \in Keys : Live(k)' <=> (Live(k) \/ k = key)
    BY <1>3, <1>4, <1>5 DEF Live
<1>7. ~Live(key)
    BY <1>3 DEF Live
<1>8. book' = [book EXCEPT ![o.side][o.price] = new]
    BY DEF InsertResting
<1>9. \A s \in Sides, p \in Prices :
        book'[s][p] = IF s = o.side /\ p = o.price THEN new ELSE book[s][p]
  <2> HIDE DEF new
  <2> QED BY <1>4, <1>8, SetLevel
<1>9a. book'[o.side][o.price].queue = Append(old.queue, key)
  <2>1. book'[o.side][o.price] = new
      BY <1>4, <1>9
  <2>2. new.queue = Append(old.queue, key)
      OBVIOUS
  <2> QED BY <2>1, <2>2
<1>10. \A s \in Sides, p \in Prices :
        /\ book[s][p].queue \in Seq(Keys) /\ book[s][p].total_qty \in Int
        /\ \A i \in 1 .. Len(book[s][p].queue) :
              book[s][p].queue[i] \in Keys /\ book[s][p].queue[i] # key
  <2> TAKE s \in Sides, p \in Prices
  <2>1. book[s][p].queue \in Seq(Keys) /\ book[s][p].total_qty \in Int
      BY DEF BookTypeOK, Level
  <2> QED BY <1>3, <2>1 DEF BookInv, QueuesExact, QueuesSound
<1>11. FreeListExact'
  <2>1. \A i \in 1 .. Len(free') : free'[i] = free[i + 1] /\ i + 1 \in 1 .. Len(free)
      BY <1>2
  <2>2. \A i, j \in 1 .. Len(free) : free[i] = free[j] => i = j
      BY DEF BookInv, FreeListExact
  <2>3. \A i, j \in 1 .. Len(free') : free'[i] = free'[j] => i = j
      BY <2>1, <2>2
  <2>4. ASSUME NEW k \in Keys
        PROVE  orders'[k] = Nil <=> InQueue(k, free')
    <3>1. CASE k = key
      <4>1. \A i \in 1 .. Len(free') : free'[i] # key
          BY <1>2, <2>1, <2>2
      <4> QED BY <1>4, <1>5, <3>1, <4>1 DEF InQueue
    <3>2. CASE k # key
      <4>1. orders'[k] = Nil <=> InQueue(k, free)
          BY <1>5, <3>2 DEF BookInv, FreeListExact
      <4>2. ASSUME InQueue(k, free)
            PROVE  InQueue(k, free')
        <5>1. PICK i \in 1 .. Len(free) : free[i] = k
            BY <4>2 DEF InQueue
        <5>2. i # 1 /\ i - 1 \in 1 .. Len(free') /\ free'[i - 1] = k
            BY <1>2, <3>2, <5>1
        <5> QED BY <5>2 DEF InQueue
      <4>3. InQueue(k, free') => InQueue(k, free)
          BY <2>1 DEF InQueue
      <4> QED BY <4>1, <4>2, <4>3
    <3> QED BY <3>1, <3>2
  <2> QED BY <2>3, <2>4 DEF FreeListExact
<1>12. QueuesSound'
  <2> SUFFICES ASSUME NEW s \in Sides, NEW p \in Prices
               PROVE  LET q == book'[s][p].queue IN
                      /\ \A i \in 1 .. Len(q) : /\ orders'[q[i]] # Nil
                                                /\ orders'[q[i]].side = s
                                                /\ orders'[q[i]].price = p
                      /\ \A i, j \in 1 .. Len(q) : q[i] = q[j] => i = j
      BY DEF QueuesSound
  <2> DEFINE q == book[s][p].queue
  <2>1. /\ \A i \in 1 .. Len(q) : orders'[q[i]] # Nil /\ orders'[q[i]].side = s
                                  /\ orders'[q[i]].price = p
        /\ \A i, j \in 1 .. Len(q) : q[i] = q[j] => i = j
      BY <1>5, <1>10 DEF BookInv, QueuesExact, QueuesSound
  <2>2. CASE s = o.side /\ p = o.price
    <3>1. book'[s][p].queue = Append(q, key)
        BY <1>9a, <2>2
    <3>2. q \in Seq(Keys) /\ \A i \in 1 .. Len(q) : q[i] # key
        BY <1>10
    <3> HIDE DEF q
    <3>3. Len(Append(q, key)) = Len(q) + 1 /\ Append(q, key)[Len(q) + 1] = key
        BY <1>2, <3>2
    <3>4. \A i \in 1 .. Len(q) : Append(q, key)[i] = q[i]
        BY <1>2, <3>2
    <3>5. \A i \in 1 .. (Len(q) + 1) : i \in 1 .. Len(q) \/ i = Len(q) + 1
        BY <3>2
    <3> QED BY <1>4, <1>5, <2>1, <2>2, <3>1, <3>2, <3>3, <3>4, <3>5
  <2>3. CASE ~(s = o.side /\ p = o.price)
    <3>1. book'[s][p] = book[s][p]
        BY <1>9, <2>3
    <3> QED BY <2>1, <3>1
  <2> QED BY <2>2, <2>3
<1>13. ASSUME NEW k \in Keys, Live(k)'
       PROVE  InQueue(k, book'[orders'[k].side][orders'[k].price].queue)
  <2>1. CASE k = key
    <3>1. book'[o.side][o.price].queue = Append(old.queue, key)
        BY <1>9a
    <3>2. old.queue \in Seq(Keys)
        BY <1>4, <1>10
    <3> HIDE DEF old
    <3>3. InQueue(key, Append(old.queue, key))
        BY <1>2, <3>2 DEF InQueue
    <3> QED BY <1>5, <2>1, <3>1, <3>3
  <2>2. CASE k # key
    <3> DEFINE s == orders[k].side
               p == orders[k].price
               q == book[s][p].queue
    <3>1. Live(k) /\ orders'[k] = orders[k]
        BY <1>5, <1>6, <1>13, <2>2
    <3>2. s \in Sides /\ p \in Prices
        BY <3>1 DEF Live, BookTypeOK, Order
    <3>3. InQueue(k, q)
        BY <3>1 DEF BookInv, QueuesExact
    <3>4. q \in Seq(Keys)
        BY <1>10, <3>2
    <3>5. book'[s][p].queue = q \/ book'[s][p].queue = Append(q, key)
      <4>1. CASE s = o.side /\ p = o.price
          BY <1>9a, <4>1
      <4>2. CASE ~(s = o.side /\ p = o.price)
          BY <1>9, <3>2, <4>2
      <4> QED BY <4>1, <4>2
    <3> HIDE DEF q
    <3>6. InQueue(k, Append(q, key))
        BY <1>2, <3>3, <3>4 DEF InQueue
    <3> QED BY <3>1, <3>3, <3>5, <3>6
  <2> QED BY <2>1, <2>2
<1>14. TotalsExact'
  <2> SUFFICES ASSUME NEW s \in Sides, NEW p \in Prices
               PROVE  IsSum(Waiting(s, p)', book'[s][p].total_qty)
      BY DEF TotalsExact
  <2> DEFINE w == Waiting(s, p)
             v == Waiting(s, p)'
  <2>1. w \in [Keys -> Nat] /\ v \in [Keys -> Nat] /\ IsSum(w, book[s][p].total_qty)
      BY <1>1, WaitingType, WaitingTypePrime DEF BookInv, TotalsExact
  <2>2. \A k \in Keys \ {key} : v[k] = w[k]
      BY <1>5, <1>6 DEF Waiting
  <2>3. w[key] = 0
      BY <1>2, <1>7 DEF Waiting
  <2>4. v[key] = IF s = o.side /\ p = o.price THEN o.qty_rem ELSE 0
      BY <1>2, <1>5, <1>6 DEF Waiting
  <2> HIDE DEF w, v
  <2>5. CASE s = o.side /\ p = o.price
    <3>1. IsSum(v, book[s][p].total_qty + o.qty_rem)
      <4>1. v[key] = w[key] + o.qty_rem /\ o.qty_rem \in Int
          BY <1>4, <2>3, <2>4, <2>5
      <4> QED BY <1>2, <2>1, <2>2, <4>1, SlabSumUpdate
    <3>2. book'[s][p].total_qty = book[s][p].total_qty + o.qty_rem
        BY <1>9, <2>5
    <3> QED BY <3>1, <3>2 DEF v
  <2>6. CASE ~(s = o.side /\ p = o.price)
    <3>1. v = w
        BY <2>1, <2>2, <2>3, <2>4, <2>6
    <3> QED BY <1>9, <2>1, <2>6, <3>1 DEF v
  <2> QED BY <2>5, <2>6
<1>15. IndexSound'
  <2>1. /\ index'[o.order_id] = key
        /\ \A id \in Ids : id # o.order_id => index'[id] = index[id]
      BY <1>4 DEF InsertResting, BookTypeOK
  <2>2. \A id \in Ids : index[id] # Nil => index[id] \in Keys /\ index[id] # key
      BY <1>7 DEF BookInv, IndexSound, BookTypeOK
  <2> QED BY <1>2, <1>5, <1>6, <2>1, <2>2 DEF BookInv, IndexSound
<1>16. LevelsNonempty'
  <2>1. old.total_qty \in Nat
    <3>1. Waiting(o.side, o.price) \in [Keys -> Nat]
        BY WaitingType
    <3>2. IsSum(Waiting(o.side, o.price), old.total_qty)
        BY <1>4 DEF BookInv, TotalsExact
    <3> QED BY <3>1, <3>2, SlabSumNat
  <2>2. new.total_qty > 0
      BY <1>4, <2>1
  <2> HIDE DEF new
  <2> QED BY <1>9, <2>2 DEF BookInv, LevelsNonempty, HasLevel
<1> QED BY <1>11, <1>12, <1>13, <1>14, <1>15, <1>16 DEF BookInv, QueuesExact

\* Queues stay sound when levels only vanish and no occupied slot changes its price.
LEMMA QueuesShrink ==
    ASSUME BookTypeOK, QueuesSound,
           \A k \in Keys : orders[k] # Nil =>
                /\ orders'[k] # Nil
                /\ orders'[k].side = orders[k].side /\ orders'[k].price = orders[k].price,
           \A s \in Sides, p \in Prices :
                book'[s][p].queue = book[s][p].queue \/ book'[s][p].queue = <<>>
    PROVE  QueuesSound'
<1> SUFFICES ASSUME NEW s \in Sides, NEW p \in Prices
             PROVE  LET q == book'[s][p].queue IN
                    /\ \A i \in 1 .. Len(q) : /\ orders'[q[i]] # Nil
                                              /\ orders'[q[i]].side = s
                                              /\ orders'[q[i]].price = p
                    /\ \A i, j \in 1 .. Len(q) : q[i] = q[j] => i = j
    BY DEF QueuesSound
<1> DEFINE q == book[s][p].queue
<1>1. q \in Seq(Keys)
    BY DEF BookTypeOK, Level
<1>2. /\ \A i \in 1 .. Len(q) : orders'[q[i]] # Nil /\ orders'[q[i]].side = s
                                /\ orders'[q[i]].price = p
      /\ \A i, j \in 1 .. Len(q) : q[i] = q[j] => i = j
    BY <1>1 DEF QueuesSound
<1>3. CASE book'[s][p].queue = q
    BY <1>2, <1>3
<1>4. CASE book'[s][p].queue = <<>>
    BY <1>4
<1> QED BY <1>3, <1>4

\* One order loses n lots, by a cancel or a fill, and its level is rewritten with what is
\* left: the totals stay exact, and the level goes only when nobody waits at its price.
Shrinks(s0, p0, key, n, q) ==
    /\ Live(key) /\ orders[key].side = s0 /\ orders[key].price = p0
    /\ \A k \in Keys : k # key => orders'[k] = orders[k]
    /\ \/ orders[key].qty_rem = n /\ ~Live(key)'
       \/ /\ Live(key)' /\ orders'[key].side = s0 /\ orders'[key].price = p0
          /\ orders'[key].qty_rem = orders[key].qty_rem - n
    /\ \A s \in Sides, p \in Prices : ~(s = s0 /\ p = p0) => book'[s][p] = book[s][p]
    /\ book'[s0][p0] = LevelAfter(q, book[s0][p0].total_qty - n)

Shrunk(s0, p0, q) ==
    \/ book'[s0][p0].queue = q
    \/ /\ book'[s0][p0].queue = <<>>
       /\ \A k \in Keys : ~(Live(k)' /\ orders'[k].side = s0 /\ orders'[k].price = p0)

\* Taking n lots of one slot off its level keeps every total the sum of its live orders.
LEMMA LevelShrinks ==
    ASSUME BookTypeOK, BookTypeOK', TotalsExact, LevelsNonempty,
           NEW s0 \in Sides, NEW p0 \in Prices, NEW key \in Keys, NEW n \in Nat, NEW q,
           Shrinks(s0, p0, key, n, q)
    PROVE  TotalsExact' /\ LevelsNonempty' /\ Shrunk(s0, p0, q)
<1> USE DEF Shrinks
<1> DEFINE t == book[s0][p0].total_qty
           new == LevelAfter(q, t - n)
           w(s, p) == Waiting(s, p)
           v(s, p) == Waiting(s, p)'
<1>1. \A s \in Sides, p \in Prices :
        /\ w(s, p) \in [Keys -> Nat] /\ v(s, p) \in [Keys -> Nat]
        /\ IsSum(w(s, p), book[s][p].total_qty)
    BY WaitingType, WaitingTypePrime DEF TotalsExact
<1>2. book'[s0][p0] = new
    OBVIOUS
<1>3. \A k \in Keys : k # key => (Live(k)' <=> Live(k))
    BY DEF Live
<1>4. \A s \in Sides, p \in Prices : \A k \in Keys \ {key} : v(s, p)[k] = w(s, p)[k]
    BY <1>3 DEF Waiting
<1>5. orders[key].qty_rem \in Nat /\ t \in Int
  <2>1. orders[key] \in Order
      BY DEF Live, BookTypeOK
  <2>2. book[s0][p0] \in Level
      BY DEF BookTypeOK
  <2> QED BY <2>1, <2>2, BookAssumption DEF Order, Level
<1>6. w(s0, p0)[key] = orders[key].qty_rem
    BY DEF Waiting
<1>7. v(s0, p0)[key] = orders[key].qty_rem - n
    BY <1>5 DEF Waiting
<1>8. \A s \in Sides, p \in Prices : ~(s = s0 /\ p = p0) => v(s, p)[key] = 0 /\ w(s, p)[key] = 0
    BY DEF Waiting
<1>9. IsSum(v(s0, p0), t - n)
  <2> DEFINE w0 == w(s0, p0)
             v0 == v(s0, p0)
  <2>1. w0 \in [Keys -> Nat] /\ v0 \in [Keys -> Nat] /\ IsSum(w0, t)
      BY <1>1
  <2>2. v0[key] = w0[key] + (-n) /\ -n \in Int
      BY <1>5, <1>6, <1>7
  <2>3. \A k \in Keys \ {key} : v0[k] = w0[k]
      BY <1>4
  <2> HIDE DEF w0, v0, t
  <2>4. IsSum(v0, t + (-n))
      BY <2>1, <2>2, <2>3, SlabSumUpdate
  <2>5. t + (-n) = t - n
      BY <1>5
  <2> QED BY <2>4, <2>5 DEF v0
<1>10. /\ IsSum(v(s0, p0), new.total_qty)
       /\ new.queue = q \/ (new.queue = <<>> /\ \A k \in Keys : v(s0, p0)[k] = 0)
  <2> DEFINE v0 == v(s0, p0)
             left == t - n
  <2>1. v0 \in [Keys -> Nat] /\ IsSum(v0, left)
      BY <1>1, <1>9
  <2> HIDE DEF v0, left
  <2>2. /\ IsSum(v0, LevelAfter(q, left).total_qty)
        /\ \/ LevelAfter(q, left).queue = q
           \/ LevelAfter(q, left).queue = <<>> /\ \A k \in Keys : v0[k] = 0
      BY <2>1, LevelAfterTotal
  <2> QED BY <2>2 DEF v0, left
<1>11. \A s \in Sides, p \in Prices : IsSum(v(s, p), book'[s][p].total_qty)
  <2> TAKE s \in Sides, p \in Prices
  <2>1. CASE s = s0 /\ p = p0
    <3>1. book'[s][p] = new
        BY <1>2, <2>1
    <3> HIDE DEF new, v
    <3> QED BY <1>10, <2>1, <3>1
  <2>2. CASE ~(s = s0 /\ p = p0)
    <3> DEFINE w1 == w(s, p)
               v1 == v(s, p)
    <3>1. w1 \in [Keys -> Nat] /\ v1 \in [Keys -> Nat] /\ IsSum(w1, book[s][p].total_qty)
        BY <1>1
    <3>2. \A k \in Keys : v1[k] = w1[k]
        BY <1>4, <1>8, <2>2
    <3>3. book'[s][p] = book[s][p]
        BY <2>2
    <3> HIDE DEF w1, v1
    <3>4. v1 = w1
        BY <3>1, <3>2
    <3> QED BY <3>1, <3>3, <3>4 DEF v1
  <2> QED BY <2>1, <2>2
<1>12. TotalsExact'
    BY <1>11 DEF TotalsExact
<1>13. ASSUME \A k \in Keys : v(s0, p0)[k] = 0
       PROVE  \A k \in Keys : ~(Live(k)' /\ orders'[k].side = s0 /\ orders'[k].price = p0)
  <2>1. \A k \in Keys : orders'[k] # Nil => orders'[k].qty_rem \in Nat
      BY BookAssumption DEF BookTypeOK, Order
  <2> QED BY <1>13, <2>1 DEF Waiting, Live
<1>14. LevelsNonempty'
  <2>1. book'[s0][p0] # NoLevel => book'[s0][p0].total_qty > 0
    <3>1. t - n \in Int
        BY <1>5
    <3>2. ~(t - n <= 0) => t - n > 0
      <4> HIDE DEF t
      <4> QED BY <3>1
    <3> QED BY <1>2, <3>2 DEF LevelAfter
  <2> QED BY <2>1 DEF LevelsNonempty, HasLevel
<1> HIDE DEF new, v
<1> QED BY <1>2, <1>10, <1>12, <1>13, <1>14 DEF Shrunk

\* cancel of an order the index leads to.
LEMMA CancelOrderInv ==
    ASSUME BookTypeOK, BookInv, NEW id \in Ids, Found(id), CancelOrder(id)
    PROVE  BookInv'
<1>1. BookTypeOK'
    BY CancelOrderType
<1>2. PICK key \in Keys : key = index[id]
    BY DEF BookTypeOK, Found
<1>3. orders[key] \in Order /\ Live(key) /\ orders[key].order_id = id
    BY <1>2 DEF BookTypeOK, Found, BookInv, IndexSound
<1>4. PICK s0 \in Sides, p0 \in Prices, n \in Nat :
        s0 = orders[key].side /\ p0 = orders[key].price /\ n = orders[key].qty_rem
  <2>1. orders[key].side \in Sides /\ orders[key].price \in Prices /\ orders[key].qty_rem \in Nat
      BY <1>3, BookAssumption DEF Order
  <2> QED BY <2>1
<1> DEFINE old == book[s0][p0]
<1>5. /\ orders'[key] # Nil /\ orders'[key].side = s0 /\ orders'[key].price = p0
      /\ orders'[key].qty_rem = 0
      /\ \A k \in Keys : k # key => orders'[k] = orders[k]
  <2> DEFINE o == orders[key]
             z == [o EXCEPT !.qty_rem = 0]
  <2>1. orders' = [orders EXCEPT ![key] = z]
      BY <1>2 DEF CancelOrder
  <2>2. z \in Order /\ z.side = o.side /\ z.price = o.price /\ z.qty_rem = 0
    <3>1. 0 \in 0 .. MaxQty
        BY BookAssumption
    <3>2. o \in Order
        BY <1>3
    <3> HIDE DEF o
    <3> QED BY <3>1, <3>2 DEF Order
  <2> HIDE DEF z
  <2>3. orders'[key] = z /\ \A k \in Keys : k # key => orders'[k] = orders[k]
      BY <2>1 DEF BookTypeOK
  <2> QED BY <1>4, <2>2, <2>3, BookAssumption
<1>6. \A k \in Keys : Live(k)' <=> (Live(k) /\ k # key)
    BY <1>5 DEF Live
<1>7. /\ book'[s0][p0] = LevelAfter(old.queue, old.total_qty - n)
      /\ \A s \in Sides, p \in Prices : ~(s = s0 /\ p = p0) => book'[s][p] = book[s][p]
  <2> DEFINE new == LevelAfter(old.queue, old.total_qty - n)
  <2>1. book' = [book EXCEPT ![s0][p0] = new]
      BY <1>2, <1>4 DEF CancelOrder
  <2> HIDE DEF new
  <2>2. /\ book'[s0][p0] = new
        /\ \A s \in Sides, p \in Prices : ~(s = s0 /\ p = p0) => book'[s][p] = book[s][p]
      BY <2>1 DEF BookTypeOK
  <2> QED BY <2>2 DEF new
<1>8. TotalsExact' /\ LevelsNonempty' /\ Shrunk(s0, p0, old.queue)
  <2>1. PICK q : q = old.queue
      OBVIOUS
  <2>2. TotalsExact /\ LevelsNonempty /\ ~Live(key)' /\ book'[s0][p0] = LevelAfter(q, book[s0][p0].total_qty - n)
      BY <1>6, <1>7, <2>1 DEF BookInv
  <2>3. Shrinks(s0, p0, key, n, q)
      BY <1>3, <1>4, <1>5, <1>7, <2>2 DEF Shrinks
  <2>4. TotalsExact' /\ LevelsNonempty' /\ Shrunk(s0, p0, q)
      BY <1>1, <2>2, <2>3, LevelShrinks
  <2> QED BY <2>1, <2>4
<1>9. \A k \in Keys : /\ orders'[k] = Nil <=> orders[k] = Nil
                      /\ orders[k] # Nil => orders'[k].side = orders[k].side
                                            /\ orders'[k].price = orders[k].price
    BY <1>3, <1>4, <1>5 DEF Live
<1>10. FreeListExact'
    BY <1>9 DEF CancelOrder, BookInv, FreeListExact
<1>11. \A s \in Sides, p \in Prices :
            book'[s][p].queue = book[s][p].queue \/ book'[s][p].queue = <<>>
    BY <1>7, <1>8 DEF Shrunk
<1>12. QueuesSound'
    BY <1>9, <1>11, QueuesShrink DEF BookInv, QueuesExact
<1>13. ASSUME NEW k \in Keys, Live(k)'
       PROVE  InQueue(k, book'[orders'[k].side][orders'[k].price].queue)
  <2>1. k # key /\ Live(k) /\ orders'[k] = orders[k]
      BY <1>5, <1>6, <1>13
  <2>2. PICK s \in Sides, p \in Prices : s = orders[k].side /\ p = orders[k].price
      BY <2>1 DEF Live, BookTypeOK, Order
  <2>3. InQueue(k, book[s][p].queue)
      BY <2>1, <2>2 DEF BookInv, QueuesExact
  <2>4. book'[s][p].queue = book[s][p].queue
    <3>1. CASE s = s0 /\ p = p0
        BY <1>8, <1>13, <2>1, <2>2, <3>1 DEF Shrunk
    <3>2. CASE ~(s = s0 /\ p = p0)
        BY <1>7, <3>2
    <3> QED BY <3>1, <3>2
  <2> QED BY <2>1, <2>2, <2>3, <2>4
<1>14. IndexSound'
  <2>1. index'[id] = Nil /\ \A x \in Ids : x # id => index'[x] = index[x]
      BY DEF CancelOrder, BookTypeOK
  <2>2. \A x \in Ids : x # id /\ index[x] # Nil => index[x] \in Keys /\ index[x] # key
      BY <1>3 DEF BookInv, IndexSound, BookTypeOK
  <2> QED BY <1>5, <1>6, <2>1, <2>2 DEF BookInv, IndexSound
<1> QED BY <1>8, <1>10, <1>12, <1>13, <1>14 DEF BookInv, QueuesExact

\* The iteration of match_taker that finds no live maker in a level.
LEMMA DropLevelInv ==
    ASSUME BookTypeOK, BookInv, NEW s0 \in Sides, NEW p0 \in Prices,
           LiveFront(book[s0][p0].queue) = {}, DropLevel(s0, p0)
    PROVE  BookInv'
<1> DEFINE q0 == book[s0][p0].queue
<1>1. q0 \in Seq(Keys)
    BY DEF BookTypeOK, Level
<1>2. \A i \in 1 .. Len(q0) : ~Live(q0[i])
  <2> DEFINE T == {i \in 1 .. Len(q0) : Live(q0[i])}
  <2>1. SUFFICES ASSUME T # {} PROVE FALSE
      OBVIOUS
  <2>2. T \in SUBSET Nat
      BY <1>1
  <2>3. PICK i \in T : \A j \in T : i <= j
      BY <2>1, <2>2, LeastNat
  <2>4. i \in LiveFront(q0)
    <3>1. i \in 1 .. Len(q0) /\ Live(q0[i])
        BY <2>3
    <3>2. \A j \in 1 .. (i - 1) : j \in 1 .. Len(q0) /\ j \notin T
        BY <1>1, <2>3, <3>1
    <3>3. \A j \in 1 .. (i - 1) : ~Live(q0[j])
        BY <3>2
    <3> QED BY <3>1, <3>3 DEF LiveFront
  <2> QED BY <2>4
<1>3. orders' = orders /\ free' = free /\ index' = index
    BY DEF DropLevel
<1>4. \A s \in Sides, p \in Prices :
        book'[s][p] = IF s = s0 /\ p = p0 THEN NoLevel ELSE book[s][p]
  <2>1. book' = [book EXCEPT ![s0][p0] = NoLevel]
      BY DEF DropLevel
  <2> QED BY <2>1, SetLevel
<1>5. \A k \in Keys : Live(k)' <=> Live(k)
    BY <1>3 DEF Live
<1>6. \A k \in Keys : Live(k) => ~(orders[k].side = s0 /\ orders[k].price = p0)
    BY <1>2 DEF BookInv, QueuesExact, InQueue
<1>7. TotalsExact'
  <2> SUFFICES ASSUME NEW s \in Sides, NEW p \in Prices
               PROVE  IsSum(Waiting(s, p)', book'[s][p].total_qty)
      BY DEF TotalsExact
  <2>1. Waiting(s, p)' = Waiting(s, p)
      BY <1>3, <1>5 DEF Waiting
  <2>2. CASE s = s0 /\ p = p0
    <3>1. Waiting(s, p) = [k \in Keys |-> 0]
        BY <1>6, <2>2 DEF Waiting
    <3> QED BY <1>4, <2>1, <2>2, <3>1, SlabSumZero DEF NoLevel
  <2>3. CASE ~(s = s0 /\ p = p0)
      BY <1>4, <2>1, <2>3 DEF BookInv, TotalsExact
  <2> QED BY <2>2, <2>3
<1>8. QueuesExact'
  <2>1. QueuesSound'
    <3>1. \A s \in Sides, p \in Prices :
            book'[s][p].queue = book[s][p].queue \/ book'[s][p].queue = <<>>
        BY <1>4 DEF NoLevel
    <3> QED BY <1>3, <3>1, QueuesShrink DEF BookInv, QueuesExact
  <2>2. ASSUME NEW k \in Keys, Live(k)'
        PROVE  InQueue(k, book'[orders'[k].side][orders'[k].price].queue)
    <3>1. Live(k) /\ orders[k].side \in Sides /\ orders[k].price \in Prices
        BY <1>5, <2>2 DEF Live, BookTypeOK, Order
    <3>2. book'[orders[k].side][orders[k].price] = book[orders[k].side][orders[k].price]
        BY <1>4, <1>6, <3>1
    <3> QED BY <1>3, <3>1, <3>2 DEF BookInv, QueuesExact
  <2> QED BY <2>1, <2>2 DEF QueuesExact
<1>9. FreeListExact' /\ IndexSound'
    BY <1>3, <1>5 DEF BookInv, FreeListExact, IndexSound, BookTypeOK
<1>10. LevelsNonempty'
    BY <1>4 DEF BookInv, LevelsNonempty, HasLevel
<1> QED BY <1>7, <1>8, <1>9, <1>10 DEF BookInv

\* The queue after a fill is the old one from position m on.
IsSuffix(q, m, r) ==
    /\ r \in Seq(Keys)
    /\ \A j \in 1 .. Len(r) : r[j] = q[m + j - 1] /\ m + j - 1 \in m .. Len(q)
    /\ \A j \in m .. Len(q) : InQueue(q[j], r)

\* Dropping a prefix of a queue keeps what is behind it.
LEMMA Suffix ==
    ASSUME NEW q \in Seq(Keys), NEW m \in 1 .. (Len(q) + 1)
    PROVE  IsSuffix(q, m, SubSeq(q, m, Len(q)))
<1> DEFINE r == SubSeq(q, m, Len(q))
<1>1. Len(q) \in Nat /\ Len(q) \in (m - 1) .. Len(q)
    OBVIOUS
<1>2. /\ r \in Seq(Keys) /\ Len(r) = Len(q) - m + 1
      /\ \A j \in 1 .. (Len(q) - m + 1) : r[j] = q[m + j - 1]
    BY <1>1, SubSeqProperties
<1> HIDE DEF r
<1>3. \A j \in 1 .. Len(r) : r[j] = q[m + j - 1] /\ m + j - 1 \in m .. Len(q)
    BY <1>1, <1>2
<1>4. ASSUME NEW j \in m .. Len(q)
      PROVE  InQueue(q[j], r)
  <2>1. j - m + 1 \in 1 .. Len(r) /\ m + (j - m + 1) - 1 = j
      BY <1>1, <1>2
  <2> QED BY <1>3, <2>1 DEF InQueue
<1> QED BY <1>2, <1>3, <1>4 DEF IsSuffix, r

\* One fill of match_taker with the first live maker of a level.
LEMMA TradeInv ==
    ASSUME BookTypeOK, BookInv, NEW s0 \in Sides, NEW p0 \in Prices, NEW i, NEW qty,
           Tradable(s0, p0, i, qty), Trade(s0, p0, i, qty)
    PROVE  BookInv'
<1>1. BookTypeOK'
    BY TradeType
<1>2. PICK q : q = book[s0][p0].queue
    OBVIOUS
<1>3. PICK key : key = q[i]
    OBVIOUS
<1>4. /\ q \in Seq(Keys) /\ i \in 1 .. Len(q) /\ key \in Keys
      /\ orders[key] \in Order /\ orders[key].qty_rem \in 1 .. MaxQty /\ orders[key].order_id \in Ids
    BY <1>2, <1>3, TradableFacts
<1>5. PICK done \in BOOLEAN : done = (orders[key].qty_rem = qty)
    OBVIOUS
<1>6. /\ qty \in Nat /\ qty \in 1 .. orders[key].qty_rem
      /\ Live(key) /\ \A j \in 1 .. (i - 1) : ~Live(q[j])
    BY <1>2, <1>3, <1>4 DEF Tradable, LiveFront
<1>7. /\ \A j \in 1 .. Len(q) : orders[q[j]] # Nil /\ orders[q[j]].side = s0 /\ orders[q[j]].price = p0
      /\ \A j, k \in 1 .. Len(q) : q[j] = q[k] => j = k
    BY <1>2 DEF BookInv, QueuesExact, QueuesSound
<1>8. orders[key].side = s0 /\ orders[key].price = p0 /\ orders[key] # Nil
    BY <1>3, <1>4, <1>7
<1>9. /\ \A k \in Keys : k # key => orders'[k] = orders[k]
      /\ done => orders'[key] = Nil
      /\ ~done => /\ orders'[key] # Nil /\ orders'[key].side = s0 /\ orders'[key].price = p0
                  /\ orders'[key].order_id = orders[key].order_id
                  /\ orders'[key].qty_rem = orders[key].qty_rem - qty
                  /\ orders'[key].qty_rem > 0
  <2>1. PICK o : o = orders[key]
      OBVIOUS
  <2> DEFINE z == [o EXCEPT !.qty_rem = o.qty_rem - qty]
  <2>2. orders' = [orders EXCEPT ![key] = IF done THEN Nil ELSE z]
      BY <1>2, <1>3, <1>5, <2>1 DEF Trade
  <2>3. /\ z.side = o.side /\ z.price = o.price /\ z.order_id = o.order_id
        /\ z.qty_rem = o.qty_rem - qty
    <3>1. o \in Order
        BY <1>4, <2>1
    <3> QED BY <3>1 DEF Order
  <2>4. o.qty_rem - qty \in 0 .. MaxQty
      BY <1>4, <1>6, <2>1, QtyDifference
  <2>5. z \in Order
      BY <1>4, <2>1, <2>4 DEF Order
  <2>6. ~done => o.qty_rem - qty > 0
    <3>1. o.qty_rem # qty => o.qty_rem - qty > 0
        BY <1>4, <1>6, <2>1
    <3> QED BY <1>5, <2>1, <3>1
  <2> HIDE DEF z
  <2>7. orders'[key] = (IF done THEN Nil ELSE z) /\ \A k \in Keys : k # key => orders'[k] = orders[k]
      BY <1>4, <2>2 DEF BookTypeOK
  <2>8. z # Nil
      BY <2>5, BookAssumption
  <2> QED BY <1>8, <2>1, <2>3, <2>6, <2>7, <2>8
<1>10. \A k \in Keys : Live(k)' <=> (Live(k) /\ (k # key \/ ~done))
    BY <1>6, <1>9 DEF Live
<1>11. PICK r : r = QueueAfter(q, i, done)
    OBVIOUS
<1>12. PICK m : m = IF done THEN i + 1 ELSE i
    OBVIOUS
<1>13. /\ r \in Seq(Keys) /\ m \in i .. (i + 1)
       /\ \A j \in 1 .. Len(r) : r[j] = q[m + j - 1] /\ m + j - 1 \in m .. Len(q)
       /\ \A j \in m .. Len(q) : InQueue(q[j], r)
  <2>1. r = SubSeq(q, m, Len(q))
      BY <1>11, <1>12 DEF QueueAfter
  <2>2. m \in i .. (i + 1)
    <3>1. i \in i .. (i + 1) /\ i + 1 \in i .. (i + 1)
        BY <1>4
    <3>2. CASE done
        BY <1>12, <3>1, <3>2
    <3>3. CASE ~done
        BY <1>12, <3>1, <3>3
    <3> QED BY <3>2, <3>3
  <2>3. m \in 1 .. (Len(q) + 1)
      BY <1>4, <2>2
  <2>4. IsSuffix(q, m, r)
      BY <1>4, <2>1, <2>3, Suffix
  <2> QED BY <2>2, <2>4 DEF IsSuffix
<1>14. /\ book'[s0][p0] = LevelAfter(r, book[s0][p0].total_qty - qty)
       /\ \A s \in Sides, p \in Prices : ~(s = s0 /\ p = p0) => book'[s][p] = book[s][p]
  <2> DEFINE new == LevelAfter(r, book[s0][p0].total_qty - qty)
  <2>1. book' = [book EXCEPT ![s0][p0] = new]
      BY <1>2, <1>3, <1>5, <1>11 DEF Trade
  <2> HIDE DEF new
  <2>2. /\ book'[s0][p0] = new
        /\ \A s \in Sides, p \in Prices : ~(s = s0 /\ p = p0) => book'[s][p] = book[s][p]
      BY <2>1 DEF BookTypeOK
  <2> QED BY <2>2 DEF new
<1>15. TotalsExact' /\ LevelsNonempty' /\ Shrunk(s0, p0, r)
  <2>1. TotalsExact /\ LevelsNonempty
      BY DEF BookInv
  <2>2. Shrinks(s0, p0, key, qty, r)
      BY <1>4, <1>5, <1>6, <1>8, <1>9, <1>10, <1>14 DEF Shrinks
  <2> QED BY <1>1, <1>4, <1>6, <2>1, <2>2, LevelShrinks
<1>16. QueuesSound'
  <2> SUFFICES ASSUME NEW s \in Sides, NEW p \in Prices
               PROVE  LET y == book'[s][p].queue IN
                      /\ \A j \in 1 .. Len(y) : /\ orders'[y[j]] # Nil
                                                /\ orders'[y[j]].side = s
                                                /\ orders'[y[j]].price = p
                      /\ \A j, k \in 1 .. Len(y) : y[j] = y[k] => j = k
      BY DEF QueuesSound
  <2>1. CASE s = s0 /\ p = p0
    <3>1. /\ \A j \in 1 .. Len(r) : /\ orders'[r[j]] # Nil
                                    /\ orders'[r[j]].side = s
                                    /\ orders'[r[j]].price = p
          /\ \A j, k \in 1 .. Len(r) : r[j] = r[k] => j = k
      <4>1. ASSUME NEW j \in 1 .. Len(r)
            PROVE  orders'[r[j]] # Nil /\ orders'[r[j]].side = s /\ orders'[r[j]].price = p
        <5>1. PICK n : n = m + j - 1
            OBVIOUS
        <5>2. r[j] = q[n] /\ n \in 1 .. Len(q) /\ n \in m .. Len(q) /\ q[n] \in Keys
            BY <1>4, <1>13, <5>1
        <5>3. q[n] = key => ~done
            BY <1>3, <1>4, <1>7, <1>12, <5>2
        <5> QED BY <1>7, <1>9, <2>1, <5>2, <5>3
      <4>2. ASSUME NEW j \in 1 .. Len(r), NEW k \in 1 .. Len(r), r[j] = r[k]
            PROVE  j = k
        <5>1. /\ r[j] = q[m + j - 1] /\ m + j - 1 \in 1 .. Len(q)
              /\ r[k] = q[m + k - 1] /\ m + k - 1 \in 1 .. Len(q)
            BY <1>4, <1>13
        <5>2. m + j - 1 = m + k - 1
            BY <1>7, <4>2, <5>1
        <5> QED BY <1>4, <1>13, <5>2
      <4> QED BY <4>1, <4>2
    <3>2. CASE book'[s0][p0].queue = r
        BY <2>1, <3>1, <3>2
    <3>3. CASE book'[s0][p0].queue = <<>>
        BY <2>1, <3>3
    <3> QED BY <1>15, <3>2, <3>3 DEF Shrunk
  <2>2. CASE ~(s = s0 /\ p = p0)
    <3>1. PICK y : y = book[s][p].queue
        OBVIOUS
    <3>2. y \in Seq(Keys)
        BY <3>1 DEF BookTypeOK, Level
    <3>3. /\ \A j \in 1 .. Len(y) : orders[y[j]] # Nil /\ orders[y[j]].side = s /\ orders[y[j]].price = p
          /\ \A j, k \in 1 .. Len(y) : y[j] = y[k] => j = k
        BY <3>1 DEF BookInv, QueuesExact, QueuesSound
    <3>4. \A j \in 1 .. Len(y) : y[j] \in Keys /\ y[j] # key
        BY <1>8, <2>2, <3>2, <3>3
    <3>5. book'[s][p].queue = y
        BY <1>14, <2>2, <3>1
    <3> QED BY <1>9, <3>3, <3>4, <3>5
  <2> QED BY <2>1, <2>2
<1>17. ASSUME NEW k \in Keys, Live(k)'
       PROVE  InQueue(k, book'[orders'[k].side][orders'[k].price].queue)
  <2>1. Live(k) /\ (k # key \/ ~done)
      BY <1>10, <1>17
  <2>2. PICK s \in Sides, p \in Prices : s = orders[k].side /\ p = orders[k].price
      BY <2>1 DEF Live, BookTypeOK, Order
  <2>3. s = orders'[k].side /\ p = orders'[k].price
      BY <1>8, <1>9, <2>1, <2>2
  <2>4. InQueue(k, book[s][p].queue)
      BY <2>1, <2>2 DEF BookInv, QueuesExact
  <2>5. CASE s = s0 /\ p = p0
    <3>1. book'[s][p].queue = r
        BY <1>15, <1>17, <2>3, <2>5 DEF Shrunk
    <3>2. PICK j \in 1 .. Len(q) : q[j] = k
        BY <1>2, <2>4, <2>5 DEF InQueue
    <3>3. j >= i
        BY <1>4, <1>6, <2>1, <3>2
    <3>4. j = i => ~done
        BY <1>3, <2>1, <3>2
    <3>5. j \in m .. Len(q)
        BY <1>4, <1>12, <3>2, <3>3, <3>4
    <3>6. InQueue(k, r)
        BY <1>13, <3>2, <3>5
    <3> QED BY <2>3, <3>1, <3>6
  <2>6. CASE ~(s = s0 /\ p = p0)
    <3>1. book'[s][p].queue = book[s][p].queue
        BY <1>14, <2>6
    <3> QED BY <2>3, <2>4, <3>1
  <2> QED BY <2>5, <2>6
<1>18. FreeListExact'
  <2>1. /\ \A j, k \in 1 .. Len(free) : free[j] = free[k] => j = k
        /\ \A k \in Keys : orders[k] = Nil <=> InQueue(k, free)
        /\ free \in Seq(Keys)
      BY DEF BookInv, FreeListExact, BookTypeOK
  <2>2. CASE done
    <3>1. free' = <<key>> \o free
        BY <1>2, <1>3, <1>5, <2>2 DEF Trade, FreeAfter
    <3>2. /\ Len(free') = Len(free) + 1 /\ free'[1] = key
          /\ \A j \in 1 .. Len(free) : free'[j + 1] = free[j]
        BY <1>4, <2>1, <3>1
    <3>3. \A j \in 1 .. Len(free) : free[j] # key
        BY <1>8, <1>4, <2>1 DEF InQueue
    <3>4. \A j \in 1 .. Len(free') : j = 1 \/ (j - 1 \in 1 .. Len(free) /\ free'[j] = free[j - 1])
      <4>1. \A j \in 1 .. Len(free') : j # 1 => j - 1 \in 1 .. Len(free) /\ (j - 1) + 1 = j
          BY <2>1, <3>2
      <4> QED BY <3>2, <4>1
    <3>5. ASSUME NEW j \in 1 .. Len(free'), NEW k \in 1 .. Len(free'), free'[j] = free'[k]
          PROVE  j = k
      <4>1. CASE j = 1 \/ k = 1
          BY <3>2, <3>3, <3>4, <3>5, <4>1
      <4>2. CASE j # 1 /\ k # 1
        <5>1. j - 1 = k - 1
            BY <2>1, <3>4, <3>5, <4>2
        <5> QED BY <2>1, <3>2, <5>1
      <4> QED BY <4>1, <4>2
    <3>6. ASSUME NEW k \in Keys
          PROVE  orders'[k] = Nil <=> InQueue(k, free')
      <4>1. CASE k = key
        <5>1. 1 \in 1 .. Len(free')
            BY <2>1, <3>2
        <5> QED BY <1>9, <2>2, <3>2, <4>1, <5>1 DEF InQueue
      <4>2. CASE k # key
        <5>1. InQueue(k, free) => InQueue(k, free')
          <6>1. \A j \in 1 .. Len(free) : j + 1 \in 1 .. Len(free')
              BY <2>1, <3>2
          <6> QED BY <3>2, <6>1 DEF InQueue
        <5>2. InQueue(k, free') => InQueue(k, free)
            BY <3>2, <3>4, <4>2 DEF InQueue
        <5> QED BY <1>9, <2>1, <4>2, <5>1, <5>2
      <4> QED BY <4>1, <4>2
    <3> QED BY <3>5, <3>6 DEF FreeListExact
  <2>3. CASE ~done
    <3>1. free' = free
        BY <1>2, <1>3, <1>5, <2>3 DEF Trade, FreeAfter
    <3>2. \A k \in Keys : orders'[k] = Nil <=> orders[k] = Nil
        BY <1>8, <1>9, <2>3
    <3> QED BY <2>1, <3>1, <3>2 DEF FreeListExact
  <2> QED BY <2>2, <2>3
<1>19. IndexSound'
  <2>1. \A x \in Ids : index[x] # Nil =>
            index[x] \in Keys /\ Live(index[x]) /\ orders[index[x]].order_id = x
      BY DEF BookInv, IndexSound, BookTypeOK
  <2>2. index' = IndexAfter(orders[key].order_id, done)
      BY <1>2, <1>3, <1>5 DEF Trade
  <2>3. \A x \in Ids : index'[x] # Nil =>
            index'[x] = index[x] /\ ~(done /\ x = orders[key].order_id)
      BY <1>4, <2>2 DEF IndexAfter, BookTypeOK
  <2>4. ASSUME NEW x \in Ids, index'[x] # Nil
        PROVE  Live(index[x])' /\ orders'[index'[x]].order_id = x
    <3>1. PICK k \in Keys : k = index'[x] /\ Live(k) /\ orders[k].order_id = x /\ (k # key \/ ~done)
        BY <2>1, <2>3, <2>4
    <3>2. Live(k)' /\ orders'[k].order_id = x
        BY <1>9, <1>10, <3>1
    <3> QED BY <3>1, <3>2 DEF Live
  <2> QED BY <2>4 DEF IndexSound
<1> QED BY <1>15, <1>16, <1>17, <1>18, <1>19 DEF BookInv, QueuesExact
=============================================================================
