---------------------------- MODULE GatewayProofs ----------------------------
(***************************************************************************)
(* Proofs about Gateway: its types, that every reservation is counted      *)
(* exactly once, that no account ever reserves more than it has, and, for  *)
(* orders of one lot, that gateway and engine agree on positions and on    *)
(* what is reserved.                                                       *)
(***************************************************************************)
EXTENDS Gateway, SumTheorems, SequenceTheorems

Sides == {"Buy", "Sell"}

FillEvent == [type : {"Fill"}, maker : Ids, taker : Ids, price : Prices, qty : 1 .. MaxQty]
Answer == [type : {"Ack", "Reject"}, order_id : Ids]

ApplyStep == [do : {"apply"}, id : Ids, meta : OrderMetadata, fill : FillEvent]
RemoveStep == [do : {"remove"}, id : Ids]
ReleaseStep == [do : {"release"}, token : ReservationToken]

BookOrder == [order_id : Ids, account_id : Accounts, qty : 1 .. MaxQty]

-----------------------------------------------------------------------------
(* Sequences and the elements in them *)

\* Appending adds one element.
LEMMA RangeAppend ==
    ASSUME NEW X, NEW s \in Seq(X), NEW x \in X
    PROVE  Append(s, x) \in Seq(X) /\ Range(Append(s, x)) = Range(s) \cup {x}
<1>1. Append(s, x) \in Seq(X) /\ Len(Append(s, x)) = Len(s) + 1
    OBVIOUS
<1>2. \A k \in 1 .. Len(s) : Append(s, x)[k] = s[k]
    OBVIOUS
<1>3. Append(s, x)[Len(s) + 1] = x
    OBVIOUS
<1>4. DOMAIN s = 1 .. Len(s) /\ DOMAIN Append(s, x) = 1 .. Len(s) + 1 /\ Len(s) \in Nat
    BY <1>1
<1>5. \A k \in DOMAIN Append(s, x) : Append(s, x)[k] \in Range(s) \cup {x}
    BY <1>2, <1>3, <1>4 DEF Range
<1>6. \A k \in DOMAIN s : k \in DOMAIN Append(s, x) /\ s[k] = Append(s, x)[k]
    BY <1>2, <1>4
<1>7. x \in Range(Append(s, x))
    BY <1>3, <1>4 DEF Range
<1>8. Range(s) \subseteq Range(Append(s, x))
    BY <1>6 DEF Range
<1>9. Range(Append(s, x)) \subseteq Range(s) \cup {x}
    BY <1>5 DEF Range
<1> QED BY <1>1, <1>7, <1>8, <1>9

\* The head is an element; the tail has no others.
LEMMA RangeTail ==
    ASSUME NEW X, NEW s \in Seq(X), s # <<>>
    PROVE  /\ Head(s) \in X /\ Head(s) \in Range(s)
           /\ Tail(s) \in Seq(X) /\ Range(Tail(s)) \subseteq Range(s)
           /\ Range(s) \subseteq X
           /\ \A x \in Range(Tail(s)) : \E k \in 2 .. Len(s) : x = s[k]
           /\ Head(s) = s[1] /\ 1 \in 1 .. Len(s)
<1>1. Len(s) \in Nat \ {0} /\ DOMAIN s = 1 .. Len(s)
    OBVIOUS
<1>2. Head(s) = s[1] /\ Tail(s) \in Seq(X) /\ Len(Tail(s)) = Len(s) - 1
    OBVIOUS
<1>3. \A k \in 1 .. Len(Tail(s)) : Tail(s)[k] = s[k + 1] /\ k + 1 \in 2 .. Len(s)
    BY <1>1, <1>2
<1>4. DOMAIN Tail(s) = 1 .. Len(Tail(s))
    BY <1>2
<1>5. \A x \in Range(Tail(s)) : \E k \in 2 .. Len(s) : x = s[k]
    BY <1>3, <1>4 DEF Range
<1>6. Range(s) \subseteq X
    BY <1>1 DEF Range
<1>7. Head(s) \in Range(s)
    BY <1>1, <1>2 DEF Range
<1>8. Range(Tail(s)) \subseteq Range(s)
    BY <1>1, <1>5 DEF Range
<1> QED BY <1>1, <1>2, <1>5, <1>6, <1>7, <1>8

\* An element of a sequence has its type.
LEMMA RangeType ==
    ASSUME NEW X, NEW s \in Seq(X)
    PROVE  /\ Range(s) \subseteq X
           /\ \A k \in 1 .. Len(s) : s[k] \in Range(s)
           /\ \A x \in Range(s) : \E k \in 1 .. Len(s) : x = s[k]
<1>1. DOMAIN s = 1 .. Len(s)
    OBVIOUS
<1> QED BY <1>1 DEF Range

\* Taking one element out leaves the others.
LEMMA RangeRemoveAt ==
    ASSUME NEW X, NEW s \in Seq(X), NEW i \in 1 .. Len(s)
    PROVE  Engine!RemoveAt(s, i) \in Seq(X) /\ Range(Engine!RemoveAt(s, i)) \subseteq Range(s)
<1> DEFINE r == Engine!RemoveAt(s, i)
           Y == Range(s)
<1>1. Y \subseteq X /\ \A k \in 1 .. Len(s) : s[k] \in Y
    BY RangeType
<1>2. Len(s) \in Nat
    OBVIOUS
<1>3. r = SubSeq(s, 1, i - 1) \o SubSeq(s, i + 1, Len(s))
    BY DEF Engine!RemoveAt
<1>4. SubSeq(s, 1, i - 1) \in Seq(Y)
  <2>1. \A k \in 1 .. i - 1 : s[k] \in Y
      BY <1>1, <1>2
  <2> HIDE DEF Y
  <2> QED BY <1>2, <2>1, SubSeqProperties
<1>5. SubSeq(s, i + 1, Len(s)) \in Seq(Y)
  <2>1. \A k \in i + 1 .. Len(s) : s[k] \in Y
      BY <1>1, <1>2
  <2> HIDE DEF Y
  <2> QED BY <1>2, <2>1, SubSeqProperties
<1> HIDE DEF r, Y
<1>6. r \in Seq(Y)
    BY <1>3, <1>4, <1>5
<1>7. Range(r) \subseteq Y
    BY <1>6, RangeType
<1>8. r \in Seq(X)
    BY <1>1, <1>6
<1> QED BY <1>7, <1>8 DEF r, Y

\* Putting one element in front of a tail.
LEMMA RangeCons ==
    ASSUME NEW X, NEW s \in Seq(X), NEW x \in X
    PROVE  <<x>> \o s \in Seq(X) /\ Range(<<x>> \o s) \subseteq Range(s) \cup {x}
<1> DEFINE Y == Range(s) \cup {x}
<1>1. \A k \in 1 .. Len(s) : s[k] \in Range(s)
    BY RangeType
<1>2. s \in Seq(Y)
    BY <1>1
<1> HIDE DEF Y
<1>3. <<x>> \in Seq(Y)
    BY DEF Y
<1>4. <<x>> \o s \in Seq(Y)
    BY <1>2, <1>3
<1>5. Range(<<x>> \o s) \subseteq Y
    BY <1>4, RangeType
<1> QED BY <1>5 DEF Y

-----------------------------------------------------------------------------
(* The inductive invariant, in parts *)

\* The types of what TypeOK leaves out.
QueueTypes ==
    /\ todo \in Seq(ApplyStep \cup RemoveStep \cup ReleaseStep)
    /\ toEngine \in Seq(Cmd)
    /\ ingress \in Seq(Cmd)
    /\ toGateway \in Seq(FillEvent \cup Answer)
    /\ queues \in [Sides -> [Prices -> Seq(BookOrder)]]

\* What a read loop has at each point of a command.
LoopShape ==
    \A c \in Conns : LET h == handler[c] IN
        /\ h.at = "adjust" => h.cmd.type = "Replace" /\ h.token \in ReservationToken
        /\ h.at = "track" => h.cmd.type \in {"NewOrder", "Replace"} /\ h.token \in ReservationToken
        /\ h.at = "track" /\ h.cmd.type = "NewOrder" =>
              tracked[c][h.cmd.order.order_id] = h.cmd.order.side
        /\ h.at = "route" /\ h.cmd.type # "Cancel" => h.token \in ReservationToken
        /\ h.at = "restore" => h.cmd.type = "Cancel"

\* A fill's two steps for one order.
Pair(k) ==
    todo[k].do = "apply" /\ todo[k + 1].do = "remove" /\ todo[k + 1].id = todo[k].id

\* What can be left of an event.
TodoShape ==
    \/ Len(todo) = 0
    \/ Len(todo) = 1 /\ todo[1].do \in {"release", "remove"}
    \/ Len(todo) = 2 /\ Pair(1)
    \/ Len(todo) = 3 /\ todo[1].do = "remove" /\ Pair(2)
    \/ Len(todo) = 4 /\ Pair(1) /\ Pair(3)

TypeInv == TypeOK /\ QueueTypes /\ LoopShape /\ TodoShape

\* The two orders of the fill being handled are different orders.
TodoDistinct ==
    /\ Len(todo) = 3 => todo[1].id # todo[2].id
    /\ Len(todo) = 4 => todo[1].id # todo[3].id

\* Where a new order can be.
Reading(c, i) ==
    handler[c].at \in {"track", "route"} /\ handler[c].cmd.type = "NewOrder"
    /\ handler[c].cmd.order.order_id = i
Sent(s, i) == \E x \in Range(s) : x.type = "NewOrder" /\ x.order.order_id = i
Matching(i) == incoming # Nil /\ incoming.order_id = i
Booked(i) == \E s \in Sides, p \in Prices : \E o \in Range(queues[s][p]) : o.order_id = i
Filled(i) == \E x \in Range(toGateway) : x.type = "Fill" /\ i \in {x.maker, x.taker}

\* An order is in one of these places, in one only, and none of them has an id no client used.
OnePlace ==
    \A i \in Ids :
        /\ \A c \in Conns : Reading(c, i) =>
              /\ i \in used
              /\ ~Sent(toEngine, i) /\ ~Sent(ingress, i) /\ ~Matching(i) /\ ~Booked(i) /\ ~Filled(i)
              /\ \A d \in Conns : Reading(d, i) => d = c
        /\ Sent(toEngine, i) => i \in used /\ ~Sent(ingress, i) /\ ~Matching(i) /\ ~Booked(i)
        /\ Sent(ingress, i) => i \in used /\ ~Matching(i) /\ ~Booked(i)
        /\ Matching(i) => i \in used /\ ~Booked(i)
        /\ Booked(i) \/ Filled(i) => i \in used

\* No two messages of a queue are the same new order.
SentOnce(s) ==
    \A k, l \in 1 .. Len(s) :
        s[k].type = "NewOrder" /\ s[l].type = "NewOrder"
        /\ s[k].order.order_id = s[l].order.order_id => k = l

\* A fill is between two orders.
TwoOrders == \A x \in Range(toGateway) : x.type = "Fill" => x.maker # x.taker

\* Nobody replaces orders, and no read loop is where only a replace or a failed send leads.
NoReplaces ==
    /\ \A c \in Conns :
          /\ handler[c].at \notin {"adjust", "restore"}
          /\ handler[c].at # "idle" => handler[c].cmd.type # "Replace"
    /\ \A x \in Range(toEngine) \cup Range(ingress) : x.type # "Replace"

Places == OnePlace /\ SentOnce(toEngine) /\ SentOnce(ingress) /\ TwoOrders /\ NoReplaces

\* The shared map names no order that is about to be tracked, and every order of the fill
\* being handled with the token that is going to be released.
Linked ==
    /\ \A c \in Conns : handler[c].at = "track" =>
          pending_orders[handler[c].cmd.order.order_id] = Nil
    /\ \A x \in Range(todo) :
          /\ x.do \in {"apply", "remove"} => pending_orders[x.id] # Nil
          /\ x.do = "apply" => pending_orders[x.id].token = x.meta.token
    /\ \A i \in Ids : pending_orders[i] # Nil => i \in used

\* The reservation of an order the shared map names pays for the order.
Covers(i, side, cost) ==
    pending_orders[i] # Nil =>
        /\ pending_orders[i].side = side
        /\ side = "Buy" => cost <= pending_orders[i].token.amount

Cost(no) == no.price * no.qty
CoversOrder(no) == Covers(no.order_id, no.side, Cost(no))

\* So it is for the orders of the read loops, on the wire and in the engine, ...
LoopsBacked ==
    \A c \in Conns :
        /\ handler[c].at = "track" => handler[c].token.amount = Required(handler[c].cmd.order)
        /\ handler[c].at = "route" /\ handler[c].cmd.type = "NewOrder" =>
              CoversOrder(handler[c].cmd.order)
SentBacked(s) == \A x \in Range(s) : x.type = "NewOrder" => CoversOrder(x.order)
BookBacked ==
    /\ incoming # Nil => CoversOrder(incoming)
    /\ \A s \in Sides, p \in Prices : \A o \in Range(queues[s][p]) :
          Covers(o.order_id, s, p * o.qty)

\* ... and for the fills on their way and the one being handled.
FillsBacked ==
    \A x \in Range(toGateway) : x.type = "Fill" => \A i \in {x.maker, x.taker} :
        pending_orders[i] # Nil /\ pending_orders[i].side = "Buy" =>
            x.price * x.qty <= pending_orders[i].token.amount
StepsBacked ==
    \A x \in Range(todo) : x.do = "apply" /\ x.meta.side = "Buy" =>
        x.fill.price * x.fill.qty <= x.meta.token.amount

Backed ==
    LoopsBacked /\ SentBacked(toEngine) /\ SentBacked(ingress) /\ BookBacked
    /\ FillsBacked /\ StepsBacked

\* The conditions under which every reservation is accounted for: a replace, a failed send and
\* an id that is used twice lose track of one.  The code enforces none of them.
PlainCommands == UniqueIds /\ "Replace" \notin Commands /\ ~RoutingFails

TrackInv == PlainCommands /\ TypeInv /\ Places /\ TodoDistinct /\ Linked

-----------------------------------------------------------------------------
(* Types *)

HandlerType == {Idle} \cup [at : {"adjust", "track", "route", "restore"}, cmd : Cmd,
                            token : ReservationToken \cup {Nil}]

\* What the assumption says of the numbers.
LEMMA ConstantTypes ==
    /\ Prices \subseteq Nat \ {0}
    /\ MaxQty \in Nat \ {0} /\ MaxCommands \in Nat /\ IngressCap \in Nat \ {0}
    /\ BuyingPower \in Nat
    /\ Zero \in Ids
    /\ NewOrders \subseteq OrderType
    /\ Nil \notin Ids \cup Accounts \cup Sides
BY GatewayAssumption DEF Sides

\* The fields of a command, by its type.
LEMMA CmdFields ==
    ASSUME NEW x \in Cmd
    PROVE  /\ x.type \in {"NewOrder", "Cancel", "Replace", "SetRiskLimits"}
           /\ x.type = "NewOrder" => x.order \in OrderType
           /\ x.type = "Cancel" => x.order_id \in Ids /\ x.account_id \in Accounts
           /\ x.type = "Replace" => x \in Replaces
           /\ x.type = "SetRiskLimits" => x.account_id \in Accounts
BY DEF Cmd, Replaces

\* The fields of an order and of its metadata.
LEMMA OrderFields ==
    ASSUME NEW no \in OrderType
    PROVE  /\ no.order_id \in Ids /\ no.account_id \in Accounts /\ no.side \in Sides
           /\ no.price \in Nat \ {0} /\ no.price \in Prices /\ no.qty \in 1 .. MaxQty
           /\ Required(no) \in Nat
<1>1. /\ no.order_id \in Ids /\ no.account_id \in Accounts /\ no.side \in Sides
      /\ no.price \in Prices /\ no.qty \in 1 .. MaxQty
    BY DEF OrderType, Sides
<1>2. no.price \in Nat \ {0} /\ no.qty \in Nat
  <2>1. no.price \in Prices /\ Prices \subseteq Nat \ {0}
      BY <1>1, ConstantTypes
  <2>2. no.qty \in 1 .. MaxQty /\ MaxQty \in Nat
      BY <1>1, ConstantTypes
  <2>3. no.price \in Nat \ {0}
      BY <2>1
  <2>4. no.qty \in Nat
      BY <2>2
  <2> QED BY <2>3, <2>4
<1>3. no.price * no.qty \in Nat
    BY <1>2
<1> QED BY <1>1, <1>2, <1>3 DEF Required

\* A connection that is not idle has a command and a point in it.
LEMMA HandlerFields ==
    ASSUME TypeOK, NEW c \in Conns, handler[c].at # "idle"
    PROVE  /\ handler[c].at \in {"adjust", "track", "route", "restore"}
           /\ handler[c].cmd \in Cmd
           /\ handler[c].token \in ReservationToken \cup {Nil}
<1>1. handler[c] \in HandlerType
    BY DEF TypeOK, HandlerType
<1> QED BY <1>1 DEF HandlerType, Idle

\* Going to the next point of a command keeps the type of the read loops.
LEMMA GotoType ==
    ASSUME TypeOK, NEW c \in Conns, NEW at \in {"adjust", "track", "route", "restore"},
           NEW cmd \in Cmd, NEW token \in ReservationToken \cup {Nil}, Goto(c, at, cmd, token)
    PROVE  /\ handler' \in [Conns -> HandlerType]
           /\ handler'[c] = [at |-> at, cmd |-> cmd, token |-> token]
           /\ \A d \in Conns \ {c} : handler'[d] = handler[d]
<1>1. handler \in [Conns -> HandlerType]
    BY DEF TypeOK, HandlerType
<1>2. [at |-> at, cmd |-> cmd, token |-> token] \in HandlerType
    BY DEF HandlerType
<1> QED BY <1>1, <1>2 DEF Goto

\* Reserving and releasing keep the type of the reservations.
LEMMA ReserveType ==
    ASSUME TypeOK, NEW a \in Accounts, NEW n \in Int, Reserve(a, n)
    PROVE  /\ tentative_reserved' \in [Accounts -> Int]
           /\ tentative_reserved'[a] = tentative_reserved[a] + n
           /\ \A b \in Accounts \ {a} : tentative_reserved'[b] = tentative_reserved[b]
BY DEF TypeOK, Reserve

\* The initial state has the types.
LEMMA TypeInit == Init => TypeInv
<1> SUFFICES ASSUME Init PROVE TypeInv
    OBVIOUS
<1> USE DEF Init
<1>1. TypeOK
  <2>1. buying_power \in [Accounts -> Int] /\ Len(ingress) <= IngressCap /\ issued \in 0 .. MaxCommands
      BY GatewayAssumption
  <2>2. incoming = Nil
      BY DEF Engine!AbstractInit
  <2> QED BY <2>1, <2>2 DEF TypeOK
<1>2. QueueTypes
    BY DEF QueueTypes, Engine!AbstractInit, Sides
<1>3. LoopShape
    BY DEF LoopShape, Idle
<1>4. TodoShape
    BY DEF TodoShape
<1> QED BY <1>1, <1>2, <1>3, <1>4 DEF TypeInv

\* Signing in.
LEMMA TypeAuthenticate ==
    ASSUME TypeInv, NEW c \in Conns, Authenticate(c)
    PROVE  TypeInv'
<1> USE DEF TypeInv
<1>1. TypeOK'
    BY DEF TypeOK, Authenticate, accountVars, engineVars
<1>2. QueueTypes'
    BY DEF QueueTypes, Authenticate, engineVars
<1>3. LoopShape'
    BY DEF LoopShape, Authenticate
<1>4. TodoShape'
    BY DEF TodoShape, Pair, Authenticate
<1> QED BY <1>1, <1>2, <1>3, <1>4

\* Going away.
LEMMA TypeDisconnect ==
    ASSUME TypeInv, NEW c \in Conns, Disconnect(c)
    PROVE  TypeInv'
<1> USE DEF TypeInv
<1>1. TypeOK'
    BY DEF TypeOK, Disconnect, accountVars, engineVars
<1>2. QueueTypes'
    BY DEF QueueTypes, Disconnect, engineVars
<1>3. LoopShape'
  <2>1. handler' = handler /\ handler[c].at = "idle"
      BY DEF Disconnect, Idle
  <2>2. \A d \in Conns \ {c} : tracked'[d] = tracked[d]
      BY DEF Disconnect, TypeOK
  <2> QED BY <2>1, <2>2 DEF LoopShape
<1>4. TodoShape'
    BY DEF TodoShape, Pair, Disconnect
<1> QED BY <1>1, <1>2, <1>3, <1>4

\* Reading a new order.
LEMMA TypeReadNewOrder ==
    ASSUME TypeInv, NEW c \in Conns, NEW no \in NewOrders, ReadNewOrder(c, no)
    PROVE  TypeInv'
<1> USE DEF TypeInv
<1>1. no \in OrderType
    BY ConstantTypes
<1>2. /\ no.order_id \in Ids /\ no.account_id \in Accounts /\ no.side \in Sides
      /\ Required(no) \in Nat
    BY <1>1, OrderFields
<1>3. issued' \in 0 .. MaxCommands /\ used' \subseteq Ids
    BY <1>2, ConstantTypes DEF ReadNewOrder, Reads, TypeOK
<1>4. QueueTypes' /\ TodoShape'
    BY DEF QueueTypes, TodoShape, Pair, ReadNewOrder, engineVars
<1>5. CASE UNCHANGED <<tentative_reserved, tracked, handler>>
  <2>1. TypeOK'
      BY <1>3, <1>5 DEF TypeOK, ReadNewOrder, engineVars
  <2>2. LoopShape'
      BY <1>5 DEF LoopShape
  <2> QED BY <1>4, <2>1, <2>2
<1>6. CASE /\ Reserve(no.account_id, Required(no))
           /\ tracked' = [tracked EXCEPT ![c][no.order_id] = no.side]
           /\ Goto(c, "track", [type |-> "NewOrder", order |-> no],
                   [account_id |-> no.account_id, amount |-> Required(no)])
  <2> DEFINE cmd == [type |-> "NewOrder", order |-> no]
             token == [account_id |-> no.account_id, amount |-> Required(no)]
  <2>1. cmd \in Cmd /\ token \in ReservationToken
      BY <1>1, <1>2 DEF Cmd, ReservationToken
  <2>2. /\ handler' \in [Conns -> HandlerType]
        /\ handler'[c] = [at |-> "track", cmd |-> cmd, token |-> token]
        /\ \A d \in Conns \ {c} : handler'[d] = handler[d]
      BY <1>6, <2>1, GotoType
  <2>3. tentative_reserved' \in [Accounts -> Int]
      BY <1>2, <1>6, ReserveType
  <2>4. /\ tracked' \in [Conns -> [Ids -> {"Buy", "Sell", Nil}]]
        /\ tracked'[c][no.order_id] = no.side
        /\ \A d \in Conns \ {c} : tracked'[d] = tracked[d]
      BY <1>2, <1>6 DEF TypeOK, Sides
  <2>5. TypeOK'
      BY <1>3, <2>2, <2>3, <2>4 DEF TypeOK, HandlerType, ReadNewOrder, engineVars
  <2>6. LoopShape'
      BY <2>1, <2>2, <2>4 DEF LoopShape
  <2> QED BY <1>4, <2>5, <2>6
<1> QED BY <1>5, <1>6 DEF ReadNewOrder

\* Reading a cancel.
LEMMA TypeReadCancel ==
    ASSUME TypeInv, NEW c \in Conns, NEW i \in Ids, NEW account \in Accounts,
           ReadCancel(c, i, account)
    PROVE  TypeInv'
<1> USE DEF TypeInv
<1> DEFINE cmd == [type |-> "Cancel", order_id |-> i, account_id |-> account]
<1>1. cmd \in Cmd
    BY ConstantTypes DEF Cmd
<1>2. /\ handler' \in [Conns -> HandlerType]
      /\ handler'[c] = [at |-> "route", cmd |-> cmd, token |-> Nil]
      /\ \A d \in Conns \ {c} : handler'[d] = handler[d]
    BY <1>1, GotoType DEF ReadCancel
<1>3. issued' \in 0 .. MaxCommands
  <2>1. issued < MaxCommands /\ issued' = issued + 1
      BY DEF ReadCancel, Reads
  <2>2. issued \in 0 .. MaxCommands
      BY DEF TypeOK
  <2> QED BY <2>1, <2>2, ConstantTypes
<1>4. pending_orders' \in [Ids -> OrderMetadata \cup {Nil}]
  <2>1. pending_orders \in [Ids -> OrderMetadata \cup {Nil}]
      BY DEF TypeOK
  <2>2. pending_orders' = IF pending_orders[i] = Nil THEN pending_orders
                          ELSE [pending_orders EXCEPT ![i].operation = "CancelPending"]
      BY DEF ReadCancel
  <2>3. ASSUME pending_orders[i] # Nil
        PROVE  [pending_orders[i] EXCEPT !.operation = "CancelPending"] \in OrderMetadata
      BY <2>1, <2>3 DEF OrderMetadata
  <2> QED BY <2>1, <2>2, <2>3
<1>5. TypeOK'
    BY <1>2, <1>3, <1>4 DEF TypeOK, HandlerType, ReadCancel, accountVars, engineVars
<1>6. QueueTypes' /\ TodoShape'
    BY DEF QueueTypes, TodoShape, Pair, ReadCancel, engineVars
<1>7. LoopShape'
    BY <1>2 DEF LoopShape, ReadCancel
<1> QED BY <1>5, <1>6, <1>7

\* Reading a change of limits.
LEMMA TypeReadSetRiskLimits ==
    ASSUME TypeInv, NEW c \in Conns, NEW a \in Accounts, ReadSetRiskLimits(c, a)
    PROVE  TypeInv'
<1> USE DEF TypeInv
<1> DEFINE cmd == [type |-> "SetRiskLimits", account_id |-> a]
           token == [account_id |-> a, amount |-> 0]
<1>1. cmd \in Cmd /\ token \in ReservationToken
    BY DEF Cmd, ReservationToken
<1>2. /\ handler' \in [Conns -> HandlerType]
      /\ handler'[c] = [at |-> "route", cmd |-> cmd, token |-> token]
      /\ \A d \in Conns \ {c} : handler'[d] = handler[d]
    BY <1>1, GotoType DEF ReadSetRiskLimits
<1>3. issued' \in 0 .. MaxCommands
  <2>1. issued < MaxCommands /\ issued' = issued + 1
      BY DEF ReadSetRiskLimits, Reads
  <2>2. issued \in 0 .. MaxCommands
      BY DEF TypeOK
  <2> QED BY <2>1, <2>2, ConstantTypes
<1>4. TypeOK'
    BY <1>2, <1>3 DEF TypeOK, HandlerType, ReadSetRiskLimits, accountVars, engineVars
<1>5. QueueTypes' /\ TodoShape'
    BY DEF QueueTypes, TodoShape, Pair, ReadSetRiskLimits, engineVars
<1>6. LoopShape'
  <2> HIDE DEF token
  <2> QED BY <1>1, <1>2 DEF LoopShape, ReadSetRiskLimits
<1> QED BY <1>4, <1>5, <1>6

\* Reading a replace.
LEMMA TypeReadReplace ==
    ASSUME TypeInv, NEW c \in Conns, NEW r \in Replaces, ReadReplace(c, r)
    PROVE  TypeInv'
<1> USE DEF TypeInv
<1>1. r \in Cmd /\ r.type = "Replace" /\ r.order_id \in Ids
    BY DEF Cmd, Replaces
<1>2. issued' \in 0 .. MaxCommands
    BY ConstantTypes DEF ReadReplace, Reads, TypeOK
<1>3. QueueTypes' /\ TodoShape'
    BY DEF QueueTypes, TodoShape, Pair, ReadReplace, engineVars
<1>4. CASE UNCHANGED handler
  <2>1. TypeOK'
      BY <1>2, <1>4 DEF TypeOK, ReadReplace, accountVars, engineVars
  <2>2. LoopShape'
      BY <1>4 DEF LoopShape, ReadReplace
  <2> QED BY <1>3, <2>1, <2>2
<1>5. CASE pending_orders[r.order_id] # Nil /\ Goto(c, "adjust", r, pending_orders[r.order_id].token)
  <2> DEFINE token == pending_orders[r.order_id].token
  <2>1. token \in ReservationToken
      BY <1>1, <1>5 DEF TypeOK, OrderMetadata
  <2>2. /\ handler' \in [Conns -> HandlerType]
        /\ handler'[c] = [at |-> "adjust", cmd |-> r, token |-> token]
        /\ \A d \in Conns \ {c} : handler'[d] = handler[d]
      BY <1>1, <1>5, <2>1, GotoType
  <2>3. TypeOK'
      BY <1>2, <2>2 DEF TypeOK, HandlerType, ReadReplace, accountVars, engineVars
  <2> HIDE DEF token
  <2>4. LoopShape'
      BY <1>1, <2>1, <2>2 DEF LoopShape, ReadReplace
  <2> QED BY <1>3, <2>3, <2>4
<1> QED BY <1>4, <1>5 DEF ReadReplace

\* Being done with a command keeps the type of the read loops.
LEMMA IdleType ==
    ASSUME TypeOK, NEW c \in Conns, handler' = [handler EXCEPT ![c] = Idle]
    PROVE  /\ handler' \in [Conns -> HandlerType]
           /\ handler'[c].at = "idle"
           /\ \A d \in Conns \ {c} : handler'[d] = handler[d]
BY DEF TypeOK, HandlerType, Idle

\* A token's fields.
LEMMA TokenFields ==
    ASSUME NEW t \in ReservationToken
    PROVE  t.account_id \in Accounts /\ t.amount \in Nat /\ -t.amount \in Int
BY DEF ReservationToken

\* Adjusting a reservation.
LEMMA TypeAdjustReservation ==
    ASSUME TypeInv, NEW c \in Conns, AdjustReservation(c)
    PROVE  TypeInv'
<1> USE DEF TypeInv
<1> DEFINE r == handler[c].cmd
           old == handler[c].token
<1>1. handler[c].at = "adjust" /\ r.type = "Replace" /\ old \in ReservationToken
    BY DEF AdjustReservation, LoopShape
<1>2. r \in Replaces /\ r \in Cmd
    BY <1>1, HandlerFields, CmdFields
<1>3. r.account_id \in Accounts /\ r.price \in Prices /\ r.qty \in 1 .. MaxQty
    BY <1>2 DEF Replaces
<1>4. NewAmount(r) \in Nat
  <2>1. r.price \in Nat
      BY <1>3, ConstantTypes
  <2>2. r.qty \in Nat
      BY <1>3, ConstantTypes
  <2> HIDE DEF r
  <2> QED BY <2>1, <2>2 DEF NewAmount
<1>5. QueueTypes' /\ TodoShape'
    BY DEF QueueTypes, TodoShape, Pair, AdjustReservation, engineVars
<1>6. CASE handler' = [handler EXCEPT ![c] = Idle] /\ UNCHANGED tentative_reserved
  <2>1. /\ handler' \in [Conns -> HandlerType] /\ handler'[c].at = "idle"
        /\ \A d \in Conns \ {c} : handler'[d] = handler[d]
      BY <1>6, IdleType
  <2>2. TypeOK'
      BY <1>6, <2>1 DEF TypeOK, HandlerType, AdjustReservation, engineVars
  <2>3. LoopShape'
      BY <2>1 DEF LoopShape, AdjustReservation
  <2> QED BY <1>5, <2>2, <2>3
<1>7. CASE /\ Reserve(r.account_id, NewAmount(r) - old.amount)
           /\ Goto(c, "track", r, [account_id |-> r.account_id, amount |-> NewAmount(r)])
  <2> DEFINE token == [account_id |-> r.account_id, amount |-> NewAmount(r)]
  <2>1. token \in ReservationToken
      BY <1>3, <1>4 DEF ReservationToken
  <2>2. /\ handler' \in [Conns -> HandlerType]
        /\ handler'[c] = [at |-> "track", cmd |-> r, token |-> token]
        /\ \A d \in Conns \ {c} : handler'[d] = handler[d]
      BY <1>2, <1>7, <2>1, GotoType
  <2>3. NewAmount(r) - old.amount \in Int
      BY <1>1, <1>4, TokenFields
  <2>4. tentative_reserved' \in [Accounts -> Int]
      BY <1>3, <1>7, <2>3, ReserveType
  <2>5. TypeOK'
      BY <2>2, <2>4 DEF TypeOK, HandlerType, AdjustReservation, engineVars
  <2> HIDE DEF token
  <2>6. LoopShape'
      BY <1>1, <2>1, <2>2 DEF LoopShape, AdjustReservation
  <2> QED BY <1>5, <2>5, <2>6
<1> QED BY <1>6, <1>7 DEF AdjustReservation

\* Telling the shared map of an order.
LEMMA TypeTrackOrder ==
    ASSUME TypeInv, NEW c \in Conns, TrackOrder(c)
    PROVE  TypeInv'
<1> USE DEF TypeInv
<1> DEFINE cmd == handler[c].cmd
           id == IF cmd.type = "NewOrder" THEN cmd.order.order_id ELSE cmd.order_id
           meta == [token |-> handler[c].token, side |-> tracked[c][id], operation |-> "Active"]
<1>1. handler[c].at = "track"
    BY DEF TrackOrder
<1>2. /\ cmd \in Cmd /\ cmd.type \in {"NewOrder", "Replace"}
      /\ handler[c].token \in ReservationToken
      /\ cmd.type = "NewOrder" => tracked[c][cmd.order.order_id] = cmd.order.side
    BY <1>1, HandlerFields, CmdFields DEF LoopShape
<1>3. id \in Ids /\ (cmd.type = "NewOrder" => cmd.order.side \in Sides)
    BY <1>2, CmdFields, OrderFields DEF Replaces
<1>4. cmd.type = "NewOrder" \/ KnowsSide(c, id) => tracked[c][id] \in {"Buy", "Sell"}
    BY <1>2, <1>3 DEF KnowsSide, TypeOK, Sides
<1>5. cmd.type = "NewOrder" \/ KnowsSide(c, id) => meta \in OrderMetadata
    BY <1>2, <1>4 DEF OrderMetadata
<1>6. pending_orders' = IF cmd.type = "NewOrder" \/ KnowsSide(c, id)
                        THEN [pending_orders EXCEPT ![id] = meta] ELSE pending_orders
    BY DEF TrackOrder
<1>7. pending_orders' \in [Ids -> OrderMetadata \cup {Nil}]
  <2> HIDE DEF meta, id, cmd
  <2> QED BY <1>3, <1>5, <1>6 DEF TypeOK
<1>8. /\ handler' \in [Conns -> HandlerType]
      /\ handler'[c] = [at |-> "route", cmd |-> cmd, token |-> handler[c].token]
      /\ \A d \in Conns \ {c} : handler'[d] = handler[d]
  <2>1. Goto(c, "route", cmd, handler[c].token)
      BY DEF TrackOrder
  <2> QED BY <1>2, <2>1, GotoType
<1>9. TypeOK'
    BY <1>7, <1>8 DEF TypeOK, HandlerType, TrackOrder, accountVars, engineVars
<1>10. QueueTypes' /\ TodoShape'
    BY DEF QueueTypes, TodoShape, Pair, TrackOrder, engineVars
<1>11. LoopShape'
    BY <1>2, <1>8 DEF LoopShape, TrackOrder
<1> QED BY <1>9, <1>10, <1>11

\* Sending a command to the engine.
LEMMA TypeRoute ==
    ASSUME TypeInv, NEW c \in Conns, Route(c)
    PROVE  TypeInv'
<1> USE DEF TypeInv
<1>1. handler[c].cmd \in Cmd
    BY HandlerFields DEF Route
<1>2. /\ handler' \in [Conns -> HandlerType] /\ handler'[c].at = "idle"
      /\ \A d \in Conns \ {c} : handler'[d] = handler[d]
    BY IdleType DEF Route
<1>3. TypeOK'
    BY <1>2 DEF TypeOK, HandlerType, Route, accountVars, engineVars
<1>4. toEngine' \in Seq(Cmd)
    BY <1>1, RangeAppend DEF Route, QueueTypes
<1>5. QueueTypes' /\ TodoShape'
    BY <1>4 DEF QueueTypes, TodoShape, Pair, Route, engineVars
<1>6. LoopShape'
    BY <1>2 DEF LoopShape, Route
<1> QED BY <1>3, <1>5, <1>6

\* Failing to send a new order or a replace.
LEMMA TypeRouteFails ==
    ASSUME TypeInv, NEW c \in Conns, RouteFails(c)
    PROVE  TypeInv'
<1> USE DEF TypeInv
<1> DEFINE cmd == handler[c].cmd
<1>1. cmd \in Cmd /\ handler[c].token \in ReservationToken
    BY HandlerFields DEF RouteFails, LoopShape
<1>2. /\ handler' \in [Conns -> HandlerType] /\ handler'[c].at = "idle"
      /\ \A d \in Conns \ {c} : handler'[d] = handler[d]
    BY IdleType DEF RouteFails
<1>3. tentative_reserved' \in [Accounts -> Int]
    BY <1>1, TokenFields, ReserveType DEF RouteFails, ReleaseReservation
<1>4. cmd.type = "NewOrder" => cmd.order.order_id \in Ids
    BY <1>1, CmdFields, OrderFields
<1>5. /\ tracked' \in [Conns -> [Ids -> {"Buy", "Sell", Nil}]]
      /\ \A d \in Conns \ {c} : tracked'[d] = tracked[d]
    BY <1>4 DEF RouteFails, TypeOK
<1>6. TypeOK'
    BY <1>2, <1>3, <1>5 DEF TypeOK, HandlerType, RouteFails, engineVars
<1>7. QueueTypes' /\ TodoShape'
    BY DEF QueueTypes, TodoShape, Pair, RouteFails, engineVars
<1>8. LoopShape'
    BY <1>2, <1>5 DEF LoopShape
<1> QED BY <1>6, <1>7, <1>8

\* Failing to send a cancel.
LEMMA TypeCancelRouteFails ==
    ASSUME TypeInv, NEW c \in Conns, CancelRouteFails(c)
    PROVE  TypeInv'
<1> USE DEF TypeInv
<1>1. handler[c].cmd \in Cmd /\ handler[c].cmd.type = "Cancel"
    BY HandlerFields DEF CancelRouteFails
<1>2. /\ handler' \in [Conns -> HandlerType]
      /\ handler'[c] = [at |-> "restore", cmd |-> handler[c].cmd, token |-> Nil]
      /\ \A d \in Conns \ {c} : handler'[d] = handler[d]
    BY <1>1, GotoType DEF CancelRouteFails
<1>3. TypeOK'
    BY <1>2 DEF TypeOK, HandlerType, CancelRouteFails, accountVars, engineVars
<1>4. QueueTypes' /\ TodoShape'
    BY DEF QueueTypes, TodoShape, Pair, CancelRouteFails, engineVars
<1>5. LoopShape'
    BY <1>1, <1>2 DEF LoopShape, CancelRouteFails
<1> QED BY <1>3, <1>4, <1>5

\* Taking the mark of a cancel back.
LEMMA TypeRestoreActive ==
    ASSUME TypeInv, NEW c \in Conns, RestoreActive(c)
    PROVE  TypeInv'
<1> USE DEF TypeInv
<1>1. handler[c].cmd.order_id \in Ids
    BY HandlerFields, CmdFields DEF RestoreActive, LoopShape
<1>2. /\ handler' \in [Conns -> HandlerType] /\ handler'[c].at = "idle"
      /\ \A d \in Conns \ {c} : handler'[d] = handler[d]
    BY IdleType DEF RestoreActive
<1>3. pending_orders' \in [Ids -> OrderMetadata \cup {Nil}]
  <2>1. PICK id \in Ids : id = handler[c].cmd.order_id
      BY <1>1
  <2>2. pending_orders \in [Ids -> OrderMetadata \cup {Nil}]
      BY DEF TypeOK
  <2>3. pending_orders' = IF pending_orders[id] = Nil THEN pending_orders
                          ELSE [pending_orders EXCEPT ![id].operation = "Active"]
      BY <2>1 DEF RestoreActive
  <2>4. pending_orders[id] # Nil =>
            [pending_orders[id] EXCEPT !.operation = "Active"] \in OrderMetadata
      BY <2>2 DEF OrderMetadata
  <2> QED BY <2>2, <2>3, <2>4
<1>4. TypeOK'
    BY <1>2, <1>3 DEF TypeOK, HandlerType, RestoreActive, accountVars, engineVars
<1>5. QueueTypes' /\ TodoShape'
    BY DEF QueueTypes, TodoShape, Pair, RestoreActive, engineVars
<1>6. LoopShape'
    BY <1>2 DEF LoopShape, RestoreActive
<1> QED BY <1>4, <1>5, <1>6

TodoStep == ApplyStep \cup RemoveStep \cup ReleaseStep

\* The steps of a fill for one of its orders: none, or the pair with the order's metadata.
LEMMA FillStepsShape ==
    ASSUME TypeInv, NEW f \in FillEvent, NEW i \in Ids
    PROVE  /\ FillSteps(f, i) \in Seq(TodoStep)
           /\ \/ FillSteps(f, i) = <<>> /\ pending_orders[i] = Nil
              \/ /\ pending_orders[i] # Nil
                 /\ Len(FillSteps(f, i)) = 2
                 /\ FillSteps(f, i)[1] = [do |-> "apply", id |-> i, meta |-> pending_orders[i],
                                          fill |-> f]
                 /\ FillSteps(f, i)[2] = [do |-> "remove", id |-> i]
<1>1. CASE pending_orders[i] = Nil
    BY <1>1 DEF FillSteps
<1>2. CASE pending_orders[i] # Nil
  <2>1. pending_orders[i] \in OrderMetadata
      BY <1>2 DEF TypeInv, TypeOK
  <2>2. /\ [do |-> "apply", id |-> i, meta |-> pending_orders[i], fill |-> f] \in TodoStep
        /\ [do |-> "remove", id |-> i] \in TodoStep
      BY <2>1 DEF TodoStep, ApplyStep, RemoveStep
  <2> QED BY <1>2, <2>2 DEF FillSteps
<1> QED BY <1>1, <1>2

\* The event at the head of the answers, and what is left of them.
LEMMA ReceivesType ==
    ASSUME TypeInv, NEW type \in {"Fill", "Ack", "Reject"}, Receives(type),
           toGateway' = Tail(toGateway)
    PROVE  /\ type = "Fill" => Head(toGateway) \in FillEvent
           /\ type # "Fill" => Head(toGateway).order_id \in Ids
           /\ toGateway' \in Seq(FillEvent \cup Answer)
           /\ Head(toGateway) \in Range(toGateway)
           /\ Range(toGateway') \subseteq Range(toGateway)
           /\ Len(todo) = 0
<1> DEFINE X == FillEvent \cup Answer
<1>1. toGateway \in Seq(X) /\ toGateway # <<>> /\ todo = <<>> /\ Head(toGateway).type = type
    BY DEF Receives, TypeInv, QueueTypes
<1> HIDE DEF X
<1>2. /\ Head(toGateway) \in X /\ Tail(toGateway) \in Seq(X) /\ Head(toGateway) \in Range(toGateway)
      /\ Range(Tail(toGateway)) \subseteq Range(toGateway)
    BY <1>1, RangeTail
<1>3. Head(toGateway) \in FillEvent \cup Answer
    BY <1>2 DEF X
<1>4. /\ type = "Fill" => Head(toGateway) \in FillEvent
      /\ type # "Fill" => Head(toGateway).order_id \in Ids
    BY <1>1, <1>3 DEF FillEvent, Answer
<1>5. Len(todo) = 0
    BY <1>1
<1> QED BY <1>2, <1>4, <1>5 DEF X

\* The steps of the whole fill.
LEMMA FillTodo ==
    ASSUME TypeInv, OnFill
    PROVE  LET f == Head(toGateway)
               m == [do |-> "apply", id |-> f.maker, meta |-> pending_orders[f.maker], fill |-> f]
               t == [do |-> "apply", id |-> f.taker, meta |-> pending_orders[f.taker], fill |-> f]
           IN  /\ f \in FillEvent
               /\ todo' \in Seq(TodoStep)
               /\ \/ Len(todo') = 0
                  \/ /\ Len(todo') = 2 /\ pending_orders[f.maker] # Nil
                     /\ todo'[1] = m /\ todo'[2] = [do |-> "remove", id |-> f.maker]
                  \/ /\ Len(todo') = 2 /\ pending_orders[f.taker] # Nil
                     /\ todo'[1] = t /\ todo'[2] = [do |-> "remove", id |-> f.taker]
                  \/ /\ Len(todo') = 4
                     /\ pending_orders[f.maker] # Nil /\ pending_orders[f.taker] # Nil
                     /\ todo'[1] = m /\ todo'[2] = [do |-> "remove", id |-> f.maker]
                     /\ todo'[3] = t /\ todo'[4] = [do |-> "remove", id |-> f.taker]
<1> DEFINE f == Head(toGateway)
           s == FillSteps(f, f.maker)
           u == FillSteps(f, f.taker)
<1>1. f \in FillEvent
    BY ReceivesType DEF OnFill
<1>2. f.maker \in Ids /\ f.taker \in Ids
    BY <1>1 DEF FillEvent
<1>3. todo' = s \o u
    BY DEF OnFill
<1>4. /\ s \in Seq(TodoStep)
      /\ \/ s = <<>> /\ pending_orders[f.maker] = Nil
         \/ /\ pending_orders[f.maker] # Nil /\ Len(s) = 2
            /\ s[1] = [do |-> "apply", id |-> f.maker, meta |-> pending_orders[f.maker], fill |-> f]
            /\ s[2] = [do |-> "remove", id |-> f.maker]
    BY <1>1, <1>2, FillStepsShape
<1>5. /\ u \in Seq(TodoStep)
      /\ \/ u = <<>> /\ pending_orders[f.taker] = Nil
         \/ /\ pending_orders[f.taker] # Nil /\ Len(u) = 2
            /\ u[1] = [do |-> "apply", id |-> f.taker, meta |-> pending_orders[f.taker], fill |-> f]
            /\ u[2] = [do |-> "remove", id |-> f.taker]
    BY <1>1, <1>2, FillStepsShape
<1> HIDE DEF s, u
<1>6. /\ todo' \in Seq(TodoStep) /\ Len(todo') = Len(s) + Len(u)
      /\ \A k \in 1 .. Len(s) : todo'[k] = s[k]
      /\ \A k \in 1 .. Len(u) : todo'[Len(s) + k] = u[k]
    BY <1>3, <1>4, <1>5
<1>7. CASE s = <<>> /\ u = <<>>
    BY <1>1, <1>6, <1>7
<1>8. CASE s = <<>> /\ u # <<>>
    BY <1>1, <1>5, <1>6, <1>8
<1>9. CASE s # <<>> /\ u = <<>>
    BY <1>1, <1>4, <1>6, <1>9
<1>10. CASE s # <<>> /\ u # <<>>
  <2>1. Len(s) = 2 /\ Len(u) = 2
      BY <1>4, <1>5, <1>10
  <2>2. todo'[1] = s[1] /\ todo'[2] = s[2] /\ todo'[2 + 1] = u[1] /\ todo'[2 + 2] = u[2]
      BY <1>6, <2>1
  <2>3. Len(todo') = 4 /\ todo'[3] = u[1] /\ todo'[4] = u[2]
      BY <1>6, <2>1, <2>2
  <2> QED BY <1>1, <1>4, <1>5, <1>6, <1>10, <2>2, <2>3
<1> QED BY <1>7, <1>8, <1>9, <1>10

\* Starting to handle a fill.
LEMMA TypeOnFill ==
    ASSUME TypeInv, OnFill
    PROVE  TypeInv'
<1> USE DEF TypeInv
<1>1. toGateway' \in Seq(FillEvent \cup Answer)
    BY ReceivesType DEF OnFill
<1>0. \/ Len(todo') = 0
      \/ Len(todo') = 2 /\ Pair(1)'
      \/ Len(todo') = 4 /\ Pair(1)' /\ Pair(3)'
    BY FillTodo DEF Pair
<1>2. TodoShape'
    BY <1>0 DEF TodoShape, Pair
<1>3. todo' \in Seq(ApplyStep \cup RemoveStep \cup ReleaseStep)
    BY FillTodo DEF TodoStep
<1>7. Len(todo') \in {0, 2, 4}
    BY FillTodo
<1>4. TypeOK'
    BY <1>7 DEF TypeOK, OnFill, accountVars, loopVars, engineVars
<1>5. QueueTypes'
    BY <1>1, <1>3 DEF QueueTypes, OnFill, engineVars
<1>6. LoopShape'
    BY DEF LoopShape, OnFill, loopVars
<1> QED BY <1>2, <1>4, <1>5, <1>6

\* Handling an ack.
LEMMA TypeOnAck ==
    ASSUME TypeInv, OnAck
    PROVE  TypeInv'
<1> USE DEF TypeInv
<1> DEFINE id == Head(toGateway).order_id
<1>1. id \in Ids /\ toGateway' \in Seq(FillEvent \cup Answer)
    BY ReceivesType DEF OnAck
<1> HIDE DEF id
<1>2. IsCancelAck(id) => pending_orders[id].token \in ReservationToken
    BY <1>1 DEF IsCancelAck, TypeOK, OrderMetadata
<1>3. tentative_reserved' \in [Accounts -> Int]
  <2>1. CASE IsCancelAck(id)
    <3> DEFINE token == pending_orders[id].token
    <3>1. token.account_id \in Accounts /\ -token.amount \in Int
        BY <1>2, <2>1, TokenFields
    <3>2. Reserve(token.account_id, -token.amount)
        BY <2>1 DEF OnAck, id, ReleaseReservation
    <3> HIDE DEF token
    <3> QED BY <3>1, <3>2, ReserveType
  <2>2. CASE ~IsCancelAck(id)
      BY <2>2 DEF OnAck, id, TypeOK
  <2> QED BY <2>1, <2>2
<1>4. pending_orders' \in [Ids -> OrderMetadata \cup {Nil}]
    BY <1>1 DEF OnAck, id, TypeOK
<1>5. TypeOK'
    BY <1>3, <1>4 DEF TypeOK, OnAck, loopVars, engineVars
<1>6. QueueTypes' /\ TodoShape'
    BY <1>1 DEF QueueTypes, TodoShape, Pair, OnAck, engineVars
<1>7. LoopShape'
    BY DEF LoopShape, OnAck, loopVars
<1> QED BY <1>5, <1>6, <1>7

\* Handling a reject.
LEMMA TypeOnReject ==
    ASSUME TypeInv, OnReject
    PROVE  TypeInv'
<1> USE DEF TypeInv
<1> DEFINE id == Head(toGateway).order_id
           step == [do |-> "release", token |-> pending_orders[id].token]
<1>1. id \in Ids /\ toGateway' \in Seq(FillEvent \cup Answer)
    BY ReceivesType DEF OnReject
<1>2. /\ todo' = (IF pending_orders[id] = Nil THEN <<>> ELSE <<step>>)
      /\ pending_orders' = [pending_orders EXCEPT ![id] = Nil]
    BY DEF OnReject, RemoveRejected
<1> HIDE DEF id
<1>3. pending_orders[id] # Nil => step \in ReleaseStep
    BY <1>1 DEF TypeOK, OrderMetadata, ReleaseStep
<1>4. step.do = "release"
    OBVIOUS
<1> HIDE DEF step
<1>5. todo' \in Seq(ApplyStep \cup RemoveStep \cup ReleaseStep)
  <2>1. CASE pending_orders[id] = Nil
      BY <1>2, <2>1
  <2>2. CASE pending_orders[id] # Nil
      BY <1>2, <1>3, <2>2
  <2> QED BY <2>1, <2>2
<1>6. TodoShape' /\ Len(todo') <= 4
    BY <1>2, <1>4 DEF TodoShape
<1>7. TypeOK'
    BY <1>1, <1>2, <1>6 DEF TypeOK, OnReject, accountVars, loopVars, engineVars
<1>8. QueueTypes'
    BY <1>1, <1>5 DEF QueueTypes, OnReject, engineVars
<1>9. LoopShape'
    BY DEF LoopShape, OnReject, loopVars
<1> QED BY <1>6, <1>7, <1>8, <1>9

\* The first of the steps that are left, and what is left after it.
LEMMA RespondTodo ==
    ASSUME TypeInv, todo # <<>>, todo' = Tail(todo)
    PROVE  /\ Head(todo) = todo[1] /\ Head(todo) \in TodoStep /\ Head(todo) \in Range(todo)
           /\ todo' \in Seq(TodoStep) /\ Range(todo') \subseteq Range(todo)
           /\ Len(todo') = Len(todo) - 1
           /\ \A k \in 1 .. Len(todo') : todo'[k] = todo[k + 1]
           /\ Len(todo) \in 1 .. 4
<1>1. todo \in Seq(TodoStep)
    BY DEF TypeInv, QueueTypes, TodoStep
<1>2. Len(todo) \in Nat /\ Len(todo) <= 4 /\ Len(todo) # 0
    BY <1>1 DEF TypeInv, TypeOK
<1>3. Head(todo) \in TodoStep /\ Head(todo) \in Range(todo) /\ Tail(todo) \in Seq(TodoStep)
      /\ Range(Tail(todo)) \subseteq Range(todo) /\ Head(todo) = todo[1]
    BY <1>1, RangeTail
<1>4. Len(Tail(todo)) = Len(todo) - 1 /\ \A k \in 1 .. Len(Tail(todo)) : Tail(todo)[k] = todo[k + 1]
    BY <1>1, HeadTailProperties
<1> QED BY <1>2, <1>3, <1>4

\* The fields of the steps.
LEMMA StepFields ==
    ASSUME NEW x \in TodoStep
    PROVE  /\ x.do = "apply" => x \in ApplyStep
           /\ x.do = "remove" => x \in RemoveStep
           /\ x.do = "release" => x \in ReleaseStep
           /\ x.do \in {"apply", "remove", "release"}
BY DEF TodoStep, ApplyStep, RemoveStep, ReleaseStep

\* The next step of an event.
LEMMA TypeRespond ==
    ASSUME TypeInv, Respond
    PROVE  TypeInv'
<1> USE DEF TypeInv
<1> DEFINE step == Head(todo)
<1>1. todo # <<>> /\ todo' = Tail(todo)
    BY DEF Respond
<1>2. /\ step = todo[1] /\ step \in TodoStep /\ todo' \in Seq(TodoStep) /\ Len(todo') = Len(todo) - 1
      /\ \A k \in 1 .. Len(todo') : todo'[k] = todo[k + 1]
      /\ Len(todo) \in 1 .. 4
    BY <1>1, RespondTodo
<1>3. TodoShape'
  <2>1. CASE Len(todo) = 1
      BY <1>2, <2>1 DEF TodoShape
  <2>2. CASE Len(todo) = 2
    <3>1. Len(todo') = 1 /\ todo'[1] = todo[2]
        BY <1>2, <2>2
    <3> QED BY <2>2, <3>1 DEF TodoShape, Pair
  <2>3. CASE Len(todo) = 3
    <3>1. Len(todo') = 2 /\ todo'[1] = todo[2] /\ todo'[2] = todo[3]
        BY <1>2, <2>3
    <3> QED BY <2>3, <3>1 DEF TodoShape, Pair
  <2>4. CASE Len(todo) = 4
    <3>1. Len(todo') = 3 /\ todo'[1] = todo[2] /\ todo'[2] = todo[3] /\ todo'[3] = todo[4]
        BY <1>2, <2>4
    <3> QED BY <2>4, <3>1 DEF TodoShape, Pair
  <2> QED BY <1>2, <2>1, <2>2, <2>3, <2>4
<1>4. QueueTypes'
    BY <1>2 DEF QueueTypes, TodoStep, Respond, engineVars
<1>5. LoopShape'
    BY DEF LoopShape, Respond, loopVars
<1>6. /\ buying_power' \in [Accounts -> Int] /\ tentative_reserved' \in [Accounts -> Int]
      /\ positions' \in [Accounts -> Int] /\ pending_orders' \in [Ids -> OrderMetadata \cup {Nil}]
  <2>1. CASE step.do = "apply" /\ ApplyFill(step.fill, step.meta) /\ UNCHANGED pending_orders
    <3>1. step.fill \in FillEvent /\ step.meta.token \in ReservationToken
        BY <1>2, <2>1, StepFields DEF ApplyStep, OrderMetadata
    <3>2. step.fill.price \in Nat /\ step.fill.qty \in Nat
      <4>1. step.fill.price \in Prices /\ step.fill.qty \in 1 .. MaxQty
          BY <3>1 DEF FillEvent
      <4>2. step.fill.price \in Nat
          BY <4>1, ConstantTypes
      <4>3. step.fill.qty \in Nat
          BY <4>1, ConstantTypes
      <4> QED BY <4>2, <4>3
    <3>3. /\ Signed(step.meta.side, step.fill.price * step.fill.qty) \in Int
          /\ Signed(step.meta.side, step.fill.qty) \in Int
      <4> DEFINE n == step.fill.qty
                 m == step.fill.price * step.fill.qty
      <4>1. n \in Int /\ m \in Int
          BY <3>2
      <4> HIDE DEF n, m
      <4>2. Signed(step.meta.side, n) \in Int /\ Signed(step.meta.side, m) \in Int
          BY <4>1 DEF Signed
      <4> QED BY <4>2 DEF n, m
    <3>4. step.meta.token.account_id \in Accounts /\ -step.meta.token.amount \in Int
        BY <3>1, TokenFields
    <3>5. tentative_reserved' \in [Accounts -> Int]
        BY <2>1, <3>4, ReserveType DEF ApplyFill, ReleaseReservation
    <3>6. buying_power' \in [Accounts -> Int] /\ positions' \in [Accounts -> Int]
      <4>1. PICK a \in Accounts, m \in Int, n \in Int :
                /\ a = step.meta.token.account_id /\ n = Signed(step.meta.side, step.fill.qty)
                /\ m = Signed(step.meta.side, step.fill.price * step.fill.qty)
          BY <3>3, <3>4
      <4>2. /\ buying_power' = [buying_power EXCEPT ![a] = @ - m]
            /\ positions' = [positions EXCEPT ![a] = @ + n]
          BY <2>1, <4>1 DEF ApplyFill
      <4> QED BY <4>2 DEF TypeOK
    <3> QED BY <2>1, <3>5, <3>6 DEF TypeOK
  <2>2. CASE /\ step.do = "remove"
             /\ pending_orders' = [pending_orders EXCEPT ![step.id] = Nil] /\ UNCHANGED accountVars
      BY <2>2 DEF TypeOK, accountVars
  <2>3. CASE /\ step.do = "release" /\ ReleaseReservation(step.token)
             /\ UNCHANGED <<buying_power, positions, pending_orders>>
    <3>1. step.token \in ReservationToken
        BY <1>2, <2>3, StepFields DEF ReleaseStep
    <3>2. step.token.account_id \in Accounts /\ -step.token.amount \in Int
        BY <3>1, TokenFields
    <3>3. tentative_reserved' \in [Accounts -> Int]
        BY <2>3, <3>2, ReserveType DEF ReleaseReservation
    <3> QED BY <2>3, <3>3 DEF TypeOK
  <2> QED BY <2>1, <2>2, <2>3 DEF Respond
<1>7. Len(todo') <= 4
    BY <1>2
<1>8. TypeOK'
    BY <1>6, <1>7 DEF TypeOK, Respond, loopVars, engineVars
<1> QED BY <1>3, <1>4, <1>5, <1>8

\* The engine server reads a message.
LEMMA TypeEngineReceives ==
    ASSUME TypeInv, EngineReceives
    PROVE  TypeInv'
<1> USE DEF TypeInv
<1>1. toEngine \in Seq(Cmd) /\ toEngine # <<>> /\ ingress \in Seq(Cmd)
    BY DEF QueueTypes, EngineReceives
<1>2. toEngine' \in Seq(Cmd) /\ Head(toEngine) \in Cmd
    BY <1>1, RangeTail DEF EngineReceives
<1>3. ingress' \in Seq(Cmd) /\ Len(ingress') <= IngressCap
  <2>1. CASE Len(ingress) < IngressCap
    <3>1. ingress' = Append(ingress, Head(toEngine))
        BY <2>1 DEF EngineReceives
    <3>2. Len(ingress') = Len(ingress) + 1 /\ ingress' \in Seq(Cmd) /\ Len(ingress) \in Nat
        BY <1>1, <1>2, <3>1
    <3> QED BY <2>1, <3>2, ConstantTypes
  <2>2. CASE ~(Len(ingress) < IngressCap)
      BY <1>1, <2>2 DEF EngineReceives, TypeOK
  <2> QED BY <2>1, <2>2
<1>4. \A k \in 1 .. Len(ingress') : ingress'[k] \in Cmd
    BY <1>3
<1>5. TypeOK'
    BY <1>3, <1>4 DEF TypeOK, EngineReceives, accountVars, loopVars
<1>6. QueueTypes' /\ TodoShape'
    BY <1>2, <1>3 DEF QueueTypes, TodoShape, Pair, EngineReceives
<1>7. LoopShape'
    BY DEF LoopShape, EngineReceives, loopVars
<1> QED BY <1>5, <1>6, <1>7

-----------------------------------------------------------------------------
(* The steps of the engine *)

IncomingType == [order_id : Ids, account_id : Accounts, side : {"Buy", "Sell"},
                 price : Prices, qty : 0 .. MaxQty, gtc : BOOLEAN]

\* Every order in the book after a step was there before it, with no less to trade.
BookShrinks ==
    \A s \in Sides, p \in Prices : \A o \in Range(queues'[s][p]) :
        \E q \in Range(queues[s][p]) : q.order_id = o.order_id /\ o.qty <= q.qty

\* The fields of the order being matched.
LEMMA IncomingFields ==
    ASSUME TypeInv, incoming # Nil
    PROVE  /\ incoming \in IncomingType
           /\ incoming.order_id \in Ids /\ incoming.account_id \in Accounts
           /\ incoming.side \in Sides /\ Engine!Other(incoming.side) \in Sides
           /\ incoming.price \in Prices /\ incoming.price \in Nat
           /\ incoming.qty \in 0 .. MaxQty /\ incoming.qty \in Nat
<1>1. incoming \in IncomingType
    BY DEF TypeInv, TypeOK, IncomingType
<1>2. /\ incoming.order_id \in Ids /\ incoming.account_id \in Accounts
      /\ incoming.side \in Sides /\ Engine!Other(incoming.side) \in Sides
      /\ incoming.price \in Prices /\ incoming.qty \in 0 .. MaxQty
    BY <1>1 DEF IncomingType, Sides, Engine!Other
<1>3. incoming.price \in Nat
    BY <1>2, ConstantTypes
<1>4. incoming.qty \in Nat
    BY <1>2, ConstantTypes
<1> QED BY <1>1, <1>2, <1>3, <1>4

\* A queue of the book and the orders in it.
LEMMA QueueFields ==
    ASSUME TypeInv, NEW s \in Sides, NEW p \in Prices
    PROVE  /\ queues[s][p] \in Seq(BookOrder)
           /\ \A o \in Range(queues[s][p]) :
                 /\ o.order_id \in Ids /\ o.account_id \in Accounts
                 /\ o.qty \in 1 .. MaxQty /\ o.qty \in Nat
<1>1. queues[s][p] \in Seq(BookOrder)
    BY DEF TypeInv, QueueTypes
<1>2. ASSUME NEW o \in Range(queues[s][p])
      PROVE  /\ o.order_id \in Ids /\ o.account_id \in Accounts
             /\ o.qty \in 1 .. MaxQty /\ o.qty \in Nat
  <2>1. o \in BookOrder
      BY <1>1, RangeType
  <2>2. o.order_id \in Ids /\ o.account_id \in Accounts /\ o.qty \in 1 .. MaxQty
      BY <2>1 DEF BookOrder
  <2>3. o.qty \in Nat
      BY <2>2, ConstantTypes
  <2> QED BY <2>2, <2>3
<1> QED BY <1>1, <1>2

\* A change to one queue of the book that shrinks it.
LEMMA QueueUpdate ==
    ASSUME TypeInv, NEW s \in Sides, NEW p \in Prices, NEW new \in Seq(BookOrder),
           queues' = [queues EXCEPT ![s][p] = new],
           \A o \in Range(new) :
               \E q \in Range(queues[s][p]) : q.order_id = o.order_id /\ o.qty <= q.qty
    PROVE  queues' \in [Sides -> [Prices -> Seq(BookOrder)]] /\ BookShrinks
<1>1. queues \in [Sides -> [Prices -> Seq(BookOrder)]]
    BY DEF TypeInv, QueueTypes
<1>2. queues' \in [Sides -> [Prices -> Seq(BookOrder)]]
    BY <1>1
<1>3. ASSUME NEW t \in Sides, NEW r \in Prices, NEW o \in Range(queues'[t][r])
      PROVE  \E q \in Range(queues[t][r]) : q.order_id = o.order_id /\ o.qty <= q.qty
  <2>1. CASE t = s /\ r = p
    <3>1. queues'[t][r] = new
        BY <1>1, <2>1
    <3> QED BY <2>1, <3>1
  <2>2. CASE ~(t = s /\ r = p)
    <3>1. queues'[t][r] = queues[t][r]
        BY <1>1, <2>2
    <3>2. o \in Range(queues[t][r])
        BY <3>1
    <3>3. o.qty \in Nat
        BY <3>2, QueueFields
    <3> QED BY <3>2, <3>3
  <2> QED BY <2>1, <2>2
<1> QED BY <1>2, <1>3 DEF BookShrinks

\* What a trade does: one price, the best the incoming order accepts, and a quantity both
\* orders have.
LEMMA TradeShape ==
    ASSUME TypeInv, EngineTrades
    PROVE  \E p \in Prices, qty \in 1 .. MaxQty :
             LET s == Engine!Other(incoming.side)
                 maker == Head(queues[s][p])
             IN  /\ incoming # Nil /\ qty <= incoming.qty
                 /\ maker \in Range(queues[s][p]) /\ qty <= maker.qty
                 /\ IF incoming.side = "Buy" THEN p <= incoming.price ELSE incoming.price <= p
                 /\ incoming' = [incoming EXCEPT !.qty = @ - qty]
                 /\ queues' \in [Sides -> [Prices -> Seq(BookOrder)]]
                 /\ BookShrinks
                 /\ toGateway' = Append(toGateway,
                        [type |-> "Fill", maker |-> maker.order_id, taker |-> incoming.order_id,
                         price |-> p, qty |-> qty])
                 /\ ingress' = ingress
<1>1. incoming # Nil /\ incoming.qty > 0 /\ ingress' = ingress
    BY DEF EngineTrades, Engine!TradeWithFirst
<1>2. /\ incoming.side \in Sides /\ Engine!Other(incoming.side) \in Sides
      /\ incoming.price \in Nat /\ incoming.qty \in Nat /\ incoming.qty \in 0 .. MaxQty
    BY <1>1, IncomingFields
<1> DEFINE s == Engine!Other(incoming.side)
<1>3. PICK p \in Engine!Acceptable :
        LET first == Head(queues[s][p])
            qty == IF incoming.qty < first.qty THEN incoming.qty ELSE first.qty
        IN  /\ Engine!Best(p)
            /\ incoming' = [incoming EXCEPT !.qty = @ - qty]
            /\ queues' = [queues EXCEPT ![s][p] =
                  IF qty = first.qty THEN Tail(@)
                  ELSE <<[first EXCEPT !.qty = @ - qty]>> \o Tail(@)]
    BY DEF EngineTrades, Engine!TradeWithFirst
<1>4. PICK r \in Engine!Acceptable :
        LET maker == Head(queues[s][r])
        IN  /\ Engine!Best(r)
            /\ Emit([type |-> "Fill", maker |-> maker.order_id, taker |-> incoming.order_id,
                     price |-> r, qty |-> incoming.qty - incoming'.qty])
    BY DEF EngineTrades
<1>5. p \in Prices /\ r \in Prices /\ p \in Nat /\ r \in Nat
  <2>1. p \in Prices /\ r \in Prices
      BY DEF Engine!Acceptable
  <2> QED BY <2>1, ConstantTypes
<1>6. p = r
  <2>1. IF incoming.side = "Buy" THEN p <= r ELSE p >= r
      BY <1>3 DEF Engine!Best
  <2>2. IF incoming.side = "Buy" THEN r <= p ELSE r >= p
      BY <1>4 DEF Engine!Best
  <2> QED BY <1>5, <2>1, <2>2
<1> DEFINE q == queues[s][p]
           first == Head(q)
           qty == IF incoming.qty < first.qty THEN incoming.qty ELSE first.qty
<1>7. q # <<>> /\ IF incoming.side = "Buy" THEN incoming.price >= p ELSE incoming.price <= p
    BY DEF Engine!Acceptable
<1>8. s \in Sides
    BY <1>2
<1> HIDE DEF s
<1>9. /\ q \in Seq(BookOrder)
      /\ \A o \in Range(q) : o.qty \in 1 .. MaxQty /\ o.qty \in Nat
    BY <1>5, <1>8, QueueFields
<1>10. /\ first \in BookOrder /\ first \in Range(q) /\ Tail(q) \in Seq(BookOrder)
       /\ Range(Tail(q)) \subseteq Range(q)
  <2> HIDE DEF q
  <2> QED BY <1>7, <1>9, RangeTail
<1>11. first.qty \in 1 .. MaxQty /\ first.qty \in Nat
    BY <1>9, <1>10
<1>12. qty \in 1 .. MaxQty /\ qty \in Nat /\ qty <= incoming.qty /\ qty <= first.qty
  <2> HIDE DEF first
  <2> QED BY <1>1, <1>2, <1>11, ConstantTypes
<1>13. incoming' = [incoming EXCEPT !.qty = @ - qty]
    BY <1>3
<1> DEFINE new == IF qty = first.qty THEN Tail(q)
                  ELSE <<[first EXCEPT !.qty = @ - qty]>> \o Tail(q)
<1>14. queues' = [queues EXCEPT ![s][p] = new]
    BY <1>3
<1> HIDE DEF qty
<1>15. /\ new \in Seq(BookOrder)
       /\ \A o \in Range(new) : \E x \in Range(q) : x.order_id = o.order_id /\ o.qty <= x.qty
  <2> HIDE DEF q, first
  <2>1. \A o \in Range(q) : \E x \in Range(q) : x.order_id = o.order_id /\ o.qty <= x.qty
      BY <1>9
  <2>2. CASE qty = first.qty
      BY <1>10, <2>1, <2>2
  <2>3. CASE qty # first.qty
    <3> DEFINE rest == [first EXCEPT !.qty = @ - qty]
    <3>1. first.qty - qty \in 1 .. MaxQty /\ first.qty - qty <= first.qty
        BY <1>11, <1>12, <2>3, ConstantTypes
    <3>2. rest \in BookOrder /\ rest.order_id = first.order_id /\ rest.qty = first.qty - qty
        BY <1>10, <3>1 DEF BookOrder
    <3> HIDE DEF rest
    <3>3. new = <<rest>> \o Tail(q)
        BY <2>3 DEF rest
    <3>4. new \in Seq(BookOrder) /\ Range(new) \subseteq Range(Tail(q)) \cup {rest}
        BY <1>10, <3>2, <3>3, RangeCons
    <3>5. \E x \in Range(q) : x.order_id = rest.order_id /\ rest.qty <= x.qty
        BY <1>10, <3>1, <3>2
    <3> QED BY <1>10, <2>1, <3>4, <3>5
  <2> QED BY <2>2, <2>3
<1> HIDE DEF new
<1>16. queues' \in [Sides -> [Prices -> Seq(BookOrder)]] /\ BookShrinks
    BY <1>5, <1>8, <1>14, <1>15, QueueUpdate DEF q
<1>17. incoming.qty - incoming'.qty = qty
  <2>1. incoming' = [incoming EXCEPT !.qty = incoming.qty - qty]
      BY <1>13
  <2>2. incoming \in IncomingType
      BY <1>1, IncomingFields
  <2>3. incoming'.qty = incoming.qty - qty
      BY <2>1, <2>2 DEF IncomingType
  <2> QED BY <1>2, <1>12, <2>3
<1>18. toGateway' = Append(toGateway,
          [type |-> "Fill", maker |-> first.order_id, taker |-> incoming.order_id,
           price |-> p, qty |-> qty])
    BY <1>4, <1>6, <1>17 DEF Emit
<1>19. IF incoming.side = "Buy" THEN p <= incoming.price ELSE incoming.price <= p
    BY <1>2, <1>5, <1>7
<1> HIDE DEF first
<1>20. /\ incoming # Nil /\ qty <= incoming.qty
       /\ first \in Range(queues[s][p]) /\ qty <= first.qty
       /\ p \in Prices /\ qty \in 1 .. MaxQty
    BY <1>1, <1>5, <1>10, <1>12
<1> QED
    BY <1>1, <1>13, <1>16, <1>18, <1>19, <1>20 DEF s, first

\* The types of what the engine changes are enough.
LEMMA EngineFrame ==
    ASSUME TypeInv, UNCHANGED <<accountVars, pending_orders, loopVars, todo, toEngine>>,
           queues' \in [Sides -> [Prices -> Seq(BookOrder)]],
           incoming' \in IncomingType \cup {Nil},
           toGateway' \in Seq(FillEvent \cup Answer),
           ingress' \in Seq(Cmd), Len(ingress') <= IngressCap
    PROVE  TypeInv'
<1> USE DEF TypeInv
<1>1. \A k \in 1 .. Len(ingress') : ingress'[k] \in Cmd
    OBVIOUS
<1>2. TypeOK'
    BY <1>1 DEF TypeOK, accountVars, loopVars, IncomingType
<1>3. QueueTypes' /\ TodoShape'
    BY DEF QueueTypes, TodoShape, Pair
<1>4. LoopShape'
    BY DEF LoopShape, loopVars
<1> QED BY <1>2, <1>3, <1>4

\* What an engine step takes from its queue.
LEMMA TakesType ==
    ASSUME TypeInv, NEW type, Takes(type), ingress' = Tail(ingress)
    PROVE  /\ Head(ingress) \in Cmd /\ Head(ingress).type = type /\ incoming = Nil
           /\ Head(ingress) \in Range(ingress) /\ Range(ingress') \subseteq Range(ingress)
           /\ ingress' \in Seq(Cmd) /\ Len(ingress') <= IngressCap
           /\ ingress # <<>>
<1>1. ingress \in Seq(Cmd) /\ ingress # <<>> /\ Len(ingress) <= IngressCap
    BY DEF TypeInv, TypeOK, QueueTypes, Takes
<1>2. /\ Head(ingress) \in Cmd /\ ingress' \in Seq(Cmd) /\ Head(ingress) \in Range(ingress)
      /\ Range(ingress') \subseteq Range(ingress)
    BY <1>1, RangeTail
<1>3. Len(ingress') = Len(ingress) - 1 /\ Len(ingress) \in Nat
    BY <1>1, HeadTailProperties
<1>4. Len(ingress') <= IngressCap
    BY <1>1, <1>3, ConstantTypes
<1> QED BY <1>1, <1>2, <1>4 DEF Takes

\* An answer keeps the type of the answers.
LEMMA EmitType ==
    ASSUME TypeInv, NEW x \in FillEvent \cup Answer, Emit(x)
    PROVE  /\ toGateway' \in Seq(FillEvent \cup Answer)
           /\ Range(toGateway') = Range(toGateway) \cup {x}
<1> DEFINE X == FillEvent \cup Answer
<1>1. toGateway \in Seq(X) /\ x \in X
    BY DEF TypeInv, QueueTypes
<1> HIDE DEF X
<1>2. toGateway' \in Seq(X) /\ Range(toGateway') = Range(toGateway) \cup {x}
    BY <1>1, RangeAppend DEF Emit
<1> QED BY <1>2 DEF X

\* Taking an order out of the book keeps the others.
LEMMA WithoutShape ==
    ASSUME TypeInv, NEW id \in Ids, NEW account \in Accounts, NEW x \in Resting(id, account),
           queues' = Engine!Without(x[1], x[2], x[3])
    PROVE  /\ queues' \in [Sides -> [Prices -> Seq(BookOrder)]] /\ BookShrinks
           /\ x[1] \in Sides
           /\ \E o \in Range(queues[x[1]][x[2]]) : o.order_id = id
<1>1. /\ x[1] \in Sides /\ x[2] \in Prices /\ x[3] \in 1 .. MaxCommands
      /\ x[3] <= Len(queues[x[1]][x[2]]) /\ queues[x[1]][x[2]][x[3]].order_id = id
    BY DEF Resting, Sides
<1> DEFINE q == queues[x[1]][x[2]]
<1>2. q \in Seq(BookOrder)
    BY <1>1, QueueFields
<1>3. x[3] \in 1 .. Len(q)
  <2>1. MaxCommands \in Nat
      BY ConstantTypes
  <2>2. Len(q) \in Nat
      BY <1>2
  <2> QED BY <1>1, <2>1, <2>2
<1>4. \A o \in Range(q) : o.qty \in Nat
    BY <1>1, QueueFields
<1>5. Engine!RemoveAt(q, x[3]) \in Seq(BookOrder) /\ Range(Engine!RemoveAt(q, x[3])) \subseteq Range(q)
  <2> HIDE DEF q
  <2> QED BY <1>2, <1>3, RangeRemoveAt
<1> DEFINE new == Engine!RemoveAt(q, x[3])
<1>6. queues' = [queues EXCEPT ![x[1]][x[2]] = new]
    BY DEF Engine!Without
<1>7. \A o \in Range(new) : \E y \in Range(q) : y.order_id = o.order_id /\ o.qty <= y.qty
    BY <1>4, <1>5
<1>8. queues' \in [Sides -> [Prices -> Seq(BookOrder)]] /\ BookShrinks
  <2> DEFINE s == x[1]
             p == x[2]
  <2>1. s \in Sides /\ p \in Prices /\ new \in Seq(BookOrder)
      BY <1>1, <1>5
  <2>2. queues' = [queues EXCEPT ![s][p] = new]
      BY <1>6
  <2>3. \A o \in Range(new) :
            \E y \in Range(queues[s][p]) : y.order_id = o.order_id /\ o.qty <= y.qty
      BY <1>7
  <2> HIDE DEF new, s, p
  <2> QED BY <2>1, <2>2, <2>3, QueueUpdate
<1>9. q[x[3]] \in Range(q)
    BY <1>2, <1>3, RangeType
<1> QED BY <1>1, <1>8, <1>9

\* An order that settles, rests with what it has left or leaves nothing.
LEMMA SettleShape ==
    ASSUME TypeInv, EngineSettles
    PROVE  /\ incoming # Nil /\ incoming' = Nil /\ ingress' = ingress
           /\ queues' \in [Sides -> [Prices -> Seq(BookOrder)]]
           /\ \A s \in Sides, p \in Prices : \A o \in Range(queues'[s][p]) :
                 \/ o \in Range(queues[s][p])
                 \/ /\ s = incoming.side /\ p = incoming.price
                    /\ o.order_id = incoming.order_id /\ o.qty = incoming.qty
           /\ Emit(Ack(incoming.order_id))
<1>1. incoming # Nil /\ incoming' = Nil /\ ingress' = ingress /\ Emit(Ack(incoming.order_id))
    BY DEF EngineSettles, Engine!Settle
<1>2. /\ incoming.side \in Sides /\ incoming.price \in Prices /\ incoming.qty \in 0 .. MaxQty
      /\ incoming.qty \in Nat /\ incoming.order_id \in Ids /\ incoming.account_id \in Accounts
    BY <1>1, IncomingFields
<1>3. queues \in [Sides -> [Prices -> Seq(BookOrder)]]
    BY DEF TypeInv, QueueTypes
<1>4. CASE queues' = queues
    BY <1>1, <1>3, <1>4
<1>5. CASE /\ incoming.qty > 0
           /\ queues' = [queues EXCEPT ![incoming.side][incoming.price] =
                          Append(@, [order_id |-> incoming.order_id,
                                     account_id |-> incoming.account_id,
                                     qty |-> incoming.qty])]
  <2> DEFINE o == [order_id |-> incoming.order_id, account_id |-> incoming.account_id,
                   qty |-> incoming.qty]
             q == queues[incoming.side][incoming.price]
  <2>1. incoming.qty \in 1 .. MaxQty
      BY <1>2, <1>5, ConstantTypes
  <2>2. o \in BookOrder /\ q \in Seq(BookOrder)
      BY <1>2, <1>3, <2>1 DEF BookOrder
  <2>3. o.order_id = incoming.order_id /\ o.qty = incoming.qty
      OBVIOUS
  <2>4. queues' = [queues EXCEPT ![incoming.side][incoming.price] = Append(q, o)]
      BY <1>5
  <2> HIDE DEF o, q
  <2>5. Append(q, o) \in Seq(BookOrder) /\ Range(Append(q, o)) = Range(q) \cup {o}
      BY <2>2, RangeAppend
  <2>6. queues' \in [Sides -> [Prices -> Seq(BookOrder)]]
      BY <1>2, <1>3, <2>4, <2>5
  <2>7. ASSUME NEW s \in Sides, NEW p \in Prices, NEW y \in Range(queues'[s][p])
        PROVE  \/ y \in Range(queues[s][p])
               \/ /\ s = incoming.side /\ p = incoming.price
                  /\ y.order_id = incoming.order_id /\ y.qty = incoming.qty
    <3>1. CASE s = incoming.side /\ p = incoming.price
      <4>1. queues'[s][p] = Append(q, o)
          BY <1>2, <1>3, <2>4, <3>1
      <4> QED BY <2>3, <2>5, <3>1, <4>1 DEF q
    <3>2. CASE ~(s = incoming.side /\ p = incoming.price)
      <4>1. queues'[s][p] = queues[s][p]
          BY <1>2, <1>3, <2>4, <3>2
      <4> QED BY <4>1
    <3> QED BY <3>1, <3>2
  <2> QED BY <1>1, <2>6, <2>7
<1> QED BY <1>4, <1>5 DEF EngineSettles, Engine!Settle

\* Every step of the engine keeps the types.
LEMMA TypeEngineStep ==
    ASSUME TypeInv, EngineStep
    PROVE  TypeInv'
<1>1. UNCHANGED <<accountVars, pending_orders, loopVars, todo, toEngine>>
    BY DEF EngineStep
<1>2. /\ queues \in [Sides -> [Prices -> Seq(BookOrder)]] /\ incoming \in IncomingType \cup {Nil}
      /\ toGateway \in Seq(FillEvent \cup Answer) /\ ingress \in Seq(Cmd)
      /\ Len(ingress) <= IngressCap
    BY DEF TypeInv, TypeOK, QueueTypes, IncomingType
<1>3. \A id \in Ids : Reject(id) \in Answer /\ Ack(id) \in Answer
    BY DEF Reject, Ack, Answer
<1>4. CASE EngineTrades
  <2>1. PICK p \in Prices, qty \in 1 .. MaxQty :
             LET s == Engine!Other(incoming.side)
                 maker == Head(queues[s][p])
             IN  /\ incoming # Nil /\ qty <= incoming.qty
                 /\ maker \in Range(queues[s][p]) /\ qty <= maker.qty
                 /\ incoming' = [incoming EXCEPT !.qty = @ - qty]
                 /\ queues' \in [Sides -> [Prices -> Seq(BookOrder)]]
                 /\ toGateway' = Append(toGateway,
                        [type |-> "Fill", maker |-> maker.order_id, taker |-> incoming.order_id,
                         price |-> p, qty |-> qty])
                 /\ ingress' = ingress
      BY <1>4, TradeShape
  <2> DEFINE maker == Head(queues[Engine!Other(incoming.side)][p])
  <2>2. /\ incoming \in IncomingType /\ incoming.order_id \in Ids /\ incoming.qty \in 0 .. MaxQty
        /\ incoming.qty \in Nat /\ Engine!Other(incoming.side) \in Sides
      BY <2>1, IncomingFields
  <2>3. maker.order_id \in Ids
      BY <2>1, <2>2, QueueFields
  <2> DEFINE f == [type |-> "Fill", maker |-> maker.order_id, taker |-> incoming.order_id,
                   price |-> p, qty |-> qty]
  <2>4. f \in FillEvent \cup Answer
      BY <2>2, <2>3 DEF FillEvent
  <2>5. toGateway' \in Seq(FillEvent \cup Answer)
      BY <2>1, <2>4, EmitType DEF Emit
  <2>6. incoming.qty - qty \in 0 .. MaxQty
      BY <2>1, <2>2, ConstantTypes
  <2>7. incoming' \in IncomingType
      BY <2>1, <2>2, <2>6 DEF IncomingType
  <2> QED BY <1>1, <1>2, <2>1, <2>5, <2>7, EngineFrame
<1>5. CASE EngineNewOrder
  <2>1. /\ Takes("NewOrder") /\ ingress' = Tail(ingress) /\ toGateway' = toGateway
        /\ incoming' = Head(ingress).order /\ queues' = queues
      BY <1>5 DEF EngineNewOrder, Engine!Arrive
  <2>2. Head(ingress).order \in OrderType /\ ingress' \in Seq(Cmd) /\ Len(ingress') <= IngressCap
      BY <2>1, TakesType, CmdFields
  <2>3. incoming' \in IncomingType
    <3>1. 1 .. MaxQty \subseteq 0 .. MaxQty
        BY ConstantTypes
    <3> QED BY <2>1, <2>2, <3>1 DEF OrderType, IncomingType
  <2> QED BY <1>1, <1>2, <2>1, <2>2, <2>3, EngineFrame
<1>6. CASE EngineRejects
  <2>1. /\ Takes("NewOrder") /\ ingress' = Tail(ingress)
        /\ Emit(Reject(Head(ingress).order.order_id)) /\ incoming' = incoming /\ queues' = queues
      BY <1>6 DEF EngineRejects
  <2>2. Head(ingress).order.order_id \in Ids /\ ingress' \in Seq(Cmd) /\ Len(ingress') <= IngressCap
      BY <2>1, TakesType, CmdFields, OrderFields
  <2>3. toGateway' \in Seq(FillEvent \cup Answer)
      BY <1>3, <2>1, <2>2, EmitType
  <2> QED BY <1>1, <1>2, <2>1, <2>2, <2>3, EngineFrame
<1>7. CASE EngineSettles
  <2>1. /\ incoming # Nil /\ incoming' = Nil /\ ingress' = ingress
        /\ queues' \in [Sides -> [Prices -> Seq(BookOrder)]] /\ Emit(Ack(incoming.order_id))
      BY <1>7, SettleShape
  <2>2. toGateway' \in Seq(FillEvent \cup Answer)
      BY <1>3, <2>1, IncomingFields, EmitType
  <2> QED BY <1>1, <1>2, <2>1, <2>2, EngineFrame
<1>8. CASE EngineCancel
  <2> DEFINE c == Head(ingress)
  <2>1. Takes("Cancel") /\ ingress' = Tail(ingress)
      BY <1>8 DEF EngineCancel
  <2>2. c.order_id \in Ids /\ c.account_id \in Accounts /\ ingress' \in Seq(Cmd)
        /\ Len(ingress') <= IngressCap
      BY <2>1, TakesType, CmdFields
  <2>3. CASE Emit(Reject(c.order_id)) /\ UNCHANGED <<queues, incoming>>
    <3>1. toGateway' \in Seq(FillEvent \cup Answer)
        BY <1>3, <2>2, <2>3, EmitType
    <3> QED BY <1>1, <1>2, <2>2, <2>3, <3>1, EngineFrame
  <2>4. CASE /\ \E x \in Resting(c.order_id, c.account_id) : Engine!Withdraw(x[1], x[2], x[3])
             /\ Emit(Ack(c.order_id))
    <3>1. toGateway' \in Seq(FillEvent \cup Answer)
        BY <1>3, <2>2, <2>4, EmitType
    <3>2. PICK x \in Resting(c.order_id, c.account_id) : Engine!Withdraw(x[1], x[2], x[3])
        BY <2>4
    <3>3. incoming' = incoming /\ queues' = Engine!Without(x[1], x[2], x[3])
        BY <3>2 DEF Engine!Withdraw
    <3>4. queues' \in [Sides -> [Prices -> Seq(BookOrder)]]
        BY <2>2, <3>3, WithoutShape
    <3> QED BY <1>1, <1>2, <2>2, <3>1, <3>3, <3>4, EngineFrame
  <2> QED BY <1>8, <2>3, <2>4 DEF EngineCancel
<1>9. CASE EngineReplace
  <2> DEFINE r == Head(ingress)
  <2>1. Takes("Replace") /\ ingress' = Tail(ingress)
      BY <1>9 DEF EngineReplace
  <2>2. r \in Replaces /\ ingress' \in Seq(Cmd) /\ Len(ingress') <= IngressCap
      BY <2>1, TakesType, CmdFields
  <2>3. /\ r.order_id \in Ids /\ r.account_id \in Accounts /\ r.price \in Prices
        /\ r.qty \in 1 .. MaxQty
      BY <2>2 DEF Replaces
  <2>4. r.qty \in 0 .. MaxQty
      BY <2>3, ConstantTypes
  <2>5. CASE Emit(Reject(r.order_id)) /\ UNCHANGED <<queues, incoming>>
    <3>1. toGateway' \in Seq(FillEvent \cup Answer)
        BY <1>3, <2>3, <2>5, EmitType
    <3> QED BY <1>1, <1>2, <2>2, <2>5, <3>1, EngineFrame
  <2>6. ASSUME NEW x \in Resting(r.order_id, r.account_id),
               queues' = Engine!Without(x[1], x[2], x[3]),
               \/ /\ incoming' = [order_id |-> r.order_id, account_id |-> r.account_id,
                                  side |-> x[1], price |-> r.price, qty |-> r.qty, gtc |-> TRUE]
                  /\ UNCHANGED toGateway
               \/ Emit(Reject(r.order_id)) /\ UNCHANGED incoming
        PROVE  TypeInv'
    <3>1. queues' \in [Sides -> [Prices -> Seq(BookOrder)]] /\ x[1] \in Sides
        BY <2>3, <2>6, WithoutShape
    <3>2. CASE Emit(Reject(r.order_id)) /\ UNCHANGED incoming
      <4>1. toGateway' \in Seq(FillEvent \cup Answer)
          BY <1>3, <2>3, <3>2, EmitType
      <4> QED BY <1>1, <1>2, <2>2, <3>1, <3>2, <4>1, EngineFrame
    <3>3. CASE /\ incoming' = [order_id |-> r.order_id, account_id |-> r.account_id,
                               side |-> x[1], price |-> r.price, qty |-> r.qty, gtc |-> TRUE]
               /\ UNCHANGED toGateway
      <4>1. incoming' \in IncomingType
          BY <2>3, <2>4, <3>1, <3>3 DEF IncomingType, Sides
      <4> QED BY <1>1, <1>2, <2>2, <3>1, <3>3, <4>1, EngineFrame
    <3> QED BY <2>6, <3>2, <3>3
  <2> QED BY <1>9, <2>5, <2>6 DEF EngineReplace
<1>10. CASE EngineSetsLimits
  <2>1. /\ Takes("SetRiskLimits") /\ ingress' = Tail(ingress) /\ Emit(Ack(Zero))
        /\ incoming' = incoming /\ queues' = queues
      BY <1>10 DEF EngineSetsLimits
  <2>2. ingress' \in Seq(Cmd) /\ Len(ingress') <= IngressCap
      BY <2>1, TakesType
  <2>3. toGateway' \in Seq(FillEvent \cup Answer)
      BY <1>3, <2>1, ConstantTypes, EmitType
  <2> QED BY <1>1, <1>2, <2>1, <2>2, <2>3, EngineFrame
<1> QED BY <1>4, <1>5, <1>6, <1>7, <1>8, <1>9, <1>10 DEF EngineStep

\* Nothing that can happen changes a type.
LEMMA TypeStep == TypeInv /\ [Next]_vars => TypeInv'
<1> SUFFICES ASSUME TypeInv, [Next]_vars PROVE TypeInv'
    OBVIOUS
<1>1. ASSUME NEW c \in Conns, Authenticate(c) \/ Disconnect(c) PROVE TypeInv'
    BY <1>1, TypeAuthenticate, TypeDisconnect
<1>2. ASSUME NEW c \in Conns, ReadCommand(c) PROVE TypeInv'
    BY <1>2, TypeReadNewOrder, TypeReadCancel, TypeReadReplace, TypeReadSetRiskLimits
       DEF ReadCommand
<1>3. ASSUME NEW c \in Conns, HandleCommand(c) PROVE TypeInv'
    BY <1>3, TypeAdjustReservation, TypeTrackOrder, TypeRoute, TypeRouteFails,
       TypeCancelRouteFails, TypeRestoreActive DEF HandleCommand
<1>4. CASE HandleResponse
    BY <1>4, TypeOnFill, TypeOnAck, TypeOnReject, TypeRespond DEF HandleResponse
<1>5. CASE UNCHANGED vars
  <2>1. TypeOK' /\ QueueTypes'
      BY <1>5 DEF TypeInv, TypeOK, QueueTypes, vars, accountVars, loopVars, engineVars
  <2>2. LoopShape' /\ TodoShape'
      BY <1>5 DEF TypeInv, LoopShape, TodoShape, Pair, vars, loopVars
  <2> QED BY <2>1, <2>2 DEF TypeInv
<1> QED BY <1>1, <1>2, <1>3, <1>4, <1>5, TypeEngineReceives, TypeEngineStep DEF Next

\* The types of the gateway, whatever commands clients send and whether or not routing
\* fails: the maps the tasks share, the points of the read loops, the engine's queues within
\* their capacity, and at most four steps left of an event.
THEOREM GatewayTypes == Spec => []TypeOK
<1>1. TypeInv => TypeOK
    BY DEF TypeInv
<1> QED BY <1>1, TypeInit, TypeStep, PTL DEF Spec

-----------------------------------------------------------------------------
(* Where the orders are *)

\* A new message that is no new order, or a new one of its kind.
LEMMA SentOnceAppend ==
    ASSUME NEW s \in Seq(Cmd), NEW x \in Cmd, SentOnce(s),
           x.type = "NewOrder" => ~Sent(s, x.order.order_id)
    PROVE  SentOnce(Append(s, x))
<1> DEFINE t == Append(s, x)
<1>1. /\ Len(t) = Len(s) + 1 /\ t[Len(s) + 1] = x /\ Len(s) \in Nat
      /\ \A k \in 1 .. Len(s) : t[k] = s[k]
    OBVIOUS
<1> HIDE DEF t
<1>2. \A k \in 1 .. Len(s) : s[k] \in Range(s)
    BY RangeType
<1>3. ASSUME NEW k \in 1 .. Len(t), NEW l \in 1 .. Len(t),
             t[k].type = "NewOrder", t[l].type = "NewOrder",
             t[k].order.order_id = t[l].order.order_id
      PROVE  k = l
  <2>1. CASE k \in 1 .. Len(s) /\ l \in 1 .. Len(s)
      BY <1>1, <1>3, <2>1 DEF SentOnce
  <2>2. CASE k = Len(s) + 1 /\ l \in 1 .. Len(s)
      BY <1>1, <1>2, <1>3, <2>2 DEF Sent
  <2>3. CASE k \in 1 .. Len(s) /\ l = Len(s) + 1
      BY <1>1, <1>2, <1>3, <2>3 DEF Sent
  <2>4. CASE k = Len(s) + 1 /\ l = Len(s) + 1
      BY <2>4
  <2> QED BY <1>1, <2>1, <2>2, <2>3, <2>4
<1>4. SentOnce(t)
    BY <1>3 DEF SentOnce
<1> QED BY <1>4 DEF t

\* What is left when the first message is taken does not have its order again.
LEMMA SentOnceTail ==
    ASSUME NEW s \in Seq(Cmd), s # <<>>, SentOnce(s)
    PROVE  /\ SentOnce(Tail(s))
           /\ Head(s).type = "NewOrder" =>
                 Sent(s, Head(s).order.order_id) /\ ~Sent(Tail(s), Head(s).order.order_id)
           /\ \A i \in Ids : Sent(Tail(s), i) => Sent(s, i)
<1>1. /\ Len(s) \in Nat \ {0} /\ Len(Tail(s)) = Len(s) - 1
      /\ \A k \in 1 .. Len(Tail(s)) : Tail(s)[k] = s[k + 1]
      /\ Head(s) = s[1] /\ Tail(s) \in Seq(Cmd)
    BY HeadTailProperties
<1>2. /\ Range(Tail(s)) \subseteq Range(s) /\ Head(s) \in Range(s)
      /\ \A x \in Range(Tail(s)) : \E k \in 2 .. Len(s) : x = s[k]
    BY RangeTail
<1>3. SentOnce(Tail(s))
  <2> SUFFICES ASSUME NEW k \in 1 .. Len(Tail(s)), NEW l \in 1 .. Len(Tail(s)),
                      Tail(s)[k].type = "NewOrder", Tail(s)[l].type = "NewOrder",
                      Tail(s)[k].order.order_id = Tail(s)[l].order.order_id
               PROVE  k = l
      BY DEF SentOnce
  <2>1. k + 1 \in 1 .. Len(s) /\ l + 1 \in 1 .. Len(s) /\ Tail(s)[k] = s[k + 1] /\ Tail(s)[l] = s[l + 1]
      BY <1>1
  <2>2. k + 1 = l + 1
      BY <2>1 DEF SentOnce
  <2> QED BY <2>2
<1>4. ASSUME Head(s).type = "NewOrder"
      PROVE  Sent(s, Head(s).order.order_id) /\ ~Sent(Tail(s), Head(s).order.order_id)
  <2>1. Sent(s, Head(s).order.order_id)
      BY <1>2, <1>4 DEF Sent
  <2>2. ASSUME Sent(Tail(s), Head(s).order.order_id) PROVE FALSE
    <3>1. PICK x \in Range(Tail(s)) : x.type = "NewOrder" /\ x.order.order_id = Head(s).order.order_id
        BY <2>2 DEF Sent
    <3>2. PICK k \in 2 .. Len(s) : x = s[k]
        BY <1>2
    <3>3. k \in 1 .. Len(s) /\ 1 \in 1 .. Len(s) /\ k # 1
        BY <1>1
    <3> QED BY <1>1, <1>4, <3>1, <3>2, <3>3 DEF SentOnce
  <2> QED BY <2>1, <2>2
<1>5. \A i \in Ids : Sent(Tail(s), i) => Sent(s, i)
    BY <1>2 DEF Sent
<1> QED BY <1>3, <1>4, <1>5

\* An order that appears nowhere new stays in one place.
LEMMA PlaceShrinks ==
    ASSUME OnePlace, used \subseteq used',
           \A i \in Ids :
               /\ \A c \in Conns : Reading(c, i)' => Reading(c, i)
               /\ Sent(toEngine, i)' => Sent(toEngine, i)
               /\ Sent(ingress, i)' => Sent(ingress, i)
               /\ Matching(i)' => Matching(i)
               /\ Booked(i)' => Booked(i)
               /\ Filled(i)' => Filled(i) \/ Matching(i) \/ Booked(i)
    PROVE  OnePlace'
BY DEF OnePlace

\* Nothing is anywhere at first.
LEMMA PlacesInit == Init => Places
<1> SUFFICES ASSUME Init PROVE Places
    OBVIOUS
<1>1. /\ toEngine = <<>> /\ ingress = <<>> /\ toGateway = <<>> /\ incoming = Nil
      /\ queues = [s \in {"Buy", "Sell"} |-> [p \in Prices |-> <<>>]]
      /\ \A c \in Conns : handler[c] = Idle
    BY DEF Init, Engine!AbstractInit
<1>2. Range(<<>>) = {} /\ Len(<<>>) = 0
    BY DEF Range
<1>3. \A c \in Conns : handler[c].at = "idle"
    BY <1>1 DEF Idle
<1>4. \A i \in Ids : ~Booked(i)
    BY <1>1, <1>2 DEF Booked, Sides
<1>5. \A i \in Ids : /\ \A c \in Conns : ~Reading(c, i)
                     /\ ~Sent(toEngine, i) /\ ~Sent(ingress, i) /\ ~Matching(i) /\ ~Filled(i)
    BY <1>1, <1>2, <1>3 DEF Reading, Sent, Matching, Filled
<1>6. OnePlace
    BY <1>4, <1>5 DEF OnePlace
<1>7. SentOnce(toEngine) /\ SentOnce(ingress)
    BY <1>1, <1>2 DEF SentOnce
<1>8. TwoOrders /\ NoReplaces
    BY <1>1, <1>2, <1>3 DEF TwoOrders, NoReplaces
<1> QED BY <1>6, <1>7, <1>8 DEF Places

\* The variables the places depend on, without the read loops.
placeVars == <<used, toEngine, ingress, incoming, queues, toGateway>>

\* A step of a read loop that is about no new order, or about the one it already has.
LEMMA PlacesLoop ==
    ASSUME TypeInv, Places, NEW c \in Conns, UNCHANGED placeVars,
           \A d \in Conns \ {c} : handler'[d] = handler[d],
           handler'[c].at \notin {"adjust", "restore"},
           handler'[c].at # "idle" => handler'[c].cmd.type # "Replace",
           \A i \in Ids : Reading(c, i)' => Reading(c, i)
    PROVE  Places'
<1>1. \A i \in Ids, d \in Conns : Reading(d, i)' => Reading(d, i)
    BY DEF Reading
<1>2. \A i \in Ids : /\ Sent(toEngine, i)' = Sent(toEngine, i) /\ Sent(ingress, i)' = Sent(ingress, i)
                     /\ Matching(i)' = Matching(i) /\ Booked(i)' = Booked(i) /\ Filled(i)' = Filled(i)
    BY DEF placeVars, Sent, Matching, Booked, Filled
<1>3. used \subseteq used' /\ OnePlace
    BY DEF placeVars, Places
<1>4. OnePlace'
    BY <1>1, <1>2, <1>3, PlaceShrinks
<1>5. SentOnce(toEngine)' /\ SentOnce(ingress)' /\ TwoOrders'
    BY DEF Places, placeVars, SentOnce, TwoOrders
<1>6. NoReplaces'
    BY DEF Places, placeVars, NoReplaces
<1> QED BY <1>4, <1>5, <1>6 DEF Places

\* A read loop takes a new order with an id nobody used.
LEMMA PlacesReadNewOrder ==
    ASSUME PlainCommands, TypeInv, Places, NEW c \in Conns, NEW no \in NewOrders,
           ReadNewOrder(c, no)
    PROVE  Places'
<1>1. no \in OrderType /\ no.order_id \in Ids
    BY ConstantTypes, OrderFields
<1>2. /\ no.order_id \notin used /\ used' = used \cup {no.order_id} /\ handler[c] = Idle
      /\ UNCHANGED <<toEngine, ingress, incoming, queues, toGateway>>
    BY DEF PlainCommands, ReadNewOrder, Reads, engineVars
<1>3. \A i \in Ids : /\ Sent(toEngine, i)' = Sent(toEngine, i) /\ Sent(ingress, i)' = Sent(ingress, i)
                     /\ Matching(i)' = Matching(i) /\ Booked(i)' = Booked(i) /\ Filled(i)' = Filled(i)
    BY <1>2 DEF Sent, Matching, Booked, Filled
<1>4. SentOnce(toEngine)' /\ SentOnce(ingress)' /\ TwoOrders'
    BY <1>2 DEF Places, SentOnce, TwoOrders
<1>5. CASE UNCHANGED handler
  <2>1. \A i \in Ids, d \in Conns : Reading(d, i)' => Reading(d, i)
      BY <1>5 DEF Reading
  <2>2. OnePlace'
      BY <1>2, <1>3, <2>1, PlaceShrinks DEF Places
  <2>3. NoReplaces'
      BY <1>2, <1>5 DEF Places, NoReplaces
  <2> QED BY <1>4, <2>2, <2>3 DEF Places
<1>6. CASE Goto(c, "track", [type |-> "NewOrder", order |-> no],
                [account_id |-> no.account_id, amount |-> Required(no)])
  <2>1. /\ handler'[c].at = "track" /\ handler'[c].cmd = [type |-> "NewOrder", order |-> no]
        /\ \A d \in Conns \ {c} : handler'[d] = handler[d]
      BY <1>6 DEF Goto, TypeInv, TypeOK
  <2>2. \A i \in Ids : Reading(c, i)' <=> i = no.order_id
      BY <2>1 DEF Reading
  <2>3. \A i \in Ids, d \in Conns \ {c} : Reading(d, i)' <=> Reading(d, i)
      BY <2>1 DEF Reading
  <2>4. OnePlace'
      BY <1>2, <1>3, <2>2, <2>3 DEF OnePlace, Places
  <2>5. NoReplaces'
      BY <1>2, <2>1 DEF Places, NoReplaces
  <2> QED BY <1>4, <2>4, <2>5 DEF Places
<1> QED BY <1>5, <1>6 DEF ReadNewOrder

\* Nothing about new orders happens when a cancel is read.
LEMMA PlacesReadCancel ==
    ASSUME TypeInv, Places, NEW c \in Conns, NEW i \in Ids, NEW account \in Accounts,
           ReadCancel(c, i, account)
    PROVE  Places'
<1>1. UNCHANGED placeVars
    BY DEF ReadCancel, placeVars, engineVars
<1>2. /\ handler'[c].at = "route" /\ handler'[c].cmd.type = "Cancel"
      /\ \A d \in Conns \ {c} : handler'[d] = handler[d]
    BY DEF ReadCancel, Goto, TypeInv, TypeOK
<1>3. \A j \in Ids : ~Reading(c, j)'
    BY <1>2 DEF Reading
<1> QED BY <1>1, <1>2, <1>3, PlacesLoop

\* Nor when a change of limits is read.
LEMMA PlacesReadSetRiskLimits ==
    ASSUME TypeInv, Places, NEW c \in Conns, NEW account \in Accounts, ReadSetRiskLimits(c, account)
    PROVE  Places'
<1>1. UNCHANGED placeVars
    BY DEF ReadSetRiskLimits, placeVars, engineVars
<1>2. /\ handler'[c].at = "route" /\ handler'[c].cmd.type = "SetRiskLimits"
      /\ \A d \in Conns \ {c} : handler'[d] = handler[d]
    BY DEF ReadSetRiskLimits, Goto, TypeInv, TypeOK
<1>3. \A j \in Ids : ~Reading(c, j)'
    BY <1>2 DEF Reading
<1> QED BY <1>1, <1>2, <1>3, PlacesLoop

\* The order stays with its read loop while the shared map learns of it.
LEMMA PlacesTrackOrder ==
    ASSUME TypeInv, Places, NEW c \in Conns, TrackOrder(c)
    PROVE  Places'
<1>1. UNCHANGED placeVars
    BY DEF TrackOrder, placeVars, engineVars
<1>2. /\ handler'[c].at = "route" /\ handler'[c].cmd = handler[c].cmd /\ handler[c].at = "track"
      /\ \A d \in Conns \ {c} : handler'[d] = handler[d]
    BY DEF TrackOrder, Goto, TypeInv, TypeOK
<1>3. \A j \in Ids : Reading(c, j)' => Reading(c, j)
    BY <1>2 DEF Reading
<1>4. handler'[c].cmd.type # "Replace"
    BY <1>2 DEF Places, NoReplaces
<1> QED BY <1>1, <1>2, <1>3, <1>4, PlacesLoop

\* The order goes from its read loop to the engine.
LEMMA PlacesRoute ==
    ASSUME TypeInv, Places, NEW c \in Conns, Route(c)
    PROVE  Places'
<1> DEFINE x == handler[c].cmd
<1>1. /\ UNCHANGED <<used, ingress, incoming, queues, toGateway>>
      /\ toEngine' = Append(toEngine, x) /\ handler[c].at = "route"
    BY DEF Route, engineVars
<1>2. handler'[c].at = "idle" /\ \A d \in Conns \ {c} : handler'[d] = handler[d]
    BY IdleType DEF Route, TypeInv
<1>3. toEngine \in Seq(Cmd) /\ x \in Cmd
    BY <1>1, HandlerFields DEF TypeInv, QueueTypes
<1>4. x.type # "Replace"
    BY <1>1 DEF Places, NoReplaces
<1>5. x.type = "NewOrder" => x.order.order_id \in Ids /\ Reading(c, x.order.order_id)
    BY <1>1, <1>3, CmdFields, OrderFields DEF Reading
<1>6. \A i \in Ids : Reading(c, i) <=> x.type = "NewOrder" /\ x.order.order_id = i
    BY <1>1 DEF Reading
<1> HIDE DEF x
<1>7. Range(toEngine') = Range(toEngine) \cup {x}
    BY <1>1, <1>3, RangeAppend
<1>8. \A i \in Ids : Sent(toEngine, i)' <=> Sent(toEngine, i) \/ Reading(c, i)
    BY <1>6, <1>7 DEF Sent
<1>9. \A i \in Ids : ~Reading(c, i)' /\ \A d \in Conns \ {c} : Reading(d, i)' <=> Reading(d, i)
    BY <1>2 DEF Reading
<1>10. \A i \in Ids : /\ Sent(ingress, i)' = Sent(ingress, i)
                      /\ Matching(i)' = Matching(i) /\ Booked(i)' = Booked(i) /\ Filled(i)' = Filled(i)
    BY <1>1 DEF Sent, Matching, Booked, Filled
<1>11. OnePlace'
  <2>1. used' = used /\ OnePlace
      BY <1>1 DEF Places
  <2> QED BY <1>8, <1>9, <1>10, <2>1 DEF OnePlace
<1>12. SentOnce(toEngine)'
  <2>1. x.type = "NewOrder" => ~Sent(toEngine, x.order.order_id)
      BY <1>5 DEF Places, OnePlace
  <2>2. SentOnce(Append(toEngine, x))
      BY <1>3, <2>1, SentOnceAppend DEF Places
  <2> QED BY <1>1, <2>2 DEF SentOnce
<1>13. SentOnce(ingress)' /\ TwoOrders'
    BY <1>1 DEF Places, SentOnce, TwoOrders
<1>14. NoReplaces'
    BY <1>1, <1>2, <1>4, <1>7 DEF Places, NoReplaces
<1> QED BY <1>11, <1>12, <1>13, <1>14 DEF Places

\* Taking an answer off the way back leaves the orders where they are.
LEMMA PlacesAnswer ==
    ASSUME TypeInv, Places, OnFill \/ OnAck \/ OnReject
    PROVE  Places'
<1>1. UNCHANGED <<used, toEngine, ingress, incoming, queues, handler>>
    BY DEF OnFill, OnAck, OnReject, loopVars, engineVars
<1>2. Range(toGateway') \subseteq Range(toGateway)
  <2>1. CASE OnFill BY <2>1, ReceivesType DEF OnFill
  <2>2. CASE OnAck BY <2>2, ReceivesType DEF OnAck
  <2>3. CASE OnReject BY <2>3, ReceivesType DEF OnReject
  <2> QED BY <2>1, <2>2, <2>3
<1>3. \A i \in Ids : Filled(i)' => Filled(i)
    BY <1>2 DEF Filled
<1>4. \A i \in Ids : /\ Sent(toEngine, i)' = Sent(toEngine, i) /\ Sent(ingress, i)' = Sent(ingress, i)
                     /\ Matching(i)' = Matching(i) /\ Booked(i)' = Booked(i)
                     /\ \A c \in Conns : Reading(c, i)' = Reading(c, i)
    BY <1>1 DEF Sent, Matching, Booked, Reading
<1>5. OnePlace'
    BY <1>1, <1>3, <1>4, PlaceShrinks DEF Places
<1>6. SentOnce(toEngine)' /\ SentOnce(ingress)' /\ NoReplaces'
    BY <1>1 DEF Places, SentOnce, NoReplaces
<1>7. TwoOrders'
    BY <1>2 DEF Places, TwoOrders
<1> QED BY <1>5, <1>6, <1>7 DEF Places

\* The order goes from the wire into the engine's queue, or is dropped.
LEMMA PlacesEngineReceives ==
    ASSUME TypeInv, Places, EngineReceives
    PROVE  Places'
<1> DEFINE x == Head(toEngine)
<1>1. UNCHANGED <<used, incoming, queues, toGateway, handler>>
    BY DEF EngineReceives, loopVars
<1>2. toEngine \in Seq(Cmd) /\ toEngine # <<>> /\ ingress \in Seq(Cmd) /\ toEngine' = Tail(toEngine)
    BY DEF EngineReceives, TypeInv, QueueTypes
<1>3. /\ SentOnce(Tail(toEngine))
      /\ x.type = "NewOrder" =>
             Sent(toEngine, x.order.order_id) /\ ~Sent(Tail(toEngine), x.order.order_id)
      /\ \A i \in Ids : Sent(Tail(toEngine), i) => Sent(toEngine, i)
    BY <1>2, SentOnceTail DEF Places
<1>4. /\ x \in Cmd /\ x \in Range(toEngine) /\ Range(toEngine') \subseteq Range(toEngine)
    BY <1>2, RangeTail
<1>5. ingress' = Append(ingress, x) \/ ingress' = ingress
    BY DEF EngineReceives
<1> HIDE DEF x
<1>6. Range(ingress') \subseteq Range(ingress) \cup {x}
  <2>1. Range(Append(ingress, x)) = Range(ingress) \cup {x}
      BY <1>2, <1>4, RangeAppend
  <2> QED BY <1>5, <2>1
<1>7. \A i \in Ids : Sent(ingress, i)' => Sent(ingress, i) \/ (x.type = "NewOrder" /\ x.order.order_id = i)
    BY <1>6 DEF Sent
<1>8. \A i \in Ids : Sent(toEngine, i)' => Sent(toEngine, i) /\ ~(x.type = "NewOrder" /\ x.order.order_id = i)
    BY <1>2, <1>3 DEF Sent
<1>9. \A i \in Ids : x.type = "NewOrder" /\ x.order.order_id = i => Sent(toEngine, i)
    BY <1>3
<1>10. \A i \in Ids : /\ Matching(i)' = Matching(i) /\ Booked(i)' = Booked(i) /\ Filled(i)' = Filled(i)
                      /\ \A c \in Conns : Reading(c, i)' = Reading(c, i)
    BY <1>1 DEF Matching, Booked, Filled, Reading
<1>11. OnePlace'
  <2>1. used' = used /\ OnePlace
      BY <1>1 DEF Places
  <2> QED BY <1>7, <1>8, <1>9, <1>10, <2>1 DEF OnePlace
<1>12. SentOnce(ingress)'
  <2>1. x.type = "NewOrder" => x.order.order_id \in Ids /\ Sent(toEngine, x.order.order_id)
      BY <1>3, <1>4, CmdFields, OrderFields
  <2>2. x.type = "NewOrder" => ~Sent(ingress, x.order.order_id)
      BY <2>1 DEF Places, OnePlace
  <2>3. SentOnce(Append(ingress, x)) /\ SentOnce(ingress)
      BY <1>2, <1>4, <2>2, SentOnceAppend DEF Places
  <2> QED BY <1>5, <2>3 DEF SentOnce
<1>13. SentOnce(toEngine)'
    BY <1>2, <1>3 DEF SentOnce
<1>14. TwoOrders'
    BY <1>1 DEF Places, TwoOrders
<1>15. NoReplaces'
    BY <1>1, <1>4, <1>6 DEF Places, NoReplaces
<1> QED BY <1>11, <1>12, <1>13, <1>14, <1>15 DEF Places

\* A book that shrinks has no order it did not have.
LEMMA BookedShrinks ==
    ASSUME BookShrinks, NEW i, Booked(i)'
    PROVE  Booked(i)
BY DEF BookShrinks, Booked

\* Taking a message from the engine's queue.
LEMMA PlacesTakes ==
    ASSUME TypeInv, Places, NEW type, Takes(type), ingress' = Tail(ingress)
    PROVE  /\ SentOnce(ingress)'
           /\ \A i \in Ids : Sent(ingress, i)' => Sent(ingress, i)
           /\ Head(ingress).type = "NewOrder" =>
                 /\ Sent(ingress, Head(ingress).order.order_id)
                 /\ \A i \in Ids : Sent(ingress, i)' => i # Head(ingress).order.order_id
           /\ Head(ingress).type # "Replace"
           /\ Range(ingress') \subseteq Range(ingress)
           /\ \A i \in Ids : ~Matching(i)
<1>1. ingress \in Seq(Cmd) /\ ingress # <<>> /\ incoming = Nil
    BY DEF Takes, TypeInv, QueueTypes
<1>2. /\ SentOnce(Tail(ingress))
      /\ Head(ingress).type = "NewOrder" =>
             /\ Sent(ingress, Head(ingress).order.order_id)
             /\ ~Sent(Tail(ingress), Head(ingress).order.order_id)
      /\ \A i \in Ids : Sent(Tail(ingress), i) => Sent(ingress, i)
    BY <1>1, SentOnceTail DEF Places
<1>3. Head(ingress) \in Range(ingress) /\ Range(ingress') \subseteq Range(ingress)
    BY <1>1, RangeTail
<1>4. Head(ingress).type # "Replace"
    BY <1>3 DEF Places, NoReplaces
<1>5. SentOnce(ingress)'
    BY <1>2 DEF SentOnce
<1>6. \A i \in Ids : Sent(ingress, i)' <=> Sent(Tail(ingress), i)
    BY DEF Sent
<1>8. \A i \in Ids : ~Matching(i)
    BY <1>1 DEF Matching
<1> QED BY <1>2, <1>3, <1>4, <1>5, <1>6, <1>8

\* A fill is about the order being matched and one in the book.
LEMMA PlacesEngineTrades ==
    ASSUME TypeInv, Places, EngineTrades, UNCHANGED <<loopVars, toEngine>>
    PROVE  Places'
<1>1. PICK p \in Prices, qty \in 1 .. MaxQty :
             LET s == Engine!Other(incoming.side)
                 maker == Head(queues[s][p])
             IN  /\ incoming # Nil
                 /\ maker \in Range(queues[s][p])
                 /\ incoming' = [incoming EXCEPT !.qty = @ - qty]
                 /\ BookShrinks
                 /\ toGateway' = Append(toGateway,
                        [type |-> "Fill", maker |-> maker.order_id, taker |-> incoming.order_id,
                         price |-> p, qty |-> qty])
                 /\ ingress' = ingress
    BY TradeShape
<1> DEFINE s == Engine!Other(incoming.side)
           maker == Head(queues[s][p])
           f == [type |-> "Fill", maker |-> maker.order_id, taker |-> incoming.order_id,
                 price |-> p, qty |-> qty]
<1>2. incoming \in IncomingType /\ incoming.order_id \in Ids /\ s \in Sides
    BY <1>1, IncomingFields
<1>3. maker.order_id \in Ids
    BY <1>1, <1>2, QueueFields
<1>4. Matching(incoming.order_id) /\ Booked(maker.order_id)
    BY <1>1, <1>2 DEF Matching, Booked
<1>5. maker.order_id # incoming.order_id
    BY <1>2, <1>4 DEF Places, OnePlace
<1>6. f \in FillEvent \cup Answer
    BY <1>2, <1>3 DEF FillEvent
<1>7. Range(toGateway') = Range(toGateway) \cup {f}
    BY <1>1, <1>6, EmitType DEF Emit
<1>8. f.maker = maker.order_id /\ f.taker = incoming.order_id
    OBVIOUS
<1> HIDE DEF f, maker, s
<1>9. \A i \in Ids : Filled(i)' => Filled(i) \/ Matching(i) \/ Booked(i)
    BY <1>4, <1>7, <1>8 DEF Filled
<1>10. incoming' # Nil => incoming'.order_id = incoming.order_id
    BY <1>1, <1>2 DEF IncomingType
<1>11. \A i \in Ids : Matching(i)' => Matching(i)
    BY <1>1, <1>10 DEF Matching
<1>12. \A i \in Ids : Booked(i)' => Booked(i)
    BY <1>1, BookedShrinks
<1>13. \A i \in Ids : /\ Sent(toEngine, i)' = Sent(toEngine, i) /\ Sent(ingress, i)' = Sent(ingress, i)
                      /\ \A c \in Conns : Reading(c, i)' = Reading(c, i)
    BY <1>1 DEF Sent, Reading, loopVars
<1>14. OnePlace'
    BY <1>9, <1>11, <1>12, <1>13, PlaceShrinks DEF Places, loopVars
<1>15. SentOnce(toEngine)' /\ SentOnce(ingress)' /\ NoReplaces'
    BY <1>1 DEF Places, SentOnce, NoReplaces, loopVars
<1>16. TwoOrders'
    BY <1>5, <1>7, <1>8 DEF Places, TwoOrders
<1> QED BY <1>14, <1>15, <1>16 DEF Places

\* Every step of the engine moves an order on, or drops it.
LEMMA PlacesEngineStep ==
    ASSUME TypeInv, Places, EngineStep
    PROVE  Places'
<1>1. UNCHANGED <<loopVars, toEngine>>
    BY DEF EngineStep
<1>2. \A i \in Ids : /\ Sent(toEngine, i)' = Sent(toEngine, i)
                     /\ \A c \in Conns : Reading(c, i)' = Reading(c, i)
    BY <1>1 DEF Sent, Reading, loopVars
<1>3. SentOnce(toEngine)'
    BY <1>1 DEF Places, SentOnce
<1>4. used' = used /\ handler' = handler /\ toEngine' = toEngine
    BY <1>1 DEF loopVars
<1>5. ASSUME Range(ingress') \subseteq Range(ingress) PROVE NoReplaces'
    BY <1>4, <1>5 DEF Places, NoReplaces
<1>6. ASSUME NEW id \in Ids, NEW x \in {Ack(id), Reject(id)}, Emit(x)
      PROVE  TwoOrders' /\ \A i \in Ids : Filled(i)' => Filled(i)
  <2>1. x \in FillEvent \cup Answer /\ x.type # "Fill"
      BY DEF Ack, Reject, Answer
  <2>2. Range(toGateway') = Range(toGateway) \cup {x}
      BY <1>6, <2>1, EmitType
  <2> QED BY <2>1, <2>2 DEF Places, TwoOrders, Filled
<1>7. CASE EngineTrades
    BY <1>1, <1>7, PlacesEngineTrades
<1>8. CASE EngineNewOrder
  <2> DEFINE x == Head(ingress)
  <2>1. /\ Takes("NewOrder") /\ ingress' = Tail(ingress) /\ toGateway' = toGateway
        /\ incoming' = x.order /\ queues' = queues
      BY <1>8 DEF EngineNewOrder, Engine!Arrive
  <2>2. /\ SentOnce(ingress)' /\ \A i \in Ids : Sent(ingress, i)' => Sent(ingress, i)
        /\ Sent(ingress, x.order.order_id)
        /\ \A i \in Ids : Sent(ingress, i)' => i # x.order.order_id
        /\ Range(ingress') \subseteq Range(ingress)
      BY <2>1, PlacesTakes DEF Takes
  <2>3. \A i \in Ids : Matching(i)' => i = x.order.order_id
      BY <2>1 DEF Matching
  <2>4. \A i \in Ids : Booked(i)' = Booked(i) /\ Filled(i)' = Filled(i)
      BY <2>1 DEF Booked, Filled
  <2> HIDE DEF x
  <2>5. OnePlace'
      BY <1>2, <1>4, <2>2, <2>3, <2>4 DEF OnePlace, Places
  <2>6. TwoOrders'
      BY <2>1 DEF Places, TwoOrders
  <2> QED BY <1>3, <1>5, <2>2, <2>5, <2>6 DEF Places
<1>9. CASE EngineRejects
  <2> DEFINE id == Head(ingress).order.order_id
  <2>1. /\ Takes("NewOrder") /\ ingress' = Tail(ingress) /\ Emit(Reject(id))
        /\ incoming' = incoming /\ queues' = queues
      BY <1>9 DEF EngineRejects
  <2>2. /\ SentOnce(ingress)' /\ \A i \in Ids : Sent(ingress, i)' => Sent(ingress, i)
        /\ Range(ingress') \subseteq Range(ingress)
      BY <2>1, PlacesTakes
  <2>3. id \in Ids
      BY <2>1, TakesType, CmdFields, OrderFields
  <2>4. TwoOrders' /\ \A i \in Ids : Filled(i)' => Filled(i)
      BY <1>6, <2>1, <2>3
  <2>5. \A i \in Ids : Booked(i)' = Booked(i) /\ Matching(i)' = Matching(i)
      BY <2>1 DEF Booked, Matching
  <2>6. OnePlace'
      BY <1>2, <1>4, <2>2, <2>4, <2>5, PlaceShrinks DEF Places
  <2> QED BY <1>3, <1>5, <2>2, <2>4, <2>6 DEF Places
<1>10. CASE EngineSettles
  <2>1. /\ incoming # Nil /\ incoming' = Nil /\ ingress' = ingress
        /\ \A s \in Sides, p \in Prices : \A o \in Range(queues'[s][p]) :
              \/ o \in Range(queues[s][p])
              \/ o.order_id = incoming.order_id
        /\ Emit(Ack(incoming.order_id))
      BY <1>10, SettleShape
  <2>2. incoming.order_id \in Ids
      BY <2>1, IncomingFields
  <2>3. TwoOrders' /\ \A i \in Ids : Filled(i)' => Filled(i)
      BY <1>6, <2>1, <2>2
  <2>4. \A i \in Ids : ~Matching(i)'
      BY <2>1 DEF Matching
  <2>5. \A i \in Ids : Booked(i)' => Booked(i) \/ Matching(i)
      BY <2>1 DEF Booked, Matching
  <2>6. \A i \in Ids : Sent(ingress, i)' = Sent(ingress, i)
      BY <2>1 DEF Sent
  <2>7. OnePlace'
      BY <1>2, <1>4, <2>3, <2>4, <2>5, <2>6 DEF OnePlace, Places
  <2>8. SentOnce(ingress)'
      BY <2>1 DEF Places, SentOnce
  <2> QED BY <1>3, <1>5, <2>1, <2>3, <2>7, <2>8 DEF Places
<1>11. CASE EngineCancel
  <2> DEFINE c == Head(ingress)
  <2>1. Takes("Cancel") /\ ingress' = Tail(ingress)
      BY <1>11 DEF EngineCancel
  <2>2. /\ SentOnce(ingress)' /\ \A i \in Ids : Sent(ingress, i)' => Sent(ingress, i)
        /\ Range(ingress') \subseteq Range(ingress)
      BY <2>1, PlacesTakes
  <2>3. c.order_id \in Ids /\ c.account_id \in Accounts
      BY <2>1, TakesType, CmdFields
  <2>4. TwoOrders' /\ \A i \in Ids : Filled(i)' => Filled(i)
      BY <1>6, <1>11, <2>3 DEF EngineCancel
  <2>5. incoming' = incoming /\ \A i \in Ids : Booked(i)' => Booked(i)
    <3>1. CASE UNCHANGED <<queues, incoming>>
        BY <3>1 DEF Booked
    <3>2. ASSUME NEW x \in Resting(c.order_id, c.account_id), Engine!Withdraw(x[1], x[2], x[3])
          PROVE  incoming' = incoming /\ \A i \in Ids : Booked(i)' => Booked(i)
      <4>1. incoming' = incoming /\ queues' = Engine!Without(x[1], x[2], x[3])
          BY <3>2 DEF Engine!Withdraw
      <4>2. BookShrinks
          BY <2>3, <4>1, WithoutShape
      <4> QED BY <4>1, <4>2, BookedShrinks
    <3> QED BY <1>11, <3>1, <3>2 DEF EngineCancel
  <2>6. \A i \in Ids : Matching(i)' = Matching(i)
      BY <2>5 DEF Matching
  <2>7. OnePlace'
      BY <1>2, <1>4, <2>2, <2>4, <2>5, <2>6, PlaceShrinks DEF Places
  <2> QED BY <1>3, <1>5, <2>2, <2>4, <2>7 DEF Places
<1>12. CASE EngineReplace
  <2>1. Takes("Replace") /\ ingress' = Tail(ingress)
      BY <1>12 DEF EngineReplace
  <2>2. Head(ingress).type # "Replace"
      BY <2>1, PlacesTakes
  <2> QED BY <2>1, <2>2 DEF Takes
<1>13. CASE EngineSetsLimits
  <2>1. /\ Takes("SetRiskLimits") /\ ingress' = Tail(ingress) /\ Emit(Ack(Zero))
        /\ incoming' = incoming /\ queues' = queues
      BY <1>13 DEF EngineSetsLimits
  <2>2. /\ SentOnce(ingress)' /\ \A i \in Ids : Sent(ingress, i)' => Sent(ingress, i)
        /\ Range(ingress') \subseteq Range(ingress)
      BY <2>1, PlacesTakes
  <2>3. TwoOrders' /\ \A i \in Ids : Filled(i)' => Filled(i)
      BY <1>6, <2>1, ConstantTypes
  <2>4. \A i \in Ids : Booked(i)' = Booked(i) /\ Matching(i)' = Matching(i)
      BY <2>1 DEF Booked, Matching
  <2>5. OnePlace'
      BY <1>2, <1>4, <2>2, <2>3, <2>4, PlaceShrinks DEF Places
  <2> QED BY <1>3, <1>5, <2>2, <2>3, <2>5 DEF Places
<1> QED BY <1>7, <1>8, <1>9, <1>10, <1>11, <1>12, <1>13 DEF EngineStep

\* What changes nothing about orders changes nothing about their places.
LEMMA PlacesSame ==
    ASSUME Places, UNCHANGED <<handler, placeVars>>
    PROVE  Places'
<1>1. OnePlace'
    BY DEF Places, placeVars, OnePlace, Reading, Sent, Matching, Booked, Filled
<1>2. SentOnce(toEngine)' /\ SentOnce(ingress)'
    BY DEF Places, placeVars, SentOnce
<1>3. TwoOrders' /\ NoReplaces'
    BY DEF Places, placeVars, TwoOrders, NoReplaces
<1> QED BY <1>1, <1>2, <1>3 DEF Places

\* Without replaces and failed sends, the read loops take no other steps than these.
LEMMA PlainSteps ==
    ASSUME PlainCommands, TypeInv, Places, NEW c \in Conns, ReadCommand(c) \/ HandleCommand(c)
    PROVE  \/ \E no \in NewOrders : ReadNewOrder(c, no)
           \/ \E i \in Ids, account \in Accounts : ReadCancel(c, i, account)
           \/ \E account \in Accounts : ReadSetRiskLimits(c, account)
           \/ TrackOrder(c)
           \/ Route(c)
<1>1. ASSUME NEW r \in Replaces PROVE ~ReadReplace(c, r)
    BY DEF PlainCommands, ReadReplace, Reads
<1>2. ~AdjustReservation(c) /\ ~RestoreActive(c)
    BY DEF Places, NoReplaces, AdjustReservation, RestoreActive
<1>3. ~RouteFails(c) /\ ~CancelRouteFails(c)
    BY DEF PlainCommands, RouteFails, CancelRouteFails
<1> QED BY <1>1, <1>2, <1>3 DEF ReadCommand, HandleCommand

\* An order is in one place at every time.
LEMMA PlacesStep == PlainCommands /\ TypeInv /\ Places /\ [Next]_vars => Places'
<1> SUFFICES ASSUME PlainCommands, TypeInv, Places, [Next]_vars PROVE Places'
    OBVIOUS
<1>1. ASSUME NEW c \in Conns, Authenticate(c) \/ Disconnect(c) PROVE Places'
  <2>1. UNCHANGED <<handler, placeVars>>
      BY <1>1 DEF Authenticate, Disconnect, placeVars, engineVars
  <2> QED BY <2>1, PlacesSame
<1>2. ASSUME NEW c \in Conns, ReadCommand(c) \/ HandleCommand(c) PROVE Places'
    BY <1>2, PlainSteps, PlacesReadNewOrder, PlacesReadCancel, PlacesReadSetRiskLimits,
       PlacesTrackOrder, PlacesRoute
<1>3. CASE OnFill \/ OnAck \/ OnReject
    BY <1>3, PlacesAnswer
<1>4. CASE Respond
  <2>1. UNCHANGED <<handler, placeVars>>
      BY <1>4 DEF Respond, placeVars, loopVars, engineVars
  <2> QED BY <2>1, PlacesSame
<1>5. CASE UNCHANGED vars
  <2>1. UNCHANGED <<handler, placeVars>>
      BY <1>5 DEF vars, placeVars, loopVars, engineVars
  <2> QED BY <2>1, PlacesSame
<1> QED
  BY <1>1, <1>2, <1>3, <1>4, <1>5, PlacesEngineReceives, PlacesEngineStep DEF Next, HandleResponse

-----------------------------------------------------------------------------
(* The shared map and the fill being handled *)

\* At first no order is known and nothing is being handled.
LEMMA LinkedInit == Init => TodoDistinct /\ Linked
<1> SUFFICES ASSUME Init PROVE TodoDistinct /\ Linked
    OBVIOUS
<1>1. todo = <<>> /\ Len(todo) = 0 /\ Range(todo) = {}
    BY DEF Init, Range
<1>2. \A c \in Conns : handler[c].at = "idle"
    BY DEF Init, Idle
<1>3. \A i \in Ids : pending_orders[i] = Nil
    BY DEF Init
<1> QED BY <1>1, <1>2, <1>3 DEF TodoDistinct, Linked

\* Steps that leave the map and the event alone and read no new order.
LEMMA LinkedFrame ==
    ASSUME TodoDistinct, Linked, UNCHANGED <<pending_orders, todo>>, used \subseteq used',
           \A c \in Conns : handler'[c].at = "track" => handler'[c] = handler[c]
    PROVE  TodoDistinct' /\ Linked'
BY DEF TodoDistinct, Linked

\* A new order gets an id the map does not name.
LEMMA LinkedReadNewOrder ==
    ASSUME PlainCommands, TypeInv, TodoDistinct, Linked, NEW c \in Conns, NEW no \in NewOrders,
           ReadNewOrder(c, no)
    PROVE  TodoDistinct' /\ Linked'
<1>1. no.order_id \in Ids
    BY ConstantTypes, OrderFields
<1>2. /\ no.order_id \notin used /\ used' = used \cup {no.order_id}
      /\ UNCHANGED <<pending_orders, todo>>
    BY DEF PlainCommands, ReadNewOrder
<1>3. CASE UNCHANGED handler
    BY <1>2, <1>3, LinkedFrame
<1>4. CASE Goto(c, "track", [type |-> "NewOrder", order |-> no],
                [account_id |-> no.account_id, amount |-> Required(no)])
  <2>1. /\ handler'[c].at = "track" /\ handler'[c].cmd.order = no
        /\ \A d \in Conns \ {c} : handler'[d] = handler[d]
      BY <1>4 DEF Goto, TypeInv, TypeOK
  <2>2. pending_orders[no.order_id] = Nil
      BY <1>1, <1>2 DEF Linked
  <2>3. Linked'
      BY <1>2, <2>1, <2>2 DEF Linked
  <2>4. TodoDistinct'
      BY <1>2 DEF TodoDistinct
  <2> QED BY <2>3, <2>4
<1> QED BY <1>3, <1>4 DEF ReadNewOrder

\* A read loop that is about to track has a new order in hand, with its token.
LEMMA TrackingOrder ==
    ASSUME TypeInv, Places, NEW c \in Conns, handler[c].at = "track"
    PROVE  LET h == handler[c] IN
           /\ h.cmd.type = "NewOrder" /\ h.cmd \in Cmd
           /\ h.cmd.order \in OrderType /\ h.cmd.order.order_id \in Ids
           /\ h.cmd.order.side \in Sides
           /\ h.token \in ReservationToken
           /\ tracked[c][h.cmd.order.order_id] = h.cmd.order.side
           /\ Reading(c, h.cmd.order.order_id)
<1>1. handler[c].cmd \in Cmd
    BY HandlerFields DEF TypeInv
<1>2. handler[c].cmd.type = "NewOrder"
    BY DEF TypeInv, LoopShape, Places, NoReplaces
<1>3. handler[c].cmd.type = "NewOrder" /\ handler[c].cmd.order \in OrderType
    BY <1>1, <1>2, CmdFields
<1>4. handler[c].cmd.order.order_id \in Ids /\ handler[c].cmd.order.side \in Sides
    BY <1>3, OrderFields
<1> QED BY <1>1, <1>3, <1>4 DEF TypeInv, LoopShape, Reading

\* The steps that are left are about orders.
LEMMA TodoIds ==
    ASSUME TypeInv
    PROVE  \A x \in Range(todo) : x.do \in {"apply", "remove"} => x.id \in Ids
<1>1. \A x \in Range(todo) : x \in TodoStep
    BY RangeType DEF TypeInv, QueueTypes, TodoStep
<1> QED BY <1>1, StepFields DEF ApplyStep, RemoveStep

\* Marking an order keeps its token.
LEMMA LinkedReadCancel ==
    ASSUME TypeInv, Places, TodoDistinct, Linked, NEW c \in Conns, NEW i \in Ids, NEW account \in Accounts,
           ReadCancel(c, i, account)
    PROVE  /\ TodoDistinct' /\ Linked'
           /\ \A j \in Ids : /\ pending_orders'[j] = Nil <=> pending_orders[j] = Nil
                             /\ pending_orders[j] # Nil =>
                                   /\ pending_orders'[j].token = pending_orders[j].token
                                   /\ pending_orders'[j].side = pending_orders[j].side
<1>1. /\ handler'[c].at = "route" /\ UNCHANGED <<todo, used>>
      /\ \A d \in Conns \ {c} : handler'[d] = handler[d]
    BY DEF ReadCancel, Goto, TypeInv, TypeOK
<1>2. pending_orders' = IF pending_orders[i] = Nil THEN pending_orders
                        ELSE [pending_orders EXCEPT ![i].operation = "CancelPending"]
    BY DEF ReadCancel
<1>3. pending_orders \in [Ids -> OrderMetadata \cup {Nil}] /\ TypeInv'
    BY TypeReadCancel DEF TypeInv, TypeOK
<1>4. \A j \in Ids : /\ pending_orders'[j] = Nil <=> pending_orders[j] = Nil
                     /\ pending_orders[j] # Nil =>
                           /\ pending_orders'[j].token = pending_orders[j].token
                           /\ pending_orders'[j].side = pending_orders[j].side
  <2> SUFFICES ASSUME NEW j \in Ids
               PROVE  /\ pending_orders'[j] = Nil <=> pending_orders[j] = Nil
                      /\ pending_orders[j] # Nil =>
                            /\ pending_orders'[j].token = pending_orders[j].token
                            /\ pending_orders'[j].side = pending_orders[j].side
      OBVIOUS
  <2>1. CASE pending_orders[i] = Nil \/ j # i
    <3>1. pending_orders'[j] = pending_orders[j]
        BY <1>2, <1>3, <2>1
    <3> QED BY <3>1
  <2>2. CASE pending_orders[i] # Nil /\ j = i
    <3>1. pending_orders[i] \in OrderMetadata
        BY <1>3, <2>2
    <3>2. pending_orders'[i] = [pending_orders[i] EXCEPT !.operation = "CancelPending"]
        BY <1>2, <1>3, <2>2
    <3>3. /\ pending_orders'[i].token = pending_orders[i].token
          /\ pending_orders'[i].side = pending_orders[i].side
        BY <3>1, <3>2 DEF OrderMetadata
    <3>4. pending_orders'[i].side \in Sides
        BY <3>1, <3>3 DEF OrderMetadata, Sides
    <3>5. pending_orders'[i] # Nil
      <4>1. pending_orders'[i] \in OrderMetadata
          BY <3>1, <3>2 DEF OrderMetadata
      <4> QED BY <4>1, GatewayAssumption
    <3> QED BY <2>2, <3>3, <3>5
  <2> QED BY <2>1, <2>2
<1>5. Linked'
  <2>1. \A x \in Range(todo) : x.do \in {"apply", "remove"} => x.id \in Ids
      BY TodoIds
  <2>2. \A d \in Conns : handler[d].at = "track" => handler[d].cmd.order.order_id \in Ids
      BY TrackingOrder
  <2> QED BY <1>1, <1>4, <2>1, <2>2 DEF Linked
<1> QED BY <1>1, <1>4, <1>5 DEF TodoDistinct

\* What tracking an order changes: the map names an order it did not name.
LEMMA TrackOrderShape ==
    ASSUME TypeInv, Places, Linked, NEW c \in Conns, TrackOrder(c)
    PROVE  LET h == handler[c]
               id == h.cmd.order.order_id
           IN  /\ id \in Ids /\ Reading(c, id) /\ h.at = "track" /\ h.token \in ReservationToken
               /\ h.cmd \in Cmd /\ h.cmd.type = "NewOrder" /\ h.cmd.order \in OrderType
               /\ pending_orders[id] = Nil /\ pending_orders'[id] # Nil
               /\ pending_orders'[id] = [token |-> h.token, side |-> h.cmd.order.side,
                                         operation |-> "Active"]
               /\ \A j \in Ids \ {id} : pending_orders'[j] = pending_orders[j]
               /\ handler'[c] = [at |-> "route", cmd |-> h.cmd, token |-> h.token]
               /\ \A d \in Conns \ {c} : handler'[d] = handler[d]
               /\ UNCHANGED <<accountVars, used, todo, toEngine, toGateway, engineVars>>
<1> DEFINE h == handler[c]
           id == h.cmd.order.order_id
           m == [token |-> h.token, side |-> h.cmd.order.side, operation |-> "Active"]
<1>1. h.at = "track"
    BY DEF TrackOrder
<1>2. /\ h.cmd.type = "NewOrder" /\ h.cmd \in Cmd /\ h.cmd.order \in OrderType
      /\ id \in Ids /\ h.cmd.order.side \in Sides
      /\ h.token \in ReservationToken /\ tracked[c][id] = h.cmd.order.side /\ Reading(c, id)
    BY <1>1, TrackingOrder
<1>3. pending_orders[id] = Nil
    BY <1>1 DEF Linked
<1>4. m \in OrderMetadata
    BY <1>2 DEF OrderMetadata, Sides
<1>5. m # Nil
    BY <1>4, GatewayAssumption
<1>6. pending_orders' = [pending_orders EXCEPT ![id] = m]
    BY <1>2 DEF TrackOrder
<1>7. pending_orders \in [Ids -> OrderMetadata \cup {Nil}] /\ DOMAIN handler = Conns
    BY DEF TypeInv, TypeOK
<1>8. pending_orders'[id] = m /\ \A j \in Ids \ {id} : pending_orders'[j] = pending_orders[j]
    BY <1>2, <1>6, <1>7
<1>9. /\ handler'[c] = [at |-> "route", cmd |-> h.cmd, token |-> h.token]
      /\ \A d \in Conns \ {c} : handler'[d] = handler[d]
    BY <1>7 DEF TrackOrder, Goto
<1>10. UNCHANGED <<accountVars, used, todo, toEngine, toGateway, engineVars>>
    BY DEF TrackOrder
<1> QED BY <1>1, <1>2, <1>3, <1>5, <1>8, <1>9, <1>10

\* An order is tracked once, by the read loop that has it.
LEMMA LinkedTrackOrder ==
    ASSUME TypeInv, Places, TodoDistinct, Linked, NEW c \in Conns, TrackOrder(c)
    PROVE  TodoDistinct' /\ Linked'
<1> DEFINE id == handler[c].cmd.order.order_id
<1>1. /\ id \in Ids /\ Reading(c, id) /\ pending_orders[id] = Nil /\ pending_orders'[id] # Nil
      /\ \A j \in Ids \ {id} : pending_orders'[j] = pending_orders[j]
      /\ handler'[c].at = "route" /\ \A d \in Conns \ {c} : handler'[d] = handler[d]
      /\ UNCHANGED <<used, todo>>
  <2>1. handler'[c].at = "route" /\ UNCHANGED <<used, todo>>
    <3>1. handler'[c] = [at |-> "route", cmd |-> handler[c].cmd, token |-> handler[c].token]
        BY TrackOrderShape, Zenon
    <3> QED BY <3>1 DEF TrackOrder
  <2>2. \A d \in Conns \ {c} : handler'[d] = handler[d]
      BY TrackOrderShape, Zenon
  <2>3. /\ id \in Ids /\ Reading(c, id) /\ pending_orders[id] = Nil /\ pending_orders'[id] # Nil
        /\ \A j \in Ids \ {id} : pending_orders'[j] = pending_orders[j]
      BY TrackOrderShape, Zenon
  <2> QED BY <2>1, <2>2, <2>3
<1>2. \A d \in Conns \ {c} : handler[d].at = "track" =>
          handler[d].cmd.order.order_id \in Ids \ {id}
  <2> SUFFICES ASSUME NEW d \in Conns \ {c}, handler[d].at = "track"
               PROVE  handler[d].cmd.order.order_id \in Ids \ {id}
      OBVIOUS
  <2>1. handler[d].cmd.order.order_id \in Ids /\ Reading(d, handler[d].cmd.order.order_id)
      BY TrackingOrder
  <2> QED BY <1>1, <2>1 DEF Places, OnePlace
<1>3. \A x \in Range(todo) : x.do \in {"apply", "remove"} => x.id \in Ids \ {id}
  <2>1. \A x \in Range(todo) : x.do \in {"apply", "remove"} => x.id \in Ids
      BY TodoIds
  <2> QED BY <1>1, <2>1 DEF Linked
<1>4. id \in used
    BY <1>1 DEF Places, OnePlace
<1>5. Linked'
  <2>1. \A d \in Conns : handler'[d].at = "track" =>
            pending_orders'[handler'[d].cmd.order.order_id] = Nil
      BY <1>1, <1>2 DEF Linked
  <2>2. \A x \in Range(todo) :
            /\ x.do \in {"apply", "remove"} => pending_orders'[x.id] # Nil
            /\ x.do = "apply" => pending_orders'[x.id].token = x.meta.token
      BY <1>1, <1>3 DEF Linked
  <2>3. \A i \in Ids : pending_orders'[i] # Nil => i \in used
      BY <1>1, <1>4 DEF Linked
  <2> QED BY <1>1, <2>1, <2>2, <2>3 DEF Linked
<1> QED BY <1>1, <1>5 DEF TodoDistinct

\* A fill is handled with the tokens the map has when it arrives.
LEMMA LinkedOnFill ==
    ASSUME TypeInv, Places, Linked, OnFill
    PROVE  TodoDistinct' /\ Linked'
<1> DEFINE f == Head(toGateway)
           m(i) == [do |-> "apply", id |-> i, meta |-> pending_orders[i], fill |-> f]
           r(i) == [do |-> "remove", id |-> i]
<1>1. Receives("Fill") /\ toGateway' = Tail(toGateway) /\ UNCHANGED <<pending_orders, loopVars>>
    BY DEF OnFill
<1>2. f \in Range(toGateway) /\ f.type = "Fill"
    BY <1>1, ReceivesType DEF Receives
<1>3. f.maker # f.taker
    BY <1>2 DEF Places, TwoOrders
<1>4. /\ todo' \in Seq(TodoStep)
      /\ \/ Len(todo') = 0
         \/ \E i \in {f.maker, f.taker} : Len(todo') = 2 /\ pending_orders[i] # Nil
                                          /\ todo'[1] = m(i) /\ todo'[2] = r(i)
         \/ /\ Len(todo') = 4 /\ pending_orders[f.maker] # Nil /\ pending_orders[f.taker] # Nil
            /\ todo'[1] = m(f.maker) /\ todo'[2] = r(f.maker)
            /\ todo'[3] = m(f.taker) /\ todo'[4] = r(f.taker)
    BY FillTodo
<1>5. \A i : m(i).do = "apply" /\ m(i).id = i /\ m(i).meta = pending_orders[i]
             /\ r(i).do = "remove" /\ r(i).id = i
    OBVIOUS
<1> HIDE DEF f, m, r
<1>6. \A k \in 1 .. Len(todo') : \E i : pending_orders[i] # Nil /\ todo'[k] \in {m(i), r(i)}
  <2>1. CASE Len(todo') = 0
      BY <2>1
  <2>2. CASE Len(todo') = 2
      BY <1>4, <2>2
  <2>3. CASE Len(todo') = 4
      BY <1>4, <2>3
  <2> QED BY <1>4, <2>1, <2>2, <2>3
<1>7. \A x \in Range(todo') : \E i : pending_orders[i] # Nil /\ x \in {m(i), r(i)}
    BY <1>4, <1>6, RangeType
<1>8. \A x \in Range(todo') :
          /\ pending_orders[x.id] # Nil
          /\ x.do = "apply" => pending_orders[x.id].token = x.meta.token
    BY <1>5, <1>7
<1>9. Linked'
    BY <1>1, <1>8 DEF Linked, loopVars
<1>10. TodoDistinct'
  <2>1. Len(todo') \in {0, 2, 4}
      BY <1>4
  <2>2. Len(todo') = 4 => todo'[1].id = f.maker /\ todo'[3].id = f.taker
      BY <1>4, <1>5
  <2>3. Len(todo') # 3
    <3>1. CASE Len(todo') = 0
        BY <3>1
    <3>2. CASE Len(todo') = 2
        BY <3>2
    <3>3. CASE Len(todo') = 4
        BY <3>3
    <3> QED BY <2>1, <3>1, <3>2, <3>3
  <2> QED BY <1>3, <2>2, <2>3 DEF TodoDistinct
<1> QED BY <1>9, <1>10

\* An answer that ends an order removes it from the map, and no step of a fill is left.
LEMMA LinkedAnswer ==
    ASSUME TypeInv, Places, Linked, OnAck \/ OnReject
    PROVE  TodoDistinct' /\ Linked'
<1> DEFINE id == Head(toGateway).order_id
<1>1. todo = <<>> /\ UNCHANGED <<handler, used>> /\ id \in Ids
    BY ReceivesType DEF OnAck, OnReject, Receives, loopVars
<1>2. pending_orders' = pending_orders \/ pending_orders' = [pending_orders EXCEPT ![id] = Nil]
    BY DEF OnAck, OnReject, RemoveRejected
<1>3. \A j \in Ids : pending_orders'[j] = pending_orders[j] \/ pending_orders'[j] = Nil
    BY <1>1, <1>2 DEF TypeInv, TypeOK
<1>4. \/ todo' = <<>>
      \/ todo' = <<[do |-> "release", token |-> pending_orders[id].token]>>
    BY <1>1 DEF OnAck, OnReject, RemoveRejected
<1>5. Len(todo') \in {0, 1} /\ \A x \in Range(todo') : x.do = "release"
    BY <1>4 DEF Range
<1>6. Linked'
  <2>1. \A c \in Conns : handler[c].at = "track" => handler[c].cmd.order.order_id \in Ids
      BY TrackingOrder
  <2> QED BY <1>1, <1>3, <1>5, <2>1 DEF Linked
<1>7. TodoDistinct'
    BY <1>5 DEF TodoDistinct
<1> QED BY <1>6, <1>7

\* When the map forgets an order, the steps that are left are about the other order.
LEMMA RemoveLast ==
    ASSUME TypeInv, TodoDistinct, todo # <<>>, todo' = Tail(todo), Head(todo).do = "remove"
    PROVE  \A x \in Range(todo') : x.do \in {"apply", "remove"} /\ x.id # Head(todo).id
<1>1. /\ Head(todo) = todo[1] /\ todo' \in Seq(TodoStep) /\ Len(todo') = Len(todo) - 1
      /\ \A k \in 1 .. Len(todo') : todo'[k] = todo[k + 1]
      /\ Len(todo) \in 1 .. 4
    BY RespondTodo
<1>2. Len(todo) = 1 \/ (Len(todo) = 3 /\ Pair(2))
    BY <1>1 DEF TypeInv, TodoShape, Pair
<1>3. ASSUME NEW k \in 1 .. Len(todo')
      PROVE  todo'[k].do \in {"apply", "remove"} /\ todo'[k].id # Head(todo).id
  <2>1. Len(todo) = 3 /\ Pair(2)
      BY <1>1, <1>2, <1>3
  <2>2. todo[1].id # todo[2].id /\ todo[3].id = todo[2].id /\ todo[2].do = "apply"
        /\ todo[3].do = "remove"
      BY <2>1 DEF Pair, TodoDistinct
  <2>3. k = 1 \/ k = 2
      BY <1>1, <1>3, <2>1
  <2>4. todo'[k] = todo[2] \/ todo'[k] = todo[3]
      BY <1>1, <1>3, <2>1, <2>3
  <2> QED BY <1>1, <2>2, <2>4
<1>4. \A x \in Range(todo') : \E k \in 1 .. Len(todo') : x = todo'[k]
    BY <1>1, RangeType
<1> QED BY <1>3, <1>4

\* What a fill's steps are about stays in the map until its own remove.
LEMMA LinkedRespond ==
    ASSUME TypeInv, Places, TodoDistinct, Linked, Respond
    PROVE  TodoDistinct' /\ Linked'
<1> DEFINE id == Head(todo).id
<1>1. todo # <<>> /\ todo' = Tail(todo) /\ UNCHANGED <<handler, used>>
    BY DEF Respond, loopVars
<1>2. /\ Head(todo) = todo[1] /\ Head(todo) \in TodoStep /\ Range(todo') \subseteq Range(todo)
      /\ Len(todo') = Len(todo) - 1
      /\ \A k \in 1 .. Len(todo') : todo'[k] = todo[k + 1]
      /\ Len(todo) \in 1 .. 4
    BY <1>1, RespondTodo
<1>3. TodoDistinct'
  <2>1. Len(todo') # 4
      BY <1>2
  <2>2. ASSUME Len(todo') = 3 PROVE todo'[1].id # todo'[2].id
    <3>1. Len(todo) = 4
      <4>1. Len(todo') = Len(todo) - 1 /\ Len(todo) \in 1 .. 4
          BY <1>2
      <4>2. Len(todo) - 1 = 3
          BY <2>2, <4>1
      <4> HIDE DEF id
      <4>3. Len(todo) \in Int
          BY <4>1
      <4> QED BY <4>2, <4>3
    <3>2. Pair(1) /\ todo[1].id # todo[3].id
        BY <3>1 DEF TypeInv, TodoShape, TodoDistinct
    <3>3. todo'[1] = todo[2] /\ todo'[2] = todo[3]
      <4>1. \A k \in 1 .. 3 : todo'[k] = todo[k + 1]
          BY <1>2, <2>2
      <4>2. todo'[1] = todo[1 + 1] /\ todo'[2] = todo[2 + 1]
          BY <4>1
      <4> QED BY <4>2
    <3> QED BY <3>2, <3>3 DEF Pair
  <2> QED BY <2>1, <2>2 DEF TodoDistinct
<1>4. CASE UNCHANGED pending_orders
    BY <1>1, <1>2, <1>3, <1>4 DEF Linked
<1>5. CASE Head(todo).do = "remove" /\ pending_orders' = [pending_orders EXCEPT ![id] = Nil]
  <2>1. \A x \in Range(todo') : x.do \in {"apply", "remove"} /\ x.id # id
      BY <1>1, <1>5, RemoveLast
  <2>2. \A x \in Range(todo') : x \in Range(todo) /\ x.id \in Ids
      BY <1>2, <2>1, TodoIds
  <2>3. id \in Ids
      BY <1>2, <1>5, StepFields DEF RemoveStep
  <2>4. /\ pending_orders'[id] = Nil
        /\ \A j \in Ids \ {id} : pending_orders'[j] = pending_orders[j]
      BY <1>5, <2>3 DEF TypeInv, TypeOK
  <2>5. \A c \in Conns : handler[c].at = "track" => handler[c].cmd.order.order_id \in Ids
      BY TrackingOrder
  <2> HIDE DEF id
  <2>6. \A c \in Conns : handler'[c].at = "track" =>
            pending_orders'[handler'[c].cmd.order.order_id] = Nil
      BY <1>1, <2>4, <2>5 DEF Linked
  <2>7. \A x \in Range(todo') :
            /\ x.do \in {"apply", "remove"} => pending_orders'[x.id] # Nil
            /\ x.do = "apply" => pending_orders'[x.id].token = x.meta.token
      BY <2>1, <2>2, <2>4 DEF Linked
  <2>8. \A i \in Ids : pending_orders'[i] # Nil => i \in used'
      BY <1>1, <2>4 DEF Linked
  <2> QED BY <1>3, <2>6, <2>7, <2>8 DEF Linked
<1> QED BY <1>4, <1>5 DEF Respond

\* Every step keeps the map, the read loops and the event being handled in agreement.
LEMMA LinkedStep == TrackInv /\ [Next]_vars => TodoDistinct' /\ Linked'
<1> SUFFICES ASSUME TrackInv, [Next]_vars PROVE TodoDistinct' /\ Linked'
    OBVIOUS
<1> USE DEF TrackInv
<1>1. ASSUME NEW c \in Conns, Authenticate(c) \/ Disconnect(c) PROVE TodoDistinct' /\ Linked'
  <2>1. UNCHANGED <<pending_orders, todo, used, handler>>
      BY <1>1 DEF Authenticate, Disconnect
  <2> QED BY <2>1, LinkedFrame
<1>2. ASSUME NEW c \in Conns, Route(c) PROVE TodoDistinct' /\ Linked'
  <2>1. UNCHANGED <<pending_orders, todo, used>> /\ handler' = [handler EXCEPT ![c] = Idle]
      BY <1>2 DEF Route
  <2>2. handler'[c].at = "idle" /\ \A d \in Conns \ {c} : handler'[d] = handler[d]
      BY <2>1, IdleType DEF TypeInv
  <2> QED BY <2>1, <2>2, LinkedFrame
<1>3. ASSUME NEW c \in Conns, ReadCommand(c) \/ HandleCommand(c) PROVE TodoDistinct' /\ Linked'
  <2>1. ASSUME NEW account \in Accounts, ReadSetRiskLimits(c, account)
        PROVE  TodoDistinct' /\ Linked'
    <3>1. /\ UNCHANGED <<pending_orders, todo, used>> /\ handler'[c].at = "route"
          /\ \A d \in Conns \ {c} : handler'[d] = handler[d]
        BY <2>1 DEF ReadSetRiskLimits, Goto, TypeInv, TypeOK
    <3> QED BY <3>1, LinkedFrame
  <2> QED BY <1>2, <1>3, <2>1, PlainSteps, LinkedReadNewOrder, LinkedReadCancel, LinkedTrackOrder
<1>4. CASE EngineReceives \/ EngineStep \/ UNCHANGED vars
  <2>1. UNCHANGED <<pending_orders, todo, used, handler>>
      BY <1>4 DEF EngineReceives, EngineStep, vars, loopVars
  <2> QED BY <2>1, LinkedFrame
<1> QED BY <1>1, <1>3, <1>4, LinkedOnFill, LinkedAnswer, LinkedRespond DEF Next, HandleResponse

\* The invariant is inductive.
LEMMA TrackInvInit == PlainCommands /\ Init => TrackInv
BY TypeInit, PlacesInit, LinkedInit DEF TrackInv

\* The invariant is inductive.
LEMMA TrackInvStep == TrackInv /\ [Next]_vars => TrackInv'
<1> SUFFICES ASSUME TrackInv, [Next]_vars PROVE TrackInv'
    OBVIOUS
<1>1. PlainCommands' = PlainCommands
    BY DEF PlainCommands
<1>2. TypeInv'
    BY TypeStep DEF TrackInv
<1>3. Places'
    BY PlacesStep DEF TrackInv
<1>4. TodoDistinct' /\ Linked'
    BY LinkedStep
<1> QED BY <1>1, <1>2, <1>3, <1>4 DEF TrackInv

-----------------------------------------------------------------------------
(* What the reservations add up to *)

\* What one order of the shared map, and one read loop, hold of an account's money.
OrderWeight(i, a) ==
    IF pending_orders[i] = Nil \/ i \in Applied THEN 0 ELSE AmountOf(pending_orders[i].token, a)
LoopWeight(c, a) == IF handler[c].at # "track" THEN 0 ELSE AmountOf(handler[c].token, a)

\* An amount is a number.
LEMMA AmountType ==
    ASSUME NEW t \in ReservationToken, NEW a
    PROVE  AmountOf(t, a) \in Nat
BY DEF ReservationToken, AmountOf

\* The first step that is left.
LEMMA TodoHead ==
    TypeInv => /\ todo # <<>> <=> Len(todo) # 0
               /\ Len(todo) \in 0 .. 4
               /\ todo # <<>> => Head(todo) = todo[1] /\ Head(todo) \in TodoStep
<1> SUFFICES ASSUME TypeInv
             PROVE  /\ todo # <<>> <=> Len(todo) # 0
                    /\ Len(todo) \in 0 .. 4
                    /\ todo # <<>> => Head(todo) = todo[1] /\ Head(todo) \in TodoStep
    OBVIOUS
<1>1. todo \in Seq(TodoStep) /\ Len(todo) <= 4
    BY DEF TypeInv, QueueTypes, TodoStep, TypeOK
<1>2. Len(todo) \in Nat /\ (todo # <<>> <=> Len(todo) # 0)
    BY <1>1
<1>3. Len(todo) \in 0 .. 4
  <2>1. Len(todo) \in Nat /\ Len(todo) <= 4
      BY <1>1, <1>2
  <2>2. \A n \in Nat : n <= 4 => n \in 0 .. 4
      OBVIOUS
  <2> QED BY <2>1, <2>2
<1>4. todo # <<>> => Head(todo) = todo[1] /\ Head(todo) \in TodoStep
    BY <1>1
<1> QED BY <1>2, <1>3, <1>4

\* The sums are sums of these weights, and all of them are numbers.
WeightFacts ==
    \A a \in Accounts :
        /\ \A i \in Ids : OrderWeight(i, a) \in Nat
        /\ \A c \in Conns : LoopWeight(c, a) \in Nat
        /\ PendingAmount(a) \in Nat /\ HeldAmount(a) \in Nat /\ ReleasingAmount(a) \in Nat
        /\ PendingAmount(a) = SumFunction([i \in Ids |-> OrderWeight(i, a)])
        /\ HeldAmount(a) = SumFunction([c \in Conns |-> LoopWeight(c, a)])

\* They are, whenever the types are right.
LEMMA Weights == TypeInv => WeightFacts
<1> SUFFICES ASSUME TypeInv, NEW a \in Accounts
             PROVE  /\ \A i \in Ids : OrderWeight(i, a) \in Nat
                    /\ \A c \in Conns : LoopWeight(c, a) \in Nat
                    /\ PendingAmount(a) \in Nat /\ HeldAmount(a) \in Nat
                    /\ ReleasingAmount(a) \in Nat
                    /\ PendingAmount(a) = SumFunction([i \in Ids |-> OrderWeight(i, a)])
                    /\ HeldAmount(a) = SumFunction([c \in Conns |-> LoopWeight(c, a)])
    BY DEF WeightFacts
<1> DEFINE pw == [i \in Ids |-> OrderWeight(i, a)]
           hw == [c \in Conns |-> LoopWeight(c, a)]
<1>1. \A i \in Ids : OrderWeight(i, a) \in Nat
  <2> SUFFICES ASSUME NEW i \in Ids PROVE OrderWeight(i, a) \in Nat
      OBVIOUS
  <2>1. CASE pending_orders[i] = Nil
      BY <2>1 DEF OrderWeight
  <2>2. CASE pending_orders[i] # Nil
    <3>1. pending_orders[i] \in OrderMetadata
        BY <2>2 DEF TypeInv, TypeOK
    <3>2. AmountOf(pending_orders[i].token, a) \in Nat
        BY <3>1, AmountType DEF OrderMetadata
    <3> QED BY <3>2 DEF OrderWeight
  <2> QED BY <2>1, <2>2
<1>2. \A c \in Conns : LoopWeight(c, a) \in Nat
  <2> SUFFICES ASSUME NEW c \in Conns PROVE LoopWeight(c, a) \in Nat
      OBVIOUS
  <2>1. handler[c].at = "track" => handler[c].token \in ReservationToken
      BY DEF TypeInv, LoopShape
  <2>2. handler[c].at = "track" => AmountOf(handler[c].token, a) \in Nat
      BY <2>1, AmountType
  <2> QED BY <2>2 DEF LoopWeight
<1>3. ReleasingAmount(a) \in Nat
  <2>1. CASE todo # <<>> /\ Head(todo).do = "release"
    <3>1. Head(todo).token \in ReservationToken
        BY <2>1, TodoHead, StepFields DEF ReleaseStep
    <3>2. AmountOf(Head(todo).token, a) \in Nat
        BY <3>1, AmountType
    <3> QED BY <3>2 DEF ReleasingAmount
  <2>2. CASE ~(todo # <<>> /\ Head(todo).do = "release")
      BY <2>2 DEF ReleasingAmount
  <2> QED BY <2>1, <2>2
<1>4. pw \in [Ids -> Nat] /\ hw \in [Conns -> Nat]
    BY <1>1, <1>2
<1>5. PendingAmount(a) = SumFunction(pw)
    BY DEF PendingAmount, OrderWeight
<1>6. HeldAmount(a) = SumFunction(hw)
    BY DEF HeldAmount, LoopWeight
<1>7. IsFiniteSet(Ids) /\ IsFiniteSet(Conns)
    BY GatewayAssumption
<1> HIDE DEF pw, hw
<1>8. SumFunction(pw) \in Nat
    BY <1>4, <1>7, SumAtLeast
<1>9. SumFunction(hw) \in Nat
    BY <1>4, <1>7, SumAtLeast
<1> QED BY <1>1, <1>2, <1>3, <1>5, <1>6, <1>8, <1>9 DEF pw, hw

\* And in the next state.
LEMMA WeightsNext ==
    ASSUME TypeInv'
    PROVE  WeightFacts'
<1>1. (TypeInv => WeightFacts)'
    BY Weights, PTL
<1> QED BY <1>1

\* One order's weight changes.
LEMMA PendingChange ==
    ASSUME TypeInv, TypeInv', NEW a \in Accounts, NEW i \in Ids,
           \A j \in Ids \ {i} : OrderWeight(j, a)' = OrderWeight(j, a)
    PROVE  PendingAmount(a)' = PendingAmount(a) + (OrderWeight(i, a)' - OrderWeight(i, a))
<1> DEFINE w == [j \in Ids |-> OrderWeight(j, a)]
           v == [j \in Ids |-> OrderWeight(j, a)']
<1>1. /\ \A j \in Ids : OrderWeight(j, a) \in Nat
      /\ PendingAmount(a) = SumFunction(w)
    BY Weights DEF WeightFacts
<1>2. /\ \A j \in Ids : OrderWeight(j, a)' \in Nat
      /\ PendingAmount(a)' = SumFunction(v)
    BY WeightsNext DEF WeightFacts
<1>3. w \in [Ids -> Int] /\ v \in [Ids -> Int] /\ \A j \in Ids \ {i} : v[j] = w[j]
    BY <1>1, <1>2
<1>4. IsFiniteSet(Ids)
    BY GatewayAssumption
<1>5. v[i] = OrderWeight(i, a)' /\ w[i] = OrderWeight(i, a)
    OBVIOUS
<1> HIDE DEF w, v
<1>6. SumFunction(v) = SumFunction(w) + (v[i] - w[i])
    BY <1>3, <1>4, SumUpdate
<1> QED BY <1>1, <1>2, <1>5, <1>6

\* No order's weight changes.
LEMMA PendingSame ==
    ASSUME TypeInv, TypeInv', NEW a \in Accounts,
           \A j \in Ids : OrderWeight(j, a)' = OrderWeight(j, a)
    PROVE  PendingAmount(a)' = PendingAmount(a)
<1>1. PendingAmount(a) = SumFunction([j \in Ids |-> OrderWeight(j, a)])
    BY Weights DEF WeightFacts
<1>2. PendingAmount(a)' = SumFunction([j \in Ids |-> OrderWeight(j, a)'])
    BY WeightsNext DEF WeightFacts
<1>3. [j \in Ids |-> OrderWeight(j, a)'] = [j \in Ids |-> OrderWeight(j, a)]
    OBVIOUS
<1> QED BY <1>1, <1>2, <1>3

\* One read loop's weight changes.
LEMMA HeldChange ==
    ASSUME TypeInv, TypeInv', NEW a \in Accounts, NEW c \in Conns,
           \A d \in Conns \ {c} : LoopWeight(d, a)' = LoopWeight(d, a)
    PROVE  HeldAmount(a)' = HeldAmount(a) + (LoopWeight(c, a)' - LoopWeight(c, a))
<1> DEFINE w == [d \in Conns |-> LoopWeight(d, a)]
           v == [d \in Conns |-> LoopWeight(d, a)']
<1>1. /\ \A d \in Conns : LoopWeight(d, a) \in Nat
      /\ HeldAmount(a) = SumFunction(w)
    BY Weights DEF WeightFacts
<1>2. /\ \A d \in Conns : LoopWeight(d, a)' \in Nat
      /\ HeldAmount(a)' = SumFunction(v)
    BY WeightsNext DEF WeightFacts
<1>3. w \in [Conns -> Int] /\ v \in [Conns -> Int] /\ \A d \in Conns \ {c} : v[d] = w[d]
    BY <1>1, <1>2
<1>4. IsFiniteSet(Conns)
    BY GatewayAssumption
<1>5. v[c] = LoopWeight(c, a)' /\ w[c] = LoopWeight(c, a)
    OBVIOUS
<1> HIDE DEF w, v
<1>6. SumFunction(v) = SumFunction(w) + (v[c] - w[c])
    BY <1>3, <1>4, SumUpdate
<1> QED BY <1>1, <1>2, <1>5, <1>6

\* No read loop's weight changes.
LEMMA HeldSame ==
    ASSUME TypeInv, TypeInv', NEW a \in Accounts,
           \A d \in Conns : LoopWeight(d, a)' = LoopWeight(d, a)
    PROVE  HeldAmount(a)' = HeldAmount(a)
<1>1. HeldAmount(a) = SumFunction([d \in Conns |-> LoopWeight(d, a)])
    BY Weights DEF WeightFacts
<1>2. HeldAmount(a)' = SumFunction([d \in Conns |-> LoopWeight(d, a)'])
    BY WeightsNext DEF WeightFacts
<1>3. [d \in Conns |-> LoopWeight(d, a)'] = [d \in Conns |-> LoopWeight(d, a)]
    OBVIOUS
<1> QED BY <1>1, <1>2, <1>3

\* The step a handled event takes moves the mark between a fill's two steps for an order,
\* and the reject's token out of the sum.
LEMMA RespondNext ==
    ASSUME TypeInv, TypeInv', Respond
    PROVE  \/ /\ Head(todo).do = "apply"
              /\ Applied = {} /\ Applied' = {Head(todo).id}
              /\ \A a \in Accounts : ReleasingAmount(a) = 0 /\ ReleasingAmount(a)' = 0
           \/ /\ Head(todo).do = "remove"
              /\ Applied = {Head(todo).id} /\ Applied' = {}
              /\ \A a \in Accounts : ReleasingAmount(a) = 0 /\ ReleasingAmount(a)' = 0
           \/ /\ Head(todo).do = "release"
              /\ Applied = {} /\ Applied' = {}
              /\ \A a \in Accounts : /\ ReleasingAmount(a) = AmountOf(Head(todo).token, a)
                                     /\ ReleasingAmount(a)' = 0
<1>1. todo # <<>> /\ todo' = Tail(todo)
    BY DEF Respond
<1>2. /\ Head(todo) = todo[1] /\ Head(todo) \in TodoStep
      /\ Len(todo') = Len(todo) - 1 /\ Len(todo) \in 1 .. 4
    BY <1>1, RespondTodo
<1>3. \A k \in 1 .. Len(todo') : todo'[k] = todo[k + 1]
    BY <1>1, RespondTodo
<1>4. /\ todo' # <<>> <=> Len(todo') # 0
      /\ todo' # <<>> => Head(todo') = todo'[1]
  <2>1. (TypeInv => /\ todo # <<>> <=> Len(todo) # 0
                    /\ Len(todo) \in 0 .. 4
                    /\ todo # <<>> => Head(todo) = todo[1] /\ Head(todo) \in TodoStep)'
      BY TodoHead, PTL
  <2> QED BY <2>1
<1>5. TodoShape
    BY DEF TypeInv
<1>6. CASE Head(todo).do = "apply"
  <2>1. (Len(todo) = 2 \/ Len(todo) = 4) /\ Pair(1)
      BY <1>2, <1>5, <1>6 DEF TodoShape
  <2>2. Len(todo') = 1 \/ Len(todo') = 3
      BY <1>2, <2>1
  <2>3. todo' # <<>> /\ Head(todo') = todo[2]
    <3>1. 1 \in 1 .. Len(todo') /\ Len(todo') # 0
        BY <2>2
    <3>2. todo'[1] = todo[1 + 1]
        BY <1>3, <3>1
    <3> QED BY <1>4, <3>1, <3>2
  <2>4. Head(todo').do = "remove" /\ Head(todo').id = Head(todo).id
      BY <1>2, <2>1, <2>3 DEF Pair
  <2>5. Applied = {} /\ Applied' = {Head(todo).id}
      BY <1>6, <2>3, <2>4 DEF Applied
  <2>6. \A a \in Accounts : ReleasingAmount(a) = 0 /\ ReleasingAmount(a)' = 0
      BY <1>6, <2>4 DEF ReleasingAmount
  <2> QED BY <1>6, <2>5, <2>6
<1>7. CASE Head(todo).do = "remove"
  <2>1. Len(todo) = 1 \/ (Len(todo) = 3 /\ Pair(2))
      BY <1>2, <1>5, <1>7 DEF TodoShape, Pair
  <2>2. todo' = <<>> \/ Head(todo').do = "apply"
    <3>1. CASE Len(todo) = 1
        BY <1>2, <1>4, <3>1
    <3>2. CASE Len(todo) = 3 /\ Pair(2)
      <4>1. Len(todo') = 2
          BY <1>2, <3>2
      <4>2. todo'[1] = todo[1 + 1]
          BY <1>3, <4>1
      <4> QED BY <1>4, <3>2, <4>1, <4>2 DEF Pair
    <3> QED BY <2>1, <3>1, <3>2
  <2>3. Applied = {Head(todo).id} /\ Applied' = {}
      BY <1>1, <1>7, <2>2 DEF Applied
  <2>4. \A a \in Accounts : ReleasingAmount(a) = 0 /\ ReleasingAmount(a)' = 0
      BY <1>7, <2>2 DEF ReleasingAmount
  <2> QED BY <1>7, <2>3, <2>4
<1>8. CASE Head(todo).do = "release"
  <2>1. Len(todo) = 1
      BY <1>2, <1>5, <1>8 DEF TodoShape, Pair
  <2>2. todo' = <<>>
      BY <1>2, <1>4, <2>1
  <2>3. Applied = {} /\ Applied' = {}
      BY <1>8, <2>2 DEF Applied
  <2>4. \A a \in Accounts : /\ ReleasingAmount(a) = AmountOf(Head(todo).token, a)
                            /\ ReleasingAmount(a)' = 0
      BY <1>1, <1>8, <2>2 DEF ReleasingAmount
  <2> QED BY <1>8, <2>3, <2>4
<1> QED BY <1>2, <1>6, <1>7, <1>8, StepFields

\* Steps that hold and release nothing.
LEMMA TrackedFrame ==
    ASSUME TypeInv, TypeInv', ReservationsTracked,
           UNCHANGED <<tentative_reserved, pending_orders, todo>>,
           \A c \in Conns : \/ handler'[c] = handler[c]
                            \/ handler[c].at # "track" /\ handler'[c].at # "track"
    PROVE  ReservationsTracked'
<1> SUFFICES ASSUME NEW a \in Accounts
             PROVE  tentative_reserved'[a] = PendingAmount(a)' + HeldAmount(a)' + ReleasingAmount(a)'
    BY DEF ReservationsTracked
<1>1. Applied' = Applied /\ ReleasingAmount(a)' = ReleasingAmount(a)
    BY DEF Applied, ReleasingAmount
<1>2. \A i \in Ids : OrderWeight(i, a)' = OrderWeight(i, a)
    BY <1>1 DEF OrderWeight
<1>3. \A c \in Conns : LoopWeight(c, a)' = LoopWeight(c, a)
    BY DEF LoopWeight
<1>4. PendingAmount(a)' = PendingAmount(a)
    BY <1>2, PendingSame
<1>5. HeldAmount(a)' = HeldAmount(a)
    BY <1>3, HeldSame
<1> QED BY <1>1, <1>4, <1>5 DEF ReservationsTracked

\* What a new order reserves, its read loop holds.
LEMMA TrackedReadNewOrder ==
    ASSUME TypeInv, TypeInv', ReservationsTracked, NEW c \in Conns, NEW no \in NewOrders,
           ReadNewOrder(c, no)
    PROVE  ReservationsTracked'
<1>1. /\ handler[c] = Idle /\ UNCHANGED <<pending_orders, todo>>
      /\ handler[c].at = "idle"
    BY DEF ReadNewOrder, Reads, Idle
<1>2. CASE UNCHANGED <<tentative_reserved, handler>>
    BY <1>1, <1>2, TrackedFrame
<1>3. ASSUME Reserve(no.account_id, Required(no)),
             Goto(c, "track", [type |-> "NewOrder", order |-> no],
                  [account_id |-> no.account_id, amount |-> Required(no)]),
             NEW a \in Accounts
      PROVE  tentative_reserved'[a] = PendingAmount(a)' + HeldAmount(a)' + ReleasingAmount(a)'
  <2> DEFINE t == [account_id |-> no.account_id, amount |-> Required(no)]
  <2>1. no.account_id \in Accounts /\ Required(no) \in Nat
      BY ConstantTypes, OrderFields
  <2>2. /\ handler'[c].at = "track" /\ handler'[c].token = t
        /\ \A d \in Conns \ {c} : handler'[d] = handler[d]
      BY <1>3 DEF Goto, TypeInv, TypeOK
  <2>3. tentative_reserved'[a] = tentative_reserved[a] + AmountOf(t, a)
    <3>1. /\ tentative_reserved'[no.account_id] = tentative_reserved[no.account_id] + Required(no)
          /\ \A b \in Accounts \ {no.account_id} : tentative_reserved'[b] = tentative_reserved[b]
        BY <1>3, <2>1, ReserveType DEF TypeInv
    <3>2. tentative_reserved[a] \in Int
        BY DEF TypeInv, TypeOK
    <3> QED BY <2>1, <3>1, <3>2 DEF AmountOf
  <2>4. LoopWeight(c, a) = 0 /\ LoopWeight(c, a)' = AmountOf(t, a)
      BY <1>1, <2>2 DEF LoopWeight
  <2>5. \A d \in Conns \ {c} : LoopWeight(d, a)' = LoopWeight(d, a)
      BY <2>2 DEF LoopWeight
  <2> HIDE DEF t
  <2>6. HeldAmount(a)' = HeldAmount(a) + (LoopWeight(c, a)' - LoopWeight(c, a))
      BY <2>5, HeldChange
  <2>7. Applied' = Applied /\ ReleasingAmount(a)' = ReleasingAmount(a)
      BY <1>1 DEF Applied, ReleasingAmount
  <2>8. \A i \in Ids : OrderWeight(i, a)' = OrderWeight(i, a)
      BY <1>1, <2>7 DEF OrderWeight
  <2>9. PendingAmount(a)' = PendingAmount(a)
      BY <2>8, PendingSame
  <2>10. /\ PendingAmount(a) \in Nat /\ HeldAmount(a) \in Nat /\ ReleasingAmount(a) \in Nat
         /\ LoopWeight(c, a)' \in Nat
      BY Weights, WeightsNext DEF WeightFacts
  <2>11. tentative_reserved[a] = PendingAmount(a) + HeldAmount(a) + ReleasingAmount(a)
      BY DEF ReservationsTracked
  <2> QED BY <2>3, <2>4, <2>6, <2>7, <2>9, <2>10, <2>11
<1> QED BY <1>2, <1>3 DEF ReadNewOrder, ReservationsTracked

\* Marking an order changes no weight.
LEMMA TrackedReadCancel ==
    ASSUME TrackInv, TypeInv', ReservationsTracked, NEW c \in Conns, NEW i \in Ids, NEW account \in Accounts,
           ReadCancel(c, i, account)
    PROVE  ReservationsTracked'
<1> USE DEF TrackInv
<1> SUFFICES ASSUME NEW a \in Accounts
             PROVE  tentative_reserved'[a] = PendingAmount(a)' + HeldAmount(a)' + ReleasingAmount(a)'
    BY DEF ReservationsTracked
<1>1. /\ handler[c].at = "idle" /\ handler'[c].at = "route"
      /\ \A d \in Conns \ {c} : handler'[d] = handler[d]
      /\ UNCHANGED <<tentative_reserved, todo>>
    BY DEF ReadCancel, Reads, Idle, Goto, accountVars, TypeInv, TypeOK
<1>2. \A j \in Ids : /\ pending_orders'[j] = Nil <=> pending_orders[j] = Nil
                     /\ pending_orders[j] # Nil => pending_orders'[j].token = pending_orders[j].token
    BY LinkedReadCancel
<1>3. Applied' = Applied /\ ReleasingAmount(a)' = ReleasingAmount(a)
    BY <1>1 DEF Applied, ReleasingAmount
<1>4. \A j \in Ids : OrderWeight(j, a)' = OrderWeight(j, a)
    BY <1>2, <1>3 DEF OrderWeight
<1>5. \A d \in Conns : LoopWeight(d, a)' = LoopWeight(d, a)
    BY <1>1 DEF LoopWeight
<1>6. PendingAmount(a)' = PendingAmount(a)
    BY <1>4, PendingSame
<1>7. HeldAmount(a)' = HeldAmount(a)
    BY <1>5, HeldSame
<1> QED BY <1>1, <1>3, <1>6, <1>7 DEF ReservationsTracked

\* No step of a fill is left for an order that is not in the map.
LEMMA AppliedKnown ==
    ASSUME TypeInv, Linked
    PROVE  \A i \in Applied : i \in Ids /\ pending_orders[i] # Nil
<1>1. CASE todo # <<>> /\ Head(todo).do = "remove"
  <2>1. Head(todo) \in Range(todo)
      BY <1>1, RangeTail DEF TypeInv, QueueTypes
  <2>2. Head(todo).id \in Ids /\ pending_orders[Head(todo).id] # Nil
      BY <1>1, <2>1, TodoIds DEF Linked
  <2> QED BY <2>2 DEF Applied
<1>2. CASE ~(todo # <<>> /\ Head(todo).do = "remove")
    BY <1>2 DEF Applied
<1> QED BY <1>1, <1>2

\* The token goes from the read loop to the map.
LEMMA TrackedTrackOrder ==
    ASSUME TrackInv, TypeInv', ReservationsTracked, NEW c \in Conns, TrackOrder(c)
    PROVE  ReservationsTracked'
<1> USE DEF TrackInv
<1> SUFFICES ASSUME NEW a \in Accounts
             PROVE  tentative_reserved'[a] = PendingAmount(a)' + HeldAmount(a)' + ReleasingAmount(a)'
    BY DEF ReservationsTracked
<1> DEFINE h == handler[c]
           id == h.cmd.order.order_id
<1>1. /\ id \in Ids /\ h.at = "track"
      /\ pending_orders[id] = Nil /\ pending_orders'[id] # Nil
      /\ \A j \in Ids \ {id} : pending_orders'[j] = pending_orders[j]
    BY TrackOrderShape, Zenon
<1>2. pending_orders'[id] = [token |-> h.token, side |-> h.cmd.order.side, operation |-> "Active"]
    BY TrackOrderShape, Zenon
<1>3. handler'[c] = [at |-> "route", cmd |-> h.cmd, token |-> h.token]
    BY TrackOrderShape, Zenon
<1>4. \A d \in Conns \ {c} : handler'[d] = handler[d]
    BY TrackOrderShape, Zenon
<1>5. UNCHANGED <<tentative_reserved, todo>>
    BY DEF TrackOrder, accountVars
<1>6. pending_orders'[id].token = h.token /\ handler'[c].at = "route"
    BY <1>2, <1>3
<1>7. Applied' = Applied /\ ReleasingAmount(a)' = ReleasingAmount(a)
    BY <1>5 DEF Applied, ReleasingAmount
<1>8. id \notin Applied
    BY <1>1, AppliedKnown
<1> HIDE DEF id
<1>9. PICK i \in Ids : i = id
    BY <1>1
<1>10. \A j \in Ids \ {i} : OrderWeight(j, a)' = OrderWeight(j, a)
    BY <1>1, <1>7, <1>9 DEF OrderWeight
<1>11. OrderWeight(i, a) = 0 /\ OrderWeight(i, a)' = AmountOf(h.token, a)
    BY <1>1, <1>6, <1>7, <1>8, <1>9 DEF OrderWeight, AmountOf
<1>12. LoopWeight(c, a) = AmountOf(h.token, a) /\ LoopWeight(c, a)' = 0
    BY <1>1, <1>6 DEF LoopWeight
<1>13. \A d \in Conns \ {c} : LoopWeight(d, a)' = LoopWeight(d, a)
    BY <1>4 DEF LoopWeight
<1>14. PendingAmount(a)' = PendingAmount(a) + (OrderWeight(i, a)' - OrderWeight(i, a))
    BY <1>10, PendingChange
<1>15. HeldAmount(a)' = HeldAmount(a) + (LoopWeight(c, a)' - LoopWeight(c, a))
    BY <1>13, HeldChange
<1>16. /\ PendingAmount(a) \in Nat /\ HeldAmount(a) \in Nat /\ ReleasingAmount(a) \in Nat
       /\ LoopWeight(c, a) \in Nat
    BY Weights DEF WeightFacts
<1>17. tentative_reserved[a] = PendingAmount(a) + HeldAmount(a) + ReleasingAmount(a)
    BY DEF ReservationsTracked
<1> HIDE DEF h
<1> QED BY <1>5, <1>7, <1>11, <1>12, <1>14, <1>15, <1>16, <1>17

\* Nothing is marked or to be released when an answer is taken, nor after a fill or an ack.
LEMMA AnswerMarks ==
    ASSUME TypeInv, TypeInv', OnFill \/ OnAck \/ OnReject
    PROVE  /\ Applied = {} /\ Applied' = {}
           /\ \A a \in Accounts : /\ ReleasingAmount(a) = 0
                                  /\ OnFill \/ OnAck => ReleasingAmount(a)' = 0
<1>1. todo = <<>>
    BY DEF OnFill, OnAck, OnReject, Receives
<1>2. /\ todo' # <<>> <=> Len(todo') # 0
      /\ todo' # <<>> => Head(todo') = todo'[1]
  <2>1. (TypeInv => /\ todo # <<>> <=> Len(todo) # 0
                    /\ Len(todo) \in 0 .. 4
                    /\ todo # <<>> => Head(todo) = todo[1] /\ Head(todo) \in TodoStep)'
      BY TodoHead, PTL
  <2> QED BY <2>1
<1>3. ASSUME OnFill PROVE todo' = <<>> \/ Head(todo').do = "apply"
  <2>1. Len(todo') = 0 \/ todo'[1].do = "apply"
      BY <1>3, FillTodo
  <2> QED BY <1>2, <2>1
<1>4. ASSUME OnAck PROVE todo' = <<>>
    BY <1>1, <1>4 DEF OnAck
<1>5. ASSUME OnReject PROVE todo' = <<>> \/ Head(todo').do = "release"
  <2>1. todo' = <<>> \/ todo'[1].do = "release"
      BY <1>5 DEF OnReject, RemoveRejected
  <2> QED BY <1>2, <2>1
<1>6. Applied' = {}
    BY <1>3, <1>4, <1>5 DEF Applied
<1>7. \A a \in Accounts : OnFill \/ OnAck => ReleasingAmount(a)' = 0
    BY <1>3, <1>4 DEF ReleasingAmount
<1>8. Applied = {} /\ \A a \in Accounts : ReleasingAmount(a) = 0
    BY <1>1 DEF Applied, ReleasingAmount
<1> QED BY <1>6, <1>7, <1>8

\* Starting on a fill changes no weight.
LEMMA TrackedOnFill ==
    ASSUME TypeInv, TypeInv', ReservationsTracked, OnFill
    PROVE  ReservationsTracked'
<1> SUFFICES ASSUME NEW a \in Accounts
             PROVE  tentative_reserved'[a] = PendingAmount(a)' + HeldAmount(a)' + ReleasingAmount(a)'
    BY DEF ReservationsTracked
<1>1. UNCHANGED <<tentative_reserved, pending_orders, handler>>
    BY DEF OnFill, accountVars, loopVars
<1>2. Applied' = Applied /\ ReleasingAmount(a) = 0 /\ ReleasingAmount(a)' = 0
    BY AnswerMarks
<1>3. \A j \in Ids : OrderWeight(j, a)' = OrderWeight(j, a)
    BY <1>1, <1>2 DEF OrderWeight
<1>4. \A d \in Conns : LoopWeight(d, a)' = LoopWeight(d, a)
    BY <1>1 DEF LoopWeight
<1>5. PendingAmount(a)' = PendingAmount(a)
    BY <1>3, PendingSame
<1>6. HeldAmount(a)' = HeldAmount(a)
    BY <1>4, HeldSame
<1> QED BY <1>1, <1>2, <1>5, <1>6 DEF ReservationsTracked

\* Releasing a token.
LEMMA ReleaseAmount ==
    ASSUME TypeInv, NEW t \in ReservationToken, ReleaseReservation(t), NEW a \in Accounts
    PROVE  tentative_reserved'[a] = tentative_reserved[a] - AmountOf(t, a)
<1>1. t.account_id \in Accounts /\ t.amount \in Nat /\ -t.amount \in Int
    BY TokenFields
<1>2. /\ tentative_reserved'[t.account_id] = tentative_reserved[t.account_id] + (-t.amount)
      /\ \A b \in Accounts \ {t.account_id} : tentative_reserved'[b] = tentative_reserved[b]
    BY <1>1, ReserveType DEF TypeInv, ReleaseReservation
<1>3. \A b \in Accounts : tentative_reserved[b] \in Int
    BY DEF TypeInv, TypeOK
<1> QED BY <1>1, <1>2, <1>3 DEF AmountOf

\* The order the map forgets takes its weight along.
LEMMA ForgetOrder ==
    ASSUME TypeInv, TypeInv', NEW a \in Accounts, NEW id \in Ids,
           pending_orders' = [pending_orders EXCEPT ![id] = Nil],
           Applied \subseteq {id}, Applied' = {}
    PROVE  PendingAmount(a)' = PendingAmount(a) - OrderWeight(id, a)
<1>1. /\ pending_orders'[id] = Nil
      /\ \A j \in Ids \ {id} : pending_orders'[j] = pending_orders[j]
    BY DEF TypeInv, TypeOK
<1>2. \A j \in Ids \ {id} : OrderWeight(j, a)' = OrderWeight(j, a)
    BY <1>1 DEF OrderWeight
<1>3. OrderWeight(id, a)' = 0
    BY <1>1 DEF OrderWeight
<1>4. PendingAmount(a)' = PendingAmount(a) + (OrderWeight(id, a)' - OrderWeight(id, a))
    BY <1>2, PendingChange
<1>5. PendingAmount(a) \in Nat /\ OrderWeight(id, a) \in Nat
    BY Weights DEF WeightFacts
<1> QED BY <1>3, <1>4, <1>5

\* An ack that ends an order releases what the map held for it.
LEMMA TrackedOnAck ==
    ASSUME TypeInv, TypeInv', ReservationsTracked, OnAck
    PROVE  ReservationsTracked'
<1> DEFINE id == Head(toGateway).order_id
<1>1. UNCHANGED <<handler, todo>> /\ id \in Ids
    BY ReceivesType DEF OnAck, loopVars
<1>2. CASE UNCHANGED <<tentative_reserved, pending_orders>>
    BY <1>1, <1>2, TrackedFrame
<1>3. ASSUME IsCancelAck(id), ReleaseReservation(pending_orders[id].token),
             pending_orders' = [pending_orders EXCEPT ![id] = Nil], NEW a \in Accounts
      PROVE  tentative_reserved'[a] = PendingAmount(a)' + HeldAmount(a)' + ReleasingAmount(a)'
  <2> DEFINE t == pending_orders[id].token
  <2>1. pending_orders[id] # Nil /\ pending_orders[id] \in OrderMetadata
      BY <1>1, <1>3 DEF IsCancelAck, TypeInv, TypeOK
  <2>2. t \in ReservationToken
      BY <2>1 DEF OrderMetadata
  <2>3. tentative_reserved'[a] = tentative_reserved[a] - AmountOf(t, a)
      BY <1>3, <2>2, ReleaseAmount
  <2>4. Applied = {} /\ Applied' = {} /\ ReleasingAmount(a) = 0 /\ ReleasingAmount(a)' = 0
      BY AnswerMarks
  <2>5. OrderWeight(id, a) = AmountOf(t, a)
      BY <2>1, <2>4 DEF OrderWeight
  <2>6. PendingAmount(a)' = PendingAmount(a) - OrderWeight(id, a)
      BY <1>1, <1>3, <2>4, ForgetOrder
  <2>7. \A d \in Conns : LoopWeight(d, a)' = LoopWeight(d, a)
      BY <1>1 DEF LoopWeight
  <2>8. HeldAmount(a)' = HeldAmount(a)
      BY <2>7, HeldSame
  <2>9. PendingAmount(a) \in Nat /\ HeldAmount(a) \in Nat /\ OrderWeight(id, a) \in Nat
      BY <1>1, Weights DEF WeightFacts
  <2>10. tentative_reserved[a] = PendingAmount(a) + HeldAmount(a) + ReleasingAmount(a)
      BY DEF ReservationsTracked
  <2> HIDE DEF t, id
  <2> QED BY <2>3, <2>4, <2>5, <2>6, <2>8, <2>9, <2>10
<1> QED BY <1>2, <1>3 DEF OnAck, ReservationsTracked

\* A reject takes the token out of the map; it is still counted until it is released.
LEMMA TrackedOnReject ==
    ASSUME TypeInv, TypeInv', ReservationsTracked, OnReject
    PROVE  ReservationsTracked'
<1> SUFFICES ASSUME NEW a \in Accounts
             PROVE  tentative_reserved'[a] = PendingAmount(a)' + HeldAmount(a)' + ReleasingAmount(a)'
    BY DEF ReservationsTracked
<1> DEFINE id == Head(toGateway).order_id
<1>1. UNCHANGED <<handler, tentative_reserved>> /\ id \in Ids
    BY ReceivesType DEF OnReject, loopVars, accountVars
<1>2. Applied = {} /\ Applied' = {} /\ ReleasingAmount(a) = 0
    BY AnswerMarks
<1>3. /\ todo' = IF pending_orders[id] = Nil THEN <<>>
                 ELSE <<[do |-> "release", token |-> pending_orders[id].token]>>
      /\ pending_orders' = [pending_orders EXCEPT ![id] = Nil]
    BY DEF OnReject, RemoveRejected
<1>4. PendingAmount(a)' = PendingAmount(a) - OrderWeight(id, a)
    BY <1>1, <1>2, <1>3, ForgetOrder
<1>5. ReleasingAmount(a)' = OrderWeight(id, a)
  <2>1. CASE pending_orders[id] = Nil
      BY <1>3, <2>1 DEF ReleasingAmount, OrderWeight
  <2>2. CASE pending_orders[id] # Nil
    <3>1. todo' = <<[do |-> "release", token |-> pending_orders[id].token]>>
        BY <1>3, <2>2
    <3>2. todo' # <<>> /\ Head(todo') = [do |-> "release", token |-> pending_orders[id].token]
        BY <3>1
    <3>3. Head(todo').do = "release" /\ Head(todo').token = pending_orders[id].token
        BY <3>2
    <3>4. ReleasingAmount(a)' = AmountOf(pending_orders[id].token, a)
        BY <3>2, <3>3 DEF ReleasingAmount, AmountOf
    <3> QED BY <1>2, <2>2, <3>4 DEF OrderWeight
  <2> QED BY <2>1, <2>2
<1>6. \A d \in Conns : LoopWeight(d, a)' = LoopWeight(d, a)
    BY <1>1 DEF LoopWeight
<1>7. HeldAmount(a)' = HeldAmount(a)
    BY <1>6, HeldSame
<1>8. PendingAmount(a) \in Nat /\ HeldAmount(a) \in Nat /\ OrderWeight(id, a) \in Nat
    BY <1>1, Weights DEF WeightFacts
<1>9. tentative_reserved[a] = PendingAmount(a) + HeldAmount(a) + ReleasingAmount(a)
    BY DEF ReservationsTracked
<1> HIDE DEF id
<1> QED BY <1>1, <1>2, <1>4, <1>5, <1>7, <1>8, <1>9

\* The steps of an event: a fill releases the token the map has for the order, which then
\* counts for nothing until it is removed; a reject's token goes.
LEMMA TrackedRespond ==
    ASSUME TrackInv, TypeInv', ReservationsTracked, Respond
    PROVE  ReservationsTracked'
<1> USE DEF TrackInv
<1> SUFFICES ASSUME NEW a \in Accounts
             PROVE  tentative_reserved'[a] = PendingAmount(a)' + HeldAmount(a)' + ReleasingAmount(a)'
    BY DEF ReservationsTracked
<1> DEFINE step == Head(todo)
<1>1. todo # <<>> /\ UNCHANGED handler
    BY DEF Respond, loopVars
<1>2. step \in TodoStep /\ step \in Range(todo)
    BY <1>1, RangeTail DEF TypeInv, QueueTypes, TodoStep
<1>3. \A d \in Conns : LoopWeight(d, a)' = LoopWeight(d, a)
    BY <1>1 DEF LoopWeight
<1>4. HeldAmount(a)' = HeldAmount(a)
    BY <1>3, HeldSame
<1>5. /\ PendingAmount(a) \in Nat /\ HeldAmount(a) \in Nat /\ ReleasingAmount(a) \in Nat
      /\ \A i \in Ids : OrderWeight(i, a) \in Nat
    BY Weights DEF WeightFacts
<1>6. tentative_reserved[a] = PendingAmount(a) + HeldAmount(a) + ReleasingAmount(a)
    BY DEF ReservationsTracked
<1>7. CASE step.do = "apply"
  <2>1. /\ ReleaseReservation(step.meta.token) /\ UNCHANGED pending_orders
      BY <1>7 DEF Respond, ApplyFill
  <2>2. /\ Applied = {} /\ Applied' = {step.id}
        /\ ReleasingAmount(a) = 0 /\ ReleasingAmount(a)' = 0
      BY <1>7, RespondNext
  <2>3. step.id \in Ids /\ step.meta.token \in ReservationToken
      BY <1>2, <1>7, StepFields DEF ApplyStep, OrderMetadata
  <2>4. pending_orders[step.id] # Nil /\ pending_orders[step.id].token = step.meta.token
      BY <1>2, <1>7 DEF Linked
  <2>5. tentative_reserved'[a] = tentative_reserved[a] - AmountOf(step.meta.token, a)
      BY <2>1, <2>3, ReleaseAmount
  <2> HIDE DEF step
  <2>6. PICK i \in Ids : i = step.id
      BY <2>3
  <2>7. OrderWeight(i, a) = AmountOf(step.meta.token, a) /\ OrderWeight(i, a)' = 0
      BY <2>1, <2>2, <2>4, <2>6 DEF OrderWeight
  <2>8. \A j \in Ids \ {i} : OrderWeight(j, a)' = OrderWeight(j, a)
      BY <2>1, <2>2, <2>6 DEF OrderWeight
  <2>9. PendingAmount(a)' = PendingAmount(a) + (OrderWeight(i, a)' - OrderWeight(i, a))
      BY <2>8, PendingChange
  <2>10. OrderWeight(i, a) \in Nat
      BY <1>5
  <2> QED BY <1>4, <1>5, <1>6, <2>2, <2>5, <2>7, <2>9, <2>10
<1>8. CASE step.do = "remove"
  <2>1. pending_orders' = [pending_orders EXCEPT ![step.id] = Nil] /\ UNCHANGED tentative_reserved
      BY <1>8 DEF Respond, accountVars
  <2>2. /\ Applied = {step.id} /\ Applied' = {}
        /\ ReleasingAmount(a) = 0 /\ ReleasingAmount(a)' = 0
      BY <1>8, RespondNext
  <2>3. step.id \in Ids
      BY <1>2, <1>8, StepFields DEF RemoveStep
  <2>4. PendingAmount(a)' = PendingAmount(a) - OrderWeight(step.id, a)
      BY <2>1, <2>2, <2>3, ForgetOrder
  <2>5. OrderWeight(step.id, a) = 0
      BY <2>2 DEF OrderWeight
  <2> HIDE DEF step
  <2> QED BY <1>4, <1>5, <1>6, <2>1, <2>2, <2>4, <2>5
<1>9. CASE step.do = "release"
  <2>1. ReleaseReservation(step.token) /\ UNCHANGED pending_orders
      BY <1>9 DEF Respond
  <2>2. /\ Applied = {} /\ Applied' = {}
        /\ ReleasingAmount(a) = AmountOf(step.token, a) /\ ReleasingAmount(a)' = 0
      BY <1>9, RespondNext
  <2>3. step.token \in ReservationToken
      BY <1>2, <1>9, StepFields DEF ReleaseStep
  <2>4. tentative_reserved'[a] = tentative_reserved[a] - AmountOf(step.token, a)
      BY <2>1, <2>3, ReleaseAmount
  <2> HIDE DEF step
  <2>5. \A j \in Ids : OrderWeight(j, a)' = OrderWeight(j, a)
      BY <2>1, <2>2 DEF OrderWeight
  <2>6. PendingAmount(a)' = PendingAmount(a)
      BY <2>5, PendingSame
  <2> QED BY <1>4, <1>5, <1>6, <2>2, <2>4, <2>6
<1> QED BY <1>2, <1>7, <1>8, <1>9, StepFields

\* At first nothing is reserved and nothing holds a token.
LEMMA TrackedInit == Init => ReservationsTracked
<1> SUFFICES ASSUME Init, NEW a \in Accounts
             PROVE  tentative_reserved[a] = PendingAmount(a) + HeldAmount(a) + ReleasingAmount(a)
    BY DEF ReservationsTracked
<1> DEFINE w == [i \in Ids |-> OrderWeight(i, a)]
           v == [c \in Conns |-> LoopWeight(c, a)]
<1>1. \A i \in Ids : OrderWeight(i, a) = 0
    BY DEF Init, OrderWeight
<1>2. \A c \in Conns : LoopWeight(c, a) = 0
    BY DEF Init, LoopWeight, Idle
<1>3. w \in [Ids -> Int] /\ v \in [Conns -> Int]
    BY <1>1, <1>2
<1>4. (\A i \in Ids : w[i] = 0) /\ (\A c \in Conns : v[c] = 0)
    BY <1>1, <1>2
<1>5. PendingAmount(a) = SumFunction(w) /\ HeldAmount(a) = SumFunction(v)
    BY TypeInit, Weights DEF WeightFacts
<1>6. IsFiniteSet(Ids) /\ IsFiniteSet(Conns)
    BY GatewayAssumption
<1> HIDE DEF w, v
<1>7. SumFunction(w) = 0
    BY <1>3, <1>4, <1>6, SumZero
<1>8. SumFunction(v) = 0
    BY <1>3, <1>4, <1>6, SumZero
<1>9. ReleasingAmount(a) = 0 /\ tentative_reserved[a] = 0
    BY DEF Init, ReleasingAmount
<1> QED BY <1>5, <1>7, <1>8, <1>9

\* Every step keeps the sums equal.
LEMMA TrackedStep == TrackInv /\ ReservationsTracked /\ [Next]_vars => ReservationsTracked'
<1> SUFFICES ASSUME TrackInv, ReservationsTracked, [Next]_vars PROVE ReservationsTracked'
    OBVIOUS
<1> USE DEF TrackInv
<1>1. TypeInv'
    BY TypeStep
<1>2. ASSUME NEW c \in Conns, Authenticate(c) \/ Disconnect(c) PROVE ReservationsTracked'
  <2>1. UNCHANGED <<tentative_reserved, pending_orders, todo, handler>>
      BY <1>2 DEF Authenticate, Disconnect, accountVars
  <2> QED BY <1>1, <2>1, TrackedFrame
<1>3. ASSUME NEW c \in Conns, Route(c) PROVE ReservationsTracked'
  <2>1. /\ UNCHANGED <<tentative_reserved, pending_orders, todo>>
        /\ handler[c].at = "route" /\ handler' = [handler EXCEPT ![c] = Idle]
      BY <1>3 DEF Route, accountVars
  <2>2. handler'[c].at = "idle" /\ \A d \in Conns \ {c} : handler'[d] = handler[d]
      BY <2>1, IdleType DEF TypeInv
  <2> QED BY <1>1, <2>1, <2>2, TrackedFrame
<1>4. ASSUME NEW c \in Conns, ReadCommand(c) \/ HandleCommand(c) PROVE ReservationsTracked'
  <2>1. ASSUME NEW account \in Accounts, ReadSetRiskLimits(c, account) PROVE ReservationsTracked'
    <3>1. /\ UNCHANGED <<tentative_reserved, pending_orders, todo>>
          /\ handler[c].at = "idle" /\ handler'[c].at = "route"
          /\ \A d \in Conns \ {c} : handler'[d] = handler[d]
        BY <2>1 DEF ReadSetRiskLimits, Reads, Idle, Goto, accountVars, TypeInv, TypeOK
    <3> QED BY <1>1, <3>1, TrackedFrame
  <2> QED BY <1>1, <1>3, <1>4, <2>1, PlainSteps, TrackedReadNewOrder, TrackedReadCancel,
             TrackedTrackOrder
<1>5. CASE EngineReceives \/ EngineStep \/ UNCHANGED vars
  <2>1. UNCHANGED <<tentative_reserved, pending_orders, todo, handler>>
      BY <1>5 DEF EngineReceives, EngineStep, vars, loopVars, accountVars
  <2> QED BY <1>1, <2>1, TrackedFrame
<1> QED BY <1>1, <1>2, <1>4, <1>5, TrackedOnFill, TrackedOnAck, TrackedOnReject, TrackedRespond
        DEF Next, HandleResponse

\* When every order has an id of its own, nothing is replaced and commands reach the engine
\* server (PlainCommands; the code does not see to it), an account's tentative_reserved is the
\* sum of the tokens of its orders, each counted once whichever of the read loops, the shared
\* map and the event being handled has it: for every number of clients, orders and accounts,
\* and every interleaving of their tasks.
THEOREM GatewayReservations == PlainCommands /\ Spec => []ReservationsTracked
<1>1. PlainCommands /\ Init => TrackInv /\ ReservationsTracked
    BY TrackInvInit, TrackedInit
<1>2. (TrackInv /\ ReservationsTracked) /\ [Next]_vars => (TrackInv /\ ReservationsTracked)'
    BY TrackInvStep, TrackedStep
<1> QED BY <1>1, <1>2, PTL DEF Spec

-----------------------------------------------------------------------------
(* No account reserves more than it has *)

\* Products of numbers grow with the numbers.
LEMMA ProductGrows ==
    ASSUME NEW k \in Nat, NEW l \in Nat, NEW m \in Nat, NEW n \in Nat, k <= m, l <= n
    PROVE  k * l <= m * n /\ k * l \in Nat /\ m * n \in Nat
<1>1. PICK x \in Nat : m = k + x
  <2>1. m - k \in Nat /\ m = k + (m - k)
      OBVIOUS
  <2> QED BY <2>1
<1>2. PICK y \in Nat : n = l + y
  <2>1. n - l \in Nat /\ n = l + (n - l)
      OBVIOUS
  <2> QED BY <2>1
<1>3. m * n = k * l + (k * y + x * l + x * y)
    BY <1>1, <1>2
<1>4. k * l \in Nat /\ k * y \in Nat /\ x * l \in Nat /\ x * y \in Nat
    OBVIOUS
<1>5. k * y + x * l + x * y \in Nat
    BY <1>4
<1> QED BY <1>3, <1>4, <1>5

\* The order the map has for an id is the one it had, or none.
Keeps(i) ==
    \/ pending_orders'[i] = Nil
    \/ /\ pending_orders[i] # Nil
       /\ pending_orders'[i].token = pending_orders[i].token
       /\ pending_orders'[i].side = pending_orders[i].side

\* What was covered stays covered.
LEMMA CoversKeeps ==
    ASSUME NEW i, Keeps(i), NEW side, NEW cost, Covers(i, side, cost)
    PROVE  Covers(i, side, cost)'
BY DEF Keeps, Covers

\* The ids of what a read loop routes, and of new orders in a queue.
LEMMA SentIds ==
    ASSUME NEW s \in Seq(Cmd), NEW x \in Range(s), x.type = "NewOrder"
    PROVE  x.order \in OrderType /\ x.order.order_id \in Ids /\ Sent(s, x.order.order_id)
<1>1. x \in Cmd
    BY RangeType
<1>2. x.order \in OrderType
    BY <1>1, CmdFields
<1>3. x.order.order_id \in Ids
    BY <1>2, OrderFields
<1> QED BY <1>2, <1>3 DEF Sent

\* New orders in a queue stay covered.
LEMMA SentKeeps ==
    ASSUME NEW s \in Seq(Cmd), NEW t \in Seq(Cmd), Range(t) \subseteq Range(s), SentBacked(s),
           \A i \in Ids : Sent(s, i) => Keeps(i)
    PROVE  \A x \in Range(t) : x.type = "NewOrder" => CoversOrder(x.order)'
<1> SUFFICES ASSUME NEW x \in Range(t), x.type = "NewOrder" PROVE CoversOrder(x.order)'
    OBVIOUS
<1>1. Sent(s, x.order.order_id) /\ x.order.order_id \in Ids
    BY SentIds
<1>2. CoversOrder(x.order)
    BY DEF SentBacked
<1> QED BY <1>1, <1>2, CoversKeeps DEF CoversOrder

\* The orders in the book and the one being matched stay covered.
LEMMA BookKeeps ==
    ASSUME TypeInv, BookBacked, UNCHANGED <<queues, incoming>>,
           \A i \in Ids : Matching(i) \/ Booked(i) => Keeps(i)
    PROVE  BookBacked'
<1>1. ASSUME incoming # Nil PROVE CoversOrder(incoming)'
  <2>1. incoming.order_id \in Ids /\ Matching(incoming.order_id)
      BY <1>1, IncomingFields DEF Matching
  <2>2. PICK o : o = incoming
      OBVIOUS
  <2>3. CoversOrder(o) /\ Keeps(o.order_id)
      BY <1>1, <2>1, <2>2 DEF BookBacked
  <2>4. CoversOrder(o)'
      BY <2>3, CoversKeeps DEF CoversOrder
  <2> QED BY <2>2, <2>4 DEF CoversOrder, Covers, Cost
<1>2. ASSUME NEW s \in Sides, NEW p \in Prices, NEW o \in Range(queues[s][p])
      PROVE  Covers(o.order_id, s, p * o.qty)'
  <2>1. o.order_id \in Ids /\ Booked(o.order_id)
      BY QueueFields DEF Booked
  <2>2. Covers(o.order_id, s, p * o.qty)
      BY DEF BookBacked
  <2> QED BY <2>1, <2>2, CoversKeeps
<1> QED BY <1>1, <1>2 DEF BookBacked

\* Fills on their way stay covered.
LEMMA FillsKeep ==
    ASSUME TypeInv, FillsBacked, Range(toGateway') \subseteq Range(toGateway),
           \A i \in Ids : Filled(i) => Keeps(i)
    PROVE  FillsBacked'
<1> SUFFICES ASSUME NEW x \in Range(toGateway'), x.type = "Fill", NEW i \in {x.maker, x.taker},
                    pending_orders'[i] # Nil, pending_orders'[i].side = "Buy"
             PROVE  x.price * x.qty <= pending_orders'[i].token.amount
    BY DEF FillsBacked
<1>1. x \in Range(toGateway) /\ x \in FillEvent \cup Answer
    BY RangeType DEF TypeInv, QueueTypes
<1>2. i \in Ids
    BY <1>1 DEF FillEvent, Answer
<1>3. Filled(i)
    BY <1>1 DEF Filled
<1>4. /\ pending_orders[i] # Nil /\ pending_orders[i].side = "Buy"
      /\ pending_orders'[i].token = pending_orders[i].token
    BY <1>2, <1>3 DEF Keeps
<1>5. x.price * x.qty <= pending_orders[i].token.amount
    BY <1>1, <1>4 DEF FillsBacked
<1> QED BY <1>4, <1>5

\* The order a read loop is about to route.
LEMMA RoutingOrder ==
    ASSUME TypeInv, NEW c \in Conns, handler[c].at = "route", handler[c].cmd.type = "NewOrder"
    PROVE  /\ handler[c].cmd \in Cmd /\ handler[c].cmd.order \in OrderType
           /\ handler[c].cmd.order.order_id \in Ids
           /\ Reading(c, handler[c].cmd.order.order_id)
<1>1. handler[c].cmd \in Cmd
    BY HandlerFields DEF TypeInv
<1>2. handler[c].cmd.order \in OrderType
    BY <1>1, CmdFields
<1> QED BY <1>1, <1>2, OrderFields DEF Reading

\* A read loop that routes an order it already had keeps it covered.
LEMMA LoopKeeps ==
    ASSUME TypeInv, LoopsBacked, NEW c \in Conns, handler'[c] = handler[c],
           \A i \in Ids : Reading(c, i) /\ handler[c].at = "route" => Keeps(i)
    PROVE  /\ handler'[c].at = "track" => handler'[c].token.amount = Required(handler'[c].cmd.order)
           /\ handler'[c].at = "route" /\ handler'[c].cmd.type = "NewOrder" =>
                 CoversOrder(handler[c].cmd.order)'
<1>1. handler'[c].at = "track" => handler'[c].token.amount = Required(handler'[c].cmd.order)
    BY DEF LoopsBacked
<1>2. ASSUME handler'[c].at = "route", handler'[c].cmd.type = "NewOrder"
      PROVE  CoversOrder(handler[c].cmd.order)'
  <2>1. handler[c].cmd.order.order_id \in Ids /\ Reading(c, handler[c].cmd.order.order_id)
      BY <1>2, RoutingOrder
  <2>2. PICK no : no = handler[c].cmd.order
      OBVIOUS
  <2>3. CoversOrder(no) /\ Keeps(no.order_id)
      BY <1>2, <2>1, <2>2 DEF LoopsBacked
  <2>4. CoversOrder(no)'
      BY <2>3, CoversKeeps DEF CoversOrder
  <2> QED BY <2>2, <2>4 DEF CoversOrder, Covers, Cost
<1> QED BY <1>1, <1>2

\* Steps that add no order anywhere.
LEMMA BackedFrame ==
    ASSUME TypeInv, TypeInv', Backed, \A i \in Ids : Keeps(i),
           \A c \in Conns : \/ handler'[c] = handler[c]
                            \/ handler'[c].at = "idle"
                            \/ handler'[c].at = "route" /\ handler'[c].cmd.type # "NewOrder"
                            \/ /\ handler'[c].at = "track"
                               /\ handler'[c].token.amount = Required(handler'[c].cmd.order),
           Range(toEngine') \subseteq Range(toEngine), Range(ingress') \subseteq Range(ingress),
           UNCHANGED <<queues, incoming>>, Range(toGateway') \subseteq Range(toGateway),
           StepsBacked'
    PROVE  Backed'
<1>1. LoopsBacked'
  <2> SUFFICES ASSUME NEW c \in Conns
               PROVE  /\ handler'[c].at = "track" =>
                            handler'[c].token.amount = Required(handler'[c].cmd.order)
                      /\ handler'[c].at = "route" /\ handler'[c].cmd.type = "NewOrder" =>
                            CoversOrder(handler[c].cmd.order)'
      BY DEF LoopsBacked, Required
  <2>1. CASE handler'[c] = handler[c]
      BY <2>1, LoopKeeps DEF Backed
  <2>2. CASE handler'[c] # handler[c]
      BY <2>2
  <2> QED BY <2>1, <2>2
<1>2. /\ toEngine \in Seq(Cmd) /\ toEngine' \in Seq(Cmd)
      /\ ingress \in Seq(Cmd) /\ ingress' \in Seq(Cmd)
    BY DEF TypeInv, QueueTypes
<1>3. SentBacked(toEngine)'
  <2>1. \A x \in Range(toEngine') : x.type = "NewOrder" => CoversOrder(x.order)'
      BY <1>2, SentKeeps DEF Backed
  <2> QED BY <2>1 DEF SentBacked
<1>4. SentBacked(ingress)'
  <2>1. \A x \in Range(ingress') : x.type = "NewOrder" => CoversOrder(x.order)'
      BY <1>2, SentKeeps DEF Backed
  <2> QED BY <2>1 DEF SentBacked
<1>5. BookBacked'
    BY BookKeeps DEF Backed
<1>6. FillsBacked'
    BY FillsKeep DEF Backed
<1> QED BY <1>1, <1>3, <1>4, <1>5, <1>6 DEF Backed

\* A new order's reservation is what it can cost.
LEMMA BackedReadNewOrder ==
    ASSUME TypeInv, TypeInv', Backed, NEW c \in Conns, NEW no \in NewOrders, ReadNewOrder(c, no)
    PROVE  Backed'
<1>1. UNCHANGED <<pending_orders, toEngine, ingress, queues, incoming, toGateway, todo>>
    BY DEF ReadNewOrder, engineVars
<1>2. \A i \in Ids : Keeps(i)
    BY <1>1 DEF Keeps
<1>3. \A d \in Conns : \/ handler'[d] = handler[d]
                       \/ /\ handler'[d].at = "track"
                          /\ handler'[d].token.amount = Required(handler'[d].cmd.order)
  <2>1. CASE UNCHANGED handler
      BY <2>1
  <2>2. CASE Goto(c, "track", [type |-> "NewOrder", order |-> no],
                  [account_id |-> no.account_id, amount |-> Required(no)])
    <3>1. /\ \A d \in Conns \ {c} : handler'[d] = handler[d]
          /\ handler'[c] = [at |-> "track", cmd |-> [type |-> "NewOrder", order |-> no],
                            token |-> [account_id |-> no.account_id, amount |-> Required(no)]]
        BY <2>2 DEF Goto, TypeInv, TypeOK
    <3>2. /\ handler'[c].at = "track" /\ handler'[c].token.amount = Required(no)
          /\ handler'[c].cmd.order = no
        BY <3>1
    <3> QED BY <3>1, <3>2
  <2> QED BY <2>1, <2>2 DEF ReadNewOrder
<1>4. StepsBacked'
    BY <1>1 DEF Backed, StepsBacked
<1> QED BY <1>1, <1>2, <1>3, <1>4, BackedFrame

\* A cancel changes what an order's mark is, not what it reserved.
LEMMA BackedReadCancel ==
    ASSUME TrackInv, TypeInv', Backed, NEW c \in Conns, NEW i \in Ids, NEW account \in Accounts,
           ReadCancel(c, i, account)
    PROVE  Backed'
<1> USE DEF TrackInv
<1>1. UNCHANGED <<toEngine, ingress, queues, incoming, toGateway, todo>>
    BY DEF ReadCancel, engineVars
<1>2. \A j \in Ids : Keeps(j)
  <2>1. \A j \in Ids : /\ pending_orders'[j] = Nil <=> pending_orders[j] = Nil
                       /\ pending_orders[j] # Nil =>
                             /\ pending_orders'[j].token = pending_orders[j].token
                             /\ pending_orders'[j].side = pending_orders[j].side
      BY LinkedReadCancel
  <2> QED BY <2>1 DEF Keeps
<1>3. /\ handler'[c].at = "route" /\ handler'[c].cmd.type # "NewOrder"
      /\ \A d \in Conns \ {c} : handler'[d] = handler[d]
    BY DEF ReadCancel, Goto, TypeInv, TypeOK
<1>4. StepsBacked'
    BY <1>1 DEF Backed, StepsBacked
<1> QED BY <1>1, <1>2, <1>3, <1>4, BackedFrame

\* The map learns of an order with the reservation that pays for it.
LEMMA BackedTrackOrder ==
    ASSUME TrackInv, TypeInv', Backed, NEW c \in Conns, TrackOrder(c)
    PROVE  Backed'
<1> USE DEF TrackInv
<1> DEFINE h == handler[c]
           id == h.cmd.order.order_id
<1>1. /\ id \in Ids /\ Reading(c, id) /\ h.at = "track" /\ h.cmd.order \in OrderType
      /\ \A j \in Ids \ {id} : pending_orders'[j] = pending_orders[j]
    BY TrackOrderShape, Zenon
<1>2. pending_orders'[id] = [token |-> h.token, side |-> h.cmd.order.side, operation |-> "Active"]
    BY TrackOrderShape, Zenon
<1>3. handler'[c] = [at |-> "route", cmd |-> h.cmd, token |-> h.token]
    BY TrackOrderShape, Zenon
<1>4. \A d \in Conns \ {c} : handler'[d] = handler[d]
    BY TrackOrderShape, Zenon
<1>5. UNCHANGED <<todo, toEngine, toGateway, ingress, queues, incoming>>
    BY DEF TrackOrder, engineVars
<1>6. \A j \in Ids \ {id} : Keeps(j)
    BY <1>1 DEF Keeps
<1>7. /\ ~Sent(toEngine, id) /\ ~Sent(ingress, id) /\ ~Matching(id) /\ ~Booked(id) /\ ~Filled(id)
      /\ \A d \in Conns : Reading(d, id) => d = c
    BY <1>1 DEF Places, OnePlace
<1>8. h.token.amount = Required(h.cmd.order)
    BY <1>1 DEF Backed, LoopsBacked
<1>9. LoopsBacked'
  <2> SUFFICES ASSUME NEW d \in Conns
               PROVE  /\ handler'[d].at = "track" =>
                            handler'[d].token.amount = Required(handler'[d].cmd.order)
                      /\ handler'[d].at = "route" /\ handler'[d].cmd.type = "NewOrder" =>
                            CoversOrder(handler[d].cmd.order)'
      BY DEF LoopsBacked, Required
  <2>1. CASE d # c
    <3>1. \A i \in Ids : Reading(d, i) => Keeps(i)
        BY <1>6, <1>7, <2>1
    <3> QED BY <1>4, <2>1, <3>1, LoopKeeps DEF Backed
  <2>2. CASE d = c
    <3>1. PICK no : no = h.cmd.order
        OBVIOUS
    <3>2. handler'[c].at = "route" /\ handler'[c].cmd.order = no
        BY <1>3, <3>1
    <3>3. pending_orders'[no.order_id].side = no.side /\ pending_orders'[no.order_id].token = h.token
        BY <1>2, <3>1
    <3>4. no.side = "Buy" => h.token.amount = Cost(no)
        BY <1>8, <3>1 DEF Required, Cost
    <3>5. no.side = "Buy" => Cost(no) <= h.token.amount
      <4>1. Required(no) \in Nat
          BY <1>1, <3>1, OrderFields
      <4>2. no.side = "Buy" => Cost(no) \in Nat
          BY <4>1 DEF Required, Cost
      <4> QED BY <3>4, <4>2
    <3>6. CoversOrder(no)'
        BY <3>3, <3>5 DEF CoversOrder, Covers
    <3>7. CoversOrder(handler[c].cmd.order)'
        BY <3>2, <3>6 DEF CoversOrder, Covers, Cost
    <3> QED BY <2>2, <3>2, <3>7
  <2> QED BY <2>1, <2>2
<1> HIDE DEF id, h
<1>10. toEngine \in Seq(Cmd) /\ ingress \in Seq(Cmd)
    BY DEF TypeInv, QueueTypes
<1>11. SentBacked(toEngine)'
  <2>1. \A x \in Range(toEngine) : x.type = "NewOrder" => CoversOrder(x.order)'
      BY <1>6, <1>7, <1>10, SentKeeps DEF Backed
  <2> QED BY <1>5, <2>1 DEF SentBacked
<1>12. SentBacked(ingress)'
  <2>1. \A x \in Range(ingress) : x.type = "NewOrder" => CoversOrder(x.order)'
      BY <1>6, <1>7, <1>10, SentKeeps DEF Backed
  <2> QED BY <1>5, <2>1 DEF SentBacked
<1>13. BookBacked'
    BY <1>5, <1>6, <1>7, BookKeeps DEF Backed
<1>14. FillsBacked'
    BY <1>5, <1>6, <1>7, FillsKeep DEF Backed
<1>15. StepsBacked'
    BY <1>5 DEF Backed, StepsBacked
<1> QED BY <1>9, <1>11, <1>12, <1>13, <1>14, <1>15 DEF Backed

\* The order that is sent is covered.
LEMMA BackedRoute ==
    ASSUME TypeInv, TypeInv', Backed, NEW c \in Conns, Route(c)
    PROVE  Backed'
<1> DEFINE x == handler[c].cmd
<1>1. /\ handler[c].at = "route" /\ toEngine' = Append(toEngine, x)
      /\ handler' = [handler EXCEPT ![c] = Idle]
      /\ UNCHANGED <<pending_orders, todo, toGateway, ingress, queues, incoming>>
    BY DEF Route, engineVars
<1>2. x \in Cmd
    BY <1>1, HandlerFields DEF TypeInv
<1>3. toEngine \in Seq(Cmd) /\ ingress \in Seq(Cmd)
    BY DEF TypeInv, QueueTypes
<1>4. Range(toEngine') = Range(toEngine) \cup {x}
    BY <1>1, <1>2, <1>3, RangeAppend
<1>5. \A i \in Ids : Keeps(i)
    BY <1>1 DEF Keeps
<1>6. handler'[c].at = "idle" /\ \A d \in Conns \ {c} : handler'[d] = handler[d]
    BY <1>1, IdleType DEF TypeInv
<1>7. LoopsBacked'
  <2> SUFFICES ASSUME NEW d \in Conns
               PROVE  /\ handler'[d].at = "track" =>
                            handler'[d].token.amount = Required(handler'[d].cmd.order)
                      /\ handler'[d].at = "route" /\ handler'[d].cmd.type = "NewOrder" =>
                            CoversOrder(handler[d].cmd.order)'
      BY DEF LoopsBacked, Required
  <2>1. CASE d # c
      BY <1>5, <1>6, <2>1, LoopKeeps DEF Backed
  <2> QED BY <1>6, <2>1
<1>8. \A y \in Range(toEngine) : y.type = "NewOrder" => CoversOrder(y.order)'
    BY <1>3, <1>5, SentKeeps DEF Backed
<1>9. x.type = "NewOrder" => CoversOrder(x.order)
    BY <1>1 DEF Backed, LoopsBacked
<1>10. SentBacked(toEngine)'
  <2> HIDE DEF x
  <2>1. PICK y : y = x
      OBVIOUS
  <2>2. y.type = "NewOrder" => CoversOrder(y.order)'
      BY <1>1, <1>9, <2>1 DEF CoversOrder, Covers
  <2> QED BY <1>4, <1>8, <2>1, <2>2 DEF SentBacked
<1>11. SentBacked(ingress)'
  <2>1. \A y \in Range(ingress) : y.type = "NewOrder" => CoversOrder(y.order)'
      BY <1>3, <1>5, SentKeeps DEF Backed
  <2> QED BY <1>1, <2>1 DEF SentBacked
<1>12. BookBacked'
    BY <1>1, <1>5, BookKeeps DEF Backed
<1>13. FillsBacked'
    BY <1>1, <1>5, FillsKeep DEF Backed
<1>14. StepsBacked'
    BY <1>1 DEF Backed, StepsBacked
<1> QED BY <1>7, <1>10, <1>11, <1>12, <1>13, <1>14 DEF Backed

\* Starting on a fill: each of its orders with the reservation the map has for it.
LEMMA BackedOnFill ==
    ASSUME TypeInv, TypeInv', Backed, OnFill
    PROVE  Backed'
<1> DEFINE f == Head(toGateway)
           m(i) == [do |-> "apply", id |-> i, meta |-> pending_orders[i], fill |-> f]
           r(i) == [do |-> "remove", id |-> i]
<1>1. /\ Receives("Fill") /\ toGateway' = Tail(toGateway)
      /\ UNCHANGED <<pending_orders, handler, toEngine, ingress, queues, incoming>>
    BY DEF OnFill, loopVars, engineVars
<1>2. f \in Range(toGateway) /\ f.type = "Fill" /\ Range(toGateway') \subseteq Range(toGateway)
    BY <1>1, ReceivesType DEF Receives
<1>3. \A i \in Ids : Keeps(i)
    BY <1>1 DEF Keeps
<1>4. \A i \in {f.maker, f.taker} :
          pending_orders[i] # Nil /\ pending_orders[i].side = "Buy" =>
              f.price * f.qty <= pending_orders[i].token.amount
    BY <1>2 DEF Backed, FillsBacked
<1>5. /\ todo' \in Seq(TodoStep)
      /\ \/ Len(todo') = 0
         \/ \E i \in {f.maker, f.taker} : Len(todo') = 2 /\ pending_orders[i] # Nil
                                          /\ todo'[1] = m(i) /\ todo'[2] = r(i)
         \/ /\ Len(todo') = 4 /\ pending_orders[f.maker] # Nil /\ pending_orders[f.taker] # Nil
            /\ todo'[1] = m(f.maker) /\ todo'[2] = r(f.maker)
            /\ todo'[3] = m(f.taker) /\ todo'[4] = r(f.taker)
    BY FillTodo
<1>6. \A i : m(i).meta = pending_orders[i] /\ m(i).fill = f /\ r(i).do = "remove"
    OBVIOUS
<1> HIDE DEF f, m, r
<1>7. \A k \in 1 .. Len(todo') :
          \E i \in {f.maker, f.taker} : pending_orders[i] # Nil /\ todo'[k] \in {m(i), r(i)}
  <2>1. CASE Len(todo') = 0
      BY <2>1
  <2>2. CASE Len(todo') = 2
      BY <1>5, <2>2
  <2>3. CASE Len(todo') = 4
      BY <1>5, <2>3
  <2> QED BY <1>5, <2>1, <2>2, <2>3
<1>8. \A x \in Range(todo') :
          \E i \in {f.maker, f.taker} : pending_orders[i] # Nil /\ x \in {m(i), r(i)}
    BY <1>5, <1>7, RangeType
<1>9. StepsBacked'
  <2> SUFFICES ASSUME NEW x \in Range(todo'), x.do = "apply", x.meta.side = "Buy"
               PROVE  x.fill.price * x.fill.qty <= x.meta.token.amount
      BY DEF StepsBacked
  <2>1. PICK i \in {f.maker, f.taker} : pending_orders[i] # Nil /\ x \in {m(i), r(i)}
      BY <1>8
  <2>2. x.meta = pending_orders[i] /\ x.fill = f
      BY <1>6, <2>1
  <2>3. f.price * f.qty <= pending_orders[i].token.amount
      BY <1>4, <2>1, <2>2
  <2> QED BY <2>2, <2>3
<1> QED BY <1>1, <1>2, <1>3, <1>9, BackedFrame

\* An answer that ends an order leaves no claim on its reservation.
LEMMA BackedAnswer ==
    ASSUME TypeInv, TypeInv', Backed, OnAck \/ OnReject
    PROVE  Backed'
<1> DEFINE id == Head(toGateway).order_id
<1>1. /\ todo = <<>> /\ UNCHANGED <<handler, toEngine, ingress, queues, incoming>> /\ id \in Ids
      /\ Range(toGateway') \subseteq Range(toGateway)
    BY ReceivesType DEF OnAck, OnReject, Receives, loopVars, engineVars
<1>2. pending_orders' = pending_orders \/ pending_orders' = [pending_orders EXCEPT ![id] = Nil]
    BY DEF OnAck, OnReject, RemoveRejected
<1>3. \A j \in Ids : Keeps(j)
    BY <1>1, <1>2 DEF TypeInv, TypeOK, Keeps
<1>4. \/ todo' = <<>>
      \/ todo' = <<[do |-> "release", token |-> pending_orders[id].token]>>
    BY <1>1 DEF OnAck, OnReject, RemoveRejected
<1>5. \A x \in Range(todo') : x.do = "release"
    BY <1>4 DEF Range
<1>6. StepsBacked'
    BY <1>5 DEF StepsBacked
<1> QED BY <1>1, <1>3, <1>6, BackedFrame

\* The steps of an event only take orders out of the map.
LEMMA BackedRespond ==
    ASSUME TypeInv, TypeInv', Backed, Respond
    PROVE  Backed'
<1>1. /\ todo # <<>> /\ todo' = Tail(todo)
      /\ UNCHANGED <<handler, toEngine, toGateway, ingress, queues, incoming>>
    BY DEF Respond, loopVars, engineVars
<1>2. Head(todo) \in TodoStep /\ Range(todo') \subseteq Range(todo)
    BY <1>1, RespondTodo
<1>3. StepsBacked'
    BY <1>2 DEF Backed, StepsBacked
<1>4. \A j \in Ids : Keeps(j)
  <2>1. CASE UNCHANGED pending_orders
      BY <2>1 DEF Keeps
  <2>2. CASE Head(todo).do = "remove" /\ pending_orders' = [pending_orders EXCEPT ![Head(todo).id] = Nil]
    <3>1. Head(todo).id \in Ids
        BY <1>2, <2>2, StepFields DEF RemoveStep
    <3> QED BY <2>2, <3>1 DEF TypeInv, TypeOK, Keeps
  <2> QED BY <2>1, <2>2 DEF Respond
<1> QED BY <1>1, <1>3, <1>4, BackedFrame

\* The engine's steps leave the gateway's part alone.
LEMMA BackedEngine ==
    ASSUME TypeInv, Backed, UNCHANGED <<pending_orders, handler, todo>>,
           SentBacked(toEngine)', SentBacked(ingress)', BookBacked', FillsBacked'
    PROVE  Backed'
<1>1. \A i \in Ids : Keeps(i)
    BY DEF Keeps
<1>2. LoopsBacked'
  <2> SUFFICES ASSUME NEW d \in Conns
               PROVE  /\ handler'[d].at = "track" =>
                            handler'[d].token.amount = Required(handler'[d].cmd.order)
                      /\ handler'[d].at = "route" /\ handler'[d].cmd.type = "NewOrder" =>
                            CoversOrder(handler[d].cmd.order)'
      BY DEF LoopsBacked, Required
  <2> QED BY <1>1, LoopKeeps DEF Backed
<1>3. StepsBacked'
    BY DEF Backed, StepsBacked
<1> QED BY <1>2, <1>3 DEF Backed

\* What the map says does not change.
LEMMA CoversSame ==
    ASSUME UNCHANGED pending_orders, NEW i, NEW side, NEW cost
    PROVE  Covers(i, side, cost)' <=> Covers(i, side, cost)
BY DEF Covers

\* Queues that have no order they did not have stay covered.
LEMMA SentSame ==
    ASSUME UNCHANGED pending_orders, NEW s, NEW t, Range(t) \subseteq Range(s), SentBacked(s)
    PROVE  \A x \in Range(t) : x.type = "NewOrder" => CoversOrder(x.order)'
<1> SUFFICES ASSUME NEW x \in Range(t), x.type = "NewOrder" PROVE CoversOrder(x.order)'
    OBVIOUS
<1>1. CoversOrder(x.order)
    BY DEF SentBacked
<1> QED BY <1>1, CoversSame DEF CoversOrder

\* The engine server reads a message, or drops it.
LEMMA BackedEngineReceives ==
    ASSUME TypeInv, Backed, EngineReceives
    PROVE  Backed'
<1> DEFINE x == Head(toEngine)
<1>1. /\ toEngine # <<>> /\ toEngine' = Tail(toEngine)
      /\ ingress' = ingress \/ ingress' = Append(ingress, x)
      /\ UNCHANGED <<pending_orders, handler, todo, toGateway, queues, incoming>>
    BY DEF EngineReceives, loopVars
<1>2. toEngine \in Seq(Cmd) /\ ingress \in Seq(Cmd)
    BY DEF TypeInv, QueueTypes
<1>3. x \in Cmd /\ x \in Range(toEngine) /\ Range(toEngine') \subseteq Range(toEngine)
    BY <1>1, <1>2, RangeTail
<1>4. Range(ingress') \subseteq Range(ingress) \cup {x}
  <2>1. CASE ingress' = ingress
      BY <2>1
  <2>2. CASE ingress' = Append(ingress, x)
    <3> HIDE DEF x
    <3>1. Range(Append(ingress, x)) = Range(ingress) \cup {x}
        BY <1>2, <1>3, RangeAppend
    <3> QED BY <2>2, <3>1
  <2> QED BY <1>1, <2>1, <2>2
<1>5. \A y \in Range(toEngine) : y.type = "NewOrder" => CoversOrder(y.order)'
    BY <1>1, SentSame DEF Backed
<1>6. \A y \in Range(ingress) : y.type = "NewOrder" => CoversOrder(y.order)'
    BY <1>1, SentSame DEF Backed
<1>7. SentBacked(toEngine)' /\ SentBacked(ingress)'
  <2> HIDE DEF x
  <2> QED BY <1>3, <1>4, <1>5, <1>6 DEF SentBacked
<1>8. \A i \in Ids : Keeps(i)
    BY <1>1 DEF Keeps
<1>9. BookBacked'
    BY <1>1, <1>8, BookKeeps DEF Backed
<1>10. FillsBacked'
    BY <1>1, <1>8, FillsKeep DEF Backed
<1> QED BY <1>1, <1>7, <1>9, <1>10, BackedEngine

\* A book that shrinks asks for less.
LEMMA BookShrinksBacked ==
    ASSUME TypeInv, TypeInv', BookBacked, UNCHANGED pending_orders, BookShrinks
    PROVE  \A s \in Sides, p \in Prices : \A o \in Range(queues'[s][p]) :
               Covers(o.order_id, s, p * o.qty)'
<1> SUFFICES ASSUME NEW s \in Sides, NEW p \in Prices, NEW o \in Range(queues'[s][p])
             PROVE  Covers(o.order_id, s, p * o.qty)
    BY CoversSame
<1>1. PICK q \in Range(queues[s][p]) : q.order_id = o.order_id /\ o.qty <= q.qty
    BY DEF BookShrinks
<1>2. q.qty \in Nat /\ q.order_id \in Ids
    BY QueueFields
<1>3. o.qty \in Nat
  <2>1. queues'[s][p] \in Seq(BookOrder)
      BY DEF TypeInv, QueueTypes
  <2>2. o \in BookOrder
      BY <2>1, RangeType
  <2>3. o.qty \in 1 .. MaxQty /\ MaxQty \in Nat
      BY <2>2, ConstantTypes DEF BookOrder
  <2> QED BY <2>3
<1>4. p \in Nat
    BY ConstantTypes
<1>5. p * o.qty <= p * q.qty /\ p * o.qty \in Nat /\ p * q.qty \in Nat
    BY <1>1, <1>2, <1>3, <1>4, ProductGrows
<1>6. Covers(q.order_id, s, p * q.qty)
    BY DEF BookBacked
<1>7. pending_orders[o.order_id] # Nil => pending_orders[o.order_id].token.amount \in Nat
    BY <1>1, <1>2 DEF TypeInv, TypeOK, OrderMetadata, ReservationToken
<1> DEFINE x == p * o.qty
           y == p * q.qty
<1>8. x <= y /\ x \in Nat /\ y \in Nat /\ Covers(o.order_id, s, y)
    BY <1>1, <1>5, <1>6
<1> HIDE DEF x, y
<1>9. Covers(o.order_id, s, x)
    BY <1>7, <1>8 DEF Covers
<1> QED BY <1>9 DEF x

\* A fill costs its buyer no more than the order it fills could.
LEMMA BackedEngineTrades ==
    ASSUME TypeInv, TypeInv', Backed, EngineTrades, UNCHANGED pending_orders
    PROVE  BookBacked' /\ FillsBacked' /\ ingress' = ingress
<1>1. PICK p \in Prices, qty \in 1 .. MaxQty :
             LET s == Engine!Other(incoming.side)
                 maker == Head(queues[s][p])
             IN  /\ incoming # Nil /\ qty <= incoming.qty
                 /\ maker \in Range(queues[s][p]) /\ qty <= maker.qty
                 /\ IF incoming.side = "Buy" THEN p <= incoming.price ELSE incoming.price <= p
                 /\ incoming' = [incoming EXCEPT !.qty = @ - qty]
                 /\ queues' \in [Sides -> [Prices -> Seq(BookOrder)]]
                 /\ BookShrinks
                 /\ toGateway' = Append(toGateway,
                        [type |-> "Fill", maker |-> maker.order_id, taker |-> incoming.order_id,
                         price |-> p, qty |-> qty])
                 /\ ingress' = ingress
    BY TradeShape
<1> DEFINE s == Engine!Other(incoming.side)
           maker == Head(queues[s][p])
           f == [type |-> "Fill", maker |-> maker.order_id, taker |-> incoming.order_id,
                 price |-> p, qty |-> qty]
<1>2. /\ incoming \in IncomingType /\ incoming.order_id \in Ids /\ s \in Sides
      /\ incoming.price \in Nat /\ incoming.qty \in Nat /\ incoming.side \in Sides
    BY <1>1, IncomingFields
<1>3. maker \in Range(queues[s][p]) /\ maker.order_id \in Ids /\ maker.qty \in Nat
    BY <1>1, <1>2, QueueFields
<1>4. p \in Nat
    BY ConstantTypes
<1>5. qty \in Nat
  <2>1. MaxQty \in Nat
      BY ConstantTypes
  <2> QED BY <2>1
<1>6. CoversOrder(incoming) /\ Covers(maker.order_id, s, p * maker.qty)
    BY <1>1, <1>2, <1>3 DEF Backed, BookBacked
<1>7. \A i \in Ids : pending_orders[i] # Nil => pending_orders[i].token.amount \in Nat
    BY DEF TypeInv, TypeOK, OrderMetadata, ReservationToken
<1>8. CoversOrder(incoming)'
  <2>1. PICK o : o = incoming'
      OBVIOUS
  <2>2. o = [incoming EXCEPT !.qty = @ - qty]
      BY <1>1, <2>1
  <2>3. /\ o.order_id = incoming.order_id /\ o.side = incoming.side /\ o.price = incoming.price
        /\ o.qty = incoming.qty - qty
      BY <1>2, <2>2 DEF IncomingType
  <2>4. o.qty \in Nat /\ o.qty <= incoming.qty
      BY <1>1, <1>2, <1>5, <2>3
  <2>5. incoming.price * o.qty <= incoming.price * incoming.qty
        /\ incoming.price * o.qty \in Nat /\ incoming.price * incoming.qty \in Nat
      BY <1>2, <2>4, ProductGrows
  <2>6. Cost(o) <= Cost(incoming) /\ Cost(o) \in Nat /\ Cost(incoming) \in Nat
      BY <2>3, <2>5 DEF Cost
  <2>7. CoversOrder(o)
      BY <1>2, <1>6, <1>7, <2>3, <2>6 DEF CoversOrder, Covers
  <2>8. CoversOrder(o)'
      BY <2>7, CoversSame DEF CoversOrder
  <2> QED BY <2>1, <2>8 DEF CoversOrder, Covers, Cost
<1>9. BookBacked'
  <2>1. \A t \in Sides, q \in Prices : \A o \in Range(queues'[t][q]) :
            Covers(o.order_id, t, q * o.qty)'
      BY <1>1, BookShrinksBacked DEF Backed
  <2> QED BY <1>8, <2>1 DEF BookBacked
<1>10. pending_orders[incoming.order_id] # Nil /\ pending_orders[incoming.order_id].side = "Buy" =>
           p * qty <= pending_orders[incoming.order_id].token.amount
  <2> SUFFICES ASSUME pending_orders[incoming.order_id] # Nil,
                      pending_orders[incoming.order_id].side = "Buy"
               PROVE  p * qty <= pending_orders[incoming.order_id].token.amount
      OBVIOUS
  <2>1. incoming.side = "Buy" /\ Cost(incoming) <= pending_orders[incoming.order_id].token.amount
      BY <1>6 DEF CoversOrder, Covers
  <2>2. p <= incoming.price /\ qty <= incoming.qty
      BY <1>1, <2>1
  <2>3. p * qty <= incoming.price * incoming.qty /\ p * qty \in Nat
        /\ incoming.price * incoming.qty \in Nat
      BY <1>2, <1>4, <1>5, <2>2, ProductGrows
  <2>4. p * qty <= Cost(incoming) /\ Cost(incoming) \in Nat
      BY <2>3 DEF Cost
  <2> QED BY <1>2, <1>7, <2>1, <2>3, <2>4
<1>11. pending_orders[maker.order_id] # Nil /\ pending_orders[maker.order_id].side = "Buy" =>
           p * qty <= pending_orders[maker.order_id].token.amount
  <2> SUFFICES ASSUME pending_orders[maker.order_id] # Nil,
                      pending_orders[maker.order_id].side = "Buy"
               PROVE  p * qty <= pending_orders[maker.order_id].token.amount
      OBVIOUS
  <2>1. s = "Buy" /\ p * maker.qty <= pending_orders[maker.order_id].token.amount
      BY <1>6 DEF Covers
  <2>2. qty <= maker.qty
      BY <1>1
  <2>3. p * qty <= p * maker.qty /\ p * qty \in Nat /\ p * maker.qty \in Nat
      BY <1>3, <1>4, <1>5, <2>2, ProductGrows
  <2>4. pending_orders[maker.order_id].token.amount \in Nat
      BY <1>3, <1>7
  <2> HIDE DEF maker, s
  <2> QED BY <2>1, <2>3, <2>4
<1>12. f \in FillEvent \cup Answer
    BY <1>2, <1>3 DEF FillEvent
<1>13. Range(toGateway') = Range(toGateway) \cup {f}
    BY <1>1, <1>12, EmitType DEF Emit
<1>14. /\ f.maker = maker.order_id /\ f.taker = incoming.order_id
       /\ f.price = p /\ f.qty = qty
    OBVIOUS
<1> HIDE DEF f, maker, s
<1>15. \A x \in Range(toGateway') : x.type = "Fill" => \A i \in {x.maker, x.taker} :
           pending_orders[i] # Nil /\ pending_orders[i].side = "Buy" =>
               x.price * x.qty <= pending_orders[i].token.amount
  <2>1. \A i \in {f.maker, f.taker} : pending_orders[i] # Nil /\ pending_orders[i].side = "Buy" =>
               f.price * f.qty <= pending_orders[i].token.amount
      BY <1>10, <1>11, <1>14
  <2> QED BY <1>13, <2>1 DEF Backed, FillsBacked
<1>16. FillsBacked'
    BY <1>15 DEF FillsBacked
<1> QED BY <1>1, <1>9, <1>16

\* Every step of the engine keeps the orders and the fills covered.
LEMMA BackedEngineStep ==
    ASSUME TrackInv, TypeInv', Backed, EngineStep
    PROVE  Backed'
<1> USE DEF TrackInv
<1>1. UNCHANGED <<pending_orders, handler, todo, toEngine>>
    BY DEF EngineStep, loopVars
<1>2. SentBacked(toEngine)'
  <2>1. \A x \in Range(toEngine) : x.type = "NewOrder" => CoversOrder(x.order)'
      BY <1>1, SentSame DEF Backed
  <2> QED BY <1>1, <2>1 DEF SentBacked
<1>3. ASSUME Range(ingress') \subseteq Range(ingress) PROVE SentBacked(ingress)'
  <2>1. \A x \in Range(ingress') : x.type = "NewOrder" => CoversOrder(x.order)'
      BY <1>1, <1>3, SentSame DEF Backed
  <2> QED BY <2>1 DEF SentBacked
<1>4. \A i \in Ids : Keeps(i)
    BY <1>1 DEF Keeps
<1>5. ASSUME NEW id \in Ids, NEW x \in {Ack(id), Reject(id)}, Emit(x) PROVE FillsBacked'
  <2>1. x \in FillEvent \cup Answer /\ x.type # "Fill"
      BY DEF Ack, Reject, Answer
  <2>2. Range(toGateway') = Range(toGateway) \cup {x}
      BY <1>5, <2>1, EmitType
  <2> QED BY <1>1, <2>1, <2>2 DEF Backed, FillsBacked
<1>6. CASE EngineTrades
  <2>1. BookBacked' /\ FillsBacked' /\ ingress' = ingress
      BY <1>1, <1>6, BackedEngineTrades
  <2>2. SentBacked(ingress)'
      BY <1>3, <2>1
  <2> QED BY <1>1, <1>2, <2>1, <2>2, BackedEngine
<1>7. CASE EngineNewOrder
  <2> DEFINE x == Head(ingress)
  <2>1. /\ Takes("NewOrder") /\ ingress' = Tail(ingress) /\ toGateway' = toGateway
        /\ incoming' = x.order /\ queues' = queues
      BY <1>7 DEF EngineNewOrder, Engine!Arrive
  <2>2. x \in Range(ingress) /\ Range(ingress') \subseteq Range(ingress) /\ x.type = "NewOrder"
      BY <2>1, TakesType
  <2>3. SentBacked(ingress)'
      BY <1>3, <2>2
  <2>4. FillsBacked'
      BY <1>4, <2>1, FillsKeep DEF Backed
  <2>5. CoversOrder(incoming)'
    <3>1. PICK o : o = x.order
        OBVIOUS
    <3>2. CoversOrder(o)
        BY <2>2, <3>1 DEF Backed, SentBacked
    <3>3. CoversOrder(o)'
        BY <1>1, <3>2, CoversSame DEF CoversOrder
    <3> QED BY <2>1, <3>1, <3>3 DEF CoversOrder, Covers, Cost
  <2>6. \A s \in Sides, p \in Prices : \A o \in Range(queues[s][p]) :
            Covers(o.order_id, s, p * o.qty)'
      BY <1>1, CoversSame DEF Backed, BookBacked
  <2>7. BookBacked'
      BY <2>1, <2>5, <2>6 DEF BookBacked
  <2> QED BY <1>1, <1>2, <2>3, <2>4, <2>7, BackedEngine
<1>8. CASE EngineRejects
  <2> DEFINE id == Head(ingress).order.order_id
  <2>1. /\ Takes("NewOrder") /\ ingress' = Tail(ingress) /\ Emit(Reject(id))
        /\ incoming' = incoming /\ queues' = queues
      BY <1>8 DEF EngineRejects
  <2>2. Range(ingress') \subseteq Range(ingress)
      BY <2>1, TakesType
  <2>3. id \in Ids
      BY <2>1, TakesType, CmdFields, OrderFields
  <2>4. FillsBacked'
      BY <1>5, <2>1, <2>3
  <2>5. BookBacked'
      BY <1>4, <2>1, BookKeeps DEF Backed
  <2> QED BY <1>1, <1>2, <1>3, <2>2, <2>4, <2>5, BackedEngine
<1>9. CASE EngineSettles
  <2>1. /\ incoming # Nil /\ incoming' = Nil /\ ingress' = ingress
        /\ \A s \in Sides, p \in Prices : \A o \in Range(queues'[s][p]) :
              \/ o \in Range(queues[s][p])
              \/ /\ s = incoming.side /\ p = incoming.price
                 /\ o.order_id = incoming.order_id /\ o.qty = incoming.qty
        /\ Emit(Ack(incoming.order_id))
      BY <1>9, SettleShape
  <2>2. incoming.order_id \in Ids
      BY <2>1, IncomingFields
  <2>3. FillsBacked'
      BY <1>5, <2>1, <2>2
  <2>4. CoversOrder(incoming)
      BY <2>1 DEF Backed, BookBacked
  <2>5. \A s \in Sides, p \in Prices : \A o \in Range(queues'[s][p]) :
            Covers(o.order_id, s, p * o.qty)'
    <3> SUFFICES ASSUME NEW s \in Sides, NEW p \in Prices, NEW o \in Range(queues'[s][p])
                 PROVE  Covers(o.order_id, s, p * o.qty)
        BY <1>1, CoversSame
    <3>1. CASE o \in Range(queues[s][p])
        BY <3>1 DEF Backed, BookBacked
    <3>2. CASE /\ s = incoming.side /\ p = incoming.price
               /\ o.order_id = incoming.order_id /\ o.qty = incoming.qty
        BY <2>4, <3>2 DEF CoversOrder, Cost
    <3> QED BY <2>1, <3>1, <3>2
  <2>6. BookBacked'
      BY <2>1, <2>5 DEF BookBacked
  <2>7. SentBacked(ingress)'
      BY <1>3, <2>1
  <2> QED BY <1>1, <1>2, <2>3, <2>6, <2>7, BackedEngine
<1>10. CASE EngineCancel
  <2> DEFINE c == Head(ingress)
  <2>1. Takes("Cancel") /\ ingress' = Tail(ingress)
      BY <1>10 DEF EngineCancel
  <2>2. Range(ingress') \subseteq Range(ingress) /\ c \in Cmd /\ c.type = "Cancel"
      BY <2>1, TakesType
  <2>3. c.order_id \in Ids /\ c.account_id \in Accounts
      BY <2>2, CmdFields
  <2>4. FillsBacked'
      BY <1>5, <1>10, <2>3 DEF EngineCancel
  <2>5. BookBacked'
    <3>1. CASE UNCHANGED <<queues, incoming>>
        BY <1>4, <3>1, BookKeeps DEF Backed
    <3>2. ASSUME NEW x \in Resting(c.order_id, c.account_id), Engine!Withdraw(x[1], x[2], x[3])
          PROVE  BookBacked'
      <4>1. incoming = Nil /\ incoming' = incoming /\ queues' = Engine!Without(x[1], x[2], x[3])
          BY <3>2 DEF Engine!Withdraw
      <4>2. BookShrinks
          BY <2>3, <4>1, WithoutShape
      <4>3. \A s \in Sides, p \in Prices : \A o \in Range(queues'[s][p]) :
                Covers(o.order_id, s, p * o.qty)'
          BY <1>1, <4>2, BookShrinksBacked DEF Backed
      <4> QED BY <4>1, <4>3 DEF BookBacked
    <3> QED BY <1>10, <3>1, <3>2 DEF EngineCancel
  <2> QED BY <1>1, <1>2, <1>3, <2>2, <2>4, <2>5, BackedEngine
<1>11. CASE EngineReplace
  <2>1. Takes("Replace") /\ ingress' = Tail(ingress)
      BY <1>11 DEF EngineReplace
  <2>2. Head(ingress).type # "Replace"
      BY <2>1, PlacesTakes
  <2> QED BY <2>1, <2>2 DEF Takes
<1>12. CASE EngineSetsLimits
  <2>1. /\ Takes("SetRiskLimits") /\ ingress' = Tail(ingress) /\ Emit(Ack(Zero))
        /\ incoming' = incoming /\ queues' = queues
      BY <1>12 DEF EngineSetsLimits
  <2>2. Range(ingress') \subseteq Range(ingress)
      BY <2>1, TakesType
  <2>3. FillsBacked'
      BY <1>5, <2>1, ConstantTypes
  <2>4. BookBacked'
      BY <1>4, <2>1, BookKeeps DEF Backed
  <2> QED BY <1>1, <1>2, <1>3, <2>2, <2>3, <2>4, BackedEngine
<1> QED BY <1>6, <1>7, <1>8, <1>9, <1>10, <1>11, <1>12 DEF EngineStep

\* At first there is nothing to pay for.
LEMMA BackedInit == Init => Backed
<1> SUFFICES ASSUME Init PROVE Backed
    OBVIOUS
<1>1. \A c \in Conns : handler[c].at = "idle"
    BY DEF Init, Idle
<1>2. /\ Range(toEngine) = {} /\ Range(ingress) = {} /\ Range(toGateway) = {} /\ Range(todo) = {}
      /\ incoming = Nil
    BY DEF Init, Range, Engine!AbstractInit
<1>3. \A s \in Sides, p \in Prices : Range(queues[s][p]) = {}
    BY DEF Init, Range, Engine!AbstractInit, Sides
<1> QED BY <1>1, <1>2, <1>3
        DEF Backed, LoopsBacked, SentBacked, BookBacked, FillsBacked, StepsBacked

\* Every step keeps what orders and fills cost within what is reserved for them.
LEMMA BackedStep == TrackInv /\ Backed /\ [Next]_vars => Backed'
<1> SUFFICES ASSUME TrackInv, Backed, [Next]_vars PROVE Backed'
    OBVIOUS
<1> USE DEF TrackInv
<1>1. TypeInv'
    BY TypeStep
<1>2. ASSUME UNCHANGED <<pending_orders, handler, toEngine, ingress, queues, incoming, toGateway, todo>>
      PROVE  Backed'
  <2>1. \A i \in Ids : Keeps(i)
      BY <1>2 DEF Keeps
  <2>2. StepsBacked'
      BY <1>2 DEF Backed, StepsBacked
  <2> QED BY <1>1, <1>2, <2>1, <2>2, BackedFrame
<1>3. ASSUME NEW c \in Conns, Authenticate(c) \/ Disconnect(c) PROVE Backed'
    BY <1>2, <1>3 DEF Authenticate, Disconnect, engineVars
<1>4. ASSUME NEW c \in Conns, ReadCommand(c) \/ HandleCommand(c) PROVE Backed'
  <2>1. ASSUME NEW account \in Accounts, ReadSetRiskLimits(c, account) PROVE Backed'
    <3>1. UNCHANGED <<pending_orders, toEngine, ingress, queues, incoming, toGateway, todo>>
        BY <2>1 DEF ReadSetRiskLimits, engineVars
    <3>2. \A i \in Ids : Keeps(i)
        BY <3>1 DEF Keeps
    <3>3. /\ handler'[c].at = "route" /\ handler'[c].cmd.type # "NewOrder"
          /\ \A d \in Conns \ {c} : handler'[d] = handler[d]
        BY <2>1 DEF ReadSetRiskLimits, Goto, TypeInv, TypeOK
    <3>4. StepsBacked'
        BY <3>1 DEF Backed, StepsBacked
    <3> QED BY <1>1, <3>1, <3>2, <3>3, <3>4, BackedFrame
  <2> QED BY <1>1, <1>4, <2>1, PlainSteps, BackedReadNewOrder, BackedReadCancel, BackedTrackOrder,
             BackedRoute
<1>5. CASE UNCHANGED vars
    BY <1>2, <1>5 DEF vars, loopVars, engineVars
<1> QED BY <1>1, <1>3, <1>4, <1>5, BackedOnFill, BackedAnswer, BackedRespond,
           BackedEngineReceives, BackedEngineStep DEF Next, HandleResponse

\* The half of Solvent that its steps keep; the other half is what the tokens add up to.
Affordable == \A a \in Accounts : tentative_reserved[a] <= buying_power[a]

\* A new order is taken only if what it can cost is still free.
LEMMA AffordableReadNewOrder ==
    ASSUME TypeInv, Affordable, NEW c \in Conns, NEW no \in NewOrders, ReadNewOrder(c, no)
    PROVE  Affordable'
<1>1. no.account_id \in Accounts /\ Required(no) \in Nat /\ UNCHANGED buying_power
    BY ConstantTypes, OrderFields DEF ReadNewOrder
<1>2. \A a \in Accounts : tentative_reserved[a] \in Int /\ buying_power[a] \in Int
    BY DEF TypeInv, TypeOK
<1>3. CASE UNCHANGED tentative_reserved
    BY <1>1, <1>3 DEF Affordable
<1>4. CASE CheckOrder(no) /\ Reserve(no.account_id, Required(no))
  <2>1. Required(no) <= buying_power[no.account_id] - tentative_reserved[no.account_id]
      BY <1>4 DEF CheckOrder, Available
  <2>2. /\ tentative_reserved'[no.account_id] = tentative_reserved[no.account_id] + Required(no)
        /\ \A b \in Accounts \ {no.account_id} : tentative_reserved'[b] = tentative_reserved[b]
      BY <1>1, <1>4, ReserveType DEF TypeInv
  <2>3. tentative_reserved'[no.account_id] <= buying_power[no.account_id]
      BY <1>1, <1>2, <2>1, <2>2
  <2> QED BY <1>1, <2>2, <2>3 DEF Affordable
<1> QED BY <1>3, <1>4 DEF ReadNewOrder

\* What releases a token and takes no money keeps the account solvent.
LEMMA AffordableRelease ==
    ASSUME TypeInv, Affordable, NEW t \in ReservationToken, ReleaseReservation(t),
           UNCHANGED buying_power
    PROVE  Affordable'
<1> SUFFICES ASSUME NEW a \in Accounts PROVE tentative_reserved'[a] <= buying_power[a]
    BY DEF Affordable
<1>1. tentative_reserved'[a] = tentative_reserved[a] - AmountOf(t, a)
    BY ReleaseAmount
<1>2. AmountOf(t, a) \in Nat
    BY AmountType
<1>3. tentative_reserved[a] \in Int /\ buying_power[a] \in Int
    BY DEF TypeInv, TypeOK
<1>4. tentative_reserved[a] <= buying_power[a]
    BY DEF Affordable
<1> QED BY <1>1, <1>2, <1>3, <1>4

\* A fill takes no more than its order had reserved.
LEMMA AffordableApply ==
    ASSUME TypeInv, Affordable, StepsBacked, NEW x \in Range(todo), x.do = "apply",
           ApplyFill(x.fill, x.meta)
    PROVE  Affordable'
<1> SUFFICES ASSUME NEW a \in Accounts PROVE tentative_reserved'[a] <= buying_power'[a]
    BY DEF Affordable
<1> DEFINE t == x.meta.token
           cost == x.fill.price * x.fill.qty
<1>1. x \in TodoStep
    BY RangeType DEF TypeInv, QueueTypes, TodoStep
<1>2. x.meta \in OrderMetadata /\ x.fill \in FillEvent
    BY <1>1, StepFields DEF ApplyStep
<1>3. t \in ReservationToken /\ x.meta.side \in {"Buy", "Sell"}
    BY <1>2 DEF OrderMetadata
<1>4. t.account_id \in Accounts /\ t.amount \in Nat
    BY <1>3, TokenFields
<1>5. cost \in Nat
  <2>1. x.fill.price \in Prices /\ x.fill.qty \in 1 .. MaxQty
      BY <1>2 DEF FillEvent
  <2>2. x.fill.price \in Nat
      BY <2>1, ConstantTypes
  <2>3. MaxQty \in Nat
      BY ConstantTypes
  <2>4. x.fill.qty \in Nat
      BY <2>1, <2>3
  <2> QED BY <2>2, <2>4
<1>6. x.meta.side = "Buy" => cost <= t.amount
    BY DEF StepsBacked
<1>7. tentative_reserved'[a] = tentative_reserved[a] - AmountOf(t, a)
    BY <1>3, ReleaseAmount DEF ApplyFill
<1>8. buying_power' = [buying_power EXCEPT ![t.account_id] = @ - Signed(x.meta.side, cost)]
    BY DEF ApplyFill
<1>9. tentative_reserved[a] \in Int /\ buying_power[a] \in Int /\ tentative_reserved[a] <= buying_power[a]
    BY DEF TypeInv, TypeOK, Affordable
<1>10. Signed(x.meta.side, cost) \in Int /\ Signed(x.meta.side, cost) <= t.amount
  <2> HIDE DEF cost, t
  <2>1. CASE x.meta.side = "Buy"
      BY <1>4, <1>5, <1>6, <2>1 DEF Signed
  <2>2. CASE x.meta.side = "Sell"
      BY <1>4, <1>5, <2>2 DEF Signed
  <2> QED BY <1>3, <2>1, <2>2
<1>11. buying_power'[a] = IF a = t.account_id THEN buying_power[a] - Signed(x.meta.side, cost)
                          ELSE buying_power[a]
    BY <1>4, <1>8 DEF TypeInv, TypeOK
<1> HIDE DEF cost, t
<1>12. CASE a = t.account_id
  <2>1. AmountOf(t, a) = t.amount
      BY <1>12 DEF AmountOf
  <2> QED BY <1>4, <1>7, <1>9, <1>10, <1>11, <1>12, <2>1
<1>13. CASE a # t.account_id
  <2>1. AmountOf(t, a) = 0
      BY <1>13 DEF AmountOf
  <2> QED BY <1>7, <1>9, <1>11, <1>13, <2>1
<1> QED BY <1>12, <1>13

\* No step makes an account reserve more than it has.
LEMMA AffordableStep == TrackInv /\ Backed /\ Affordable /\ [Next]_vars => Affordable'
<1> SUFFICES ASSUME TrackInv, Backed, Affordable, [Next]_vars PROVE Affordable'
    OBVIOUS
<1> USE DEF TrackInv
<1>1. ASSUME UNCHANGED <<tentative_reserved, buying_power>> PROVE Affordable'
    BY <1>1 DEF Affordable
<1>2. ASSUME NEW c \in Conns, Authenticate(c) \/ Disconnect(c) PROVE Affordable'
    BY <1>1, <1>2 DEF Authenticate, Disconnect, accountVars
<1>3. ASSUME NEW c \in Conns, TrackOrder(c) \/ Route(c) PROVE Affordable'
    BY <1>1, <1>3 DEF TrackOrder, Route, accountVars
<1>4. ASSUME NEW c \in Conns, NEW account \in Accounts,
             ReadSetRiskLimits(c, account) \/ \E i \in Ids : ReadCancel(c, i, account)
      PROVE  Affordable'
    BY <1>1, <1>4 DEF ReadCancel, ReadSetRiskLimits, accountVars
<1>5. ASSUME NEW c \in Conns, ReadCommand(c) \/ HandleCommand(c) PROVE Affordable'
    BY <1>3, <1>4, <1>5, PlainSteps, AffordableReadNewOrder
<1>6. CASE OnFill \/ OnReject \/ EngineReceives \/ EngineStep \/ UNCHANGED vars
    BY <1>1, <1>6 DEF OnFill, OnReject, EngineReceives, EngineStep, vars, accountVars
<1>7. CASE OnAck
  <2> DEFINE id == Head(toGateway).order_id
  <2>1. UNCHANGED buying_power /\ id \in Ids
      BY <1>7, ReceivesType DEF OnAck
  <2>2. CASE UNCHANGED tentative_reserved
      BY <1>1, <2>1, <2>2
  <2>3. CASE IsCancelAck(id) /\ ReleaseReservation(pending_orders[id].token)
    <3>1. pending_orders[id] \in OrderMetadata
        BY <2>1, <2>3 DEF IsCancelAck, TypeInv, TypeOK
    <3>2. pending_orders[id].token \in ReservationToken
        BY <3>1 DEF OrderMetadata
    <3> QED BY <2>1, <2>3, <3>2, AffordableRelease
  <2> QED BY <1>7, <2>2, <2>3 DEF OnAck
<1>8. CASE Respond
  <2> DEFINE x == Head(todo)
  <2>1. x \in TodoStep /\ x \in Range(todo)
      BY <1>8, RangeTail DEF Respond, TypeInv, QueueTypes, TodoStep
  <2>2. CASE x.do = "apply" /\ ApplyFill(x.fill, x.meta)
      BY <2>1, <2>2, AffordableApply DEF Backed
  <2>3. CASE UNCHANGED accountVars
      BY <1>1, <2>3 DEF accountVars
  <2>4. CASE x.do = "release" /\ ReleaseReservation(x.token) /\ UNCHANGED buying_power
    <3>1. x.token \in ReservationToken
        BY <2>1, <2>4, StepFields DEF ReleaseStep
    <3> QED BY <2>4, <3>1, AffordableRelease
  <2> QED BY <1>8, <2>2, <2>3, <2>4 DEF Respond
<1> QED BY <1>2, <1>5, <1>6, <1>7, <1>8 DEF Next, HandleResponse

\* The tokens add up to what is reserved, so it is never negative.
LEMMA SolventFromParts ==
    ASSUME TypeInv, ReservationsTracked, Affordable
    PROVE  Solvent
<1> SUFFICES ASSUME NEW a \in Accounts PROVE 0 <= tentative_reserved[a]
    BY DEF Solvent, Affordable
<1>1. PendingAmount(a) \in Nat /\ HeldAmount(a) \in Nat /\ ReleasingAmount(a) \in Nat
    BY Weights DEF WeightFacts
<1> QED BY <1>1 DEF ReservationsTracked

\* "No double-spend", for every number of clients, orders and accounts: when every order has an
\* id of its own, nothing is replaced and commands reach the engine server (PlainCommands; the
\* code does not see to it), no account reserves more than it has, although the check and the
\* reservation, the fills and the releases are steps of different tasks.  A fill never costs
\* more than the token it releases.
THEOREM GatewaySolvent == PlainCommands /\ Spec => []Solvent
<1> DEFINE I == TrackInv /\ ReservationsTracked /\ Backed /\ Affordable
<1>1. PlainCommands /\ Init => I
  <2>1. Init => Affordable
    <3>1. BuyingPower \in Nat
        BY ConstantTypes
    <3> QED BY <3>1 DEF Init, Affordable
  <2> QED BY <2>1, TrackInvInit, TrackedInit, BackedInit
<1>2. I /\ [Next]_vars => I'
    BY TrackInvStep, TrackedStep, BackedStep, AffordableStep
<1>3. I => Solvent
    BY SolventFromParts DEF TrackInv
<1> QED BY <1>1, <1>2, <1>3, PTL DEF Spec

-----------------------------------------------------------------------------
(* Orders of one lot: what the gateway and the engine know of the same orders *)

\* Clients send new orders of one lot and nothing else.  A cancel can overtake the order it is
\* about, and the first fill of a larger order releases the whole reservation.
OneLot ==
    /\ PlainCommands
    /\ Commands \subseteq {"NewOrder", "Disconnect"}
    /\ \A no \in NewOrders : no.qty = 1

\* The entry of an order in the shared map.
Entry(account, side, price) ==
    [token |-> [account_id |-> account, amount |-> IF side = "Buy" THEN price ELSE 0],
     side |-> side, operation |-> "Active"]
EntryOf(no) == Entry(no.account_id, no.side, no.price)

\* Order i is on its way to the engine or open in it, and e is the entry it must have.
RoutingAs(i, e) ==
    \E c \in Conns :
        /\ handler[c].at = "route" /\ handler[c].cmd.type = "NewOrder"
        /\ handler[c].cmd.order.order_id = i /\ e = EntryOf(handler[c].cmd.order)
SentAs(s, i, e) ==
    \E x \in Range(s) : x.type = "NewOrder" /\ x.order.order_id = i /\ e = EntryOf(x.order)
MatchingAs(i, e) ==
    incoming # Nil /\ incoming.qty = 1 /\ incoming.order_id = i /\ e = EntryOf(incoming)
BookedAs(i, e) ==
    \E s \in Sides, p \in Prices : \E o \in Range(queues[s][p]) :
        o.order_id = i /\ e = Entry(o.account_id, s, p)
Live(i, e) ==
    \/ RoutingAs(i, e) \/ SentAs(toEngine, i, e) \/ SentAs(ingress, i, e)
    \/ MatchingAs(i, e) \/ BookedAs(i, e)

\* Order i is refused by an answer on its way, or in the fill being handled.
Rejected(i) == \E x \in Range(toGateway) : x.type = "Reject" /\ x.order_id = i
Applying(i) == \E x \in Range(todo) : x.do = "apply" /\ x.id = i
Handling(i) == \E x \in Range(todo) : x.do \in {"apply", "remove"} /\ x.id = i
Tracking(c, i) == handler[c].at = "track" /\ handler[c].cmd.order.order_id = i

OrderCmd == [type : {"NewOrder"}, order : NewOrders]

\* The only commands are the new orders, and a read loop reserves what its order can cost.
OnlyOrders ==
    /\ \A c \in Conns :
          /\ handler[c].at # "idle" => handler[c].at \in {"track", "route"} /\ handler[c].cmd \in OrderCmd
          /\ handler[c].at = "track" => handler[c].token = EntryOf(handler[c].cmd.order).token
    /\ Range(toEngine) \subseteq OrderCmd
    /\ Range(ingress) \subseteq OrderCmd

\* Every order and every fill is of one lot.
UnitQtys ==
    /\ \A s \in Sides, p \in Prices : \A o \in Range(queues[s][p]) : o.qty = 1
    /\ incoming # Nil => incoming.qty \in {0, 1}
    /\ \A x \in Range(toGateway) : x.type = "Fill" => x.qty = 1
    /\ \A x \in Range(todo) : x.do = "apply" => x.fill.qty = 1

\* No two places of the book hold the same order.
BookOnce ==
    \A s, t \in Sides, p, q \in Prices :
        \A k \in 1 .. Len(queues[s][p]), l \in 1 .. Len(queues[t][q]) :
            queues[s][p][k].order_id = queues[t][q][l].order_id => s = t /\ p = q /\ k = l

\* No two fills on their way are about the same order.
FillsOnce ==
    \A k, l \in 1 .. Len(toGateway) :
        /\ toGateway[k].type = "Fill" /\ toGateway[l].type = "Fill"
        /\ {toGateway[k].maker, toGateway[k].taker} \cap {toGateway[l].maker, toGateway[l].taker} # {}
        => k = l

\* The shared map names every order that is live or filled, an order is live, filled or
\* refused and never two of these, and nobody waits for a cancel.
LiveApart ==
    \A i \in Ids, e \in OrderMetadata :
        Live(i, e) => pending_orders[i] = e /\ ~Filled(i) /\ ~Rejected(i) /\ ~Handling(i)
FillsApart ==
    \A i \in Ids :
        /\ Filled(i) => pending_orders[i] # Nil /\ ~Rejected(i) /\ ~Handling(i)
        /\ Handling(i) => ~Rejected(i)
        /\ Rejected(i) => i \in used /\ \A c \in Conns : ~Tracking(c, i)
MapActive ==
    /\ \A i \in Ids : pending_orders[i] # Nil => pending_orders[i].operation = "Active"
    /\ \A x \in Range(todo) : x.do = "apply" => pending_orders[x.id] = x.meta
Apart == LiveApart /\ FillsApart /\ MapActive

LotInv ==
    OneLot /\ TrackInv /\ OnlyOrders /\ UnitQtys /\ BookOnce /\ FillsOnce /\ Apart

\* An order of one lot can cost its price, and its entry has the type of the map.
LEMMA LotFields ==
    ASSUME OneLot, NEW no \in NewOrders
    PROVE  /\ no \in OrderType /\ no.qty = 1
           /\ Required(no) = EntryOf(no).token.amount
           /\ EntryOf(no) \in OrderMetadata
<1>1. no \in OrderType /\ no.qty = 1
    BY ConstantTypes DEF OneLot
<1>2. no.account_id \in Accounts /\ no.side \in Sides /\ no.price \in Nat
    BY <1>1, OrderFields
<1>3. Required(no) = EntryOf(no).token.amount
    BY <1>1, <1>2 DEF Required, EntryOf, Entry
<1>4. EntryOf(no) \in OrderMetadata
    BY <1>2 DEF EntryOf, Entry, OrderMetadata, ReservationToken, Sides
<1> QED BY <1>1, <1>3, <1>4

\* A command of the setting is a new order.
LEMMA OrderCmdFields ==
    ASSUME OneLot, NEW x \in OrderCmd
    PROVE  /\ x.type = "NewOrder" /\ x.order \in NewOrders /\ x.order \in OrderType
           /\ x.order.order_id \in Ids /\ x.order.qty = 1
           /\ EntryOf(x.order) \in OrderMetadata
<1>1. x.type = "NewOrder" /\ x.order \in NewOrders
    BY DEF OrderCmd
<1> QED BY <1>1, LotFields, OrderFields

\* The read loops take no other steps than these.
LEMMA LotLoopSteps ==
    ASSUME LotInv, NEW c \in Conns, ReadCommand(c) \/ HandleCommand(c)
    PROVE  (\E no \in NewOrders : ReadNewOrder(c, no)) \/ TrackOrder(c) \/ Route(c)
<1>1. /\ \A i \in Ids, account \in Accounts : ~ReadCancel(c, i, account)
      /\ \A account \in Accounts : ~ReadSetRiskLimits(c, account)
    BY DEF LotInv, OneLot, ReadCancel, ReadSetRiskLimits, Reads
<1> QED BY <1>1, PlainSteps DEF LotInv, TrackInv

\* The engine takes no other steps than these.
LEMMA LotEngineSteps ==
    ASSUME LotInv, EngineStep
    PROVE  /\ UNCHANGED <<accountVars, pending_orders, loopVars, todo, toEngine>>
           /\ \/ EngineTrades
              \/ (EngineNewOrder \/ EngineRejects \/ EngineSettles) /\ UNCHANGED engine_positions
<1>1. ASSUME NEW type, Takes(type) PROVE type = "NewOrder"
  <2>1. ingress \in Seq(Cmd) /\ ingress # <<>>
      BY <1>1 DEF Takes, LotInv, TrackInv, TypeInv, QueueTypes
  <2>2. Head(ingress) \in Range(ingress)
      BY <2>1, RangeTail
  <2>3. Head(ingress) \in OrderCmd
      BY <2>2 DEF LotInv, OnlyOrders
  <2> QED BY <1>1, <2>3 DEF Takes, OrderCmd
<1>2. ~EngineCancel /\ ~EngineReplace /\ ~EngineSetsLimits
    BY <1>1 DEF EngineCancel, EngineReplace, EngineSetsLimits
<1> QED BY <1>2 DEF EngineStep

\* A trade of one lot: the first order at the price leaves the book, the incoming order has
\* nothing left, and both accounts have their new positions.
UnitTrade(s, p, m) ==
    /\ incoming # Nil /\ incoming.qty = 1
    /\ s = Engine!Other(incoming.side) /\ queues[s][p] # <<>> /\ m = Head(queues[s][p])
    /\ incoming' = [incoming EXCEPT !.qty = 0]
    /\ queues' = [queues EXCEPT ![s][p] = Tail(@)]
    /\ toGateway' = Append(toGateway,
          [type |-> "Fill", maker |-> m.order_id, taker |-> incoming.order_id, price |-> p,
           qty |-> 1])
    /\ engine_positions' =
          [[engine_positions EXCEPT ![incoming.account_id] = @ + Signed(incoming.side, 1)]
              EXCEPT ![m.account_id] = @ - Signed(incoming.side, 1)]
    /\ ingress' = ingress

\* Every trade is one.
LEMMA TradeIsUnit ==
    ASSUME TypeInv, UnitQtys, EngineTrades
    PROVE  \E s \in Sides, p \in Prices, m \in BookOrder :
              m \in Range(queues[s][p]) /\ UnitTrade(s, p, m)
<1> DEFINE s == Engine!Other(incoming.side)
<1>1. incoming # Nil /\ incoming.qty > 0 /\ ingress' = ingress
    BY DEF EngineTrades, Engine!TradeWithFirst
<1>2. /\ incoming \in IncomingType /\ s \in Sides /\ incoming.side \in Sides
      /\ incoming.qty = 1
    BY <1>1, IncomingFields DEF UnitQtys
<1>3. PICK p \in Engine!Acceptable :
        LET first == Head(queues[s][p])
            qty == IF incoming.qty < first.qty THEN incoming.qty ELSE first.qty
        IN  /\ Engine!Best(p)
            /\ incoming' = [incoming EXCEPT !.qty = @ - qty]
            /\ queues' = [queues EXCEPT ![s][p] =
                  IF qty = first.qty THEN Tail(@)
                  ELSE <<[first EXCEPT !.qty = @ - qty]>> \o Tail(@)]
    BY DEF EngineTrades, Engine!TradeWithFirst
<1>4. PICK r \in Engine!Acceptable :
        LET maker == Head(queues[s][r])
            qty == incoming.qty - incoming'.qty
        IN  /\ Engine!Best(r)
            /\ Emit([type |-> "Fill", maker |-> maker.order_id, taker |-> incoming.order_id,
                     price |-> r, qty |-> qty])
            /\ engine_positions' =
                  LET pos == [engine_positions EXCEPT ![incoming.account_id] =
                                 @ + Signed(incoming.side, qty)]
                  IN  [pos EXCEPT ![maker.account_id] = @ - Signed(incoming.side, qty)]
    BY DEF EngineTrades
<1>5. p \in Prices /\ r \in Prices /\ p \in Nat /\ r \in Nat
  <2>1. p \in Prices /\ r \in Prices
      BY DEF Engine!Acceptable
  <2> QED BY <2>1, ConstantTypes
<1>6. p = r
  <2>1. IF incoming.side = "Buy" THEN p <= r ELSE p >= r
      BY <1>3 DEF Engine!Best
  <2>2. IF incoming.side = "Buy" THEN r <= p ELSE r >= p
      BY <1>4 DEF Engine!Best
  <2> QED BY <1>5, <2>1, <2>2
<1> DEFINE q == queues[s][p]
           m == Head(q)
<1>7. q # <<>>
    BY DEF Engine!Acceptable
<1>8. q \in Seq(BookOrder) /\ \A o \in Range(q) : o.qty = 1
    BY <1>2, <1>5, QueueFields DEF UnitQtys
<1>9. m \in BookOrder /\ m \in Range(q)
  <2> HIDE DEF q
  <2> QED BY <1>7, <1>8, RangeTail
<1>10. m.qty = 1
    BY <1>8, <1>9
<1>11. incoming' = [incoming EXCEPT !.qty = 0] /\ queues' = [queues EXCEPT ![s][p] = Tail(@)]
  <2> DEFINE qty == IF incoming.qty < m.qty THEN incoming.qty ELSE m.qty
  <2>1. qty = 1
      BY <1>2, <1>10
  <2>2. /\ incoming' = [incoming EXCEPT !.qty = incoming.qty - qty]
        /\ queues' = [queues EXCEPT ![s][p] = IF qty = m.qty THEN Tail(q)
                                              ELSE <<[m EXCEPT !.qty = m.qty - qty]>> \o Tail(q)]
      BY <1>3
  <2> HIDE DEF qty, m, s
  <2>3. incoming.qty - qty = 0 /\ qty = m.qty
      BY <1>2, <1>10, <2>1
  <2> QED BY <2>2, <2>3
<1>12. incoming.qty - incoming'.qty = 1
    BY <1>2, <1>11 DEF IncomingType
<1>13. toGateway' = Append(toGateway,
          [type |-> "Fill", maker |-> m.order_id, taker |-> incoming.order_id, price |-> p,
           qty |-> 1])
    BY <1>4, <1>6, <1>12 DEF Emit
<1>14. engine_positions' =
          [[engine_positions EXCEPT ![incoming.account_id] = @ + Signed(incoming.side, 1)]
              EXCEPT ![m.account_id] = @ - Signed(incoming.side, 1)]
    BY <1>4, <1>6, <1>12
<1>15. UnitTrade(s, p, m)
    BY <1>1, <1>2, <1>7, <1>11, <1>13, <1>14 DEF UnitTrade
<1> HIDE DEF s, m
<1> QED BY <1>2, <1>5, <1>9, <1>15

\* An order that settles rests as a whole, or leaves nothing.
Rests ==
    /\ incoming.qty = 1
    /\ queues' = [queues EXCEPT ![incoming.side][incoming.price] =
                     Append(@, [order_id |-> incoming.order_id,
                                account_id |-> incoming.account_id, qty |-> 1])]

\* Every order that settles does one of these.
LEMMA SettleIsUnit ==
    ASSUME TypeInv, UnitQtys, EngineSettles
    PROVE  /\ incoming # Nil /\ incoming' = Nil /\ ingress' = ingress
           /\ toGateway' = Append(toGateway, Ack(incoming.order_id))
           /\ \/ Rests
              \/ queues' = queues /\ (incoming.qty = 0 \/ ~incoming.gtc)
<1>1. /\ incoming # Nil /\ incoming' = Nil /\ ingress' = ingress
      /\ toGateway' = Append(toGateway, Ack(incoming.order_id))
      /\ queues' = IF incoming.qty > 0 /\ incoming.gtc
                   THEN [queues EXCEPT ![incoming.side][incoming.price] =
                            Append(@, [order_id |-> incoming.order_id,
                                       account_id |-> incoming.account_id,
                                       qty |-> incoming.qty])]
                   ELSE queues
    BY DEF EngineSettles, Engine!Settle, Emit
<1>2. incoming.qty \in {0, 1}
    BY <1>1 DEF UnitQtys
<1>3. CASE incoming.qty > 0 /\ incoming.gtc
  <2>1. incoming.qty = 1
      BY <1>2, <1>3
  <2> QED BY <1>1, <1>3, <2>1 DEF Rests
<1>4. CASE ~(incoming.qty > 0 /\ incoming.gtc)
  <2>1. incoming.qty = 0 \/ ~incoming.gtc
      BY <1>2, <1>4
  <2> QED BY <1>1, <1>4, <2>1
<1> QED BY <1>3, <1>4

\* The head of a queue, where it was and what the rest is.
LEMMA QueueHead ==
    ASSUME NEW X, NEW q \in Seq(X), q # <<>>
    PROVE  /\ 1 \in 1 .. Len(q) /\ q[1] = Head(q)
           /\ Tail(q) \in Seq(X)
           /\ \A k \in 1 .. Len(Tail(q)) : k + 1 \in 1 .. Len(q) /\ Tail(q)[k] = q[k + 1]
           /\ \A k \in 1 .. Len(q) : k = 1 \/ (k - 1 \in 1 .. Len(Tail(q)) /\ Tail(q)[k - 1] = q[k])
<1>1. Len(q) \in Nat /\ Len(q) # 0
    OBVIOUS
<1>2. Len(Tail(q)) = Len(q) - 1 /\ Tail(q) \in Seq(X) /\ Head(q) = q[1]
    BY HeadTailProperties
<1>3. \A k \in 1 .. Len(Tail(q)) : Tail(q)[k] = q[k + 1]
    BY HeadTailProperties
<1> QED BY <1>1, <1>2, <1>3

\* What reading a new order changes.
LEMMA ReadNewOrderShape ==
    ASSUME TypeInv, OneLot, NEW c \in Conns, NEW no \in NewOrders, ReadNewOrder(c, no)
    PROVE  /\ handler[c] = Idle /\ handler[c].at = "idle"
           /\ no.order_id \in Ids /\ no.order_id \notin used /\ used' = used \cup {no.order_id}
           /\ \A d \in Conns \ {c} : handler'[d] = handler[d]
           /\ \/ handler'[c] = handler[c]
              \/ /\ handler'[c].at = "track"
                 /\ handler'[c].cmd = [type |-> "NewOrder", order |-> no]
                 /\ handler'[c].token = EntryOf(no).token
           /\ UNCHANGED <<buying_power, positions, pending_orders, todo, toEngine, toGateway,
                          engineVars>>
<1>1. /\ handler[c] = Idle /\ no.order_id \notin used /\ used' = used \cup {no.order_id}
      /\ UNCHANGED <<buying_power, positions, pending_orders, todo, toEngine, toGateway,
                     engineVars>>
    BY DEF OneLot, PlainCommands, ReadNewOrder, Reads
<1>2. no.order_id \in Ids
    BY LotFields, OrderFields
<1>3. handler[c].at = "idle"
    BY <1>1 DEF Idle
<1>4. DOMAIN handler = Conns
    BY DEF TypeInv, TypeOK
<1>5. CASE UNCHANGED handler
    BY <1>1, <1>2, <1>3, <1>5
<1>6. CASE Goto(c, "track", [type |-> "NewOrder", order |-> no],
                [account_id |-> no.account_id, amount |-> Required(no)])
  <2>1. /\ handler'[c].at = "track" /\ handler'[c].cmd = [type |-> "NewOrder", order |-> no]
        /\ handler'[c].token = [account_id |-> no.account_id, amount |-> Required(no)]
        /\ \A d \in Conns \ {c} : handler'[d] = handler[d]
      BY <1>4, <1>6 DEF Goto
  <2>2. Required(no) = EntryOf(no).token.amount
      BY LotFields
  <2>3. handler'[c].token = EntryOf(no).token
      BY <2>1, <2>2 DEF EntryOf, Entry
  <2> QED BY <1>1, <1>2, <1>3, <2>1, <2>3
<1> QED BY <1>5, <1>6 DEF ReadNewOrder

\* What routing an order changes.
LEMMA RouteShape ==
    ASSUME LotInv, NEW c \in Conns, Route(c)
    PROVE  LET x == handler[c].cmd IN
           /\ handler[c].at = "route" /\ x \in OrderCmd /\ x \in Cmd
           /\ handler'[c] = Idle /\ handler'[c].at = "idle"
           /\ \A d \in Conns \ {c} : handler'[d] = handler[d]
           /\ toEngine' = Append(toEngine, x)
           /\ Range(toEngine') = Range(toEngine) \cup {x}
           /\ UNCHANGED <<accountVars, pending_orders, used, issued, todo, toGateway, engineVars>>
<1> DEFINE x == handler[c].cmd
<1>1. /\ handler[c].at = "route" /\ toEngine' = Append(toEngine, x)
      /\ UNCHANGED <<accountVars, pending_orders, used, issued, todo, toGateway, engineVars>>
    BY DEF Route
<1>2. handler'[c] = Idle /\ \A d \in Conns \ {c} : handler'[d] = handler[d]
    BY DEF Route, LotInv, TrackInv, TypeInv, TypeOK
<1>3. handler'[c].at = "idle"
    BY <1>2 DEF Idle
<1>4. x \in OrderCmd
    BY <1>1 DEF LotInv, OnlyOrders
<1>5. x \in Cmd /\ toEngine \in Seq(Cmd)
    BY <1>1, HandlerFields DEF LotInv, TrackInv, TypeInv, QueueTypes
<1>6. Range(toEngine') = Range(toEngine) \cup {x}
  <2> HIDE DEF x
  <2> QED BY <1>1, <1>5, RangeAppend
<1> QED BY <1>1, <1>2, <1>3, <1>4, <1>5, <1>6

\* What the engine server's read changes.
LEMMA ReceivesShape ==
    ASSUME LotInv, EngineReceives
    PROVE  LET x == Head(toEngine) IN
           /\ x \in OrderCmd /\ x \in Cmd /\ x \in Range(toEngine)
           /\ Range(toEngine) = Range(toEngine') \cup {x}
           /\ toEngine' = Tail(toEngine) /\ Len(toEngine') = Len(toEngine) - 1
           /\ Range(ingress') = IF Len(ingress) < IngressCap THEN Range(ingress) \cup {x}
                                ELSE Range(ingress)
           /\ UNCHANGED <<accountVars, pending_orders, loopVars, todo, toGateway, queues, incoming,
                          engine_positions>>
<1> DEFINE x == Head(toEngine)
<1>1. /\ toEngine # <<>> /\ toEngine' = Tail(toEngine)
      /\ ingress' = IF Len(ingress) < IngressCap THEN Append(ingress, x) ELSE ingress
      /\ UNCHANGED <<accountVars, pending_orders, loopVars, todo, toGateway, queues, incoming,
                     engine_positions>>
    BY DEF EngineReceives
<1>2. toEngine \in Seq(Cmd) /\ ingress \in Seq(Cmd)
    BY DEF LotInv, TrackInv, TypeInv, QueueTypes
<1>3. x \in Cmd /\ x \in Range(toEngine) /\ Range(toEngine') \subseteq Range(toEngine)
    BY <1>1, <1>2, RangeTail
<1>4. x \in OrderCmd
    BY <1>3 DEF LotInv, OnlyOrders
<1>5. Len(toEngine') = Len(toEngine) - 1
    BY <1>1, <1>2, HeadTailProperties
<1>6. Range(toEngine) \subseteq Range(toEngine') \cup {x}
  <2> SUFFICES ASSUME NEW y \in Range(toEngine) PROVE y \in Range(toEngine') \cup {x}
      OBVIOUS
  <2>1. PICK k \in 1 .. Len(toEngine) : y = toEngine[k]
      BY <1>2, RangeType
  <2>2. CASE k = 1
      BY <1>1, <1>2, <2>1, <2>2
  <2>3. CASE k # 1
    <3>1. k - 1 \in 1 .. Len(toEngine') /\ toEngine'[k - 1] = y /\ toEngine' \in Seq(Cmd)
        BY <1>1, <1>2, <2>1, <2>3, QueueHead
    <3> QED BY <3>1, RangeType
  <2> QED BY <2>2, <2>3
<1> HIDE DEF x
<1>7. Range(Append(ingress, x)) = Range(ingress) \cup {x}
    BY <1>2, <1>3, RangeAppend
<1> QED BY <1>1, <1>3, <1>4, <1>5, <1>6, <1>7 DEF x

\* What taking the next order changes, in the engine's queue.
LEMMA TakesShape ==
    ASSUME LotInv, Takes("NewOrder"), ingress' = Tail(ingress)
    PROVE  LET x == Head(ingress) IN
           /\ x \in OrderCmd /\ x.order.order_id \in Ids /\ incoming = Nil
           /\ Range(ingress) = Range(ingress') \cup {x}
           /\ Len(ingress') = Len(ingress) - 1
           /\ Sent(ingress, x.order.order_id)
           /\ \A i \in Ids : Sent(ingress, i)' => i # x.order.order_id
<1> DEFINE x == Head(ingress)
<1>1. ingress # <<>> /\ ingress \in Seq(Cmd) /\ incoming = Nil /\ x.type = "NewOrder"
    BY DEF Takes, LotInv, TrackInv, TypeInv, QueueTypes
<1>2. x \in Range(ingress) /\ Range(ingress') \subseteq Range(ingress)
    BY <1>1, RangeTail
<1>3. x \in OrderCmd
    BY <1>2 DEF LotInv, OnlyOrders
<1>4. x.order.order_id \in Ids
    BY <1>3, OrderCmdFields DEF LotInv
<1>5. Len(ingress') = Len(ingress) - 1
    BY <1>1, HeadTailProperties
<1>6. Range(ingress) \subseteq Range(ingress') \cup {x}
  <2> SUFFICES ASSUME NEW y \in Range(ingress) PROVE y \in Range(ingress') \cup {x}
      OBVIOUS
  <2>1. PICK k \in 1 .. Len(ingress) : y = ingress[k]
      BY <1>1, RangeType
  <2>2. CASE k = 1
      BY <1>1, <2>1, <2>2
  <2>3. CASE k # 1
    <3>1. k - 1 \in 1 .. Len(ingress') /\ ingress'[k - 1] = y /\ ingress' \in Seq(Cmd)
        BY <1>1, <2>1, <2>3, QueueHead
    <3> QED BY <3>1, RangeType
  <2> QED BY <2>2, <2>3
<1>7. Sent(ingress, x.order.order_id) /\ \A i \in Ids : Sent(ingress, i)' => i # x.order.order_id
    BY <1>1, PlacesTakes DEF LotInv, TrackInv
<1> QED BY <1>1, <1>2, <1>3, <1>4, <1>5, <1>6, <1>7

\* What the engine's steps leave alone.
EngineOnly == UNCHANGED <<accountVars, pending_orders, loopVars, todo, toEngine>>

\* Every step of the setting is one of these.
LEMMA LotSteps ==
    ASSUME LotInv, [Next]_vars
    PROVE  \/ \E c \in Conns : Authenticate(c) \/ Disconnect(c)
           \/ \E c \in Conns, no \in NewOrders : ReadNewOrder(c, no)
           \/ \E c \in Conns : TrackOrder(c)
           \/ \E c \in Conns : Route(c)
           \/ OnFill \/ OnAck \/ OnReject \/ Respond \/ EngineReceives
           \/ EngineOnly /\ EngineTrades
           \/ EngineOnly /\ EngineNewOrder /\ UNCHANGED engine_positions
           \/ EngineOnly /\ EngineRejects /\ UNCHANGED engine_positions
           \/ EngineOnly /\ EngineSettles /\ UNCHANGED engine_positions
           \/ UNCHANGED vars
<1>1. CASE EngineStep
    BY <1>1, LotEngineSteps DEF EngineOnly
<1>2. ASSUME NEW c \in Conns, ReadCommand(c) \/ HandleCommand(c)
      PROVE  (\E no \in NewOrders : ReadNewOrder(c, no)) \/ TrackOrder(c) \/ Route(c)
    BY <1>2, LotLoopSteps
<1> QED BY <1>1, <1>2 DEF Next, HandleResponse

\* Where a live order is.
LEMMA LivePlace ==
    ASSUME NEW i, NEW e, Live(i, e)
    PROVE  \/ \E c \in Conns : Reading(c, i) /\ handler[c].at = "route"
           \/ Sent(toEngine, i) \/ Sent(ingress, i) \/ Matching(i) \/ Booked(i)
<1>1. RoutingAs(i, e) => \E c \in Conns : Reading(c, i) /\ handler[c].at = "route"
    BY DEF RoutingAs, Reading
<1>2. /\ SentAs(toEngine, i, e) => Sent(toEngine, i)
      /\ SentAs(ingress, i, e) => Sent(ingress, i)
    BY DEF SentAs, Sent
<1>3. MatchingAs(i, e) => Matching(i)
    BY DEF MatchingAs, Matching
<1>4. BookedAs(i, e) => Booked(i)
    BY DEF BookedAs, Booked
<1> QED BY <1>1, <1>2, <1>3, <1>4 DEF Live

\* The same read loops, queues and book have the same live orders.
LEMMA LiveSame ==
    ASSUME UNCHANGED <<handler, toEngine, ingress, incoming, queues>>, NEW i, NEW e
    PROVE  Live(i, e)' <=> Live(i, e)
BY DEF Live, RoutingAs, SentAs, MatchingAs, BookedAs

\* An order that is only read is not live yet.
LEMMA LiveReadNewOrder ==
    ASSUME LotInv, NEW c \in Conns, NEW no \in NewOrders, ReadNewOrder(c, no), NEW i, NEW e
    PROVE  Live(i, e)' <=> Live(i, e)
<1>1. /\ handler[c].at = "idle" /\ \A d \in Conns \ {c} : handler'[d] = handler[d]
      /\ handler'[c] = handler[c] \/ handler'[c].at = "track"
      /\ UNCHANGED <<toEngine, engineVars>>
    BY ReadNewOrderShape DEF LotInv, TrackInv
<1>2. handler[c].at # "route" /\ handler'[c].at # "route"
    BY <1>1
<1>3. RoutingAs(i, e)' <=> RoutingAs(i, e)
    BY <1>1, <1>2 DEF RoutingAs
<1>4. /\ SentAs(toEngine, i, e)' <=> SentAs(toEngine, i, e)
      /\ SentAs(ingress, i, e)' <=> SentAs(ingress, i, e)
    BY <1>1 DEF SentAs, engineVars
<1>5. (MatchingAs(i, e)' <=> MatchingAs(i, e)) /\ (BookedAs(i, e)' <=> BookedAs(i, e))
    BY <1>1 DEF MatchingAs, BookedAs, engineVars
<1> QED BY <1>3, <1>4, <1>5 DEF Live

\* Tracking an order makes it live.
LEMMA LiveTrackOrder ==
    ASSUME LotInv, NEW c \in Conns, TrackOrder(c), NEW i, NEW e
    PROVE  Live(i, e)' <=> \/ Live(i, e)
                           \/ /\ i = handler[c].cmd.order.order_id
                              /\ e = EntryOf(handler[c].cmd.order)
<1> DEFINE x == handler[c].cmd
<1>1. /\ handler[c].at = "track" /\ x.type = "NewOrder"
      /\ handler'[c] = [at |-> "route", cmd |-> x, token |-> handler[c].token]
      /\ \A d \in Conns \ {c} : handler'[d] = handler[d]
      /\ UNCHANGED <<toEngine, engineVars>>
    BY TrackOrderShape DEF LotInv, TrackInv
<1>2. handler[c].at # "route" /\ handler'[c].at = "route" /\ handler'[c].cmd = x
    BY <1>1
<1> HIDE DEF x
<1>3. RoutingAs(i, e)' <=> RoutingAs(i, e) \/ (i = x.order.order_id /\ e = EntryOf(x.order))
    BY <1>1, <1>2 DEF RoutingAs
<1>4. /\ SentAs(toEngine, i, e)' <=> SentAs(toEngine, i, e)
      /\ SentAs(ingress, i, e)' <=> SentAs(ingress, i, e)
    BY <1>1 DEF SentAs, engineVars
<1>5. (MatchingAs(i, e)' <=> MatchingAs(i, e)) /\ (BookedAs(i, e)' <=> BookedAs(i, e))
    BY <1>1 DEF MatchingAs, BookedAs, engineVars
<1> QED BY <1>3, <1>4, <1>5 DEF Live, x

\* A routed order stays live.
LEMMA LiveRoute ==
    ASSUME LotInv, NEW c \in Conns, Route(c), NEW i, NEW e
    PROVE  Live(i, e)' <=> Live(i, e)
<1> DEFINE x == handler[c].cmd
           isX == i = x.order.order_id /\ e = EntryOf(x.order)
<1>1. /\ handler[c].at = "route" /\ x \in OrderCmd
      /\ handler'[c].at = "idle"
      /\ \A d \in Conns \ {c} : handler'[d] = handler[d]
      /\ Range(toEngine') = Range(toEngine) \cup {x}
      /\ UNCHANGED engineVars
    BY RouteShape
<1>2. x.type = "NewOrder"
    BY <1>1 DEF OrderCmd
<1> HIDE DEF x
<1>3. RoutingAs(i, e) <=> RoutingAs(i, e)' \/ isX
    BY <1>1, <1>2 DEF RoutingAs, x
<1>4. SentAs(toEngine, i, e)' <=> SentAs(toEngine, i, e) \/ isX
    BY <1>1, <1>2 DEF SentAs
<1>5. SentAs(ingress, i, e)' <=> SentAs(ingress, i, e)
    BY <1>1 DEF SentAs, engineVars
<1>6. (MatchingAs(i, e)' <=> MatchingAs(i, e)) /\ (BookedAs(i, e)' <=> BookedAs(i, e))
    BY <1>1 DEF MatchingAs, BookedAs, engineVars
<1> HIDE DEF isX
<1> QED BY <1>3, <1>4, <1>5, <1>6 DEF Live

\* An order the engine server reads stays live, if the queue has room for it.
LEMMA LiveEngineReceives ==
    ASSUME LotInv, EngineReceives, NEW i, NEW e
    PROVE  /\ Live(i, e)' => Live(i, e)
           /\ Len(ingress) < IngressCap => (Live(i, e) => Live(i, e)')
<1> DEFINE x == Head(toEngine)
           isX == i = x.order.order_id /\ e = EntryOf(x.order)
<1>1. /\ x \in OrderCmd
      /\ Range(toEngine) = Range(toEngine') \cup {x}
      /\ Range(ingress') = IF Len(ingress) < IngressCap THEN Range(ingress) \cup {x}
                           ELSE Range(ingress)
      /\ UNCHANGED <<loopVars, queues, incoming>>
    BY ReceivesShape
<1>2. x.type = "NewOrder"
    BY <1>1 DEF OrderCmd
<1> HIDE DEF x
<1>3. SentAs(toEngine, i, e) <=> SentAs(toEngine, i, e)' \/ isX
    BY <1>1, <1>2 DEF SentAs
<1>4. /\ SentAs(ingress, i, e)' => SentAs(ingress, i, e) \/ isX
      /\ Len(ingress) < IngressCap => (SentAs(ingress, i, e) \/ isX => SentAs(ingress, i, e)')
      /\ SentAs(ingress, i, e) => SentAs(ingress, i, e)'
    BY <1>1, <1>2 DEF SentAs
<1>5. /\ RoutingAs(i, e)' <=> RoutingAs(i, e)
      /\ MatchingAs(i, e)' <=> MatchingAs(i, e)
      /\ BookedAs(i, e)' <=> BookedAs(i, e)
    BY <1>1 DEF RoutingAs, MatchingAs, BookedAs, loopVars
<1> HIDE DEF isX
<1> QED BY <1>3, <1>4, <1>5 DEF Live

\* An order that starts to match stays live.
LEMMA LiveEngineNewOrder ==
    ASSUME LotInv, EngineOnly, EngineNewOrder, NEW i, NEW e
    PROVE  Live(i, e)' <=> Live(i, e)
<1> DEFINE x == Head(ingress)
           isX == i = x.order.order_id /\ e = EntryOf(x.order)
<1>1. /\ Takes("NewOrder") /\ ingress' = Tail(ingress) /\ incoming' = x.order
      /\ queues' = queues /\ UNCHANGED <<toEngine, handler>>
    BY DEF EngineNewOrder, Engine!Arrive, EngineOnly, loopVars
<1>2. x \in OrderCmd /\ incoming = Nil /\ Range(ingress) = Range(ingress') \cup {x}
    BY <1>1, TakesShape
<1>3. x.type = "NewOrder" /\ x.order.qty = 1 /\ x.order \in OrderType
    BY <1>2, OrderCmdFields DEF LotInv
<1>4. x.order # Nil
    BY <1>3, GatewayAssumption
<1> HIDE DEF x
<1>5. SentAs(ingress, i, e) <=> SentAs(ingress, i, e)' \/ isX
    BY <1>2, <1>3 DEF SentAs
<1>6. ~MatchingAs(i, e) /\ (MatchingAs(i, e)' <=> isX)
    BY <1>1, <1>2, <1>3, <1>4 DEF MatchingAs
<1>7. /\ RoutingAs(i, e)' <=> RoutingAs(i, e)
      /\ SentAs(toEngine, i, e)' <=> SentAs(toEngine, i, e)
      /\ BookedAs(i, e)' <=> BookedAs(i, e)
    BY <1>1 DEF RoutingAs, SentAs, BookedAs
<1> HIDE DEF isX
<1> QED BY <1>5, <1>6, <1>7 DEF Live

\* Order i is at place k of a queue.
Holds(s, p, k, i) == k \in 1 .. Len(queues[s][p]) /\ queues[s][p][k].order_id = i

\* Two places of the book with the same order are the same place.
LEMMA SamePlace ==
    ASSUME BookOnce, NEW s \in Sides, NEW t \in Sides, NEW p \in Prices, NEW q \in Prices,
           NEW k, NEW l, NEW i, Holds(s, p, k, i), Holds(t, q, l, i)
    PROVE  s = t /\ p = q /\ k = l
BY DEF BookOnce, Holds

\* The book without the first order of a queue.
LEMMA BookTail ==
    ASSUME TypeInv, BookOnce, NEW s \in Sides, NEW p \in Prices, queues[s][p] # <<>>,
           queues' = [queues EXCEPT ![s][p] = Tail(@)]
    PROVE  /\ BookOnce'
           /\ \A t \in Sides, r \in Prices :
                 \A o \in Range(queues'[t][r]) : o \in Range(queues[t][r])
           /\ \A i, e : BookedAs(i, e)' <=> BookedAs(i, e) /\ i # Head(queues[s][p]).order_id
<1> DEFINE q == queues[s][p]
           Old(t, r, k) == IF t = s /\ r = p THEN k + 1 ELSE k
<1>1. queues \in [Sides -> [Prices -> Seq(BookOrder)]]
    BY DEF TypeInv, QueueTypes
<1>2. q \in Seq(BookOrder) /\ q # <<>>
    BY <1>1
<1>3. /\ queues'[s][p] = Tail(q)
      /\ \A t \in Sides, r \in Prices : ~(t = s /\ r = p) => queues'[t][r] = queues[t][r]
    BY <1>1
<1>4. /\ 1 \in 1 .. Len(q) /\ q[1] = Head(q) /\ Tail(q) \in Seq(BookOrder)
      /\ \A k \in 1 .. Len(Tail(q)) : k + 1 \in 1 .. Len(q) /\ Tail(q)[k] = q[k + 1]
      /\ \A k \in 1 .. Len(q) : k = 1 \/ (k - 1 \in 1 .. Len(Tail(q)) /\ Tail(q)[k - 1] = q[k])
  <2> HIDE DEF q
  <2> QED BY <1>2, QueueHead
<1>5. \A t \in Sides, r \in Prices : queues[t][r] \in Seq(BookOrder) /\ queues'[t][r] \in Seq(BookOrder)
    BY <1>1, <1>3, <1>4
<1>6. ASSUME NEW t \in Sides, NEW r \in Prices, NEW k \in 1 .. Len(queues'[t][r])
      PROVE  /\ Old(t, r, k) \in 1 .. Len(queues[t][r])
             /\ queues'[t][r][k] = queues[t][r][Old(t, r, k)]
             /\ t = s /\ r = p => Old(t, r, k) # 1
  <2>1. CASE t = s /\ r = p
    <3>1. k \in 1 .. Len(Tail(q))
        BY <1>3, <2>1
    <3>2. k + 1 \in 1 .. Len(q) /\ Tail(q)[k] = q[k + 1] /\ k + 1 # 1
        BY <1>4, <3>1
    <3> QED BY <1>3, <2>1, <3>2
  <2>2. CASE ~(t = s /\ r = p)
      BY <1>3, <2>2
  <2> QED BY <2>1, <2>2
<1>7. BookOnce'
  <2> SUFFICES ASSUME NEW t \in Sides, NEW u \in Sides, NEW r \in Prices, NEW v \in Prices,
                      NEW k \in 1 .. Len(queues'[t][r]), NEW l \in 1 .. Len(queues'[u][v]),
                      queues'[t][r][k].order_id = queues'[u][v][l].order_id
               PROVE  t = u /\ r = v /\ k = l
      BY DEF BookOnce
  <2> HIDE DEF Old
  <2>1. PICK m \in 1 .. Len(queues[t][r]) :
            m = Old(t, r, k) /\ queues'[t][r][k] = queues[t][r][m]
      BY <1>6
  <2>2. PICK n \in 1 .. Len(queues[u][v]) :
            n = Old(u, v, l) /\ queues'[u][v][l] = queues[u][v][n]
      BY <1>6
  <2>3. /\ Holds(t, r, m, queues'[t][r][k].order_id)
        /\ Holds(u, v, n, queues'[t][r][k].order_id)
      BY <2>1, <2>2 DEF Holds
  <2>4. t = u /\ r = v /\ m = n
      BY <2>3, SamePlace
  <2>5. k \in Int /\ l \in Int
      OBVIOUS
  <2> QED BY <2>1, <2>2, <2>4, <2>5 DEF Old
<1> HIDE DEF Old
<1>8. \A t \in Sides, r \in Prices : \A o \in Range(queues'[t][r]) : o \in Range(queues[t][r])
  <2> SUFFICES ASSUME NEW t \in Sides, NEW r \in Prices, NEW o \in Range(queues'[t][r])
               PROVE  o \in Range(queues[t][r])
      OBVIOUS
  <2>1. PICK k \in 1 .. Len(queues'[t][r]) : o = queues'[t][r][k]
      BY <1>5, RangeType
  <2>2. PICK m \in 1 .. Len(queues[t][r]) : o = queues[t][r][m]
      BY <1>6, <2>1
  <2> QED BY <1>5, <2>2, RangeType
<1>9. ASSUME NEW i, NEW e
      PROVE  BookedAs(i, e)' <=> BookedAs(i, e) /\ i # Head(q).order_id
  <2>1. ASSUME BookedAs(i, e)' PROVE BookedAs(i, e) /\ i # Head(q).order_id
    <3>0. PICK t \in Sides, r \in Prices : \E o \in Range(queues'[t][r]) :
              o.order_id = i /\ e = Entry(o.account_id, t, r)
        BY <2>1 DEF BookedAs
    <3>1. PICK o \in Range(queues'[t][r]) : o.order_id = i /\ e = Entry(o.account_id, t, r)
        BY <3>0
    <3>2. PICK k \in 1 .. Len(queues'[t][r]) : o = queues'[t][r][k]
        BY <1>5, RangeType
    <3>3. BookedAs(i, e)
        BY <1>8, <3>1 DEF BookedAs
    <3>4. /\ Old(t, r, k) \in 1 .. Len(queues[t][r]) /\ o = queues[t][r][Old(t, r, k)]
          /\ t = s /\ r = p => Old(t, r, k) # 1
        BY <1>6, <3>2
    <3>5. o.order_id # q[1].order_id
      <4> DEFINE l == Old(t, r, k)
      <4>1. l \in 1 .. Len(queues[t][r]) /\ 1 \in 1 .. Len(queues[s][p])
          BY <1>4, <3>4
      <4>2. queues[t][r][l].order_id = queues[s][p][1].order_id => t = s /\ r = p /\ l = 1
          BY <4>1 DEF BookOnce
      <4> QED BY <3>4, <4>2
    <3> QED BY <1>4, <3>1, <3>3, <3>5
  <2>2. ASSUME BookedAs(i, e), i # Head(q).order_id PROVE BookedAs(i, e)'
    <3>0. PICK t \in Sides, r \in Prices : \E o \in Range(queues[t][r]) :
              o.order_id = i /\ e = Entry(o.account_id, t, r)
        BY <2>2 DEF BookedAs
    <3>1. PICK o \in Range(queues[t][r]) : o.order_id = i /\ e = Entry(o.account_id, t, r)
        BY <3>0
    <3>2. o \in Range(queues'[t][r])
      <4>1. CASE t = s /\ r = p
        <5>1. PICK k \in 1 .. Len(q) : o = q[k]
            BY <1>2, <4>1, RangeType
        <5>2. k # 1
            BY <1>4, <2>2, <3>1, <5>1
        <5>3. k - 1 \in 1 .. Len(Tail(q)) /\ Tail(q)[k - 1] = o
            BY <1>4, <5>1, <5>2
        <5>4. o \in Range(Tail(q))
            BY <1>4, <5>3, RangeType
        <5> QED BY <1>3, <4>1, <5>4
      <4>2. CASE ~(t = s /\ r = p)
          BY <1>3, <4>2
      <4> QED BY <4>1, <4>2
    <3> QED BY <3>1, <3>2 DEF BookedAs
  <2> QED BY <2>1, <2>2
<1> QED BY <1>7, <1>8, <1>9

\* An order goes to the end of a queue.
Appends(s, p, o) == queues' = [queues EXCEPT ![s][p] = Append(@, o)]

\* The book with one more order at the end of a queue.
LEMMA BookAppend ==
    ASSUME TypeInv, BookOnce, NEW s \in Sides, NEW p \in Prices, NEW o \in BookOrder,
           ~Booked(o.order_id), Appends(s, p, o)
    PROVE  /\ BookOnce'
           /\ \A t \in Sides, r \in Prices :
                 \A x \in Range(queues'[t][r]) : x \in Range(queues[t][r]) \/ x = o
           /\ \A i, e : BookedAs(i, e)' <=>
                 BookedAs(i, e) \/ (i = o.order_id /\ e = Entry(o.account_id, s, p))
<1> DEFINE q == queues[s][p]
<1>1. queues \in [Sides -> [Prices -> Seq(BookOrder)]]
    BY DEF TypeInv, QueueTypes
<1>2. q \in Seq(BookOrder)
    BY <1>1
<1>3. /\ queues'[s][p] = Append(q, o)
      /\ \A t \in Sides, r \in Prices : ~(t = s /\ r = p) => queues'[t][r] = queues[t][r]
    BY <1>1 DEF Appends
<1> HIDE DEF q
<1>4. Append(q, o) \in Seq(BookOrder) /\ Range(Append(q, o)) = Range(q) \cup {o}
    BY <1>2, RangeAppend
<1>5. /\ Len(Append(q, o)) = Len(q) + 1 /\ Len(q) \in Nat
      /\ Append(q, o)[Len(q) + 1] = o
      /\ \A k \in 1 .. Len(q) : Append(q, o)[k] = q[k]
    BY <1>2
<1>6. \A t \in Sides, r \in Prices : queues[t][r] \in Seq(BookOrder) /\ queues'[t][r] \in Seq(BookOrder)
    BY <1>1, <1>3, <1>4 DEF q
<1>7. ASSUME NEW t \in Sides, NEW r \in Prices, NEW k \in 1 .. Len(queues'[t][r])
      PROVE  \/ k \in 1 .. Len(queues[t][r]) /\ queues'[t][r][k] = queues[t][r][k]
             \/ t = s /\ r = p /\ k = Len(q) + 1 /\ queues'[t][r][k] = o
  <2>1. CASE t = s /\ r = p
    <3>1. k \in 1 .. Len(q) + 1
        BY <1>3, <1>5, <2>1
    <3>2. k \in 1 .. Len(q) \/ k = Len(q) + 1
        BY <1>5, <3>1
    <3> QED BY <1>3, <1>5, <2>1, <3>2 DEF q
  <2>2. CASE ~(t = s /\ r = p)
      BY <1>3, <2>2
  <2> QED BY <2>1, <2>2
<1>8. \A t \in Sides, r \in Prices : \A k \in 1 .. Len(queues[t][r]) :
          queues[t][r][k].order_id # o.order_id
    BY <1>6, RangeType DEF Booked
<1>9. BookOnce'
  <2> SUFFICES ASSUME NEW t \in Sides, NEW u \in Sides, NEW r \in Prices, NEW v \in Prices,
                      NEW k \in 1 .. Len(queues'[t][r]), NEW l \in 1 .. Len(queues'[u][v]),
                      queues'[t][r][k].order_id = queues'[u][v][l].order_id
               PROVE  t = u /\ r = v /\ k = l
      BY DEF BookOnce
  <2>1. \/ k \in 1 .. Len(queues[t][r]) /\ queues'[t][r][k] = queues[t][r][k]
        \/ t = s /\ r = p /\ k = Len(q) + 1 /\ queues'[t][r][k] = o
      BY <1>7
  <2>2. \/ l \in 1 .. Len(queues[u][v]) /\ queues'[u][v][l] = queues[u][v][l]
        \/ u = s /\ v = p /\ l = Len(q) + 1 /\ queues'[u][v][l] = o
      BY <1>7
  <2>3. CASE /\ k \in 1 .. Len(queues[t][r]) /\ queues'[t][r][k] = queues[t][r][k]
             /\ l \in 1 .. Len(queues[u][v]) /\ queues'[u][v][l] = queues[u][v][l]
    <3>1. /\ Holds(t, r, k, queues'[t][r][k].order_id)
          /\ Holds(u, v, l, queues'[t][r][k].order_id)
        BY <2>3 DEF Holds
    <3> QED BY <3>1, SamePlace
  <2>4. CASE k \in 1 .. Len(queues[t][r]) /\ queues'[t][r][k] = queues[t][r][k]
             /\ queues'[u][v][l] = o
      BY <1>8, <2>4
  <2>5. CASE l \in 1 .. Len(queues[u][v]) /\ queues'[u][v][l] = queues[u][v][l]
             /\ queues'[t][r][k] = o
      BY <1>8, <2>5
  <2>6. CASE /\ t = s /\ r = p /\ k = Len(q) + 1
             /\ u = s /\ v = p /\ l = Len(q) + 1
      BY <2>6
  <2> QED BY <2>1, <2>2, <2>3, <2>4, <2>5, <2>6
<1>10. /\ Range(queues'[s][p]) = Range(queues[s][p]) \cup {o}
       /\ \A t \in Sides, r \in Prices : ~(t = s /\ r = p) =>
             Range(queues'[t][r]) = Range(queues[t][r])
    BY <1>3, <1>4 DEF q
<1>11. ASSUME NEW t \in Sides, NEW r \in Prices, NEW x \in Range(queues'[t][r])
       PROVE  x \in Range(queues[t][r]) \/ (x = o /\ t = s /\ r = p)
  <2>1. CASE t = s /\ r = p
      BY <1>10, <2>1
  <2>2. CASE ~(t = s /\ r = p)
      BY <1>10, <2>2
  <2> QED BY <2>1, <2>2
<1>12. ASSUME NEW t \in Sides, NEW r \in Prices, NEW x \in Range(queues[t][r])
       PROVE  x \in Range(queues'[t][r])
  <2>1. CASE t = s /\ r = p
      BY <1>10, <2>1
  <2>2. CASE ~(t = s /\ r = p)
      BY <1>10, <2>2
  <2> QED BY <2>1, <2>2
<1>13. o \in Range(queues'[s][p])
    BY <1>10
<1>14. ASSUME NEW i, NEW e
       PROVE  BookedAs(i, e)' <=>
                 BookedAs(i, e) \/ (i = o.order_id /\ e = Entry(o.account_id, s, p))
  <2>1. BookedAs(i, e)' => BookedAs(i, e) \/ (i = o.order_id /\ e = Entry(o.account_id, s, p))
      BY <1>11 DEF BookedAs
  <2>2. BookedAs(i, e) => BookedAs(i, e)'
      BY <1>12 DEF BookedAs
  <2>3. i = o.order_id /\ e = Entry(o.account_id, s, p) => BookedAs(i, e)'
      BY <1>13 DEF BookedAs
  <2> QED BY <2>1, <2>2, <2>3
<1>15. \A t \in Sides, r \in Prices :
          \A x \in Range(queues'[t][r]) : x \in Range(queues[t][r]) \/ x = o
    BY <1>11
<1> QED BY <1>9, <1>14, <1>15

\* A refused order is no longer live, every other live order is.
LEMMA LiveEngineRejects ==
    ASSUME LotInv, EngineOnly, EngineRejects, NEW i \in Ids, NEW e
    PROVE  Live(i, e)' <=> Live(i, e) /\ i # Head(ingress).order.order_id
<1> DEFINE x == Head(ingress)
<1>1. /\ Takes("NewOrder") /\ ingress' = Tail(ingress) /\ UNCHANGED <<queues, incoming>>
      /\ UNCHANGED <<toEngine, handler>>
    BY DEF EngineRejects, EngineOnly, loopVars
<1>2. /\ x \in OrderCmd /\ x.order.order_id \in Ids /\ Range(ingress) = Range(ingress') \cup {x}
      /\ Sent(ingress, x.order.order_id)
      /\ \A j \in Ids : Sent(ingress, j)' => j # x.order.order_id
    BY <1>1, TakesShape
<1> HIDE DEF x
<1>3. /\ RoutingAs(i, e)' <=> RoutingAs(i, e)
      /\ SentAs(toEngine, i, e)' <=> SentAs(toEngine, i, e)
      /\ MatchingAs(i, e)' <=> MatchingAs(i, e)
      /\ BookedAs(i, e)' <=> BookedAs(i, e)
    BY <1>1 DEF RoutingAs, SentAs, MatchingAs, BookedAs
<1>4. SentAs(ingress, i, e)' <=> SentAs(ingress, i, e) /\ i # x.order.order_id
  <2>1. SentAs(ingress, i, e)' => SentAs(ingress, i, e)
      BY <1>2 DEF SentAs
  <2>2. SentAs(ingress, i, e)' => Sent(ingress, i)'
      BY DEF SentAs, Sent
  <2>3. SentAs(ingress, i, e) /\ i # x.order.order_id => SentAs(ingress, i, e)'
      BY <1>2 DEF SentAs
  <2> QED BY <1>2, <2>1, <2>2, <2>3
<1>5. ASSUME i = x.order.order_id
      PROVE  ~RoutingAs(i, e) /\ ~SentAs(toEngine, i, e) /\ ~MatchingAs(i, e) /\ ~BookedAs(i, e)
  <2>1. Sent(ingress, i)
      BY <1>2, <1>5
  <2>2. ~Sent(toEngine, i) /\ ~Matching(i) /\ ~Booked(i) /\ \A c \in Conns : ~Reading(c, i)
      BY <2>1 DEF LotInv, TrackInv, Places, OnePlace
  <2>3. /\ RoutingAs(i, e) => \E c \in Conns : Reading(c, i)
        /\ SentAs(toEngine, i, e) => Sent(toEngine, i)
        /\ MatchingAs(i, e) => Matching(i)
        /\ BookedAs(i, e) => Booked(i)
      BY DEF RoutingAs, Reading, SentAs, Sent, MatchingAs, Matching, BookedAs, Booked
  <2> QED BY <2>2, <2>3
<1> QED BY <1>3, <1>4, <1>5 DEF Live, x

\* The two orders of a trade are no longer live, every other live order is.
LEMMA LiveEngineTrades ==
    ASSUME LotInv, EngineOnly, NEW s \in Sides, NEW p \in Prices, NEW m \in BookOrder,
           m \in Range(queues[s][p]), UnitTrade(s, p, m), NEW i \in Ids, NEW e
    PROVE  Live(i, e)' <=> Live(i, e) /\ i \notin {m.order_id, incoming.order_id}
<1>1. /\ incoming # Nil /\ incoming' = [incoming EXCEPT !.qty = 0] /\ ingress' = ingress
      /\ queues' = [queues EXCEPT ![s][p] = Tail(@)] /\ queues[s][p] # <<>>
      /\ m = Head(queues[s][p])
      /\ UNCHANGED <<toEngine, handler>>
    BY DEF UnitTrade, EngineOnly, loopVars
<1>2. incoming \in IncomingType /\ incoming.order_id \in Ids
    BY <1>1, IncomingFields DEF LotInv, TrackInv
<1>3. incoming'.qty = 0
    BY <1>1, <1>2 DEF IncomingType
<1>4. BookedAs(i, e)' <=> BookedAs(i, e) /\ i # m.order_id
    BY <1>1, BookTail DEF LotInv, TrackInv
<1>5. /\ RoutingAs(i, e)' <=> RoutingAs(i, e)
      /\ SentAs(toEngine, i, e)' <=> SentAs(toEngine, i, e)
      /\ SentAs(ingress, i, e)' <=> SentAs(ingress, i, e)
    BY <1>1 DEF RoutingAs, SentAs
<1>6. ~MatchingAs(i, e)' /\ (MatchingAs(i, e) => i = incoming.order_id)
    BY <1>3 DEF MatchingAs
<1>7. Matching(incoming.order_id) /\ Booked(m.order_id) /\ m.order_id \in Ids
    BY <1>1 DEF Matching, Booked, BookOrder
<1>8. /\ RoutingAs(i, e) => \E c \in Conns : Reading(c, i)
      /\ SentAs(toEngine, i, e) => Sent(toEngine, i)
      /\ SentAs(ingress, i, e) => Sent(ingress, i)
      /\ MatchingAs(i, e) => Matching(i)
      /\ BookedAs(i, e) => Booked(i)
    BY DEF RoutingAs, Reading, SentAs, Sent, MatchingAs, Matching, BookedAs, Booked
<1>9. OnePlace
    BY DEF LotInv, TrackInv, Places
<1>10. CASE i = m.order_id
  <2>1. ~Sent(toEngine, i) /\ ~Sent(ingress, i) /\ \A c \in Conns : ~Reading(c, i)
      BY <1>7, <1>9, <1>10 DEF OnePlace
  <2> QED BY <1>4, <1>5, <1>6, <1>8, <1>10, <2>1 DEF Live
<1>11. CASE i = incoming.order_id
  <2>1. /\ ~Sent(toEngine, i) /\ ~Sent(ingress, i) /\ ~Booked(i)
        /\ \A c \in Conns : ~Reading(c, i)
      BY <1>7, <1>9, <1>11 DEF OnePlace
  <2> QED BY <1>4, <1>5, <1>6, <1>8, <1>11, <2>1 DEF Live
<1>12. CASE i \notin {m.order_id, incoming.order_id}
    BY <1>4, <1>5, <1>6, <1>12 DEF Live
<1> QED BY <1>10, <1>11, <1>12

\* The order a settling order becomes.
LEMMA RestsShape ==
    ASSUME TypeInv, Places, incoming # Nil, Rests
    PROVE  LET o == [order_id |-> incoming.order_id, account_id |-> incoming.account_id, qty |-> 1]
           IN  /\ o \in BookOrder /\ incoming.side \in Sides /\ incoming.price \in Prices
               /\ ~Booked(o.order_id) /\ o.order_id = incoming.order_id /\ o.qty = 1
               /\ Entry(o.account_id, incoming.side, incoming.price) = EntryOf(incoming)
               /\ queues' = [queues EXCEPT ![incoming.side][incoming.price] = Append(@, o)]
<1>1. /\ incoming.side \in Sides /\ incoming.price \in Prices
      /\ incoming.order_id \in Ids /\ incoming.account_id \in Accounts
    BY IncomingFields
<1>2. 1 \in 1 .. MaxQty
    BY ConstantTypes
<1>3. ~Booked(incoming.order_id)
    BY <1>1 DEF Places, OnePlace, Matching
<1> QED BY <1>1, <1>2, <1>3 DEF BookOrder, Rests, EntryOf

\* An order that settles stays live if it rests.
LEMMA LiveEngineSettles ==
    ASSUME LotInv, EngineOnly, EngineSettles, NEW i, NEW e
    PROVE  /\ Live(i, e)' => Live(i, e)
           /\ incoming.gtc => (Live(i, e) => Live(i, e)')
<1>1. /\ incoming # Nil /\ incoming' = Nil /\ ingress' = ingress /\ UNCHANGED <<toEngine, handler>>
      /\ Rests \/ (queues' = queues /\ (incoming.qty = 0 \/ ~incoming.gtc))
    BY SettleIsUnit DEF LotInv, TrackInv, EngineOnly, loopVars
<1>2. ~MatchingAs(i, e)'
    BY <1>1 DEF MatchingAs
<1>3. /\ RoutingAs(i, e)' <=> RoutingAs(i, e)
      /\ SentAs(toEngine, i, e)' <=> SentAs(toEngine, i, e)
      /\ SentAs(ingress, i, e)' <=> SentAs(ingress, i, e)
    BY <1>1 DEF RoutingAs, SentAs
<1>4. CASE Rests
  <2> DEFINE o == [order_id |-> incoming.order_id, account_id |-> incoming.account_id, qty |-> 1]
  <2>1. /\ o \in BookOrder /\ incoming.side \in Sides /\ incoming.price \in Prices
        /\ ~Booked(o.order_id) /\ o.order_id = incoming.order_id
        /\ Entry(o.account_id, incoming.side, incoming.price) = EntryOf(incoming)
        /\ queues' = [queues EXCEPT ![incoming.side][incoming.price] = Append(@, o)]
      BY <1>1, <1>4, RestsShape DEF LotInv, TrackInv
  <2> HIDE DEF o
  <2>2. PICK s \in Sides, p \in Prices : s = incoming.side /\ p = incoming.price
      BY <2>1
  <2>3. Appends(s, p, o)
      BY <2>1, <2>2 DEF Appends
  <2>4. BookedAs(i, e)' <=> BookedAs(i, e) \/ (i = o.order_id /\ e = Entry(o.account_id, s, p))
      BY <2>1, <2>3, BookAppend DEF LotInv, TrackInv
  <2>5. MatchingAs(i, e) <=> (i = incoming.order_id /\ e = EntryOf(incoming))
      BY <1>1, <1>4 DEF MatchingAs, Rests
  <2>6. BookedAs(i, e)' <=> BookedAs(i, e) \/ MatchingAs(i, e)
      BY <2>1, <2>2, <2>4, <2>5
  <2> QED BY <1>2, <1>3, <2>6 DEF Live
<1>5. CASE queues' = queues /\ (incoming.qty = 0 \/ ~incoming.gtc)
  <2>1. BookedAs(i, e)' <=> BookedAs(i, e)
      BY <1>5 DEF BookedAs
  <2>2. incoming.gtc => ~MatchingAs(i, e)
      BY <1>5 DEF MatchingAs
  <2> QED BY <1>2, <1>3, <2>1, <2>2 DEF Live
<1> QED BY <1>1, <1>4, <1>5

\* Taking the first answer: the others stay, and no other fill is about its orders.
LEMMA AnswerTail ==
    ASSUME TypeInv, FillsOnce, toGateway # <<>>, toGateway' = Tail(toGateway)
    PROVE  LET f == Head(toGateway) IN
           /\ Range(toGateway) = Range(toGateway') \cup {f}
           /\ FillsOnce'
           /\ f.type = "Fill" => \A i \in {f.maker, f.taker} : ~Filled(i)'
<1> DEFINE X == FillEvent \cup Answer
           f == Head(toGateway)
<1>1. toGateway \in Seq(X)
    BY DEF TypeInv, QueueTypes
<1> HIDE DEF X
<1>2. /\ 1 \in 1 .. Len(toGateway) /\ toGateway[1] = f /\ toGateway' \in Seq(X)
      /\ \A k \in 1 .. Len(toGateway') : k + 1 \in 1 .. Len(toGateway) /\ toGateway'[k] = toGateway[k + 1]
      /\ \A k \in 1 .. Len(toGateway) :
            k = 1 \/ (k - 1 \in 1 .. Len(toGateway') /\ toGateway'[k - 1] = toGateway[k])
    BY <1>1, QueueHead
<1> HIDE DEF f
<1>3. Range(toGateway) = Range(toGateway') \cup {f}
  <2>1. ASSUME NEW y \in Range(toGateway) PROVE y \in Range(toGateway') \cup {f}
    <3>1. PICK k \in 1 .. Len(toGateway) : y = toGateway[k]
        BY <1>1, RangeType
    <3>2. k = 1 \/ (k - 1 \in 1 .. Len(toGateway') /\ toGateway'[k - 1] = y)
        BY <1>2, <3>1
    <3> QED BY <1>2, <3>1, <3>2, RangeType
  <2>2. ASSUME NEW y \in Range(toGateway') PROVE y \in Range(toGateway)
    <3>1. PICK k \in 1 .. Len(toGateway') : y = toGateway'[k]
        BY <1>2, RangeType
    <3>2. k + 1 \in 1 .. Len(toGateway) /\ toGateway[k + 1] = y
        BY <1>2, <3>1
    <3> QED BY <1>1, <3>2, RangeType
  <2>3. f \in Range(toGateway)
      BY <1>1, <1>2, RangeType
  <2> QED BY <2>1, <2>2, <2>3
<1>4. FillsOnce'
  <2> SUFFICES ASSUME NEW k \in 1 .. Len(toGateway'), NEW l \in 1 .. Len(toGateway'),
                      toGateway'[k].type = "Fill", toGateway'[l].type = "Fill",
                      {toGateway'[k].maker, toGateway'[k].taker}
                          \cap {toGateway'[l].maker, toGateway'[l].taker} # {}
               PROVE  k = l
      BY DEF FillsOnce
  <2>1. PICK m \in 1 .. Len(toGateway) : m = k + 1 /\ toGateway'[k] = toGateway[m]
      BY <1>2
  <2>2. PICK n \in 1 .. Len(toGateway) : n = l + 1 /\ toGateway'[l] = toGateway[n]
      BY <1>2
  <2>3. m = n
      BY <2>1, <2>2 DEF FillsOnce
  <2> QED BY <2>1, <2>2, <2>3
<1>5. ASSUME f.type = "Fill", NEW i \in {f.maker, f.taker} PROVE ~Filled(i)'
  <2> SUFFICES ASSUME Filled(i)' PROVE FALSE
      OBVIOUS
  <2>1. PICK x \in Range(toGateway') : x.type = "Fill" /\ i \in {x.maker, x.taker}
      BY DEF Filled
  <2>2. PICK k \in 1 .. Len(toGateway') : x = toGateway'[k]
      BY <1>2, RangeType
  <2>3. PICK m \in 1 .. Len(toGateway) : m = k + 1 /\ x = toGateway[m]
      BY <1>2, <2>2
  <2>4. PICK n \in 1 .. Len(toGateway) : n = 1 /\ f = toGateway[n]
      BY <1>2
  <2>5. i \in {toGateway[m].maker, toGateway[m].taker} \cap {toGateway[n].maker, toGateway[n].taker}
      BY <1>5, <2>1, <2>3, <2>4
  <2>6. m = n
      BY <1>5, <2>1, <2>3, <2>4, <2>5 DEF FillsOnce
  <2> QED BY <2>3, <2>4, <2>6
<1>6. f.type = "Fill" => \A i \in {f.maker, f.taker} : ~Filled(i)'
    BY <1>5
<1> QED BY <1>3, <1>4, <1>6 DEF f

\* What starting to handle a fill changes: its two orders go from the way back to the steps.
LEMMA OnFillShape ==
    ASSUME LotInv, OnFill
    PROVE  LET f == Head(toGateway)
               step(i) == [do |-> "apply", id |-> i, meta |-> pending_orders[i], fill |-> f]
           IN  /\ f.maker \in Ids /\ f.taker \in Ids /\ f.maker # f.taker /\ f.qty = 1
               /\ Filled(f.maker) /\ Filled(f.taker)
               /\ FillsOnce'
               /\ Range(toGateway') \subseteq Range(toGateway)
               /\ \A i \in Ids :
                     /\ Filled(i)' <=> Filled(i) /\ i \notin {f.maker, f.taker}
                     /\ Rejected(i)' <=> Rejected(i)
                     /\ ~Handling(i)
                     /\ Handling(i)' <=> i \in {f.maker, f.taker}
                     /\ Applying(i)' <=> i \in {f.maker, f.taker}
               /\ \A x \in Range(todo') : x.do = "apply" =>
                     x.fill.qty = 1 /\ pending_orders[x.id] = x.meta
               /\ UNCHANGED <<accountVars, pending_orders, loopVars, toEngine, engineVars>>
<1> DEFINE f == Head(toGateway)
           m(i) == [do |-> "apply", id |-> i, meta |-> pending_orders[i], fill |-> f]
           r(i) == [do |-> "remove", id |-> i]
<1>1. /\ Receives("Fill") /\ toGateway' = Tail(toGateway) /\ todo = <<>> /\ toGateway # <<>>
      /\ f.type = "Fill" /\ TypeInv /\ Places
      /\ UNCHANGED <<accountVars, pending_orders, loopVars, toEngine, engineVars>>
    BY DEF OnFill, Receives, LotInv, TrackInv
<1>2. f \in FillEvent /\ f \in Range(toGateway)
    BY <1>1, ReceivesType
<1>3. f.maker \in Ids /\ f.taker \in Ids /\ f.maker # f.taker /\ f.qty = 1
    BY <1>1, <1>2 DEF FillEvent, Places, TwoOrders, LotInv, UnitQtys
<1>4. Filled(f.maker) /\ Filled(f.taker)
    BY <1>1, <1>2 DEF Filled
<1>5. pending_orders[f.maker] # Nil /\ pending_orders[f.taker] # Nil
    BY <1>3, <1>4 DEF LotInv, Apart, FillsApart
<1>6. /\ todo' \in Seq(TodoStep)
      /\ \/ Len(todo') = 0
         \/ \E i \in {f.maker, f.taker} : Len(todo') = 2 /\ pending_orders[i] # Nil
                                          /\ todo'[1] = m(i) /\ todo'[2] = r(i)
         \/ /\ Len(todo') = 4 /\ pending_orders[f.maker] # Nil /\ pending_orders[f.taker] # Nil
            /\ todo'[1] = m(f.maker) /\ todo'[2] = r(f.maker)
            /\ todo'[3] = m(f.taker) /\ todo'[4] = r(f.taker)
    BY <1>1, FillTodo
<1>7. Len(todo') = 4
  <2>1. Len(FillSteps(f, f.maker)) = 2 /\ FillSteps(f, f.maker) \in Seq(TodoStep)
      BY <1>1, <1>2, <1>3, <1>5, FillStepsShape
  <2>2. Len(FillSteps(f, f.taker)) = 2 /\ FillSteps(f, f.taker) \in Seq(TodoStep)
      BY <1>1, <1>2, <1>3, <1>5, FillStepsShape
  <2>3. todo' = FillSteps(f, f.maker) \o FillSteps(f, f.taker)
      BY DEF OnFill
  <2> DEFINE s == FillSteps(f, f.maker)
             u == FillSteps(f, f.taker)
  <2> HIDE DEF s, u
  <2>4. Len(s) = 2 /\ s \in Seq(TodoStep) /\ Len(u) = 2 /\ u \in Seq(TodoStep) /\ todo' = s \o u
      BY <2>1, <2>2, <2>3 DEF s, u
  <2>5. Len(s \o u) = Len(s) + Len(u)
      BY <2>4, ConcatProperties
  <2> QED BY <2>4, <2>5
<1>8. \A i : /\ m(i).do = "apply" /\ m(i).id = i /\ m(i).meta = pending_orders[i] /\ m(i).fill = f
             /\ r(i).do = "remove" /\ r(i).id = i
    OBVIOUS
<1>9. /\ Range(toGateway) = Range(toGateway') \cup {f} /\ FillsOnce'
      /\ \A i \in {f.maker, f.taker} : ~Filled(i)'
    BY <1>1, AnswerTail DEF LotInv
<1> HIDE DEF f, m, r
<1>10. Range(todo') = {m(f.maker), r(f.maker), m(f.taker), r(f.taker)}
  <2>1. /\ todo'[1] = m(f.maker) /\ todo'[2] = r(f.maker)
        /\ todo'[3] = m(f.taker) /\ todo'[4] = r(f.taker)
      BY <1>6, <1>7
  <2>2. \A k \in 1 .. Len(todo') : todo'[k] \in {m(f.maker), r(f.maker), m(f.taker), r(f.taker)}
      BY <1>7, <2>1
  <2>3. \A y \in Range(todo') : \E k \in 1 .. Len(todo') : y = todo'[k]
      BY <1>6, RangeType
  <2>4. \A k \in 1 .. Len(todo') : todo'[k] \in Range(todo')
      BY <1>6, RangeType
  <2>5. /\ 1 \in 1 .. Len(todo') /\ 2 \in 1 .. Len(todo')
        /\ 3 \in 1 .. Len(todo') /\ 4 \in 1 .. Len(todo')
      BY <1>7
  <2>6. /\ m(f.maker) \in Range(todo') /\ r(f.maker) \in Range(todo')
        /\ m(f.taker) \in Range(todo') /\ r(f.taker) \in Range(todo')
      BY <2>1, <2>4, <2>5
  <2> QED BY <2>2, <2>3, <2>6
<1>11. \A x \in Range(todo') : x.do = "apply" => x.fill.qty = 1 /\ pending_orders[x.id] = x.meta
    BY <1>3, <1>8, <1>10
<1>12. ASSUME NEW i \in Ids
       PROVE  /\ Filled(i)' <=> Filled(i) /\ i \notin {f.maker, f.taker}
              /\ Rejected(i)' <=> Rejected(i)
              /\ ~Handling(i)
              /\ Handling(i)' <=> i \in {f.maker, f.taker}
              /\ Applying(i)' <=> i \in {f.maker, f.taker}
  <2>1. Filled(i)' <=> Filled(i) /\ i \notin {f.maker, f.taker}
    <3>1. Filled(i)' => Filled(i)
        BY <1>9 DEF Filled
    <3>2. Filled(i)' => i \notin {f.maker, f.taker}
        BY <1>9
    <3>3. Filled(i) /\ i \notin {f.maker, f.taker} => Filled(i)'
        BY <1>9 DEF Filled
    <3> QED BY <3>1, <3>2, <3>3
  <2>2. Rejected(i)' <=> Rejected(i)
      BY <1>1, <1>9 DEF Rejected, f
  <2>3. Range(<<>>) = {}
      BY DEF Range
  <2>4. ~Handling(i)
      BY <1>1, <2>3 DEF Handling
  <2>5. Handling(i)' <=> i \in {f.maker, f.taker}
      BY <1>8, <1>10 DEF Handling
  <2>6. Applying(i)' <=> i \in {f.maker, f.taker}
      BY <1>8, <1>10 DEF Applying
  <2> QED BY <2>1, <2>2, <2>4, <2>5, <2>6
<1> QED BY <1>1, <1>3, <1>4, <1>9, <1>11, <1>12 DEF f

\* What an ack or a reject changes: an ack of an order nothing, a reject takes an order that
\* is neither live nor filled out of the map.
LEMMA OnAnswerShape ==
    ASSUME LotInv, OnAck \/ OnReject
    PROVE  /\ FillsOnce' /\ Range(toGateway') \subseteq Range(toGateway)
           /\ \A i \in Ids :
                 /\ Filled(i)' <=> Filled(i)
                 /\ Rejected(i)' => Rejected(i)
                 /\ ~Handling(i) /\ ~Handling(i)' /\ ~Applying(i) /\ ~Applying(i)'
           /\ \A x \in Range(todo') : x.do = "release"
           /\ \/ OnAck /\ pending_orders' = pending_orders /\ (\A i \in Ids : Rejected(i)' <=> Rejected(i))
              \/ \E r \in Ids : /\ Rejected(r) /\ pending_orders'[r] = Nil
                                /\ \A j \in Ids \ {r} : /\ pending_orders'[j] = pending_orders[j]
                                                        /\ Rejected(j)' <=> Rejected(j)
           /\ UNCHANGED <<buying_power, positions, loopVars, toEngine, engineVars>>
<1> DEFINE f == Head(toGateway)
           id == f.order_id
<1>1. /\ toGateway' = Tail(toGateway) /\ todo = <<>> /\ toGateway # <<>>
      /\ (Receives("Ack") /\ OnAck) \/ (Receives("Reject") /\ OnReject)
      /\ f.type \in {"Ack", "Reject"} /\ TypeInv
      /\ UNCHANGED <<buying_power, positions, loopVars, toEngine, engineVars>>
  <2>1. CASE OnAck
      BY <2>1 DEF OnAck, Receives, LotInv, TrackInv
  <2>2. CASE OnReject
      BY <2>2 DEF OnReject, Receives, LotInv, TrackInv, accountVars
  <2> QED BY <2>1, <2>2
<1>2. f \in Range(toGateway) /\ id \in Ids
    BY <1>1, ReceivesType
<1>3. Range(toGateway) = Range(toGateway') \cup {f} /\ FillsOnce'
    BY <1>1, AnswerTail DEF LotInv
<1>4. \A i \in Ids : (Filled(i)' <=> Filled(i)) /\ (Rejected(i)' => Rejected(i))
    BY <1>1, <1>3 DEF Filled, Rejected
<1>5. Range(<<>>) = {}
    BY DEF Range
<1>6. \/ todo' = <<>>
      \/ todo' = <<[do |-> "release", token |-> pending_orders[id].token]>>
    BY <1>1 DEF OnAck, OnReject, RemoveRejected
<1>7. \A x \in Range(todo') : x.do = "release"
    BY <1>6 DEF Range
<1>8. \A i \in Ids : ~Handling(i) /\ ~Handling(i)' /\ ~Applying(i) /\ ~Applying(i)'
    BY <1>1, <1>5, <1>7 DEF Handling, Applying
<1>9. CASE OnAck
  <2>1. ~IsCancelAck(id)
      BY <1>2 DEF IsCancelAck, LotInv, Apart, MapActive
  <2>2. pending_orders' = pending_orders
      BY <1>9, <2>1 DEF OnAck
  <2>3. f.type = "Ack"
      BY <1>9 DEF OnAck, Receives
  <2>4. \A i \in Ids : Rejected(i)' <=> Rejected(i)
      BY <1>3, <2>3 DEF Rejected
  <2> QED BY <1>1, <1>3, <1>4, <1>7, <1>8, <1>9, <2>2, <2>4
<1>10. CASE OnReject
  <2>1. f.type = "Reject" /\ pending_orders' = [pending_orders EXCEPT ![id] = Nil]
      BY <1>10 DEF OnReject, Receives, RemoveRejected
  <2>2. Rejected(id)
      BY <1>2, <2>1 DEF Rejected
  <2>3. /\ pending_orders'[id] = Nil
        /\ \A j \in Ids \ {id} : pending_orders'[j] = pending_orders[j]
      BY <1>1, <1>2, <2>1 DEF TypeInv, TypeOK
  <2>4. \A j \in Ids \ {id} : Rejected(j)' <=> Rejected(j)
      BY <1>3 DEF Rejected
  <2> QED BY <1>1, <1>2, <1>3, <1>4, <1>7, <1>8, <2>2, <2>3, <2>4
<1> QED BY <1>1, <1>9, <1>10

\* One more answer on its way back; a fill of orders no other fill is about.
LEMMA AnswerAppend ==
    ASSUME TypeInv, FillsOnce, NEW x \in FillEvent \cup Answer, toGateway' = Append(toGateway, x),
           x.type = "Fill" => ~Filled(x.maker) /\ ~Filled(x.taker)
    PROVE  Range(toGateway') = Range(toGateway) \cup {x} /\ FillsOnce'
<1> DEFINE X == FillEvent \cup Answer
           g == toGateway
<1>1. g \in Seq(X) /\ x \in X
    BY DEF TypeInv, QueueTypes
<1> HIDE DEF X
<1>2. Range(Append(g, x)) = Range(g) \cup {x}
    BY <1>1, RangeAppend
<1>3. /\ Len(g) \in Nat /\ Len(Append(g, x)) = Len(g) + 1
      /\ \A k \in 1 .. Len(g) + 1 : Append(g, x)[k] = IF k = Len(g) + 1 THEN x ELSE g[k]
    BY <1>1, AppendProperties
<1>4. \A k \in 1 .. Len(g) : g[k] \in Range(g)
    BY <1>1, RangeType
<1>5. ASSUME x.type = "Fill", NEW k \in 1 .. Len(g), g[k].type = "Fill"
      PROVE  {x.maker, x.taker} \cap {g[k].maker, g[k].taker} = {}
  <2>1. g[k] \in Range(g)
      BY <1>4
  <2>2. \A i \in {g[k].maker, g[k].taker} : Filled(i)
      BY <1>5, <2>1 DEF Filled
  <2> QED BY <1>5, <2>2
<1>6. FillsOnce'
  <2> DEFINE h == Append(g, x)
             Meet(u, v) == {u.maker, u.taker} \cap {v.maker, v.taker} # {}
  <2> SUFFICES ASSUME NEW k \in 1 .. Len(g) + 1, NEW l \in 1 .. Len(g) + 1,
                      h[k].type = "Fill", h[l].type = "Fill", Meet(h[k], h[l])
               PROVE  k = l
      BY <1>3 DEF FillsOnce
  <2>1. \A u, v : Meet(u, v) => Meet(v, u)
      OBVIOUS
  <2> HIDE DEF h
  <2>2. CASE k = Len(g) + 1 /\ l # Len(g) + 1
    <3>1. h[k] = x /\ h[l] = g[l] /\ l \in 1 .. Len(g)
        BY <1>3, <2>2 DEF h
    <3> QED BY <1>5, <3>1
  <2>3. CASE k # Len(g) + 1 /\ l = Len(g) + 1
    <3>1. h[l] = x /\ h[k] = g[k] /\ k \in 1 .. Len(g)
        BY <1>3, <2>3 DEF h
    <3>2. Meet(x, g[k])
        BY <2>1, <3>1
    <3> QED BY <1>5, <3>1, <3>2
  <2>4. CASE k # Len(g) + 1 /\ l # Len(g) + 1
    <3>1. h[l] = g[l] /\ h[k] = g[k] /\ k \in 1 .. Len(g) /\ l \in 1 .. Len(g)
        BY <1>3, <2>4 DEF h
    <3> QED BY <3>1 DEF FillsOnce
  <2> QED BY <2>2, <2>3, <2>4
<1> QED BY <1>2, <1>6

\* What the next step of an event changes: after apply the order is still in the map, after
\* remove it is not and no step about it is left.
Applies(x) ==
    /\ x.do = "apply" /\ x.id \in Ids /\ x.fill.qty = 1 /\ pending_orders[x.id] = x.meta
    /\ x.meta \in OrderMetadata /\ ApplyFill(x.fill, x.meta) /\ pending_orders' = pending_orders
    /\ Applying(x.id)
    /\ \A i \in Ids : (Handling(i)' <=> Handling(i)) /\ (Applying(i)' <=> Applying(i) /\ i # x.id)
Removes(x) ==
    /\ x.do = "remove" /\ x.id \in Ids /\ pending_orders'[x.id] = Nil /\ Handling(x.id)
    /\ \A j \in Ids \ {x.id} : pending_orders'[j] = pending_orders[j]
    /\ \A i \in Ids : (Handling(i)' <=> Handling(i) /\ i # x.id) /\ (Applying(i)' <=> Applying(i))
    /\ \A y \in Range(todo') : y.do = "apply" => y.id \in Ids \ {x.id}
    /\ UNCHANGED accountVars
Releases(x) ==
    /\ x.do = "release" /\ UNCHANGED <<buying_power, positions, pending_orders>>
    /\ \A i \in Ids : (Handling(i)' <=> Handling(i)) /\ (Applying(i)' <=> Applying(i))

\* The next step of an event is one of these.
LEMMA RespondShape ==
    ASSUME LotInv, Respond
    PROVE  /\ Range(todo') \subseteq Range(todo)
           /\ UNCHANGED <<loopVars, toEngine, toGateway, engineVars>>
           /\ Applies(Head(todo)) \/ Removes(Head(todo)) \/ Releases(Head(todo))
<1> DEFINE x == Head(todo)
<1>1. /\ todo # <<>> /\ todo' = Tail(todo) /\ TypeInv /\ TodoDistinct
      /\ UNCHANGED <<loopVars, toEngine, toGateway, engineVars>>
    BY DEF Respond, LotInv, TrackInv
<1>2. /\ x = todo[1] /\ x \in TodoStep /\ x \in Range(todo) /\ Range(todo') \subseteq Range(todo)
      /\ Len(todo') = Len(todo) - 1 /\ todo' \in Seq(TodoStep)
      /\ \A k \in 1 .. Len(todo') : todo'[k] = todo[k + 1]
      /\ Len(todo) \in 1 .. 4
    BY <1>1, RespondTodo
<1>3. \A k \in 1 .. Len(todo') : todo'[k] \in Range(todo')
    BY <1>2, RangeType
<1>4. \A y \in Range(todo') : \E k \in 1 .. Len(todo') : y = todo'[k]
    BY <1>2, RangeType
<1>5. Range(todo) \subseteq Range(todo') \cup {x}
  <2>1. todo \in Seq(TodoStep)
      BY <1>1 DEF TypeInv, QueueTypes, TodoStep
  <2> SUFFICES ASSUME NEW y \in Range(todo) PROVE y \in Range(todo') \cup {x}
      OBVIOUS
  <2>2. PICK k \in 1 .. Len(todo) : y = todo[k]
      BY <2>1, RangeType
  <2>3. k = 1 \/ (k - 1 \in 1 .. Len(todo') /\ todo'[k - 1] = todo[k])
      BY <1>1, <2>1, QueueHead
  <2> QED BY <1>2, <1>3, <2>2, <2>3
<1>6. x.do \in {"apply", "remove"} => x.id \in Ids
    BY <1>1, <1>2, TodoIds
<1>7. CASE x.do = "apply"
  <2>1. (Len(todo) = 2 /\ Pair(1)) \/ (Len(todo) = 4 /\ Pair(1) /\ Pair(3))
    <3>1. todo[1].do = "apply"
        BY <1>2, <1>7
    <3>2. Len(todo) # 0
        BY <1>2
    <3> QED BY <1>1, <3>1, <3>2 DEF TypeInv, TodoShape
  <2>2. /\ Len(todo') \in {1, 3} /\ 1 \in 1 .. Len(todo')
        /\ todo'[1].do = "remove" /\ todo'[1].id = x.id
    <3>1. Len(todo') \in {1, 3} /\ 1 \in 1 .. Len(todo')
        BY <1>2, <2>1
    <3>2. todo'[1] = todo[1 + 1]
        BY <1>2, <3>1
    <3> QED BY <1>2, <2>1, <3>1, <3>2 DEF Pair
  <2>3. \E y \in Range(todo') : y.do = "remove" /\ y.id = x.id
      BY <1>3, <2>2
  <2>4. ASSUME NEW y \in Range(todo'), y.do = "apply" PROVE y.id # x.id
    <3>1. PICK k \in 1 .. Len(todo') : y = todo'[k]
        BY <1>4
    <3>2. todo'[k] = todo[k + 1]
        BY <1>2
    <3>3. CASE Len(todo) = 2
        BY <1>2, <2>2, <2>4, <3>1, <3>3
    <3>4. CASE Len(todo) = 4
      <4>1. k = 1 \/ k = 2 \/ k = 3
          BY <1>2, <3>4
      <4>2. Pair(3) /\ todo[1].id # todo[3].id
          BY <1>1, <2>1, <3>4 DEF TodoDistinct
      <4>3. k # 1
          BY <2>2, <2>4, <3>1
      <4>4. k = 3 => y = todo[4]
          BY <3>1, <3>2
      <4>5. k # 3
          BY <2>4, <4>2, <4>4 DEF Pair
      <4>6. y = todo[3]
          BY <3>1, <3>2, <4>1, <4>3, <4>5
      <4> QED BY <1>2, <4>2, <4>6
    <3> QED BY <2>1, <3>3, <3>4
  <2>5. /\ x.fill.qty = 1 /\ pending_orders[x.id] = x.meta
      BY <1>2, <1>7 DEF LotInv, UnitQtys, Apart, MapActive
  <2>6. x.meta \in OrderMetadata
      BY <1>2, <1>7, StepFields DEF ApplyStep
  <2>7. ApplyFill(x.fill, x.meta) /\ pending_orders' = pending_orders
      BY <1>7 DEF Respond
  <2>8. Applying(x.id)
      BY <1>2, <1>7 DEF Applying
  <2> HIDE DEF x
  <2>9. ASSUME NEW i \in Ids
        PROVE  (Handling(i)' <=> Handling(i)) /\ (Applying(i)' <=> Applying(i) /\ i # x.id)
    <3>1. Handling(i)' => Handling(i)
        BY <1>2 DEF Handling
    <3>2. Handling(i) => Handling(i)'
        BY <1>5, <2>3 DEF Handling
    <3>3. Applying(i)' => Applying(i) /\ i # x.id
        BY <1>2, <2>4 DEF Applying
    <3>4. Applying(i) /\ i # x.id => Applying(i)'
        BY <1>5 DEF Applying
    <3> QED BY <3>1, <3>2, <3>3, <3>4
  <2>10. Applies(x)
      BY <1>6, <1>7, <2>5, <2>6, <2>7, <2>8, <2>9 DEF Applies
  <2> QED BY <1>1, <1>2, <2>10 DEF x
<1>8. CASE x.do = "remove"
  <2>1. \A y \in Range(todo') : y.do \in {"apply", "remove"} /\ y.id # x.id
      BY <1>1, <1>8, RemoveLast
  <2>2. pending_orders' = [pending_orders EXCEPT ![x.id] = Nil] /\ UNCHANGED accountVars
      BY <1>8 DEF Respond
  <2>3. /\ pending_orders'[x.id] = Nil
        /\ \A j \in Ids \ {x.id} : pending_orders'[j] = pending_orders[j]
      BY <1>1, <1>6, <1>8, <2>2 DEF TypeInv, TypeOK
  <2>4. Handling(x.id)
      BY <1>2, <1>8 DEF Handling
  <2>5. \A y \in Range(todo') : y.do = "apply" => y.id \in Ids \ {x.id}
      BY <1>1, <1>2, <2>1, TodoIds
  <2> HIDE DEF x
  <2>6. ASSUME NEW i \in Ids
        PROVE  (Handling(i)' <=> Handling(i) /\ i # x.id) /\ (Applying(i)' <=> Applying(i))
    <3>1. Handling(i)' => Handling(i) /\ i # x.id
        BY <1>2, <2>1 DEF Handling
    <3>2. Handling(i) /\ i # x.id => Handling(i)'
        BY <1>5 DEF Handling
    <3>3. Applying(i)' => Applying(i)
        BY <1>2 DEF Applying
    <3>4. Applying(i) => Applying(i)'
        BY <1>5, <1>8 DEF Applying
    <3> QED BY <3>1, <3>2, <3>3, <3>4
  <2>7. Removes(x)
      BY <1>6, <1>8, <2>2, <2>3, <2>4, <2>5, <2>6 DEF Removes
  <2> QED BY <1>1, <1>2, <2>7 DEF x
<1>9. CASE x.do = "release"
  <2>1. UNCHANGED <<buying_power, positions, pending_orders>>
      BY <1>9 DEF Respond
  <2> HIDE DEF x
  <2>2. ASSUME NEW i \in Ids
        PROVE  (Handling(i)' <=> Handling(i)) /\ (Applying(i)' <=> Applying(i))
    <3>1. (Handling(i)' => Handling(i)) /\ (Applying(i)' => Applying(i))
        BY <1>2 DEF Handling, Applying
    <3>2. (Handling(i) => Handling(i)') /\ (Applying(i) => Applying(i)')
        BY <1>5, <1>9 DEF Handling, Applying
    <3> QED BY <3>1, <3>2
  <2>3. Releases(x)
      BY <1>9, <2>1, <2>2 DEF Releases
  <2> QED BY <1>1, <1>2, <2>3 DEF x
<1>10. x.do \in {"apply", "remove", "release"}
    BY <1>2, StepFields
<1> QED BY <1>1, <1>2, <1>7, <1>8, <1>9, <1>10

\* The steps that leave the read loops and the commands on their way alone.
LEMMA OnlyOrdersFrame ==
    ASSUME OnlyOrders, UNCHANGED <<handler, toEngine>>, Range(ingress') \subseteq Range(ingress)
    PROVE  OnlyOrders'
BY DEF OnlyOrders

\* Clients still send nothing but new orders.
LEMMA OnlyOrdersStep ==
    ASSUME LotInv, [Next]_vars
    PROVE  OnlyOrders'
<1>1. OnlyOrders /\ TypeInv /\ Places /\ Linked /\ OneLot
    BY DEF LotInv, TrackInv
<1>2. ASSUME NEW c \in Conns, Authenticate(c) \/ Disconnect(c) PROVE OnlyOrders'
  <2>1. UNCHANGED <<handler, toEngine>> /\ Range(ingress') \subseteq Range(ingress)
      BY <1>2 DEF Authenticate, Disconnect, engineVars
  <2> QED BY <1>1, <2>1, OnlyOrdersFrame
<1>3. ASSUME NEW c \in Conns, NEW no \in NewOrders, ReadNewOrder(c, no) PROVE OnlyOrders'
  <2>1. /\ handler[c].at = "idle" /\ \A d \in Conns \ {c} : handler'[d] = handler[d]
        /\ \/ handler'[c] = handler[c]
           \/ /\ handler'[c].at = "track" /\ handler'[c].cmd = [type |-> "NewOrder", order |-> no]
              /\ handler'[c].token = EntryOf(no).token
        /\ UNCHANGED <<toEngine, ingress>>
      BY <1>1, <1>3, ReadNewOrderShape DEF engineVars
  <2>2. [type |-> "NewOrder", order |-> no] \in OrderCmd
      BY DEF OrderCmd
  <2> QED BY <1>1, <2>1, <2>2 DEF OnlyOrders
<1>4. ASSUME NEW c \in Conns, TrackOrder(c) PROVE OnlyOrders'
  <2>1. /\ handler[c].at = "track"
        /\ handler'[c] = [at |-> "route", cmd |-> handler[c].cmd, token |-> handler[c].token]
        /\ \A d \in Conns \ {c} : handler'[d] = handler[d]
        /\ UNCHANGED <<toEngine, ingress>>
      BY <1>1, <1>4, TrackOrderShape DEF engineVars
  <2>2. handler'[c].at = "route" /\ handler'[c].cmd = handler[c].cmd
      BY <2>1
  <2> QED BY <1>1, <2>1, <2>2 DEF OnlyOrders
<1>5. ASSUME NEW c \in Conns, Route(c) PROVE OnlyOrders'
  <2>1. /\ handler[c].cmd \in OrderCmd /\ handler'[c].at = "idle"
        /\ \A d \in Conns \ {c} : handler'[d] = handler[d]
        /\ Range(toEngine') = Range(toEngine) \cup {handler[c].cmd}
        /\ UNCHANGED ingress
      BY <1>5, RouteShape DEF engineVars
  <2> QED BY <1>1, <2>1 DEF OnlyOrders
<1>6. CASE OnFill \/ OnAck \/ OnReject \/ Respond
  <2>1. UNCHANGED <<handler, toEngine>> /\ Range(ingress') \subseteq Range(ingress)
      BY <1>6 DEF OnFill, OnAck, OnReject, Respond, loopVars, engineVars
  <2> QED BY <1>1, <2>1, OnlyOrdersFrame
<1>7. CASE EngineReceives
  <2>1. /\ Head(toEngine) \in OrderCmd
        /\ Range(toEngine') \subseteq Range(toEngine)
        /\ Range(ingress') \subseteq Range(ingress) \cup {Head(toEngine)}
        /\ UNCHANGED handler
      BY <1>7, ReceivesShape DEF loopVars
  <2> QED BY <1>1, <2>1 DEF OnlyOrders
<1>8. CASE EngineOnly /\ EngineTrades
  <2>1. UNCHANGED <<handler, toEngine>> /\ Range(ingress') \subseteq Range(ingress)
      BY <1>8 DEF EngineTrades, EngineOnly, loopVars
  <2> QED BY <1>1, <2>1, OnlyOrdersFrame
<1>9. CASE EngineOnly /\ (EngineNewOrder \/ EngineRejects)
  <2>1. Takes("NewOrder") /\ ingress' = Tail(ingress) /\ UNCHANGED <<handler, toEngine>>
      BY <1>9 DEF EngineNewOrder, EngineRejects, EngineOnly, loopVars
  <2>2. Range(ingress') \subseteq Range(ingress)
      BY <2>1, TakesShape
  <2> QED BY <1>1, <2>1, <2>2, OnlyOrdersFrame
<1>10. CASE EngineOnly /\ EngineSettles
  <2>1. UNCHANGED <<handler, toEngine>> /\ Range(ingress') \subseteq Range(ingress)
      BY <1>10 DEF EngineSettles, EngineOnly, loopVars
  <2> QED BY <1>1, <2>1, OnlyOrdersFrame
<1>11. CASE UNCHANGED vars
  <2>1. UNCHANGED <<handler, toEngine>> /\ Range(ingress') \subseteq Range(ingress)
      BY <1>11 DEF vars, loopVars, engineVars
  <2> QED BY <1>1, <2>1, OnlyOrdersFrame
<1> QED BY <1>2, <1>3, <1>4, <1>5, <1>6, <1>7, <1>8, <1>9, <1>10, <1>11, LotSteps

\* What the engine says of one lot stays so: quantities, places in the book, fills.
BookFacts == UnitQtys /\ BookOnce /\ FillsOnce

\* They depend on the book, the answers and the event being handled.
LEMMA BookFactsFrame ==
    ASSUME BookFacts, UNCHANGED <<queues, incoming, toGateway>>, Range(todo') \subseteq Range(todo)
    PROVE  BookFacts'
BY DEF BookFacts, UnitQtys, BookOnce, FillsOnce

\* An order of a trade was live, so no fill is about it yet.
LEMMA TradeLive ==
    ASSUME LotInv, NEW s \in Sides, NEW p \in Prices, NEW m \in BookOrder,
           m \in Range(queues[s][p]), UnitTrade(s, p, m)
    PROVE  /\ m.order_id \in Ids /\ incoming.order_id \in Ids /\ m.order_id # incoming.order_id
           /\ m.account_id \in Accounts /\ incoming.account_id \in Accounts
           /\ incoming.side \in Sides /\ s = Engine!Other(incoming.side)
           /\ Live(m.order_id, Entry(m.account_id, s, p))
           /\ Live(incoming.order_id, EntryOf(incoming))
           /\ Entry(m.account_id, s, p) \in OrderMetadata /\ EntryOf(incoming) \in OrderMetadata
<1>1. incoming # Nil /\ incoming.qty = 1 /\ s = Engine!Other(incoming.side) /\ TypeInv /\ OnePlace
    BY DEF UnitTrade, LotInv, TrackInv, Places
<1>2. /\ incoming.order_id \in Ids /\ incoming.account_id \in Accounts
      /\ incoming.side \in Sides /\ incoming.price \in Nat
    BY <1>1, IncomingFields
<1>3. m.order_id \in Ids /\ m.account_id \in Accounts
    BY DEF BookOrder
<1>4. Matching(incoming.order_id) /\ Booked(m.order_id)
    BY <1>1 DEF Matching, Booked
<1>5. m.order_id # incoming.order_id
    BY <1>1, <1>2, <1>4 DEF OnePlace
<1>6. BookedAs(m.order_id, Entry(m.account_id, s, p))
    BY DEF BookedAs
<1>7. MatchingAs(incoming.order_id, EntryOf(incoming))
    BY <1>1 DEF MatchingAs
<1>8. p \in Nat
    BY ConstantTypes
<1>9. Entry(m.account_id, s, p) \in OrderMetadata /\ EntryOf(incoming) \in OrderMetadata
    BY <1>2, <1>3, <1>8 DEF EntryOf, Entry, OrderMetadata, ReservationToken, Sides
<1> QED BY <1>1, <1>2, <1>3, <1>5, <1>6, <1>7, <1>9 DEF Live

\* Every step of the setting keeps them.
LEMMA BookFactsStep ==
    ASSUME LotInv, [Next]_vars
    PROVE  BookFacts'
<1>1. BookFacts /\ TypeInv /\ Places /\ OneLot /\ UnitQtys /\ BookOnce /\ FillsOnce
    BY DEF LotInv, TrackInv, BookFacts
<1>2. ASSUME NEW c \in Conns,
             Authenticate(c) \/ Disconnect(c) \/ TrackOrder(c) \/ Route(c)
             \/ \E no \in NewOrders : ReadNewOrder(c, no)
      PROVE  BookFacts'
  <2>1. UNCHANGED <<queues, incoming, toGateway, todo>>
      BY <1>2 DEF Authenticate, Disconnect, TrackOrder, Route, ReadNewOrder, engineVars
  <2> QED BY <1>1, <2>1, BookFactsFrame
<1>3. CASE EngineReceives \/ UNCHANGED vars
  <2>1. UNCHANGED <<queues, incoming, toGateway, todo>>
      BY <1>3 DEF EngineReceives, vars, engineVars
  <2> QED BY <1>1, <2>1, BookFactsFrame
<1>4. CASE Respond
  <2>1. UNCHANGED <<queues, incoming, toGateway>> /\ Range(todo') \subseteq Range(todo)
      BY <1>4, RespondShape DEF engineVars
  <2> QED BY <1>1, <2>1, BookFactsFrame
<1>5. CASE OnFill
  <2>1. /\ FillsOnce' /\ Range(toGateway') \subseteq Range(toGateway)
        /\ \A x \in Range(todo') : x.do = "apply" => x.fill.qty = 1
        /\ UNCHANGED <<queues, incoming>>
      BY <1>5, OnFillShape DEF engineVars
  <2> QED BY <1>1, <2>1 DEF BookFacts, UnitQtys, BookOnce
<1>6. CASE OnAck \/ OnReject
  <2>1. /\ FillsOnce' /\ Range(toGateway') \subseteq Range(toGateway)
        /\ \A x \in Range(todo') : x.do = "release"
        /\ UNCHANGED <<queues, incoming>>
      BY <1>6, OnAnswerShape DEF engineVars
  <2> QED BY <1>1, <2>1 DEF BookFacts, UnitQtys, BookOnce
<1>7. CASE EngineOnly /\ EngineTrades
  <2>1. PICK s \in Sides, p \in Prices, m \in BookOrder :
            m \in Range(queues[s][p]) /\ UnitTrade(s, p, m)
      BY <1>1, <1>7, TradeIsUnit
  <2> DEFINE t == incoming.order_id
             x == [type |-> "Fill", maker |-> m.order_id, taker |-> t, price |-> p, qty |-> 1]
  <2>2. /\ m.order_id \in Ids /\ t \in Ids /\ ~Filled(m.order_id) /\ ~Filled(t)
    <3>1. /\ m.order_id \in Ids /\ t \in Ids
          /\ Live(m.order_id, Entry(m.account_id, s, p)) /\ Live(t, EntryOf(incoming))
          /\ Entry(m.account_id, s, p) \in OrderMetadata /\ EntryOf(incoming) \in OrderMetadata
        BY <2>1, TradeLive
    <3> QED BY <3>1 DEF LotInv, Apart, LiveApart
  <2>3. x \in FillEvent /\ x.type = "Fill" /\ x.maker = m.order_id /\ x.taker = t /\ x.qty = 1
    <3>1. 1 \in 1 .. MaxQty
        BY ConstantTypes
    <3> QED BY <2>2, <3>1 DEF FillEvent
  <2>4. /\ toGateway' = Append(toGateway, x) /\ UNCHANGED todo
        /\ incoming # Nil /\ incoming' = [incoming EXCEPT !.qty = 0]
        /\ queues[s][p] # <<>> /\ queues' = [queues EXCEPT ![s][p] = Tail(@)]
      BY <1>7, <2>1 DEF UnitTrade, EngineOnly
  <2> HIDE DEF x
  <2>5. Range(toGateway') = Range(toGateway) \cup {x} /\ FillsOnce'
      BY <1>1, <2>2, <2>3, <2>4, AnswerAppend
  <2>6. /\ BookOnce'
        /\ \A u \in Sides, r \in Prices : \A o \in Range(queues'[u][r]) : o \in Range(queues[u][r])
      BY <1>1, <2>4, BookTail
  <2>7. incoming'.qty = 0
      BY <1>1, <2>4, IncomingFields DEF IncomingType
  <2>8. UnitQtys
      BY <1>1 DEF BookFacts
  <2>9. \A u \in Sides, r \in Prices : \A o \in Range(queues'[u][r]) : o.qty = 1
      BY <2>6, <2>8 DEF UnitQtys
  <2>10. \A y \in Range(toGateway') : y.type = "Fill" => y.qty = 1
      BY <2>3, <2>5, <2>8 DEF UnitQtys
  <2>11. UnitQtys'
      BY <2>4, <2>7, <2>8, <2>9, <2>10 DEF UnitQtys
  <2> QED BY <2>5, <2>6, <2>11 DEF BookFacts
<1>8. CASE EngineOnly /\ EngineNewOrder
  <2>1. /\ Takes("NewOrder") /\ ingress' = Tail(ingress) /\ incoming' = Head(ingress).order
        /\ UNCHANGED <<queues, toGateway, todo>>
      BY <1>8 DEF EngineNewOrder, Engine!Arrive, EngineOnly
  <2>2. incoming'.qty = 1
      BY <1>1, <2>1, TakesShape, OrderCmdFields
  <2> QED BY <1>1, <2>1, <2>2 DEF BookFacts, UnitQtys, BookOnce, FillsOnce
<1>9. CASE EngineOnly /\ EngineRejects
  <2> DEFINE x == Reject(Head(ingress).order.order_id)
  <2>1. /\ Takes("NewOrder") /\ ingress' = Tail(ingress) /\ toGateway' = Append(toGateway, x)
        /\ UNCHANGED <<queues, incoming, todo>>
      BY <1>9 DEF EngineRejects, Emit, EngineOnly
  <2>2. x \in Answer /\ x.type = "Reject"
      BY <2>1, TakesShape DEF Reject, Answer
  <2> HIDE DEF x
  <2>3. Range(toGateway') = Range(toGateway) \cup {x} /\ FillsOnce'
      BY <1>1, <2>1, <2>2, AnswerAppend
  <2> QED BY <1>1, <2>1, <2>2, <2>3 DEF BookFacts, UnitQtys, BookOnce
<1>10. CASE EngineOnly /\ EngineSettles
  <2> DEFINE x == Ack(incoming.order_id)
  <2>1. /\ incoming # Nil /\ incoming' = Nil /\ toGateway' = Append(toGateway, x)
        /\ Rests \/ queues' = queues
        /\ UNCHANGED todo
      BY <1>1, <1>10, SettleIsUnit DEF EngineOnly
  <2>2. x \in Answer /\ x.type = "Ack"
      BY <1>1, <2>1, IncomingFields DEF Ack, Answer
  <2> HIDE DEF x
  <2>3. Range(toGateway') = Range(toGateway) \cup {x} /\ FillsOnce'
      BY <1>1, <2>1, <2>2, AnswerAppend
  <2>4. /\ BookOnce'
        /\ \A u \in Sides, r \in Prices : \A o \in Range(queues'[u][r]) :
              o \in Range(queues[u][r]) \/ o.qty = 1
    <3>1. CASE queues' = queues
        BY <1>1, <3>1 DEF BookOnce
    <3>2. CASE Rests
      <4> DEFINE o == [order_id |-> incoming.order_id, account_id |-> incoming.account_id,
                       qty |-> 1]
      <4>1. /\ o \in BookOrder /\ incoming.side \in Sides /\ incoming.price \in Prices
            /\ ~Booked(o.order_id) /\ o.qty = 1
            /\ queues' = [queues EXCEPT ![incoming.side][incoming.price] = Append(@, o)]
          BY <1>1, <2>1, <3>2, RestsShape
      <4> HIDE DEF o
      <4>2. PICK s \in Sides, p \in Prices : s = incoming.side /\ p = incoming.price
          BY <4>1
      <4>3. Appends(s, p, o)
          BY <4>1, <4>2 DEF Appends
      <4>4. /\ BookOnce'
            /\ \A u \in Sides, r \in Prices :
                  \A y \in Range(queues'[u][r]) : y \in Range(queues[u][r]) \/ y = o
          BY <1>1, <4>1, <4>3, BookAppend
      <4> QED BY <4>1, <4>4
    <3> QED BY <2>1, <3>1, <3>2
  <2> QED BY <1>1, <2>1, <2>2, <2>3, <2>4 DEF BookFacts, UnitQtys
<1> QED BY <1>2, <1>3, <1>4, <1>5, <1>6, <1>7, <1>8, <1>9, <1>10, LotSteps

\* A step that makes no order live, filled, refused or handled and leaves the map as it is.
Shrinks ==
    /\ \A i \in Ids, e \in OrderMetadata : Live(i, e)' => Live(i, e)
    /\ \A i \in Ids : /\ Filled(i)' => Filled(i)
                      /\ Rejected(i)' => Rejected(i)
                      /\ Handling(i)' => Handling(i)
                      /\ \A c \in Conns : Tracking(c, i)' => Tracking(c, i) \/ i \notin used
    /\ used \subseteq used' /\ pending_orders' = pending_orders
    /\ Range(todo') \subseteq Range(todo)

\* Such a step keeps the places apart.
LEMMA ApartShrinks ==
    ASSUME Apart, Shrinks
    PROVE  Apart'
<1>1. LiveApart'
    BY DEF Apart, LiveApart, Shrinks
<1>2. FillsApart'
    BY DEF Apart, FillsApart, Shrinks
<1>3. MapActive'
    BY DEF Apart, MapActive, Shrinks
<1> QED BY <1>1, <1>2, <1>3 DEF Apart

\* The same answers and the same event have the same orders in them.
LEMMA AnswersSame ==
    /\ UNCHANGED toGateway =>
          \A i : (Filled(i)' <=> Filled(i)) /\ (Rejected(i)' <=> Rejected(i))
    /\ UNCHANGED todo =>
          \A i : (Handling(i)' <=> Handling(i)) /\ (Applying(i)' <=> Applying(i))
    /\ UNCHANGED handler => \A c, i : Tracking(c, i)' <=> Tracking(c, i)
BY DEF Filled, Rejected, Handling, Applying, Tracking

\* A read loop that authenticates, reads or routes.
LEMMA ApartLoop ==
    ASSUME LotInv, NEW c \in Conns,
           Authenticate(c) \/ Disconnect(c) \/ Route(c) \/ \E no \in NewOrders : ReadNewOrder(c, no)
    PROVE  Apart'
<1>1. Apart /\ TypeInv /\ OneLot
    BY DEF LotInv, TrackInv
<1>2. UNCHANGED <<toGateway, todo, pending_orders>> /\ Range(todo') \subseteq Range(todo)
    BY DEF Authenticate, Disconnect, Route, ReadNewOrder
<1>3. \A i \in Ids : /\ Filled(i)' <=> Filled(i)
                     /\ Rejected(i)' <=> Rejected(i)
                     /\ Handling(i)' <=> Handling(i)
    BY <1>2, AnswersSame
<1>4. CASE Authenticate(c) \/ Disconnect(c)
  <2>1. UNCHANGED <<handler, toEngine, ingress, incoming, queues, used>>
      BY <1>4 DEF Authenticate, Disconnect, engineVars
  <2>2. \A i, e : Live(i, e)' <=> Live(i, e)
      BY <2>1, LiveSame
  <2>3. \A i \in Ids, d \in Conns : Tracking(d, i)' <=> Tracking(d, i)
      BY <2>1, AnswersSame
  <2>4. Shrinks
      BY <1>2, <1>3, <2>1, <2>2, <2>3 DEF Shrinks
  <2> QED BY <1>1, <2>4, ApartShrinks
<1>5. CASE Route(c)
  <2>1. /\ handler'[c].at = "idle" /\ \A d \in Conns \ {c} : handler'[d] = handler[d]
        /\ used' = used
      BY <1>5, RouteShape
  <2>2. \A i, e : Live(i, e)' <=> Live(i, e)
      BY <1>5, LiveRoute
  <2>3. \A i \in Ids, d \in Conns : Tracking(d, i)' => Tracking(d, i)
      BY <2>1 DEF Tracking
  <2>4. Shrinks
      BY <1>2, <1>3, <2>1, <2>2, <2>3 DEF Shrinks
  <2> QED BY <1>1, <2>4, ApartShrinks
<1>6. ASSUME NEW no \in NewOrders, ReadNewOrder(c, no) PROVE Apart'
  <2>1. /\ \A d \in Conns \ {c} : handler'[d] = handler[d]
        /\ no.order_id \notin used /\ used \subseteq used'
        /\ \/ handler'[c] = handler[c]
           \/ handler'[c].cmd = [type |-> "NewOrder", order |-> no]
      BY <1>1, <1>6, ReadNewOrderShape
  <2>2. \A i, e : Live(i, e)' <=> Live(i, e)
      BY <1>6, LiveReadNewOrder
  <2>3. ASSUME NEW i \in Ids, NEW d \in Conns, Tracking(d, i)'
        PROVE  Tracking(d, i) \/ i \notin used
    <3>1. CASE handler'[d] = handler[d]
        BY <2>3, <3>1 DEF Tracking
    <3>2. CASE d = c /\ handler'[c].cmd = [type |-> "NewOrder", order |-> no]
      <4>1. handler'[d].cmd.order.order_id = i /\ handler'[d].cmd.order = no
          BY <2>3, <3>2 DEF Tracking
      <4> QED BY <2>1, <4>1
    <3> QED BY <2>1, <3>1, <3>2
  <2>4. Shrinks
      BY <1>2, <1>3, <2>1, <2>2, <2>3 DEF Shrinks
  <2> QED BY <1>1, <2>4, ApartShrinks
<1> QED BY <1>4, <1>5, <1>6

\* Tracking an order: it is live now, and it was nowhere before.
LEMMA ApartTrackOrder ==
    ASSUME LotInv, NEW c \in Conns, TrackOrder(c)
    PROVE  Apart'
<1> DEFINE x == handler[c].cmd
           id == x.order.order_id
<1>1. Apart /\ TypeInv /\ Places /\ Linked /\ OneLot
    BY DEF LotInv, TrackInv
<1>2. /\ id \in Ids /\ Reading(c, id) /\ handler[c].at = "track"
      /\ pending_orders[id] = Nil
      /\ pending_orders'[id] = [token |-> handler[c].token, side |-> x.order.side,
                                operation |-> "Active"]
      /\ \A j \in Ids \ {id} : pending_orders'[j] = pending_orders[j]
      /\ handler'[c] = [at |-> "route", cmd |-> x, token |-> handler[c].token]
      /\ \A d \in Conns \ {c} : handler'[d] = handler[d]
      /\ UNCHANGED <<used, todo, toGateway>>
    BY <1>1, TrackOrderShape
<1>3. x \in OrderCmd /\ handler[c].token = EntryOf(x.order).token
    BY <1>2 DEF LotInv, OnlyOrders
<1>4. pending_orders'[id] = EntryOf(x.order) /\ pending_orders'[id].operation = "Active"
    BY <1>2, <1>3 DEF EntryOf, Entry
<1>5. \A i \in Ids : \A e : Live(i, e)' <=> Live(i, e) \/ (i = id /\ e = EntryOf(x.order))
    BY LiveTrackOrder
<1>6. Tracking(c, id)
    BY <1>2 DEF Tracking
<1>7. ~Filled(id) /\ ~Rejected(id)
  <2>1. ~Filled(id)
      BY <1>1, <1>2 DEF Places, OnePlace
  <2>2. ~Rejected(id)
      BY <1>1, <1>2, <1>6 DEF Apart, FillsApart
  <2> QED BY <2>1, <2>2
<1>8. \A y \in Range(todo) : y.do \in {"apply", "remove"} => y.id # id
    BY <1>1, <1>2 DEF Linked
<1>9. ~Handling(id)
    BY <1>8 DEF Handling
<1>10. \A i \in Ids : /\ Filled(i)' <=> Filled(i)
                      /\ Rejected(i)' <=> Rejected(i)
                      /\ Handling(i)' <=> Handling(i)
    BY <1>2, AnswersSame
<1>11. \A i \in Ids, d \in Conns : Tracking(d, i)' => Tracking(d, i)
  <2>1. handler'[c].at = "route"
      BY <1>2
  <2> QED BY <1>2, <2>1 DEF Tracking
<1>12. \A i \in Ids, e \in OrderMetadata : Live(i, e) => i # id
  <2>1. \A i \in Ids, e \in OrderMetadata : Live(i, e) => pending_orders[i] = e
      BY <1>1 DEF Apart, LiveApart
  <2>2. Nil \notin OrderMetadata
      BY GatewayAssumption
  <2> QED BY <1>2, <2>1, <2>2
<1> HIDE DEF id, x
<1>13. LiveApart'
  <2> SUFFICES ASSUME NEW i \in Ids, NEW e \in OrderMetadata, Live(i, e)'
               PROVE  pending_orders'[i] = e /\ ~Filled(i)' /\ ~Rejected(i)' /\ ~Handling(i)'
      BY DEF LiveApart
  <2>1. CASE Live(i, e)
    <3>1. i # id /\ pending_orders[i] = e /\ ~Filled(i) /\ ~Rejected(i) /\ ~Handling(i)
        BY <1>1, <1>12, <2>1 DEF Apart, LiveApart
    <3> QED BY <1>2, <1>10, <3>1
  <2>2. CASE i = id /\ e = EntryOf(x.order)
      BY <1>4, <1>7, <1>9, <1>10, <2>2
  <2> QED BY <1>5, <2>1, <2>2
<1>14. FillsApart'
  <2> SUFFICES ASSUME NEW i \in Ids
               PROVE  /\ Filled(i)' => pending_orders'[i] # Nil /\ ~Rejected(i)' /\ ~Handling(i)'
                      /\ Handling(i)' => ~Rejected(i)'
                      /\ Rejected(i)' => i \in used' /\ \A d \in Conns : ~Tracking(d, i)'
      BY DEF FillsApart
  <2>1. /\ Filled(i) => pending_orders[i] # Nil /\ ~Rejected(i) /\ ~Handling(i)
        /\ Handling(i) => ~Rejected(i)
        /\ Rejected(i) => i \in used /\ \A d \in Conns : ~Tracking(d, i)
      BY <1>1 DEF Apart, FillsApart
  <2>2. Filled(i) => i # id
      BY <1>7
  <2> QED BY <1>2, <1>10, <1>11, <2>1, <2>2
<1>15. MapActive'
  <2>1. \A i \in Ids : pending_orders'[i] # Nil => pending_orders'[i].operation = "Active"
      BY <1>1, <1>2, <1>4 DEF Apart, MapActive
  <2>2. \A y \in Range(todo) : y.do = "apply" => pending_orders'[y.id] = y.meta
    <3>1. \A y \in Range(todo) : y.do = "apply" => y.id \in Ids
        BY <1>1, TodoIds
    <3> QED BY <1>1, <1>2, <1>8, <3>1 DEF Apart, MapActive
  <2> QED BY <1>2, <2>1, <2>2 DEF MapActive
<1> QED BY <1>13, <1>14, <1>15 DEF Apart

\* An answer is handled: the orders of a fill go to its steps, a refused order leaves the map.
LEMMA ApartAnswer ==
    ASSUME LotInv, OnFill \/ OnAck \/ OnReject
    PROVE  Apart'
<1>1. Apart /\ TypeInv
    BY DEF LotInv, TrackInv
<1>2. UNCHANGED <<handler, toEngine, ingress, incoming, queues, used>>
    BY DEF OnFill, OnAck, OnReject, loopVars, engineVars
<1>3. \A i, e : Live(i, e)' <=> Live(i, e)
    BY <1>2, LiveSame
<1>4. \A i, c : Tracking(c, i)' <=> Tracking(c, i)
    BY <1>2, AnswersSame
<1>5. CASE OnFill
  <2> DEFINE f == Head(toGateway)
  <2>1. /\ Filled(f.maker) /\ Filled(f.taker) /\ f.maker \in Ids /\ f.taker \in Ids
        /\ \A i \in Ids :
              /\ Filled(i)' <=> Filled(i) /\ i \notin {f.maker, f.taker}
              /\ Rejected(i)' <=> Rejected(i)
              /\ ~Handling(i)
              /\ Handling(i)' <=> i \in {f.maker, f.taker}
        /\ \A x \in Range(todo') : x.do = "apply" => pending_orders[x.id] = x.meta
        /\ pending_orders' = pending_orders
      BY <1>5, OnFillShape
  <2> HIDE DEF f
  <2>2. LiveApart'
    <3> SUFFICES ASSUME NEW i \in Ids, NEW e \in OrderMetadata, Live(i, e)'
                 PROVE  pending_orders'[i] = e /\ ~Filled(i)' /\ ~Rejected(i)' /\ ~Handling(i)'
        BY DEF LiveApart
    <3>1. pending_orders[i] = e /\ ~Filled(i) /\ ~Rejected(i)
        BY <1>1, <1>3 DEF Apart, LiveApart
    <3> QED BY <2>1, <3>1
  <2>3. FillsApart'
    <3> SUFFICES ASSUME NEW i \in Ids
                 PROVE  /\ Filled(i)' => pending_orders'[i] # Nil /\ ~Rejected(i)' /\ ~Handling(i)'
                        /\ Handling(i)' => ~Rejected(i)'
                        /\ Rejected(i)' => i \in used' /\ \A d \in Conns : ~Tracking(d, i)'
        BY DEF FillsApart
    <3>1. /\ Filled(i) => pending_orders[i] # Nil /\ ~Rejected(i)
          /\ Rejected(i) => i \in used /\ \A d \in Conns : ~Tracking(d, i)
        BY <1>1 DEF Apart, FillsApart
    <3> QED BY <1>2, <1>4, <2>1, <3>1
  <2>4. MapActive'
      BY <1>1, <2>1 DEF Apart, MapActive
  <2> QED BY <2>2, <2>3, <2>4 DEF Apart
<1>6. CASE OnAck \/ OnReject
  <2>1. /\ \A i \in Ids :
              /\ Filled(i)' <=> Filled(i)
              /\ Rejected(i)' => Rejected(i)
              /\ ~Handling(i)'
        /\ \A x \in Range(todo') : x.do = "release"
        /\ \/ pending_orders' = pending_orders
           \/ \E r \in Ids : /\ Rejected(r) /\ pending_orders'[r] = Nil
                             /\ \A j \in Ids \ {r} : pending_orders'[j] = pending_orders[j]
      BY <1>6, OnAnswerShape
  <2>2. \A i \in Ids : pending_orders'[i] = pending_orders[i] \/ (Rejected(i) /\ pending_orders'[i] = Nil)
      BY <2>1
  <2>3. LiveApart'
    <3> SUFFICES ASSUME NEW i \in Ids, NEW e \in OrderMetadata, Live(i, e)'
                 PROVE  pending_orders'[i] = e /\ ~Filled(i)' /\ ~Rejected(i)' /\ ~Handling(i)'
        BY DEF LiveApart
    <3>1. pending_orders[i] = e /\ ~Filled(i) /\ ~Rejected(i)
        BY <1>1, <1>3 DEF Apart, LiveApart
    <3> QED BY <2>1, <2>2, <3>1
  <2>4. FillsApart'
    <3> SUFFICES ASSUME NEW i \in Ids
                 PROVE  /\ Filled(i)' => pending_orders'[i] # Nil /\ ~Rejected(i)' /\ ~Handling(i)'
                        /\ Handling(i)' => ~Rejected(i)'
                        /\ Rejected(i)' => i \in used' /\ \A d \in Conns : ~Tracking(d, i)'
        BY DEF FillsApart
    <3>1. /\ Filled(i) => pending_orders[i] # Nil /\ ~Rejected(i)
          /\ Rejected(i) => i \in used /\ \A d \in Conns : ~Tracking(d, i)
        BY <1>1 DEF Apart, FillsApart
    <3> QED BY <1>2, <1>4, <2>1, <2>2, <3>1
  <2>5. MapActive'
    <3>1. \A i \in Ids : pending_orders'[i] # Nil => pending_orders'[i].operation = "Active"
        BY <1>1, <2>2 DEF Apart, MapActive
    <3>2. \A x \in Range(todo') : x.do # "apply"
        BY <2>1
    <3> QED BY <3>1, <3>2 DEF MapActive
  <2> QED BY <2>3, <2>4, <2>5 DEF Apart
<1> QED BY <1>5, <1>6

\* The next step of an event: a filled order leaves the map.
LEMMA ApartRespond ==
    ASSUME LotInv, Respond
    PROVE  Apart'
<1> DEFINE x == Head(todo)
<1>1. Apart /\ TypeInv
    BY DEF LotInv, TrackInv
<1>2. /\ Range(todo') \subseteq Range(todo)
      /\ UNCHANGED <<handler, toEngine, ingress, incoming, queues, used, toGateway>>
      /\ Applies(x) \/ Removes(x) \/ Releases(x)
    BY RespondShape DEF loopVars, engineVars
<1>3. \A i, e : Live(i, e)' <=> Live(i, e)
    BY <1>2, LiveSame
<1>4. \A i : /\ \A c : Tracking(c, i)' <=> Tracking(c, i)
             /\ Filled(i)' <=> Filled(i)
             /\ Rejected(i)' <=> Rejected(i)
    BY <1>2, AnswersSame
<1> HIDE DEF x
<1>5. CASE Applies(x) \/ Releases(x)
  <2>1. pending_orders' = pending_orders /\ \A i \in Ids : Handling(i)' => Handling(i)
      BY <1>5 DEF Applies, Releases
  <2>2. Shrinks
      BY <1>2, <1>3, <1>4, <2>1 DEF Shrinks
  <2> QED BY <1>1, <2>2, ApartShrinks
<1>6. CASE Removes(x)
  <2>1. /\ x.id \in Ids /\ pending_orders'[x.id] = Nil /\ Handling(x.id)
        /\ \A j \in Ids \ {x.id} : pending_orders'[j] = pending_orders[j]
        /\ \A i \in Ids : Handling(i)' => Handling(i)
        /\ \A y \in Range(todo') : y.do = "apply" => y.id \in Ids \ {x.id}
      BY <1>6 DEF Removes
  <2>2. LiveApart'
    <3> SUFFICES ASSUME NEW i \in Ids, NEW e \in OrderMetadata, Live(i, e)'
                 PROVE  pending_orders'[i] = e /\ ~Filled(i)' /\ ~Rejected(i)' /\ ~Handling(i)'
        BY DEF LiveApart
    <3>1. pending_orders[i] = e /\ ~Filled(i) /\ ~Rejected(i) /\ ~Handling(i)
        BY <1>1, <1>3 DEF Apart, LiveApart
    <3> QED BY <1>4, <2>1, <3>1
  <2>3. FillsApart'
    <3> SUFFICES ASSUME NEW i \in Ids
                 PROVE  /\ Filled(i)' => pending_orders'[i] # Nil /\ ~Rejected(i)' /\ ~Handling(i)'
                        /\ Handling(i)' => ~Rejected(i)'
                        /\ Rejected(i)' => i \in used' /\ \A d \in Conns : ~Tracking(d, i)'
        BY DEF FillsApart
    <3>1. /\ Filled(i) => pending_orders[i] # Nil /\ ~Rejected(i) /\ ~Handling(i)
          /\ Handling(i) => ~Rejected(i)
          /\ Rejected(i) => i \in used /\ \A d \in Conns : ~Tracking(d, i)
        BY <1>1 DEF Apart, FillsApart
    <3> QED BY <1>2, <1>4, <2>1, <3>1
  <2>4. MapActive'
    <3>1. \A i \in Ids : pending_orders'[i] # Nil => pending_orders'[i].operation = "Active"
        BY <1>1, <2>1 DEF Apart, MapActive
    <3>2. \A y \in Range(todo') : y.do = "apply" => pending_orders'[y.id] = y.meta
        BY <1>1, <1>2, <2>1 DEF Apart, MapActive
    <3> QED BY <3>1, <3>2 DEF MapActive
  <2> QED BY <2>2, <2>3, <2>4 DEF Apart
<1> QED BY <1>2, <1>5, <1>6

\* A read loop that tracks an order has read it.
LEMMA TrackingReads ==
    ASSUME LotInv, NEW c \in Conns, NEW i, Tracking(c, i)
    PROVE  Reading(c, i)
<1>1. handler[c].at = "track" /\ handler[c].cmd.order.order_id = i
    BY DEF Tracking
<1>2. handler[c].cmd \in OrderCmd
    BY <1>1 DEF LotInv, OnlyOrders
<1> QED BY <1>1, <1>2 DEF Reading, OrderCmd

\* Orders the engine server reads, takes or settles.
LEMMA ApartEngineQuiet ==
    ASSUME LotInv, EngineReceives \/ (EngineOnly /\ (EngineNewOrder \/ EngineSettles))
    PROVE  Apart'
<1>1. Apart /\ TypeInv /\ FillsOnce /\ UnitQtys
    BY DEF LotInv, TrackInv
<1>2. UNCHANGED <<handler, used, pending_orders, todo>> /\ Range(todo') \subseteq Range(todo)
    BY DEF EngineReceives, EngineOnly, loopVars
<1>3. \A i \in Ids, e \in OrderMetadata : Live(i, e)' => Live(i, e)
    BY LiveEngineReceives, LiveEngineNewOrder, LiveEngineSettles
<1>4. \A i : (\A c : Tracking(c, i)' <=> Tracking(c, i)) /\ (Handling(i)' <=> Handling(i))
    BY <1>2, AnswersSame
<1>5. \A i : (Filled(i)' <=> Filled(i)) /\ (Rejected(i)' <=> Rejected(i))
  <2>1. CASE EngineReceives \/ EngineNewOrder
    <3>1. UNCHANGED toGateway
        BY <2>1 DEF EngineReceives, EngineNewOrder
    <3> QED BY <3>1, AnswersSame
  <2>2. CASE EngineSettles
    <3> DEFINE x == Ack(incoming.order_id)
    <3>1. incoming # Nil /\ toGateway' = Append(toGateway, x)
        BY <1>1, <2>2, SettleIsUnit
    <3>2. x \in Answer /\ x.type = "Ack"
        BY <1>1, <3>1, IncomingFields DEF Ack, Answer
    <3> HIDE DEF x
    <3>3. Range(toGateway') = Range(toGateway) \cup {x}
        BY <1>1, <3>1, <3>2, AnswerAppend
    <3> QED BY <3>2, <3>3 DEF Filled, Rejected
  <2> QED BY <2>1, <2>2
<1>6. Shrinks
    BY <1>2, <1>3, <1>4, <1>5 DEF Shrinks
<1> QED BY <1>1, <1>6, ApartShrinks

\* What the engine's refusal of an order changes.
LEMMA RejectsShape ==
    ASSUME LotInv, EngineRejects
    PROVE  LET r == Head(ingress).order.order_id IN
           /\ r \in Ids /\ Sent(ingress, r)
           /\ SentAs(ingress, r, EntryOf(Head(ingress).order))
           /\ EntryOf(Head(ingress).order) \in OrderMetadata
           /\ \A i \in Ids : (Filled(i)' <=> Filled(i)) /\ (Rejected(i)' <=> Rejected(i) \/ i = r)
           /\ UNCHANGED <<queues, incoming>>
<1> DEFINE y == Head(ingress)
           r == y.order.order_id
           x == Reject(r)
<1>1. /\ Takes("NewOrder") /\ ingress' = Tail(ingress) /\ toGateway' = Append(toGateway, x)
      /\ UNCHANGED <<queues, incoming>> /\ TypeInv /\ FillsOnce /\ OneLot
    BY DEF EngineRejects, Emit, LotInv, TrackInv
<1>2. r \in Ids /\ Sent(ingress, r) /\ y \in OrderCmd /\ Range(ingress) = Range(ingress') \cup {y}
    BY <1>1, TakesShape
<1>3. y.type = "NewOrder" /\ EntryOf(y.order) \in OrderMetadata
    BY <1>1, <1>2, OrderCmdFields
<1>4. SentAs(ingress, r, EntryOf(y.order))
    BY <1>2, <1>3 DEF SentAs
<1>5. x \in Answer /\ x.type = "Reject" /\ x.order_id = r
    BY <1>2 DEF Reject, Answer
<1> HIDE DEF x
<1>6. Range(toGateway') = Range(toGateway) \cup {x}
    BY <1>1, <1>5, AnswerAppend
<1> HIDE DEF r, y
<1>7. \A i \in Ids : (Filled(i)' <=> Filled(i)) /\ (Rejected(i)' <=> Rejected(i) \/ i = r)
    BY <1>5, <1>6 DEF Filled, Rejected
<1> QED BY <1>1, <1>2, <1>3, <1>4, <1>7 DEF r, y

\* The engine refuses an order: it was live and is refused now.
LEMMA ApartEngineRejects ==
    ASSUME LotInv, EngineOnly, EngineRejects
    PROVE  Apart'
<1> DEFINE r == Head(ingress).order.order_id
           m == EntryOf(Head(ingress).order)
<1>1. Apart /\ TypeInv /\ OnePlace
    BY DEF LotInv, TrackInv, Places
<1>2. UNCHANGED <<handler, used, pending_orders, todo>>
    BY DEF EngineOnly, loopVars
<1>3. /\ r \in Ids /\ Sent(ingress, r) /\ SentAs(ingress, r, m) /\ m \in OrderMetadata
      /\ \A i \in Ids : (Filled(i)' <=> Filled(i)) /\ (Rejected(i)' <=> Rejected(i) \/ i = r)
    BY RejectsShape
<1>4. \A i \in Ids : \A e : Live(i, e)' <=> Live(i, e) /\ i # r
    BY LiveEngineRejects
<1> HIDE DEF r, m
<1>5. Live(r, m)
    BY <1>3 DEF Live
<1>6. ~Filled(r) /\ ~Handling(r)
    BY <1>1, <1>3, <1>5 DEF Apart, LiveApart
<1>7. r \in used /\ \A c \in Conns : ~Tracking(c, r)
    BY <1>1, <1>3, TrackingReads DEF OnePlace
<1>8. \A i : (\A c : Tracking(c, i)' <=> Tracking(c, i)) /\ (Handling(i)' <=> Handling(i))
    BY <1>2, AnswersSame
<1>9. LiveApart'
  <2> SUFFICES ASSUME NEW i \in Ids, NEW e \in OrderMetadata, Live(i, e)'
               PROVE  pending_orders'[i] = e /\ ~Filled(i)' /\ ~Rejected(i)' /\ ~Handling(i)'
      BY DEF LiveApart
  <2>1. i # r /\ pending_orders[i] = e /\ ~Filled(i) /\ ~Rejected(i) /\ ~Handling(i)
      BY <1>1, <1>4 DEF Apart, LiveApart
  <2> QED BY <1>2, <1>3, <1>8, <2>1
<1>10. FillsApart'
  <2> SUFFICES ASSUME NEW i \in Ids
               PROVE  /\ Filled(i)' => pending_orders'[i] # Nil /\ ~Rejected(i)' /\ ~Handling(i)'
                      /\ Handling(i)' => ~Rejected(i)'
                      /\ Rejected(i)' => i \in used' /\ \A d \in Conns : ~Tracking(d, i)'
      BY DEF FillsApart
  <2>1. /\ Filled(i) => pending_orders[i] # Nil /\ ~Rejected(i) /\ ~Handling(i)
        /\ Handling(i) => ~Rejected(i)
        /\ Rejected(i) => i \in used /\ \A d \in Conns : ~Tracking(d, i)
      BY <1>1 DEF Apart, FillsApart
  <2> QED BY <1>2, <1>3, <1>6, <1>7, <1>8, <2>1
<1>11. MapActive'
    BY <1>1, <1>2 DEF Apart, MapActive
<1> QED BY <1>9, <1>10, <1>11 DEF Apart

\* What a trade changes on the way back.
LEMMA TradeFills ==
    ASSUME LotInv, NEW s \in Sides, NEW p \in Prices, NEW m \in BookOrder,
           m \in Range(queues[s][p]), UnitTrade(s, p, m)
    PROVE  \A i \in Ids : /\ Filled(i)' <=> Filled(i) \/ i \in {m.order_id, incoming.order_id}
                          /\ Rejected(i)' <=> Rejected(i)
<1> DEFINE t == incoming.order_id
           x == [type |-> "Fill", maker |-> m.order_id, taker |-> t, price |-> p, qty |-> 1]
<1>1. m.order_id \in Ids /\ t \in Ids
    BY TradeLive
<1>2. x \in FillEvent /\ x.type = "Fill" /\ x.maker = m.order_id /\ x.taker = t
  <2>1. 1 \in 1 .. MaxQty
      BY ConstantTypes
  <2> QED BY <1>1, <2>1 DEF FillEvent
<1>3. toGateway \in Seq(FillEvent \cup Answer) /\ toGateway' = Append(toGateway, x)
    BY DEF UnitTrade, LotInv, TrackInv, TypeInv, QueueTypes
<1> HIDE DEF x, t
<1>4. Range(toGateway') = Range(toGateway) \cup {x}
    BY <1>2, <1>3, RangeAppend
<1>5. \A i \in Ids : Filled(i)' <=> Filled(i) \/ i \in {m.order_id, t}
    BY <1>2, <1>4 DEF Filled
<1>6. \A i \in Ids : Rejected(i)' <=> Rejected(i)
    BY <1>2, <1>4 DEF Rejected
<1> QED BY <1>5, <1>6 DEF t

\* A trade: its two orders were live and are filled now.
LEMMA ApartEngineTrades ==
    ASSUME LotInv, EngineOnly, EngineTrades
    PROVE  Apart'
<1>1. Apart /\ TypeInv /\ UnitQtys
    BY DEF LotInv, TrackInv
<1>2. UNCHANGED <<handler, used, pending_orders, todo>>
    BY DEF EngineOnly, loopVars
<1>3. PICK s \in Sides, p \in Prices, m \in BookOrder :
          m \in Range(queues[s][p]) /\ UnitTrade(s, p, m)
    BY <1>1, TradeIsUnit
<1> DEFINE t == incoming.order_id
           k == m.order_id
<1>4. /\ k \in Ids /\ t \in Ids
      /\ Live(k, Entry(m.account_id, s, p)) /\ Live(t, EntryOf(incoming))
      /\ Entry(m.account_id, s, p) \in OrderMetadata /\ EntryOf(incoming) \in OrderMetadata
    BY <1>3, TradeLive
<1>5. \A i \in {k, t} : pending_orders[i] # Nil /\ ~Rejected(i) /\ ~Handling(i)
  <2>1. Nil \notin OrderMetadata
      BY GatewayAssumption
  <2> QED BY <1>1, <1>4, <2>1 DEF Apart, LiveApart
<1>6. \A i \in Ids : \A e : Live(i, e)' <=> Live(i, e) /\ i \notin {k, t}
    BY <1>3, LiveEngineTrades
<1>7. \A i \in Ids : (Filled(i)' <=> Filled(i) \/ i \in {k, t}) /\ (Rejected(i)' <=> Rejected(i))
    BY <1>3, TradeFills
<1> HIDE DEF k, t
<1>8. \A i : (\A c : Tracking(c, i)' <=> Tracking(c, i)) /\ (Handling(i)' <=> Handling(i))
    BY <1>2, AnswersSame
<1>9. LiveApart'
  <2> SUFFICES ASSUME NEW i \in Ids, NEW e \in OrderMetadata, Live(i, e)'
               PROVE  pending_orders'[i] = e /\ ~Filled(i)' /\ ~Rejected(i)' /\ ~Handling(i)'
      BY DEF LiveApart
  <2>1. /\ i \notin {k, t} /\ pending_orders[i] = e /\ ~Filled(i) /\ ~Rejected(i)
        /\ ~Handling(i)
      BY <1>1, <1>6 DEF Apart, LiveApart
  <2> QED BY <1>2, <1>7, <1>8, <2>1
<1>10. FillsApart'
  <2> SUFFICES ASSUME NEW i \in Ids
               PROVE  /\ Filled(i)' => pending_orders'[i] # Nil /\ ~Rejected(i)' /\ ~Handling(i)'
                      /\ Handling(i)' => ~Rejected(i)'
                      /\ Rejected(i)' => i \in used' /\ \A d \in Conns : ~Tracking(d, i)'
      BY DEF FillsApart
  <2>1. /\ Filled(i) => pending_orders[i] # Nil /\ ~Rejected(i) /\ ~Handling(i)
        /\ Handling(i) => ~Rejected(i)
        /\ Rejected(i) => i \in used /\ \A d \in Conns : ~Tracking(d, i)
      BY <1>1 DEF Apart, FillsApart
  <2> QED BY <1>2, <1>5, <1>7, <1>8, <2>1
<1>11. MapActive'
    BY <1>1, <1>2 DEF Apart, MapActive
<1> QED BY <1>9, <1>10, <1>11 DEF Apart

\* Every step of the setting keeps the places apart.
LEMMA ApartStep ==
    ASSUME LotInv, [Next]_vars
    PROVE  Apart'
<1>1. CASE UNCHANGED vars
    BY <1>1 DEF LotInv, Apart, LiveApart, FillsApart, MapActive, Live, RoutingAs, SentAs,
                MatchingAs, BookedAs, Filled, Rejected, Handling, Tracking, vars, loopVars,
                engineVars
<1> QED BY <1>1, LotSteps, ApartLoop, ApartTrackOrder, ApartAnswer, ApartRespond, ApartEngineQuiet,
           ApartEngineRejects, ApartEngineTrades

\* Nothing is live at first.
LEMMA LotInvInit == OneLot /\ Init => LotInv
<1> SUFFICES ASSUME OneLot, Init PROVE LotInv
    OBVIOUS
<1>1. /\ toEngine = <<>> /\ ingress = <<>> /\ toGateway = <<>> /\ incoming = Nil /\ todo = <<>>
      /\ queues = [s \in {"Buy", "Sell"} |-> [p \in Prices |-> <<>>]]
      /\ \A c \in Conns : handler[c] = Idle
      /\ \A i \in Ids : pending_orders[i] = Nil
    BY DEF Init, Engine!AbstractInit
<1>2. Range(<<>>) = {} /\ Len(<<>>) = 0
    BY DEF Range
<1>3. \A c \in Conns : handler[c].at = "idle"
    BY <1>1 DEF Idle
<1>4. TrackInv
    BY TrackInvInit DEF OneLot
<1>5. OnlyOrders
    BY <1>1, <1>2, <1>3 DEF OnlyOrders
<1>6. \A s \in Sides, p \in Prices : queues[s][p] = <<>>
    BY <1>1 DEF Sides
<1>7. UnitQtys /\ BookOnce /\ FillsOnce
    BY <1>1, <1>2, <1>6 DEF UnitQtys, BookOnce, FillsOnce
<1>8. \A i, e : ~RoutingAs(i, e) /\ ~SentAs(toEngine, i, e) /\ ~SentAs(ingress, i, e)
                /\ ~MatchingAs(i, e) /\ ~BookedAs(i, e)
    BY <1>1, <1>2, <1>3, <1>6 DEF RoutingAs, SentAs, MatchingAs, BookedAs
<1>9. LiveApart
    BY <1>8 DEF LiveApart, Live
<1>10. \A i : ~Filled(i) /\ ~Rejected(i) /\ ~Handling(i)
    BY <1>1, <1>2 DEF Filled, Rejected, Handling
<1>11. FillsApart
    BY <1>10 DEF FillsApart
<1>12. MapActive
    BY <1>1, <1>2 DEF MapActive
<1> QED BY <1>4, <1>5, <1>7, <1>9, <1>11, <1>12 DEF LotInv, Apart

\* The invariant of the setting is inductive.
LEMMA LotInvStep == LotInv /\ [Next]_vars => LotInv'
<1> SUFFICES ASSUME LotInv, [Next]_vars PROVE LotInv'
    OBVIOUS
<1>1. TrackInv'
    BY TrackInvStep DEF LotInv
<1>2. BookFacts'
    BY BookFactsStep
<1>3. OneLot'
    BY DEF LotInv, OneLot, PlainCommands
<1> QED BY <1>1, <1>2, <1>3, OnlyOrdersStep, ApartStep DEF LotInv, BookFacts

-----------------------------------------------------------------------------
(* The positions of the gateway and of the engine *)

\* What a fill that the gateway has not applied will do to an account's position: the fill of
\* order i is on its way back, or its apply step is still to come.
Unposted(i, a) ==
    IF (Filled(i) \/ Applying(i)) /\ pending_orders[i].token.account_id = a
    THEN Signed(pending_orders[i].side, 1) ELSE 0
UnpostedSum(a) == SumFunction([i \in Ids |-> Unposted(i, a)])

\* The engine is ahead of the gateway by the fills the gateway has not applied.
Balance ==
    /\ engine_positions \in [Accounts -> Int]
    /\ \A a \in Accounts : engine_positions[a] = positions[a] + UnpostedSum(a)

\* They are numbers, before and after a step.
LEMMA UnpostedType ==
    ASSUME NEW a
    PROVE  /\ \A i : Unposted(i, a) \in Int /\ Unposted(i, a)' \in Int
           /\ UnpostedSum(a) \in Int
<1> DEFINE w == [i \in Ids |-> Unposted(i, a)]
<1>1. \A i : Unposted(i, a) \in Int /\ Unposted(i, a)' \in Int
    BY DEF Unposted, Signed
<1>2. w \in [Ids -> Int] /\ IsFiniteSet(Ids)
    BY <1>1, GatewayAssumption
<1> HIDE DEF w
<1>3. SumFunction(w) \in Int
    BY <1>2, SumType
<1> QED BY <1>1, <1>3 DEF w, UnpostedSum

\* What two orders change.
LEMMA UnpostedTwo ==
    ASSUME NEW a, NEW i \in Ids, NEW k \in Ids, i # k,
           \A j \in Ids \ {i, k} : Unposted(j, a)' = Unposted(j, a)
    PROVE  UnpostedSum(a)' = UnpostedSum(a) + (Unposted(i, a)' - Unposted(i, a))
                             + (Unposted(k, a)' - Unposted(k, a))
<1> DEFINE w == [j \in Ids |-> Unposted(j, a)]
           u == [j \in Ids |-> IF j = i THEN Unposted(j, a)' ELSE Unposted(j, a)]
           v == [j \in Ids |-> Unposted(j, a)']
<1>1. \A j : Unposted(j, a) \in Int /\ Unposted(j, a)' \in Int
    BY UnpostedType
<1>2. w \in [Ids -> Int] /\ u \in [Ids -> Int] /\ v \in [Ids -> Int] /\ IsFiniteSet(Ids)
    BY <1>1, GatewayAssumption
<1>3. /\ \A j \in Ids \ {i} : u[j] = w[j]
      /\ \A j \in Ids \ {k} : v[j] = u[j]
    OBVIOUS
<1>4. /\ u[i] = Unposted(i, a)' /\ w[i] = Unposted(i, a)
      /\ v[k] = Unposted(k, a)' /\ u[k] = Unposted(k, a)
    OBVIOUS
<1>5. UnpostedSum(a) = SumFunction(w) /\ UnpostedSum(a)' = SumFunction(v)
    BY DEF UnpostedSum
<1> HIDE DEF w, u, v
<1>6. SumFunction(u) = SumFunction(w) + (u[i] - w[i])
    BY <1>2, <1>3, SumUpdate
<1>7. SumFunction(v) = SumFunction(u) + (v[k] - u[k])
    BY <1>2, <1>3, SumUpdate
<1>8. SumFunction(w) \in Int
    BY <1>2, SumType
<1> QED BY <1>1, <1>4, <1>5, <1>6, <1>7, <1>8

\* What one order changes.
LEMMA UnpostedOne ==
    ASSUME NEW a, NEW i \in Ids, \A j \in Ids \ {i} : Unposted(j, a)' = Unposted(j, a)
    PROVE  UnpostedSum(a)' = UnpostedSum(a) + (Unposted(i, a)' - Unposted(i, a))
<1> DEFINE w == [j \in Ids |-> Unposted(j, a)]
           v == [j \in Ids |-> Unposted(j, a)']
<1>1. \A j : Unposted(j, a) \in Int /\ Unposted(j, a)' \in Int
    BY UnpostedType
<1>2. w \in [Ids -> Int] /\ v \in [Ids -> Int] /\ IsFiniteSet(Ids)
    BY <1>1, GatewayAssumption
<1>3. \A j \in Ids \ {i} : v[j] = w[j]
    OBVIOUS
<1>4. v[i] = Unposted(i, a)' /\ w[i] = Unposted(i, a)
    OBVIOUS
<1>5. UnpostedSum(a) = SumFunction(w) /\ UnpostedSum(a)' = SumFunction(v)
    BY DEF UnpostedSum
<1> HIDE DEF w, v
<1>6. SumFunction(v) = SumFunction(w) + (v[i] - w[i])
    BY <1>2, <1>3, SumUpdate
<1> QED BY <1>4, <1>5, <1>6

\* A step that neither trades nor applies: the same orders are filled, with the same entries.
SamePosted ==
    /\ \A i \in Ids : Filled(i)' \/ Applying(i)' <=> Filled(i) \/ Applying(i)
    /\ \A i \in Ids : Filled(i) \/ Applying(i) => pending_orders'[i] = pending_orders[i]
    /\ UNCHANGED <<positions, engine_positions>>

\* Such a step keeps the balance.
LEMMA BalanceFrame ==
    ASSUME Balance, SamePosted
    PROVE  Balance'
<1>1. ASSUME NEW i \in Ids, NEW a PROVE Unposted(i, a)' = Unposted(i, a)
  <2>1. /\ Filled(i)' \/ Applying(i)' <=> Filled(i) \/ Applying(i)
        /\ Filled(i) \/ Applying(i) => pending_orders'[i] = pending_orders[i]
      BY DEF SamePosted
  <2>2. CASE Filled(i) \/ Applying(i)
      BY <2>1, <2>2 DEF Unposted
  <2>3. CASE ~(Filled(i) \/ Applying(i))
      BY <2>1, <2>3 DEF Unposted
  <2> QED BY <2>2, <2>3
<1>2. ASSUME NEW a PROVE UnpostedSum(a)' = UnpostedSum(a)
  <2>1. [i \in Ids |-> Unposted(i, a)'] = [i \in Ids |-> Unposted(i, a)]
      BY <1>1
  <2> QED BY <2>1 DEF UnpostedSum
<1> QED BY <1>2 DEF Balance, SamePosted

\* An order whose fill is being applied is handled.
LEMMA ApplyingHandling ==
    ASSUME NEW i, Applying(i)
    PROVE  Handling(i)
BY DEF Applying, Handling

\* Applying a fill of one lot moves the gateway's position by one.
LEMMA BalanceApplies ==
    ASSUME LotInv, Balance, UNCHANGED <<toGateway, engine_positions>>, Applies(Head(todo))
    PROVE  Balance'
<1> DEFINE x == Head(todo)
           b == x.meta.token.account_id
           d == Signed(x.meta.side, 1)
<1>1. /\ x.id \in Ids /\ x.fill.qty = 1 /\ pending_orders[x.id] = x.meta
      /\ x.meta \in OrderMetadata /\ ApplyFill(x.fill, x.meta) /\ pending_orders' = pending_orders
      /\ Applying(x.id)
      /\ \A i \in Ids : Applying(i)' <=> Applying(i) /\ i # x.id
    BY DEF Applies
<1>2. positions \in [Accounts -> Int]
    BY DEF LotInv, TrackInv, TypeInv, TypeOK
<1>3. b \in Accounts
    BY <1>1 DEF OrderMetadata, ReservationToken
<1>4. d \in Int
    BY DEF Signed
<1>5. positions' = [positions EXCEPT ![b] = @ + d]
    BY <1>1 DEF ApplyFill
<1> HIDE DEF d
<1>6. positions'[b] = positions[b] + d /\ \A a \in Accounts \ {b} : positions'[a] = positions[a]
    BY <1>2, <1>3, <1>5
<1>7. \A i : Filled(i)' <=> Filled(i)
    BY AnswersSame
<1>8. ~Filled(x.id)
  <2>1. Handling(x.id)
      BY <1>1, ApplyingHandling
  <2> QED BY <1>1, <2>1 DEF LotInv, Apart, FillsApart
<1> HIDE DEF x, b
<1>9. PICK k \in Ids : k = x.id
    BY <1>1
<1>10. /\ Applying(k) /\ ~Applying(k)' /\ ~Filled(k) /\ ~Filled(k)'
       /\ pending_orders[k] = x.meta
    BY <1>1, <1>7, <1>8, <1>9
<1>11. ASSUME NEW a \in Accounts
       PROVE  engine_positions'[a] = positions'[a] + UnpostedSum(a)'
  <2>1. \A j \in Ids \ {k} : Unposted(j, a)' = Unposted(j, a)
      BY <1>1, <1>7, <1>9 DEF Unposted
  <2>2. Unposted(k, a)' = 0
      BY <1>10 DEF Unposted
  <2>3. Unposted(k, a) = IF b = a THEN d ELSE 0
      BY <1>10 DEF Unposted, b, d
  <2>4. UnpostedSum(a)' = UnpostedSum(a) + (Unposted(k, a)' - Unposted(k, a))
      BY <2>1, UnpostedOne
  <2>5. UnpostedSum(a) \in Int /\ positions[a] \in Int
      BY <1>2, UnpostedType
  <2>6. engine_positions'[a] = positions[a] + UnpostedSum(a)
      BY DEF Balance
  <2>7. CASE a = b
      BY <1>4, <1>6, <2>2, <2>3, <2>4, <2>5, <2>6, <2>7
  <2>8. CASE a # b
      BY <1>6, <2>2, <2>3, <2>4, <2>5, <2>6, <2>8
  <2> QED BY <2>7, <2>8
<1> QED BY <1>11 DEF Balance

\* A trade of one lot moves the engine's positions of two accounts by one.
LEMMA BalanceTrades ==
    ASSUME LotInv, Balance, EngineOnly, EngineTrades
    PROVE  Balance'
<1>1. Apart /\ TypeInv /\ UnitQtys
    BY DEF LotInv, TrackInv
<1>2. UNCHANGED <<positions, pending_orders, todo>>
    BY DEF EngineOnly, accountVars
<1>3. PICK s \in Sides, p \in Prices, m \in BookOrder :
          m \in Range(queues[s][p]) /\ UnitTrade(s, p, m)
    BY <1>1, TradeIsUnit
<1>4. PICK t \in Ids, k \in Ids, b \in Accounts, q \in Sides, h \in Accounts :
          t = incoming.order_id /\ k = m.order_id /\ b = incoming.account_id
          /\ q = incoming.side /\ h = m.account_id
    BY <1>3, TradeLive
<1>5. /\ k # t /\ s = Engine!Other(q)
      /\ pending_orders[k] = Entry(h, s, p) /\ pending_orders[t] = Entry(b, q, incoming.price)
      /\ ~Filled(k) /\ ~Handling(k) /\ ~Filled(t) /\ ~Handling(t)
  <2>1. /\ k # t /\ s = Engine!Other(q)
        /\ Live(k, Entry(h, s, p)) /\ Live(t, Entry(b, q, incoming.price))
        /\ Entry(h, s, p) \in OrderMetadata /\ Entry(b, q, incoming.price) \in OrderMetadata
      BY <1>3, <1>4, TradeLive DEF EntryOf
  <2> QED BY <1>1, <2>1 DEF Apart, LiveApart
<1>6. \A i \in Ids : Filled(i)' <=> Filled(i) \/ i \in {k, t}
    BY <1>3, <1>4, TradeFills
<1>7. \A i : Applying(i)' <=> Applying(i)
    BY <1>2, AnswersSame
<1>8. ~Applying(k) /\ ~Applying(t)
    BY <1>5, ApplyingHandling
<1>9. Signed(s, 1) = -Signed(q, 1) /\ Signed(q, 1) \in Int
    BY <1>5 DEF Signed, Sides, Engine!Other
<1> DEFINE d == Signed(q, 1)
<1>10. engine_positions' = [[engine_positions EXCEPT ![b] = @ + d] EXCEPT ![h] = @ - d]
    BY <1>3, <1>4 DEF UnitTrade
<1>11. engine_positions \in [Accounts -> Int]
    BY DEF Balance
<1> HIDE DEF d
<1>12. d \in Int /\ Signed(s, 1) = -d
    BY <1>9 DEF d
<1>13. engine_positions' \in [Accounts -> Int]
    BY <1>10, <1>11, <1>12
<1>14. ASSUME NEW a \in Accounts
       PROVE  engine_positions'[a] = positions'[a] + UnpostedSum(a)'
  <2>1. \A j \in Ids \ {k, t} : Unposted(j, a)' = Unposted(j, a)
      BY <1>2, <1>6, <1>7 DEF Unposted
  <2>2. Unposted(k, a) = 0 /\ Unposted(t, a) = 0
      BY <1>5, <1>8 DEF Unposted
  <2>3. Unposted(k, a)' = IF h = a THEN -d ELSE 0
    <3>1. Filled(k)' /\ pending_orders'[k].token.account_id = h /\ pending_orders'[k].side = s
        BY <1>2, <1>5, <1>6 DEF Entry
    <3> QED BY <1>12, <3>1 DEF Unposted
  <2>4. Unposted(t, a)' = IF b = a THEN d ELSE 0
    <3>1. Filled(t)' /\ pending_orders'[t].token.account_id = b /\ pending_orders'[t].side = q
        BY <1>2, <1>5, <1>6 DEF Entry
    <3> QED BY <3>1 DEF Unposted, d
  <2>5. UnpostedSum(a)' = UnpostedSum(a) + (Unposted(k, a)' - Unposted(k, a))
                          + (Unposted(t, a)' - Unposted(t, a))
      BY <1>5, <2>1, UnpostedTwo
  <2>6. UnpostedSum(a) \in Int /\ positions[a] \in Int /\ positions'[a] = positions[a]
      BY <1>1, <1>2, UnpostedType DEF TypeInv, TypeOK
  <2>7. engine_positions[a] = positions[a] + UnpostedSum(a)
      BY DEF Balance
  <2>8. engine_positions'[a] = engine_positions[a] + (IF b = a THEN d ELSE 0)
                               + (IF h = a THEN -d ELSE 0)
      BY <1>10, <1>11, <1>12
  <2>9. UnpostedSum(a)' = UnpostedSum(a) + (IF h = a THEN -d ELSE 0) + (IF b = a THEN d ELSE 0)
      BY <1>12, <2>2, <2>3, <2>4, <2>5, <2>6
  <2> QED BY <1>12, <2>6, <2>7, <2>8, <2>9
<1> QED BY <1>13, <1>14 DEF Balance

\* Every step of the setting keeps the balance.
LEMMA BalanceStep ==
    ASSUME LotInv, Balance, [Next]_vars
    PROVE  Balance'
<1>1. Apart /\ TypeInv /\ OneLot /\ Places /\ Linked /\ FillsOnce /\ UnitQtys
    BY DEF LotInv, TrackInv
<1>2. ASSUME NEW c \in Conns,
             Authenticate(c) \/ Disconnect(c) \/ Route(c) \/ \E no \in NewOrders : ReadNewOrder(c, no)
      PROVE  Balance'
  <2>1. UNCHANGED <<positions, engine_positions, pending_orders, toGateway, todo>>
      BY <1>2 DEF Authenticate, Disconnect, Route, ReadNewOrder, accountVars, engineVars
  <2>2. SamePosted
      BY <2>1, AnswersSame DEF SamePosted
  <2> QED BY <2>2, BalanceFrame
<1>3. CASE UNCHANGED vars \/ EngineReceives \/ (EngineOnly /\ EngineNewOrder /\ UNCHANGED engine_positions)
  <2>1. UNCHANGED <<positions, engine_positions, pending_orders, toGateway, todo>>
      BY <1>3 DEF vars, EngineReceives, EngineOnly, EngineNewOrder, accountVars, engineVars
  <2>2. SamePosted
      BY <2>1, AnswersSame DEF SamePosted
  <2> QED BY <2>2, BalanceFrame
<1>4. ASSUME NEW c \in Conns, TrackOrder(c) PROVE Balance'
  <2> DEFINE id == handler[c].cmd.order.order_id
  <2>1. /\ id \in Ids /\ Reading(c, id) /\ pending_orders[id] = Nil
        /\ \A j \in Ids \ {id} : pending_orders'[j] = pending_orders[j]
        /\ UNCHANGED <<positions, engine_positions, toGateway, todo>>
      BY <1>1, <1>4, TrackOrderShape DEF accountVars, engineVars
  <2>2. ~Filled(id)
      BY <1>1, <2>1 DEF Places, OnePlace
  <2>3. ~Applying(id)
      BY <1>1, <2>1 DEF Linked, Applying
  <2> HIDE DEF id
  <2>4. SamePosted
      BY <2>1, <2>2, <2>3, AnswersSame DEF SamePosted
  <2> QED BY <2>4, BalanceFrame
<1>5. CASE OnFill
  <2> DEFINE f == Head(toGateway)
  <2>1. /\ Filled(f.maker) /\ Filled(f.taker)
        /\ \A i \in Ids :
              /\ Filled(i)' <=> Filled(i) /\ i \notin {f.maker, f.taker}
              /\ ~Handling(i)
              /\ Applying(i)' <=> i \in {f.maker, f.taker}
        /\ UNCHANGED <<positions, engine_positions, pending_orders>>
      BY <1>5, OnFillShape DEF accountVars, engineVars
  <2>2. \A i \in Ids : ~Applying(i)
      BY <2>1, ApplyingHandling
  <2> HIDE DEF f
  <2>3. SamePosted
      BY <2>1, <2>2 DEF SamePosted
  <2> QED BY <2>3, BalanceFrame
<1>6. CASE OnAck \/ OnReject
  <2>1. /\ \A i \in Ids : (Filled(i)' <=> Filled(i)) /\ ~Applying(i) /\ ~Applying(i)'
        /\ \/ pending_orders' = pending_orders
           \/ \E r \in Ids : /\ Rejected(r)
                             /\ \A j \in Ids \ {r} : pending_orders'[j] = pending_orders[j]
        /\ UNCHANGED <<positions, engine_positions>>
      BY <1>6, OnAnswerShape DEF engineVars
  <2>2. \A i \in Ids : Filled(i) => ~Rejected(i)
      BY <1>1 DEF Apart, FillsApart
  <2>3. \A i \in Ids : Filled(i) => pending_orders'[i] = pending_orders[i]
      BY <2>1, <2>2
  <2>4. SamePosted
      BY <2>1, <2>3 DEF SamePosted
  <2> QED BY <2>4, BalanceFrame
<1>7. CASE Respond
  <2> DEFINE x == Head(todo)
  <2>1. UNCHANGED <<toGateway, engine_positions>> /\ (Applies(x) \/ Removes(x) \/ Releases(x))
      BY <1>7, RespondShape DEF engineVars
  <2>2. \A i : Filled(i)' <=> Filled(i)
      BY <2>1, AnswersSame
  <2>3. CASE Removes(x)
    <3> HIDE DEF x
    <3>1. /\ x.id \in Ids /\ Handling(x.id)
          /\ \A j \in Ids \ {x.id} : pending_orders'[j] = pending_orders[j]
          /\ \A i \in Ids : (Handling(i)' => i # x.id) /\ (Applying(i)' <=> Applying(i))
          /\ UNCHANGED positions
        BY <2>3 DEF Removes, accountVars
    <3>2. ~Filled(x.id)
        BY <1>1, <3>1 DEF Apart, FillsApart
    <3>3. \A i \in Ids : Applying(i)' => Handling(i)'
        BY DEF Applying, Handling
    <3>4. ~Applying(x.id)
        BY <3>1, <3>3
    <3>5. SamePosted
        BY <2>1, <2>2, <3>1, <3>2, <3>4 DEF SamePosted
    <3> QED BY <3>5, BalanceFrame
  <2>4. CASE Releases(x)
    <3>1. SamePosted
        BY <2>1, <2>2, <2>4 DEF SamePosted, Releases
    <3> QED BY <3>1, BalanceFrame
  <2> QED BY <2>1, <2>3, <2>4, BalanceApplies
<1>8. CASE EngineOnly /\ (EngineRejects \/ EngineSettles) /\ UNCHANGED engine_positions
  <2>1. UNCHANGED <<positions, pending_orders, todo>>
      BY <1>8 DEF EngineOnly, accountVars
  <2>2. \A i \in Ids : Filled(i)' <=> Filled(i)
    <3>1. CASE EngineRejects
        BY <3>1, RejectsShape
    <3>2. CASE EngineSettles
      <4> DEFINE x == Ack(incoming.order_id)
      <4>1. incoming # Nil /\ toGateway' = Append(toGateway, x)
          BY <1>1, <3>2, SettleIsUnit
      <4>2. x \in Answer /\ x.type = "Ack"
          BY <1>1, <4>1, IncomingFields DEF Ack, Answer
      <4> HIDE DEF x
      <4>3. Range(toGateway') = Range(toGateway) \cup {x}
          BY <1>1, <4>1, <4>2, AnswerAppend
      <4> QED BY <4>2, <4>3 DEF Filled
    <3> QED BY <1>8, <3>1, <3>2
  <2>3. SamePosted
      BY <1>8, <2>1, <2>2, AnswersSame DEF SamePosted
  <2> QED BY <2>3, BalanceFrame
<1> QED BY <1>2, <1>3, <1>4, <1>5, <1>6, <1>7, <1>8, LotSteps, BalanceTrades

\* At first all positions are zero and nothing is filled.
LEMMA BalanceInit == Init => Balance
<1> SUFFICES ASSUME Init PROVE Balance
    OBVIOUS
<1>1. /\ toGateway = <<>> /\ todo = <<>>
      /\ positions = [a \in Accounts |-> 0] /\ engine_positions = [a \in Accounts |-> 0]
    BY DEF Init
<1>2. Range(<<>>) = {}
    BY DEF Range
<1>3. \A i, a : Unposted(i, a) = 0
    BY <1>1, <1>2 DEF Unposted, Filled, Applying
<1>4. ASSUME NEW a \in Accounts PROVE UnpostedSum(a) = 0
  <2> DEFINE w == [i \in Ids |-> Unposted(i, a)]
  <2>1. w \in [Ids -> Int] /\ (\A i \in Ids : w[i] = 0) /\ IsFiniteSet(Ids)
      BY <1>3, GatewayAssumption
  <2> HIDE DEF w
  <2>2. SumFunction(w) = 0
      BY <2>1, SumZero
  <2> QED BY <2>2 DEF w, UnpostedSum
<1> QED BY <1>1, <1>4 DEF Balance

\* When nothing is in flight, no fill is left to apply.
LEMMA BalanceDrained ==
    ASSUME TypeInv, Balance
    PROVE  PositionsAgree
<1> SUFFICES ASSUME Drained PROVE positions = engine_positions
    BY DEF PositionsAgree
<1>1. toGateway = <<>> /\ todo = <<>>
    BY DEF Drained
<1>2. Range(<<>>) = {}
    BY DEF Range
<1>3. \A i, a : Unposted(i, a) = 0
    BY <1>1, <1>2 DEF Unposted, Filled, Applying
<1>4. ASSUME NEW a \in Accounts PROVE UnpostedSum(a) = 0
  <2> DEFINE w == [i \in Ids |-> Unposted(i, a)]
  <2>1. w \in [Ids -> Int] /\ (\A i \in Ids : w[i] = 0) /\ IsFiniteSet(Ids)
      BY <1>3, GatewayAssumption
  <2> HIDE DEF w
  <2>2. SumFunction(w) = 0
      BY <2>1, SumZero
  <2> QED BY <2>2 DEF w, UnpostedSum
<1>5. positions \in [Accounts -> Int] /\ engine_positions \in [Accounts -> Int]
    BY DEF TypeInv, TypeOK, Balance
<1>6. \A a \in Accounts : engine_positions[a] = positions[a]
    BY <1>4, <1>5 DEF Balance
<1> QED BY <1>5, <1>6

\* When clients send orders of one lot, each under an id of its own, the position the gateway
\* checks an account's orders against is, whenever nothing is in flight, the one the engine's
\* trades add up to: for every number of clients, orders and accounts, whatever the engine
\* refuses or drops, and however fills and answers interleave.
THEOREM GatewayPositions == OneLot /\ Spec => []PositionsAgree
<1>1. OneLot /\ Init => LotInv /\ Balance
    BY LotInvInit, BalanceInit
<1>2. (LotInv /\ Balance) /\ [Next]_vars => (LotInv /\ Balance)'
    BY LotInvStep, BalanceStep
<1>3. LotInv /\ Balance => PositionsAgree
    BY BalanceDrained DEF LotInv, TrackInv
<1> QED BY <1>1, <1>2, <1>3, PTL DEF Spec

-----------------------------------------------------------------------------
(* The reservations cover the book *)

\* The order in a slot of the book, and what it can still cost an account.
SlotOrder(x) == queues["Buy"][x[1]][x[2]]
SlotCost(x, a) == IF SlotOrder(x).account_id = a THEN x[1] * SlotOrder(x).qty ELSE 0
SlotId == [x \in BuySlots |-> SlotOrder(x).order_id]

\* A slot is a price and a place, and its order has the entry in the map that pays for it.
LEMMA SlotFields ==
    ASSUME LotInv, NEW x \in BuySlots
    PROVE  /\ x[1] \in Prices /\ Holds("Buy", x[1], x[2], SlotOrder(x).order_id)
           /\ x = <<x[1], x[2]>>
           /\ SlotOrder(x).order_id \in Ids /\ SlotOrder(x).account_id \in Accounts
           /\ BookedAs(SlotOrder(x).order_id, Entry(SlotOrder(x).account_id, "Buy", x[1]))
           /\ pending_orders[SlotOrder(x).order_id] = Entry(SlotOrder(x).account_id, "Buy", x[1])
           /\ SlotOrder(x).order_id \notin Applied
           /\ SlotOrder(x).qty = 1
<1>1. PICK p \in Prices : x \in {p} \X (1 .. Len(queues["Buy"][p]))
    BY DEF BuySlots
<1>2. PICK k \in 1 .. Len(queues["Buy"][p]) : x = <<p, k>>
    BY <1>1
<1>3. x[1] = p /\ x[2] = k
    BY <1>2
<1> DEFINE q == queues["Buy"][p]
           o == q[k]
           e == Entry(o.account_id, "Buy", p)
<1>4. SlotOrder(x) = o
    BY <1>3 DEF SlotOrder
<1>5. TypeInv /\ Apart /\ UnitQtys /\ "Buy" \in Sides
    BY DEF LotInv, TrackInv, Sides
<1>6. /\ q \in Seq(BookOrder)
      /\ \A y \in Range(q) : y.order_id \in Ids /\ y.account_id \in Accounts
    BY <1>5, QueueFields
<1>7. o \in Range(q)
    BY <1>2, <1>6, RangeType
<1>8. o.order_id \in Ids /\ o.account_id \in Accounts /\ o.qty = 1
    BY <1>5, <1>6, <1>7 DEF UnitQtys
<1>9. BookedAs(o.order_id, e)
    BY <1>5, <1>7 DEF BookedAs
<1>10. e \in OrderMetadata
    BY <1>8, ConstantTypes DEF Entry, OrderMetadata, ReservationToken
<1>11. pending_orders[o.order_id] = e /\ ~Handling(o.order_id)
    BY <1>5, <1>8, <1>9, <1>10 DEF Apart, LiveApart, Live
<1>12. o.order_id \notin Applied
  <2> SUFFICES ASSUME o.order_id \in Applied PROVE FALSE
      OBVIOUS
  <2>1. todo # <<>> /\ Head(todo).do = "remove" /\ o.order_id = Head(todo).id
      BY DEF Applied
  <2>2. Head(todo) \in Range(todo)
      BY <1>5, <2>1, RangeTail DEF TypeInv, QueueTypes
  <2> QED BY <1>11, <2>1, <2>2 DEF Handling
<1>13. Holds("Buy", p, k, o.order_id)
    BY <1>2 DEF Holds
<1> HIDE DEF o, e
<1> QED BY <1>2, <1>3, <1>4, <1>8, <1>9, <1>11, <1>12, <1>13 DEF e

\* No two slots have the same order, and a slot's order weighs what it costs.
LEMMA SlotWeights ==
    ASSUME LotInv, NEW a \in Accounts
    PROVE  /\ IsFiniteSet(BuySlots) /\ SlotId \in [BuySlots -> Ids]
           /\ \A x, y \in BuySlots : SlotId[x] = SlotId[y] => x = y
           /\ \A x \in BuySlots : SlotCost(x, a) \in Nat /\ SlotCost(x, a) = OrderWeight(SlotId[x], a)
           /\ OpenNotional(a) = SumFunction([x \in BuySlots |-> SlotCost(x, a)])
<1>1. SlotId \in [BuySlots -> Ids]
    BY SlotFields DEF SlotId
<1>2. ASSUME NEW x \in BuySlots, NEW y \in BuySlots, SlotId[x] = SlotId[y] PROVE x = y
  <2>1. PICK i : i = SlotOrder(x).order_id /\ i = SlotOrder(y).order_id
      BY <1>2 DEF SlotId
  <2>2. x[1] \in Prices /\ Holds("Buy", x[1], x[2], i) /\ x = <<x[1], x[2]>>
      BY <2>1, SlotFields
  <2>3. y[1] \in Prices /\ Holds("Buy", y[1], y[2], i) /\ y = <<y[1], y[2]>>
      BY <2>1, SlotFields
  <2>4. BookOnce /\ "Buy" \in Sides
      BY DEF LotInv, Sides
  <2>5. x[1] = y[1] /\ x[2] = y[2]
      BY <2>2, <2>3, <2>4, SamePlace
  <2> QED BY <2>2, <2>3, <2>5
<1>3. IsFiniteSet(BuySlots)
  <2>1. SlotId \in Injection(BuySlots, Ids)
      BY <1>1, <1>2 DEF Injection, IsInjective
  <2>2. IsFiniteSet(Ids)
      BY GatewayAssumption
  <2> QED BY <2>1, <2>2, FS_Injection
<1>4. ASSUME NEW x \in BuySlots
      PROVE  SlotCost(x, a) \in Nat /\ SlotCost(x, a) = OrderWeight(SlotId[x], a)
  <2> DEFINE o == SlotOrder(x)
             i == o.order_id
  <2>1. /\ x[1] \in Nat /\ i \in Ids /\ o.qty = 1 /\ i \notin Applied
        /\ pending_orders[i] = Entry(o.account_id, "Buy", x[1])
        /\ Entry(o.account_id, "Buy", x[1]) \in OrderMetadata
    <3>1. /\ x[1] \in Prices /\ i \in Ids /\ o.qty = 1 /\ i \notin Applied
          /\ pending_orders[i] = Entry(o.account_id, "Buy", x[1]) /\ o.account_id \in Accounts
        BY SlotFields
    <3>2. x[1] \in Nat
        BY <3>1, ConstantTypes
    <3> QED BY <3>1, <3>2 DEF Entry, OrderMetadata, ReservationToken
  <2>2. SlotId[x] = i
      BY DEF SlotId
  <2>3. pending_orders[i] # Nil
      BY <2>1, GatewayAssumption
  <2>4. OrderWeight(i, a) = AmountOf(pending_orders[i].token, a)
      BY <2>1, <2>3 DEF OrderWeight
  <2> HIDE DEF i
  <2>5. AmountOf(pending_orders[i].token, a) = IF o.account_id = a THEN x[1] ELSE 0
      BY <2>1 DEF AmountOf, Entry
  <2>6. SlotCost(x, a) = IF o.account_id = a THEN x[1] ELSE 0
      BY <2>1 DEF SlotCost
  <2> QED BY <2>1, <2>2, <2>4, <2>5, <2>6
<1>5. OpenNotional(a) = SumFunction([x \in BuySlots |-> SlotCost(x, a)])
    BY DEF OpenNotional, SlotCost, SlotOrder
<1> QED BY <1>1, <1>2, <1>3, <1>4, <1>5

\* The cost of the book is the weight of the orders in it.
InBook(i) == \E x \in BuySlots : SlotId[x] = i
BookWeight(i, a) == IF InBook(i) THEN OrderWeight(i, a) ELSE 0

\* The slots and the orders in them have the same sum.
LEMMA BookSum ==
    ASSUME LotInv, NEW a \in Accounts
    PROVE  /\ OpenNotional(a) = SumFunction([i \in Ids |-> BookWeight(i, a)])
           /\ \A i \in Ids : BookWeight(i, a) \in Nat
<1> DEFINE S == BuySlots
           w == [i \in Ids |-> BookWeight(i, a)]
           v == [x \in S |-> SlotCost(x, a)]
           f == SlotId
<1>1. /\ IsFiniteSet(S) /\ f \in [S -> Ids]
      /\ \A x, y \in S : f[x] = f[y] => x = y
      /\ \A x \in S : SlotCost(x, a) \in Nat /\ SlotCost(x, a) = OrderWeight(f[x], a)
      /\ OpenNotional(a) = SumFunction(v)
    BY SlotWeights
<1>2. \A i \in Ids : OrderWeight(i, a) \in Nat
    BY Weights DEF WeightFacts, LotInv, TrackInv
<1>3. \A i \in Ids : BookWeight(i, a) \in Nat
    BY <1>2 DEF BookWeight
<1>4. \A x \in S : InBook(f[x])
    BY DEF InBook
<1>5. \A i \in Ids : (\A x \in S : f[x] # i) => ~InBook(i)
    BY DEF InBook
<1> HIDE DEF S, f
<1>6. \A x \in S : v[x] = w[f[x]]
  <2> SUFFICES ASSUME NEW x \in S PROVE v[x] = w[f[x]]
      OBVIOUS
  <2>1. f[x] \in Ids
      BY <1>1
  <2>2. w[f[x]] = BookWeight(f[x], a) /\ v[x] = SlotCost(x, a)
      BY <2>1
  <2> QED BY <1>1, <1>4, <2>2 DEF BookWeight
<1>7. w \in [Ids -> Int] /\ v \in [S -> Int] /\ IsFiniteSet(Ids)
    BY <1>1, <1>3, GatewayAssumption
<1>8. \A i \in Ids : (\A x \in S : f[x] # i) => w[i] = 0
    BY <1>5 DEF BookWeight
<1> HIDE DEF v, w
<1>9. Through(w, v, f, S, Ids)
    BY <1>1, <1>6, <1>7 DEF Through
<1>10. SumFunction(v) = SumFunction(w)
    BY <1>8, <1>9, SumImage
<1> QED BY <1>1, <1>3, <1>10 DEF w

\* The tokens of the orders in the book are among those of the map.
LEMMA CoveredFromParts ==
    ASSUME LotInv, ReservationsTracked
    PROVE  OrdersCovered
<1> SUFFICES ASSUME NEW a \in Accounts PROVE OpenNotional(a) <= tentative_reserved[a]
    BY DEF OrdersCovered
<1> DEFINE w == [i \in Ids |-> BookWeight(i, a)]
           v == [i \in Ids |-> OrderWeight(i, a)]
<1>1. OpenNotional(a) = SumFunction(w) /\ \A i \in Ids : BookWeight(i, a) \in Nat
    BY BookSum
<1>2. /\ \A i \in Ids : OrderWeight(i, a) \in Nat
      /\ PendingAmount(a) \in Nat /\ HeldAmount(a) \in Nat /\ ReleasingAmount(a) \in Nat
      /\ PendingAmount(a) = SumFunction(v)
    BY Weights DEF WeightFacts, LotInv, TrackInv
<1>3. w \in [Ids -> Int] /\ v \in [Ids -> Int] /\ IsFiniteSet(Ids)
    BY <1>1, <1>2, GatewayAssumption
<1>4. \A i \in Ids : w[i] <= v[i]
    BY <1>2 DEF BookWeight
<1> HIDE DEF w, v
<1>5. SumFunction(w) <= SumFunction(v) /\ SumFunction(w) \in Int
    BY <1>3, <1>4, SumMonotonic, SumType
<1>6. tentative_reserved[a] = PendingAmount(a) + HeldAmount(a) + ReleasingAmount(a)
    BY DEF ReservationsTracked
<1> QED BY <1>1, <1>2, <1>5, <1>6

\* When clients send orders of one lot, each under an id of its own, an account's reservation
\* covers all its buy orders that rest in the engine's book, at every moment between the steps
\* of the read loops, the response task and the engine: for every number of clients, orders,
\* prices and accounts.
THEOREM GatewayOrdersCovered == OneLot /\ Spec => []OrdersCovered
<1>1. OneLot /\ Init => LotInv /\ ReservationsTracked
    BY LotInvInit, TrackedInit
<1>2. (LotInv /\ ReservationsTracked) /\ [Next]_vars => (LotInv /\ ReservationsTracked)'
    BY LotInvStep, TrackedStep DEF LotInv
<1>3. LotInv /\ ReservationsTracked => OrdersCovered
    BY CoveredFromParts
<1> QED BY <1>1, <1>2, <1>3, PTL DEF Spec

-----------------------------------------------------------------------------
(* The reservations of orders that are gone are returned *)

\* Orders of one lot that rest when they do not trade.  What is left of an order that does not
\* rest is acknowledged like one that does, and the shared map never forgets it.
AllRest == OneLot /\ \A no \in NewOrders : no.gtc

\* The engine server never finds its queue full.  A command it drops is answered by nothing.
NeverFull == EngineReceives => Len(ingress) < IngressCap

\* Every order of the map is live, or the map will forget it.
Kept ==
    \A i \in Ids : pending_orders[i] # Nil =>
        Live(i, pending_orders[i]) \/ Filled(i) \/ Rejected(i) \/ Handling(i)

KeptInv == LotInv /\ AllRest /\ Kept /\ (incoming # Nil => incoming.gtc)

\* A step after which every order that was accounted for still is, or is not in the map.
Accounted(i, e) == Live(i, e) \/ Filled(i) \/ Rejected(i) \/ Handling(i)
Carries ==
    \A i \in Ids : pending_orders'[i] # Nil =>
        /\ pending_orders'[i] = pending_orders[i]
        /\ \A e \in OrderMetadata : Accounted(i, e) => Accounted(i, e)'

\* Such a step keeps every order accounted for.
LEMMA KeptCarries ==
    ASSUME TypeInv, Kept, Carries
    PROVE  Kept'
<1> SUFFICES ASSUME NEW i \in Ids, pending_orders'[i] # Nil
             PROVE  (Live(i, pending_orders[i]) \/ Filled(i) \/ Rejected(i) \/ Handling(i))'
    BY DEF Kept
<1>1. pending_orders'[i] = pending_orders[i]
    BY DEF Carries
<1>2. PICK e \in OrderMetadata : e = pending_orders[i]
    BY <1>1 DEF TypeInv, TypeOK
<1>3. Accounted(i, e)
    BY <1>1, <1>2 DEF Kept, Accounted
<1>4. Accounted(i, e)'
    BY <1>3 DEF Carries
<1>5. (Live(i, e) \/ Filled(i) \/ Rejected(i) \/ Handling(i))'
    BY <1>4 DEF Accounted
<1>6. e = pending_orders'[i]
    BY <1>1, <1>2
<1> QED BY <1>5, <1>6

\* Every step keeps the orders accounted for, if the engine's queue has room.
LEMMA KeptStep ==
    ASSUME KeptInv, [Next]_vars, [NeverFull]_vars
    PROVE  Kept'
<1>1. LotInv /\ Kept /\ TypeInv /\ Apart /\ OneLot /\ Places /\ Linked /\ UnitQtys /\ FillsOnce
    BY DEF KeptInv, LotInv, TrackInv
<1>2. ASSUME NEW c \in Conns,
             Authenticate(c) \/ Disconnect(c) \/ Route(c) \/ \E no \in NewOrders : ReadNewOrder(c, no)
      PROVE  Kept'
  <2>1. UNCHANGED <<pending_orders, toGateway, todo>>
      BY <1>2 DEF Authenticate, Disconnect, Route, ReadNewOrder
  <2>2. \A i, e : Live(i, e) => Live(i, e)'
    <3>1. CASE Authenticate(c) \/ Disconnect(c)
      <4>1. UNCHANGED <<handler, toEngine, ingress, incoming, queues>>
          BY <3>1 DEF Authenticate, Disconnect, engineVars
      <4> QED BY <4>1, LiveSame
    <3> QED BY <1>1, <1>2, <3>1, LiveRoute, LiveReadNewOrder
  <2>3. Carries
      BY <2>1, <2>2, AnswersSame DEF Carries, Accounted
  <2> QED BY <1>1, <2>3, KeptCarries
<1>3. CASE UNCHANGED vars
  <2>1. UNCHANGED <<pending_orders, toGateway, todo, handler, toEngine, ingress, incoming, queues>>
      BY <1>3 DEF vars, loopVars, engineVars
  <2>2. Carries
      BY <2>1, AnswersSame, LiveSame DEF Carries, Accounted
  <2> QED BY <1>1, <2>2, KeptCarries
<1>4. ASSUME NEW c \in Conns, TrackOrder(c) PROVE Kept'
  <2> DEFINE x == handler[c].cmd
             id == x.order.order_id
  <2>1. /\ handler[c].at = "track"
        /\ pending_orders'[id] = [token |-> handler[c].token, side |-> x.order.side,
                                  operation |-> "Active"]
        /\ \A j \in Ids \ {id} : pending_orders'[j] = pending_orders[j]
        /\ UNCHANGED <<toGateway, todo>>
      BY <1>1, <1>4, TrackOrderShape
  <2>2. handler[c].token = EntryOf(x.order).token
      BY <1>1, <2>1 DEF LotInv, OnlyOrders
  <2>3. pending_orders'[id] = EntryOf(x.order)
      BY <2>1, <2>2 DEF EntryOf, Entry
  <2>4. \A i, e : Live(i, e)' <=> Live(i, e) \/ (i = id /\ e = EntryOf(x.order))
      BY <1>1, <1>4, LiveTrackOrder
  <2>5. \A i : /\ Filled(i)' <=> Filled(i)
               /\ Rejected(i)' <=> Rejected(i)
               /\ Handling(i)' <=> Handling(i)
      BY <2>1, AnswersSame
  <2> HIDE DEF x, id
  <2> SUFFICES ASSUME NEW i \in Ids, pending_orders'[i] # Nil
               PROVE  (Live(i, pending_orders[i]) \/ Filled(i) \/ Rejected(i) \/ Handling(i))'
      BY DEF Kept
  <2>6. PICK e : e = pending_orders'[i]
      OBVIOUS
  <2>7. Live(i, e)' \/ Filled(i)' \/ Rejected(i)' \/ Handling(i)'
    <3>1. CASE i = id
        BY <2>3, <2>4, <2>6, <3>1
    <3>2. CASE i # id
      <4>1. pending_orders[i] = e /\ pending_orders[i] # Nil
          BY <2>1, <2>6, <3>2
      <4> QED BY <1>1, <2>4, <2>5, <4>1 DEF Kept
    <3> QED BY <3>1, <3>2
  <2> QED BY <2>6, <2>7
<1>5. CASE OnFill
  <2> DEFINE f == Head(toGateway)
  <2>1. /\ \A i \in Ids :
              /\ Filled(i)' <=> Filled(i) /\ i \notin {f.maker, f.taker}
              /\ Rejected(i)' <=> Rejected(i)
              /\ ~Handling(i)
              /\ Handling(i)' <=> i \in {f.maker, f.taker}
        /\ UNCHANGED <<pending_orders, handler, toEngine, ingress, incoming, queues>>
      BY <1>1, <1>5, OnFillShape DEF loopVars, engineVars
  <2> HIDE DEF f
  <2>2. Carries
      BY <2>1, LiveSame DEF Carries, Accounted
  <2> QED BY <1>1, <2>2, KeptCarries
<1>6. CASE OnAck \/ OnReject
  <2>1. /\ \A i \in Ids : (Filled(i)' <=> Filled(i)) /\ ~Handling(i)
        /\ \/ pending_orders' = pending_orders /\ (\A i \in Ids : Rejected(i)' <=> Rejected(i))
           \/ \E r \in Ids : /\ pending_orders'[r] = Nil
                             /\ \A j \in Ids \ {r} : /\ pending_orders'[j] = pending_orders[j]
                                                     /\ Rejected(j)' <=> Rejected(j)
        /\ UNCHANGED <<handler, toEngine, ingress, incoming, queues>>
      BY <1>1, <1>6, OnAnswerShape DEF loopVars, engineVars
  <2>2. \A i \in Ids : pending_orders'[i] # Nil =>
            pending_orders'[i] = pending_orders[i] /\ (Rejected(i)' <=> Rejected(i))
      BY <2>1
  <2>3. Carries
      BY <2>1, <2>2, LiveSame DEF Carries, Accounted
  <2> QED BY <1>1, <2>3, KeptCarries
<1>7. CASE Respond
  <2> DEFINE x == Head(todo)
  <2>1. /\ UNCHANGED <<toGateway, handler, toEngine, ingress, incoming, queues>>
        /\ Applies(x) \/ Removes(x) \/ Releases(x)
      BY <1>1, <1>7, RespondShape DEF loopVars, engineVars
  <2> HIDE DEF x
  <2>2. \A i \in Ids : pending_orders'[i] # Nil =>
            pending_orders'[i] = pending_orders[i] /\ (Handling(i) => Handling(i)')
      BY <2>1 DEF Applies, Removes, Releases
  <2>3. \A i, e : (Live(i, e) => Live(i, e)') /\ (Filled(i) => Filled(i)') /\ (Rejected(i) => Rejected(i)')
      BY <2>1, LiveSame, AnswersSame
  <2>4. Carries
      BY <2>2, <2>3 DEF Carries, Accounted
  <2> QED BY <1>1, <2>4, KeptCarries
<1>8. CASE EngineReceives
  <2>1. UNCHANGED <<pending_orders, toGateway, todo>>
      BY <1>8 DEF EngineReceives
  <2>2. CASE Len(ingress) < IngressCap
    <3>1. \A i, e : Live(i, e) => Live(i, e)'
        BY <1>1, <1>8, <2>2, LiveEngineReceives
    <3>2. Carries
        BY <2>1, <3>1, AnswersSame DEF Carries, Accounted
    <3> QED BY <1>1, <3>2, KeptCarries
  <2> QED BY <1>3, <1>8, <2>2 DEF NeverFull
<1>9. CASE EngineOnly /\ EngineNewOrder
  <2>1. UNCHANGED <<pending_orders, toGateway, todo>>
      BY <1>9 DEF EngineNewOrder, EngineOnly
  <2>2. \A i, e : Live(i, e) => Live(i, e)'
      BY <1>1, <1>9, LiveEngineNewOrder
  <2>3. Carries
      BY <2>1, <2>2, AnswersSame DEF Carries, Accounted
  <2> QED BY <1>1, <2>3, KeptCarries
<1>10. CASE EngineOnly /\ EngineRejects
  <2> DEFINE r == Head(ingress).order.order_id
  <2>1. UNCHANGED <<pending_orders, todo>>
      BY <1>10 DEF EngineOnly
  <2>2. \A i \in Ids : (Filled(i)' <=> Filled(i)) /\ (Rejected(i)' <=> Rejected(i) \/ i = r)
      BY <1>1, <1>10, RejectsShape
  <2>3. \A i \in Ids : \A e : Live(i, e)' <=> Live(i, e) /\ i # r
      BY <1>1, <1>10, LiveEngineRejects
  <2> HIDE DEF r
  <2>4. Carries
      BY <2>1, <2>2, <2>3, AnswersSame DEF Carries, Accounted
  <2> QED BY <1>1, <2>4, KeptCarries
<1>11. CASE EngineOnly /\ EngineTrades
  <2>1. UNCHANGED <<pending_orders, todo>>
      BY <1>11 DEF EngineOnly
  <2>2. PICK s \in Sides, p \in Prices, m \in BookOrder :
            m \in Range(queues[s][p]) /\ UnitTrade(s, p, m)
      BY <1>1, <1>11, TradeIsUnit
  <2> DEFINE two == {m.order_id, incoming.order_id}
  <2>3. \A i \in Ids : (Filled(i)' <=> Filled(i) \/ i \in two) /\ (Rejected(i)' <=> Rejected(i))
      BY <1>1, <2>2, TradeFills
  <2>4. \A i \in Ids : \A e : Live(i, e)' <=> Live(i, e) /\ i \notin two
      BY <1>1, <1>11, <2>2, LiveEngineTrades
  <2> HIDE DEF two
  <2>5. Carries
      BY <2>1, <2>3, <2>4, AnswersSame DEF Carries, Accounted
  <2> QED BY <1>1, <2>5, KeptCarries
<1>12. CASE EngineOnly /\ EngineSettles
  <2>1. UNCHANGED <<pending_orders, todo>>
      BY <1>12 DEF EngineOnly
  <2> DEFINE x == Ack(incoming.order_id)
  <2>2. incoming # Nil /\ toGateway' = Append(toGateway, x)
      BY <1>1, <1>12, SettleIsUnit
  <2>3. x \in Answer /\ x.type = "Ack"
      BY <1>1, <2>2, IncomingFields DEF Ack, Answer
  <2> HIDE DEF x
  <2>4. Range(toGateway') = Range(toGateway) \cup {x}
      BY <1>1, <2>2, <2>3, AnswerAppend
  <2>5. \A i : (Filled(i) => Filled(i)') /\ (Rejected(i) => Rejected(i)')
      BY <2>4 DEF Filled, Rejected
  <2>6. \A i, e : Live(i, e) => Live(i, e)'
      BY <1>1, <1>12, <2>2, LiveEngineSettles DEF KeptInv
  <2>7. Carries
      BY <2>1, <2>5, <2>6, AnswersSame DEF Carries, Accounted
  <2> QED BY <1>1, <2>7, KeptCarries
<1> QED BY <1>1, <1>2, <1>3, <1>4, <1>5, <1>6, <1>7, <1>8, <1>9, <1>10, <1>11, <1>12, LotSteps

\* The order being matched rests.
LEMMA RestingStep ==
    ASSUME KeptInv, [Next]_vars
    PROVE  incoming' # Nil => incoming'.gtc
<1>1. LotInv /\ TypeInv /\ UnitQtys /\ OneLot /\ (incoming # Nil => incoming.gtc)
    BY DEF KeptInv, LotInv, TrackInv
<1>2. CASE EngineOnly /\ EngineTrades
  <2>1. PICK s \in Sides, p \in Prices, m \in BookOrder :
            m \in Range(queues[s][p]) /\ UnitTrade(s, p, m)
      BY <1>1, <1>2, TradeIsUnit
  <2>2. incoming # Nil /\ incoming' = [incoming EXCEPT !.qty = 0]
      BY <2>1 DEF UnitTrade
  <2>3. incoming \in IncomingType
      BY <1>1, <2>2, IncomingFields
  <2> QED BY <1>1, <2>2, <2>3 DEF IncomingType
<1>3. CASE EngineOnly /\ EngineNewOrder
  <2>1. /\ Takes("NewOrder") /\ ingress' = Tail(ingress) /\ incoming' = Head(ingress).order
      BY <1>3 DEF EngineNewOrder, Engine!Arrive
  <2>2. Head(ingress) \in OrderCmd
      BY <1>1, <2>1, TakesShape
  <2>3. Head(ingress).order \in NewOrders
      BY <1>1, <2>2, OrderCmdFields
  <2> QED BY <2>1, <2>3 DEF KeptInv, AllRest
<1>4. CASE EngineOnly /\ EngineSettles
    BY <1>1, <1>4, SettleIsUnit
<1>5. CASE UNCHANGED incoming
    BY <1>1, <1>5
<1>6. ASSUME NEW c \in Conns,
             Authenticate(c) \/ Disconnect(c) \/ Route(c) \/ TrackOrder(c)
             \/ \E no \in NewOrders : ReadNewOrder(c, no)
      PROVE  UNCHANGED incoming
    BY <1>6 DEF Authenticate, Disconnect, Route, TrackOrder, ReadNewOrder, engineVars
<1>7. OnFill \/ OnAck \/ OnReject \/ Respond \/ EngineReceives \/ EngineRejects \/ UNCHANGED vars
      => UNCHANGED incoming
    BY DEF OnFill, OnAck, OnReject, Respond, EngineReceives, EngineRejects, vars, engineVars
<1> QED BY <1>1, <1>2, <1>3, <1>4, <1>5, <1>6, <1>7, LotSteps

\* When nothing is in flight, the orders of the map are those in the book.
LEMMA ReturnFromParts ==
    ASSUME KeptInv, ReservationsTracked
    PROVE  ReservationsReturn
<1> SUFFICES ASSUME Drained, NEW a \in Accounts PROVE tentative_reserved[a] = OpenNotional(a)
    BY DEF ReservationsReturn
<1>1. LotInv /\ Kept /\ TypeInv
    BY DEF KeptInv, LotInv, TrackInv
<1>2. /\ todo = <<>> /\ toEngine = <<>> /\ ingress = <<>> /\ toGateway = <<>> /\ incoming = Nil
      /\ \A c \in Conns : handler[c].at = "idle"
    BY DEF Drained, Idle
<1>3. Range(<<>>) = {}
    BY DEF Range
<1>4. \A i, e : Accounted(i, e) => BookedAs(i, e)
    BY <1>2, <1>3 DEF Accounted, Live, RoutingAs, SentAs, MatchingAs, Filled, Rejected, Handling
<1>5. ASSUME NEW i \in Ids PROVE OrderWeight(i, a) = BookWeight(i, a)
  <2>1. CASE pending_orders[i] = Nil
      BY <2>1 DEF BookWeight, OrderWeight
  <2>2. CASE pending_orders[i] # Nil
    <3>1. BookedAs(i, pending_orders[i])
        BY <1>1, <1>4, <2>2 DEF Kept, Accounted
    <3>2. PICK s \in Sides, p \in Prices : \E o \in Range(queues[s][p]) :
              o.order_id = i /\ pending_orders[i] = Entry(o.account_id, s, p)
        BY <3>1 DEF BookedAs
    <3>3. PICK o \in Range(queues[s][p]) :
              o.order_id = i /\ pending_orders[i] = Entry(o.account_id, s, p)
        BY <3>2
    <3>4. CASE s = "Buy"
      <4>1. queues[s][p] \in Seq(BookOrder)
          BY <1>1, QueueFields
      <4>2. PICK k \in 1 .. Len(queues[s][p]) : o = queues[s][p][k]
          BY <4>1, RangeType
      <4>3. <<p, k>> \in BuySlots
          BY <3>4, <4>2 DEF BuySlots
      <4>4. SlotId[<<p, k>>] = i
          BY <3>3, <3>4, <4>2, <4>3 DEF SlotId, SlotOrder
      <4> QED BY <4>3, <4>4 DEF BookWeight, InBook
    <3>5. CASE s # "Buy"
      <4>1. AmountOf(pending_orders[i].token, a) = 0
          BY <3>3, <3>5 DEF Entry, AmountOf
      <4>2. OrderWeight(i, a) = 0
          BY <4>1 DEF OrderWeight
      <4> QED BY <4>2 DEF BookWeight
    <3> QED BY <3>4, <3>5
  <2> QED BY <2>1, <2>2
<1>6. PendingAmount(a) = OpenNotional(a) /\ PendingAmount(a) \in Nat
  <2>1. [i \in Ids |-> OrderWeight(i, a)] = [i \in Ids |-> BookWeight(i, a)]
      BY <1>5
  <2>2. OpenNotional(a) = SumFunction([i \in Ids |-> BookWeight(i, a)])
      BY <1>1, BookSum
  <2>3. /\ PendingAmount(a) \in Nat
        /\ PendingAmount(a) = SumFunction([i \in Ids |-> OrderWeight(i, a)])
      BY <1>1, Weights DEF WeightFacts
  <2> QED BY <2>1, <2>2, <2>3
<1>7. HeldAmount(a) = 0
  <2> DEFINE w == [c \in Conns |-> LoopWeight(c, a)]
  <2>1. \A c \in Conns : LoopWeight(c, a) = 0
      BY <1>2 DEF LoopWeight
  <2>2. w \in [Conns -> Int] /\ (\A c \in Conns : w[c] = 0) /\ IsFiniteSet(Conns)
      BY <2>1, GatewayAssumption
  <2>3. HeldAmount(a) = SumFunction(w)
      BY <1>1, Weights DEF WeightFacts
  <2> HIDE DEF w
  <2> QED BY <2>2, <2>3, SumZero
<1>8. ReleasingAmount(a) = 0
    BY <1>2 DEF ReleasingAmount
<1> QED BY <1>6, <1>7, <1>8 DEF ReservationsTracked

\* When clients send orders of one lot that rest, each under an id of its own, and the engine's
\* queue is never full, every reservation is returned: whenever nothing is in flight, an account has locked exactly what
\* its orders in the book can cost, whatever was filled or refused before and in whatever order
\* the read loops, the response task and the engine took their steps.
THEOREM GatewayReservationsReturn ==
    AllRest /\ Spec /\ [][NeverFull]_vars => []ReservationsReturn
<1> DEFINE I == KeptInv /\ ReservationsTracked
<1>1. AllRest /\ Init => I
  <2> SUFFICES ASSUME AllRest, Init PROVE I
      OBVIOUS
  <2>1. LotInv /\ ReservationsTracked
      BY LotInvInit, TrackedInit DEF AllRest
  <2>2. incoming = Nil /\ \A i \in Ids : pending_orders[i] = Nil
      BY DEF Init, Engine!AbstractInit
  <2> QED BY <2>1, <2>2 DEF KeptInv, Kept
<1>2. I /\ [Next]_vars /\ [NeverFull]_vars => I'
  <2> SUFFICES ASSUME I, [Next]_vars, [NeverFull]_vars PROVE I'
      OBVIOUS
  <2>1. LotInv'
      BY LotInvStep DEF KeptInv
  <2>2. ReservationsTracked'
      BY TrackedStep DEF KeptInv, LotInv
  <2>3. AllRest'
      BY <2>1 DEF KeptInv, AllRest, LotInv
  <2> QED BY <2>1, <2>2, <2>3, KeptStep, RestingStep DEF KeptInv
<1>3. I => ReservationsReturn
    BY ReturnFromParts
<1> QED BY <1>1, <1>2, <1>3, PTL DEF Spec

\* The commands the gateway has read and the engine has not taken: one per read loop that is
\* not idle, and those in the two queues.
Busy == {c \in Conns : handler[c].at # "idle"}
Room == Cardinality(Busy) + Len(toEngine) + Len(ingress) <= issued

\* The three numbers are numbers.
LEMMA RoomTypes ==
    ASSUME TypeInv
    PROVE  /\ IsFiniteSet(Busy) /\ Cardinality(Busy) \in Nat
           /\ Len(toEngine) \in Nat /\ Len(ingress) \in Nat /\ issued \in Nat /\ issued <= MaxCommands
<1>1. IsFiniteSet(Conns) /\ Busy \subseteq Conns
    BY GatewayAssumption DEF Busy
<1>2. IsFiniteSet(Busy)
    BY <1>1, FS_Subset
<1>3. Cardinality(Busy) \in Nat
    BY <1>2, FS_CardinalityType
<1>4. toEngine \in Seq(Cmd) /\ ingress \in Seq(Cmd)
    BY DEF TypeInv, QueueTypes
<1>5. issued \in 0 .. MaxCommands /\ MaxCommands \in Nat
    BY ConstantTypes DEF TypeInv, TypeOK
<1> QED BY <1>2, <1>3, <1>4, <1>5

\* Every step of the setting keeps the count.
LEMMA RoomStep ==
    ASSUME LotInv, Room, [Next]_vars
    PROVE  Room'
<1>1. TypeInv /\ OneLot /\ Places /\ Linked /\ UnitQtys
    BY DEF LotInv, TrackInv
<1>2. TypeInv'
    BY LotInvStep DEF LotInv, TrackInv
<1>3. /\ IsFiniteSet(Busy) /\ Cardinality(Busy) \in Nat
      /\ Len(toEngine) \in Nat /\ Len(ingress) \in Nat /\ issued \in Nat
    BY <1>1, RoomTypes
<1>4. ASSUME UNCHANGED <<handler, issued>>,
             Len(toEngine') + Len(ingress') <= Len(toEngine) + Len(ingress),
             Len(toEngine') \in Nat, Len(ingress') \in Nat
      PROVE  Room'
  <2>1. Busy' = Busy
      BY <1>4 DEF Busy
  <2> QED BY <1>3, <1>4, <2>1 DEF Room
<1>5. ASSUME NEW c \in Conns, Authenticate(c) \/ Disconnect(c) PROVE Room'
  <2>1. UNCHANGED <<handler, issued, toEngine, ingress>>
      BY <1>5 DEF Authenticate, Disconnect, engineVars
  <2> QED BY <1>3, <1>4, <2>1
<1>6. ASSUME NEW c \in Conns, NEW no \in NewOrders, ReadNewOrder(c, no) PROVE Room'
  <2>1. /\ handler[c].at = "idle" /\ \A d \in Conns \ {c} : handler'[d] = handler[d]
        /\ UNCHANGED <<toEngine, ingress>>
      BY <1>1, <1>6, ReadNewOrderShape DEF engineVars
  <2>2. issued' = issued + 1
      BY <1>6 DEF ReadNewOrder, Reads
  <2>3. Busy' \subseteq Busy \cup {c} /\ c \notin Busy
      BY <2>1 DEF Busy
  <2>4. /\ IsFiniteSet(Busy \cup {c})
        /\ Cardinality(Busy \cup {c}) = Cardinality(Busy) + 1
      BY <1>3, <2>3, FS_AddElement
  <2>5. Cardinality(Busy') <= Cardinality(Busy) + 1 /\ Cardinality(Busy') \in Nat
      BY <2>3, <2>4, FS_Subset, FS_CardinalityType
  <2> QED BY <1>3, <2>1, <2>2, <2>5 DEF Room
<1>7. ASSUME NEW c \in Conns, TrackOrder(c) PROVE Room'
  <2>1. /\ handler[c].at = "track"
        /\ handler'[c] = [at |-> "route", cmd |-> handler[c].cmd, token |-> handler[c].token]
        /\ \A d \in Conns \ {c} : handler'[d] = handler[d]
        /\ UNCHANGED <<toEngine, ingress>>
      BY <1>1, <1>7, TrackOrderShape DEF engineVars
  <2>2. UNCHANGED issued
      BY <1>7 DEF TrackOrder
  <2>3. handler'[c].at = "route"
      BY <2>1
  <2>4. Busy' = Busy
      BY <2>1, <2>3 DEF Busy
  <2> QED BY <2>1, <2>2, <2>4 DEF Room
<1>8. ASSUME NEW c \in Conns, Route(c) PROVE Room'
  <2>1. /\ handler[c].at = "route" /\ handler'[c].at = "idle" /\ handler[c].cmd \in Cmd
        /\ \A d \in Conns \ {c} : handler'[d] = handler[d]
        /\ toEngine' = Append(toEngine, handler[c].cmd)
        /\ UNCHANGED <<issued, ingress>>
      BY <1>8, RouteShape DEF engineVars
  <2>2. Busy' = Busy \ {c} /\ c \in Busy
      BY <2>1 DEF Busy
  <2>3. Cardinality(Busy \ {c}) = Cardinality(Busy) - 1
      BY <1>3, <2>2, FS_RemoveElement
  <2>4. Len(toEngine') = Len(toEngine) + 1
    <3>1. toEngine \in Seq(Cmd)
        BY <1>1 DEF TypeInv, QueueTypes
    <3> QED BY <2>1, <3>1, AppendProperties
  <2> QED BY <1>3, <2>1, <2>2, <2>3, <2>4 DEF Room
<1>9. CASE OnFill \/ OnAck \/ OnReject \/ Respond \/ UNCHANGED vars
           \/ (EngineOnly /\ EngineTrades) \/ (EngineOnly /\ EngineSettles)
  <2>1. UNCHANGED <<handler, issued, toEngine, ingress>>
      BY <1>9 DEF OnFill, OnAck, OnReject, Respond, vars, EngineOnly, EngineTrades, EngineSettles,
                  loopVars, engineVars
  <2> QED BY <1>3, <1>4, <2>1
<1>10. CASE EngineReceives
  <2>1. /\ Len(toEngine') = Len(toEngine) - 1 /\ UNCHANGED <<handler, issued>>
      BY <1>10, ReceivesShape DEF loopVars
  <2>2. Len(ingress') <= Len(ingress) + 1 /\ Len(ingress') \in Nat
    <3>1. toEngine \in Seq(Cmd) /\ ingress \in Seq(Cmd) /\ toEngine # <<>>
        BY <1>1, <1>10 DEF TypeInv, QueueTypes, EngineReceives
    <3>2. Head(toEngine) \in Cmd
        BY <3>1, RangeTail
    <3>3. Len(Append(ingress, Head(toEngine))) = Len(ingress) + 1
        BY <3>1, <3>2, AppendProperties
    <3>4. ingress' = Append(ingress, Head(toEngine)) \/ ingress' = ingress
        BY <1>10 DEF EngineReceives
    <3> QED BY <1>3, <3>3, <3>4
  <2>3. Len(toEngine') \in Nat
      BY <1>2, RoomTypes DEF TypeInv, QueueTypes
  <2> QED BY <1>3, <1>4, <2>1, <2>2, <2>3
<1>11. CASE EngineOnly /\ (EngineNewOrder \/ EngineRejects)
  <2>1. /\ Takes("NewOrder") /\ ingress' = Tail(ingress)
        /\ UNCHANGED <<handler, issued, toEngine>>
      BY <1>11 DEF EngineOnly, EngineNewOrder, EngineRejects, loopVars
  <2>2. Len(ingress') = Len(ingress) - 1
      BY <2>1, TakesShape
  <2>3. Len(ingress') \in Nat
      BY <1>2 DEF TypeInv, QueueTypes
  <2> QED BY <1>3, <1>4, <2>1, <2>2, <2>3
<1> QED BY <1>5, <1>6, <1>7, <1>8, <1>9, <1>10, <1>11, LotSteps

\* With no more commands than places in the engine's queue, the queue is never full.
LEMMA RoomNeverFull ==
    ASSUME LotInv, Room, MaxCommands <= IngressCap
    PROVE  NeverFull
<1> SUFFICES ASSUME EngineReceives PROVE Len(ingress) < IngressCap
    BY DEF NeverFull
<1>1. TypeInv
    BY DEF LotInv, TrackInv
<1>2. /\ Cardinality(Busy) \in Nat /\ Len(toEngine) \in Nat /\ Len(ingress) \in Nat
      /\ issued \in Nat /\ issued <= MaxCommands
    BY <1>1, RoomTypes
<1>3. toEngine \in Seq(Cmd) /\ toEngine # <<>>
    BY <1>1 DEF EngineReceives, TypeInv, QueueTypes
<1>4. Len(toEngine) # 0
    BY <1>3
<1>5. MaxCommands \in Nat /\ IngressCap \in Nat
    BY ConstantTypes
<1> QED BY <1>2, <1>4, <1>5 DEF Room

\* When clients send no more orders of one lot (each under an id of its own) than the engine's
\* ingress channel has places,
\* the engine server drops none of them, whatever the engine does meanwhile: every order is in
\* one read loop or one queue at a time.
THEOREM GatewayNeverFull == OneLot /\ MaxCommands <= IngressCap /\ Spec => [][NeverFull]_vars
<1> DEFINE I == LotInv /\ Room /\ MaxCommands <= IngressCap
<1>1. OneLot /\ MaxCommands <= IngressCap /\ Init => I
  <2> SUFFICES ASSUME OneLot, Init PROVE LotInv /\ Room
      OBVIOUS
  <2>1. LotInv
      BY LotInvInit
  <2>2. toEngine = <<>> /\ ingress = <<>> /\ issued = 0 /\ \A c \in Conns : handler[c].at = "idle"
      BY DEF Init, Idle
  <2>3. Busy = {} /\ Len(<<>>) = 0
      BY <2>2 DEF Busy
  <2>4. Cardinality({}) = 0
      BY FS_EmptySet
  <2> QED BY <2>1, <2>2, <2>3, <2>4 DEF Room
<1>2. I /\ [Next]_vars => I'
  <2> SUFFICES ASSUME I, [Next]_vars PROVE I'
      OBVIOUS
  <2> QED BY LotInvStep, RoomStep
<1>3. I => NeverFull
    BY RoomNeverFull
<1> QED BY <1>1, <1>2, <1>3, PTL DEF Spec

\* Hence every reservation of orders of one lot that rest, each under an id of its own, is
\* returned, when the clients send no
\* more of them than the engine's ingress channel has places.
THEOREM GatewayReturnsAll ==
    AllRest /\ MaxCommands <= IngressCap /\ Spec => []ReservationsReturn
<1>1. AllRest => OneLot
    BY DEF AllRest
<1> QED BY <1>1, GatewayNeverFull, GatewayReservationsReturn, PTL
=============================================================================
