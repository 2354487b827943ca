----------------------- MODULE EngineRefinementProofs -----------------------
(***************************************************************************)
(* MatchingEngine implements PriceTimeBook, for every set of ids, accounts *)
(* and prices and every bound: each step of the engine is a step of the    *)
(* plain queues or leaves them alone.  Then the engine with restarts from  *)
(* a snapshot: it keeps every other invariant of the book.                 *)
(***************************************************************************)
EXTENDS EngineRestart, MatchingEngineProofs

-----------------------------------------------------------------------------
(* Listing a set of numbers in order *)

\* Two ascending lists of the same numbers agree where both are defined.
LEMMA ListsAgree ==
    ASSUME NEW P \in SUBSET Int, NEW m \in Nat, NEW n \in Nat,
           NEW f \in [1 .. m -> P], NEW g \in [1 .. n -> P], Ascending(f, P), Ascending(g, P)
    PROVE  \A i \in 1 .. m : i \in 1 .. n => f[i] = g[i]
<1> DEFINE T == {i \in 1 .. m : i \in 1 .. n /\ f[i] # g[i]}
<1>1. SUFFICES ASSUME T # {} PROVE FALSE
    OBVIOUS
<1>2. PICK i \in T : \A j \in T : i <= j
  <2>1. T \in SUBSET Nat
      OBVIOUS
  <2> QED BY <1>1, <2>1, LeastNat
<1>3. /\ i \in 1 .. m /\ i \in 1 .. n /\ f[i] # g[i] /\ f[i] \in P /\ g[i] \in P
      /\ f[i] \in Int /\ g[i] \in Int
    BY <1>2
<1>4. /\ \A j, k \in 1 .. m : j < k => f[j] < f[k]
      /\ \A j, k \in 1 .. n : j < k => g[j] < g[k]
      /\ \A x \in P : \E j \in 1 .. m : f[j] = x
      /\ \A x \in P : \E j \in 1 .. n : g[j] = x
    BY DEF Ascending
<1>5. \A j \in 1 .. m : j < i => j \in 1 .. n /\ f[j] = g[j]
    BY <1>2, <1>3
<1>6. \A j \in 1 .. n : j < i => j \in 1 .. m /\ f[j] = g[j]
    BY <1>2, <1>3
<1>7. g[i] < f[i]
  <2>1. PICK j \in 1 .. n : g[j] = f[i]
      BY <1>3, <1>4
  <2>2. ~(j < i)
    <3>1. ASSUME j < i PROVE FALSE
      <4>1. j \in 1 .. m /\ f[j] = f[i]
          BY <1>6, <2>1, <3>1
      <4>2. f[j] < f[i]
          BY <1>3, <1>4, <3>1, <4>1
      <4> QED BY <1>3, <4>1, <4>2
    <3> QED BY <3>1
  <2>3. j # i
      BY <1>3, <2>1
  <2>4. i < j
      BY <1>3, <2>2, <2>3
  <2> QED BY <1>3, <1>4, <2>1, <2>4
<1>8. f[i] < g[i]
  <2>1. PICK j \in 1 .. m : f[j] = g[i]
      BY <1>3, <1>4
  <2>2. ~(j < i)
    <3>1. ASSUME j < i PROVE FALSE
      <4>1. j \in 1 .. n /\ g[j] = g[i]
          BY <1>5, <2>1, <3>1
      <4>2. g[j] < g[i]
          BY <1>3, <1>4, <3>1, <4>1
      <4> QED BY <1>3, <4>1, <4>2
    <3> QED BY <3>1
  <2>3. j # i
      BY <1>3, <2>1
  <2>4. i < j
      BY <1>3, <2>2, <2>3
  <2> QED BY <1>3, <1>4, <2>1, <2>4
<1> QED BY <1>3, <1>7, <1>8

\* An ascending list is not shorter than another of the same numbers.
LEMMA ListNotShorter ==
    ASSUME NEW P \in SUBSET Int, NEW m \in Nat, NEW n \in Nat,
           NEW f \in [1 .. m -> P], NEW g \in [1 .. n -> P], Ascending(f, P), Ascending(g, P)
    PROVE  ~(m < n)
<1> SUFFICES ASSUME m < n PROVE FALSE
    OBVIOUS
<1>1. m + 1 \in 1 .. n /\ \A k \in 1 .. m : k \in 1 .. n /\ k < m + 1
    OBVIOUS
<1>2. g[m + 1] \in P /\ g[m + 1] \in Int
    BY <1>1
<1>3. PICK k \in 1 .. m : f[k] = g[m + 1]
    BY <1>2 DEF Ascending
<1>4. f[k] = g[k]
    BY <1>1, ListsAgree
<1>5. g[k] < g[m + 1]
    BY <1>1 DEF Ascending
<1> QED BY <1>2, <1>3, <1>4, <1>5

\* A set of numbers has one ascending list.
LEMMA ListUnique ==
    ASSUME NEW P \in SUBSET Int, NEW m \in Nat, NEW n \in Nat,
           NEW f \in [1 .. m -> P], NEW g \in [1 .. n -> P], Ascending(f, P), Ascending(g, P)
    PROVE  f = g
<1>1. ~(m < n) /\ ~(n < m)
    BY ListNotShorter
<1>2. m = n
    BY <1>1
<1>3. \A i \in 1 .. m : f[i] = g[i]
    BY <1>2, ListsAgree
<1> QED BY <1>2, <1>3

\* Every set of keys or positions has one.
LEMMA ListExists ==
    ASSUME NEW n \in Nat, NEW P \in SUBSET (0 .. (n - 1))
    PROVE  \E f \in [1 .. Cardinality(P) -> P] : Ascending(f, P)
<1> DEFINE N == {k \in Nat : \A Q \in SUBSET (0 .. (k - 1)) :
                                \E f \in [1 .. Cardinality(Q) -> Q] : Ascending(f, Q)}
<1>1. 0 \in N
  <2> SUFFICES ASSUME NEW Q \in SUBSET (0 .. (0 - 1))
               PROVE  \E f \in [1 .. Cardinality(Q) -> Q] : Ascending(f, Q)
      OBVIOUS
  <2>0. 0 .. (0 - 1) = {} /\ 1 .. 0 = {}
      OBVIOUS
  <2>1. Q = {} /\ Cardinality(Q) = 0 /\ 1 .. 0 = {}
      BY <2>0, FS_EmptySet
  <2>2. <<>> \in [1 .. Cardinality(Q) -> Q] /\ Ascending(<<>>, Q)
      BY <2>1 DEF Ascending
  <2> QED BY <2>2
<1>2. ASSUME NEW k \in N PROVE k + 1 \in N
  <2> SUFFICES ASSUME NEW Q \in SUBSET (0 .. ((k + 1) - 1))
               PROVE  \E f \in [1 .. Cardinality(Q) -> Q] : Ascending(f, Q)
    <3>1. k + 1 \in Nat
        OBVIOUS
    <3> QED BY <3>1
  <2>1. CASE k \notin Q
    <3>1. Q \in SUBSET (0 .. (k - 1))
        BY <2>1
    <3> QED BY <3>1
  <2>2. CASE k \in Q
    <3>1. PICK R : R = Q \ {k}
        OBVIOUS
    <3>2. R \in SUBSET (0 .. (k - 1)) /\ k \notin R /\ Q = R \cup {k} /\ k \in Nat
        BY <2>2, <3>1
    <3>3. IsFiniteSet(R)
      <4>1. IsFiniteSet(0 .. (k - 1))
        <5>1. 0 \in Int /\ k - 1 \in Int
            BY <3>2
        <5> QED BY <5>1, FS_Interval
      <4> QED BY <3>2, <4>1, FS_Subset
    <3>4. PICK c \in Nat : c = Cardinality(R)
        BY <3>3, FS_CardinalityType
    <3>5. Cardinality(Q) = c + 1
        BY <3>2, <3>3, <3>4, FS_AddElement
    <3>6. PICK f \in [1 .. c -> R] : Ascending(f, R)
        BY <3>2, <3>4
    <3> DEFINE g == [i \in 1 .. (c + 1) |-> IF i = c + 1 THEN k ELSE f[i]]
    <3>7. \A i \in 1 .. (c + 1) : i = c + 1 \/ (i \in 1 .. c /\ i < c + 1)
        OBVIOUS
    <3>8. \A i \in 1 .. c : f[i] \in R /\ f[i] \in Int /\ f[i] < k
      <4>1. \A x \in R : x \in Int /\ x < k
          BY <3>2
      <4> HIDE DEF N
      <4> QED BY <4>1
    <3>9. g \in [1 .. (c + 1) -> Q]
        BY <3>2, <3>7, <3>8
    <3>10. \A i, j \in 1 .. (c + 1) : i < j => g[i] < g[j]
      <4> SUFFICES ASSUME NEW i \in 1 .. (c + 1), NEW j \in 1 .. (c + 1), i < j
                   PROVE  g[i] < g[j]
          OBVIOUS
      <4>1. i \in 1 .. c /\ g[i] = f[i]
          BY <3>7
      <4>2. CASE j = c + 1
          BY <3>8, <4>1, <4>2
      <4>3. CASE j \in 1 .. c /\ j < c + 1
        <5>1. f[i] < f[j] /\ g[j] = f[j]
            BY <3>6, <4>1, <4>3 DEF Ascending
        <5> QED BY <4>1, <5>1
      <4> QED BY <3>7, <4>2, <4>3
    <3>11. \A x \in Q : \E i \in 1 .. (c + 1) : g[i] = x
      <4> TAKE x \in Q
      <4>1. CASE x = k
        <5>1. c + 1 \in 1 .. (c + 1) /\ g[c + 1] = k
            OBVIOUS
        <5> QED BY <4>1, <5>1
      <4>2. CASE x \in R
        <5>1. PICK i \in 1 .. c : f[i] = x
            BY <3>6, <4>2 DEF Ascending
        <5>2. i \in 1 .. (c + 1) /\ i # c + 1
            OBVIOUS
        <5> QED BY <5>1, <5>2
      <4> QED BY <3>2, <4>1, <4>2
    <3> HIDE DEF g
    <3>12. Ascending(g, Q)
        BY <3>9, <3>10, <3>11 DEF Ascending
    <3> QED BY <3>5, <3>9, <3>12
  <2> QED BY <2>1, <2>2
<1> HIDE DEF N
<1>3. N = Nat
  <2>1. N \in SUBSET Nat
      BY DEF N
  <2> QED BY <1>1, <1>2, <2>1, NatSetInduction
<1>4. n \in N
    BY <1>3
<1> QED BY <1>4 DEF N

\* InOrder is that list.
LEMMA InOrderKeys ==
    ASSUME NEW n \in Nat, NEW P \in SUBSET (0 .. (n - 1))
    PROVE  /\ Cardinality(P) \in Nat
           /\ InOrder(P) \in [1 .. Cardinality(P) -> P] /\ Ascending(InOrder(P), P)
<1>1. \E f \in [1 .. Cardinality(P) -> P] : Ascending(f, P)
    BY ListExists
<1>2. IsFiniteSet(0 .. (n - 1))
  <2>1. 0 \in Int /\ n - 1 \in Int
      OBVIOUS
  <2> QED BY <2>1, FS_Interval
<1>3. Cardinality(P) \in Nat
    BY <1>2, FS_Subset, FS_CardinalityType
<1> QED BY <1>1, <1>3 DEF InOrder

\* The same for positions, which start at one.
LEMMA InOrderType ==
    ASSUME NEW n \in Nat, NEW P \in SUBSET (1 .. n)
    PROVE  /\ Cardinality(P) \in Nat
           /\ InOrder(P) \in [1 .. Cardinality(P) -> P] /\ Ascending(InOrder(P), P)
<1>1. n + 1 \in Nat /\ P \in SUBSET (0 .. ((n + 1) - 1))
    OBVIOUS
<1> QED BY <1>1, InOrderKeys

\* Any ascending list of the set is InOrder.
LEMMA InOrderIs ==
    ASSUME NEW n \in Nat, NEW P \in SUBSET (1 .. n), NEW m \in Nat, NEW g \in [1 .. m -> P],
           Ascending(g, P)
    PROVE  InOrder(P) = g
<1>0. PICK c \in Nat : InOrder(P) \in [1 .. c -> P] /\ Ascending(InOrder(P), P)
    BY InOrderType
<1>1. PICK f \in [1 .. c -> P] : f = InOrder(P) /\ Ascending(f, P)
    BY <1>0
<1>2. P \in SUBSET Int
    OBVIOUS
<1>3. f = g
    BY <1>1, <1>2, ListUnique
<1> QED BY <1>1, <1>3

-----------------------------------------------------------------------------
(* The values at the positions of a set, in the order of the positions *)

IsPositions(P) == \E n \in Nat : P \in SUBSET (1 .. n)

IsList(g, m, P) == m \in Nat /\ g \in [1 .. m -> P] /\ Ascending(g, P)

Listed(P, F) == [i \in DOMAIN InOrder(P) |-> F[InOrder(P)[i]]]

IsListing(g, m, P, F, S) ==
    /\ IsList(g, m, P) /\ Listed(P, F) = [i \in 1 .. m |-> F[g[i]]]
    /\ Listed(P, F) \in Seq(S) /\ Len(Listed(P, F)) = m

\* What a listing is, by any ascending list of the positions.
LEMMA ListedBy ==
    ASSUME NEW P, IsPositions(P), NEW F, NEW m, NEW g, IsList(g, m, P)
    PROVE  Listed(P, F) = [i \in 1 .. m |-> F[g[i]]]
<1>1. m \in Nat /\ g \in [1 .. m -> P] /\ Ascending(g, P)
    BY DEF IsList
<1>2. InOrder(P) = g
    BY <1>1, InOrderIs DEF IsPositions
<1>3. DOMAIN g = 1 .. m
    BY <1>1
<1> QED BY <1>2, <1>3 DEF Listed

\* Some ascending list of the positions.
LEMMA ListedType ==
    ASSUME NEW P, IsPositions(P), NEW S, NEW F \in [P -> S]
    PROVE  \E m, g : IsListing(g, m, P, F, S)
<1>1. PICK m \in Nat : InOrder(P) \in [1 .. m -> P] /\ Ascending(InOrder(P), P)
    BY InOrderType DEF IsPositions
<1>2. PICK g : g = InOrder(P)
    OBVIOUS
<1>3. IsList(g, m, P) /\ g \in [1 .. m -> P]
    BY <1>1, <1>2 DEF IsList
<1>4. Listed(P, F) = [i \in 1 .. m |-> F[g[i]]]
    BY <1>3, ListedBy
<1>5. \A i \in 1 .. m : F[g[i]] \in S
    BY <1>3
<1>6. [i \in 1 .. m |-> F[g[i]]] \in Seq(S) /\ Len([i \in 1 .. m |-> F[g[i]]]) = m
    BY <1>5
<1> QED BY <1>3, <1>4, <1>6 DEF IsListing

\* A list of positions is empty exactly when there are none.
LEMMA ListedEmpty ==
    ASSUME NEW P, IsPositions(P), NEW S, NEW F \in [P -> S]
    PROVE  Listed(P, F) = <<>> <=> P = {}
<1>0. PICK m, g : IsListing(g, m, P, F, S)
    BY ListedType
<1>1. IsList(g, m, P) /\ Listed(P, F) \in Seq(S) /\ Len(Listed(P, F)) = m
    BY <1>0 DEF IsListing
<1>2. m \in Nat /\ g \in [1 .. m -> P] /\ \A x \in P : \E i \in 1 .. m : g[i] = x
    BY <1>1 DEF IsList, Ascending
<1>3. m = 0 => P = {}
  <2>1. m = 0 => 1 .. m = {}
      OBVIOUS
  <2> QED BY <1>2, <2>1
<1>4. m # 0 => P # {}
  <2>1. m # 0 => 1 \in 1 .. m
      BY <1>2
  <2>2. 1 \in 1 .. m => g[1] \in P
      BY <1>2
  <2> QED BY <2>1, <2>2
<1>5. PICK l \in Seq(S) : l = Listed(P, F) /\ Len(l) = m
    BY <1>1
<1>6. l = <<>> <=> m = 0
    BY <1>5
<1> QED BY <1>3, <1>4, <1>5, <1>6

\* The same values give the same listing.
LEMMA ListedSame ==
    ASSUME NEW P, IsPositions(P), NEW F, NEW G, \A x \in P : F[x] = G[x]
    PROVE  Listed(P, F) = Listed(P, G)
<1>1. PICK m \in Nat : InOrder(P) \in [1 .. m -> P]
    BY InOrderType DEF IsPositions
<1> QED BY <1>1 DEF Listed

\* Q has one position more than P, behind all others.
AddsLast(n, P, S, F, x, Q, G) ==
    /\ n \in Nat /\ P \in SUBSET (1 .. n) /\ x = n + 1 /\ Q = P \cup {x}
    /\ F \in [P -> S] /\ G \in [Q -> S] /\ \A y \in P : G[y] = F[y]

\* A position behind all others comes last.
LEMMA ListedAppend ==
    ASSUME NEW n, NEW P, NEW S, NEW F, NEW x, NEW Q, NEW G, AddsLast(n, P, S, F, x, Q, G)
    PROVE  Listed(Q, G) = Append(Listed(P, F), G[x])
<1>0. IsPositions(P) /\ F \in [P -> S] /\ G \in [Q -> S] /\ x \in Nat
    BY DEF IsPositions, AddsLast
<1>1. PICK m, g : IsListing(g, m, P, F, S)
    BY <1>0, ListedType
<1>2. /\ m \in Nat /\ g \in [1 .. m -> P] /\ Ascending(g, P)
      /\ Listed(P, F) = [i \in 1 .. m |-> F[g[i]]]
    BY <1>1 DEF IsListing, IsList
<1> DEFINE h == [i \in 1 .. (m + 1) |-> IF i = m + 1 THEN x ELSE g[i]]
<1>3. \A i \in 1 .. (m + 1) : i = m + 1 \/ (i \in 1 .. m /\ i # m + 1)
    BY <1>2
<1>4. \A y \in P : y \in Int /\ y < x
    BY DEF AddsLast
<1>5. \A i \in 1 .. m : g[i] \in P /\ h[i] = g[i] /\ g[i] \in Int /\ g[i] < x
  <2>1. \A i \in 1 .. m : i \in 1 .. (m + 1) /\ i # m + 1
      BY <1>2
  <2>2. \A i \in 1 .. m : g[i] \in P
      BY <1>2
  <2> QED BY <1>4, <2>1, <2>2
<1>6. h[m + 1] = x /\ x \in Int
    BY <1>0, <1>2
<1>7. h \in [1 .. (m + 1) -> Q]
  <2>1. P \subseteq Q /\ x \in Q
      BY DEF AddsLast
  <2> QED BY <1>3, <1>5, <1>6, <2>1
<1> HIDE DEF h
<1>8. Ascending(h, Q)
  <2>1. ASSUME NEW i \in 1 .. (m + 1), NEW j \in 1 .. (m + 1), i < j
        PROVE  h[i] < h[j]
    <3>1. i \in 1 .. m
        BY <1>3, <2>1
    <3>2. CASE j = m + 1
        BY <1>5, <1>6, <3>1, <3>2
    <3>3. CASE j \in 1 .. m
      <4>1. g[i] < g[j]
          BY <1>2, <2>1, <3>1, <3>3 DEF Ascending
      <4> QED BY <1>5, <3>1, <3>3, <4>1
    <3> QED BY <1>3, <3>2, <3>3
  <2>2. ASSUME NEW y \in Q
        PROVE  \E i \in 1 .. (m + 1) : h[i] = y
    <3>1. CASE y = x
      <4>1. m + 1 \in 1 .. (m + 1)
          BY <1>2
      <4> QED BY <1>6, <3>1, <4>1
    <3>2. CASE y \in P
      <4>1. PICK i \in 1 .. m : g[i] = y
          BY <1>2, <3>2 DEF Ascending
      <4>2. i \in 1 .. (m + 1)
          BY <1>2
      <4> QED BY <1>5, <4>1, <4>2
    <3> QED BY <2>2, <3>1, <3>2 DEF AddsLast
  <2> QED BY <1>7, <2>1, <2>2 DEF Ascending
<1>9. Listed(Q, G) = [i \in 1 .. (m + 1) |-> G[h[i]]]
  <2>1. Q \in SUBSET (1 .. (n + 1)) /\ n + 1 \in Nat /\ m + 1 \in Nat
      BY <1>2 DEF AddsLast
  <2>2. PICK k : k = m + 1
      OBVIOUS
  <2>3. IsPositions(Q) /\ IsList(h, k, Q)
      BY <1>7, <1>8, <2>1, <2>2 DEF IsPositions, IsList
  <2>4. Listed(Q, G) = [i \in 1 .. k |-> G[h[i]]]
      BY <2>3, ListedBy
  <2> QED BY <2>2, <2>4
<1>10. PICK l \in Seq(S) : l = Listed(P, F) /\ Len(l) = m
    BY <1>1 DEF IsListing
<1>11. x \in Q /\ G[x] \in S
    BY DEF AddsLast
<1>12. Append(l, G[x]) \in Seq(S) /\ Len(Append(l, G[x])) = m + 1
    BY <1>10, <1>11
<1>13. \A i \in 1 .. (m + 1) : Append(l, G[x])[i] = G[h[i]]
  <2>1. \A i \in 1 .. m : Append(l, G[x])[i] = l[i]
      BY <1>10, <1>11
  <2>2. Append(l, G[x])[m + 1] = G[x]
      BY <1>10, <1>11
  <2>3. \A i \in 1 .. m : l[i] = F[g[i]]
      BY <1>2, <1>10
  <2>4. \A i \in 1 .. m : F[g[i]] = G[h[i]]
      BY <1>5 DEF AddsLast
  <2> QED BY <1>3, <1>6, <2>1, <2>2, <2>3, <2>4
<1>14. Append(l, G[x]) = [i \in 1 .. (m + 1) |-> G[h[i]]]
    BY <1>12, <1>13
<1> QED BY <1>9, <1>10, <1>14

\* Q lacks one position of P.
Removes(P, S, F, x, Q, G) ==
    /\ IsPositions(P) /\ x \in P /\ Q = P \ {x}
    /\ F \in [P -> S] /\ G \in [Q -> S] /\ \A y \in Q : G[y] = F[y]

LacksAt(Q, G, F, x, g, m, i) ==
    /\ i \in 1 .. m /\ g[i] = x
    /\ Listed(Q, G) = [j \in 1 .. (m - 1) |-> IF j < i THEN F[g[j]] ELSE F[g[j + 1]]]

\* Taking one position out closes the gap and moves nothing else.
LEMMA ListedRemove ==
    ASSUME NEW P, NEW S, NEW F, NEW x, NEW Q, NEW G, Removes(P, S, F, x, Q, G)
    PROVE  \E m, g, i : IsListing(g, m, P, F, S) /\ LacksAt(Q, G, F, x, g, m, i)
<1>0. IsPositions(P) /\ F \in [P -> S] /\ x \in P
    BY DEF Removes
<1>1. PICK m, g : IsListing(g, m, P, F, S)
    BY <1>0, ListedType
<1>2. m \in Nat /\ g \in [1 .. m -> P] /\ Ascending(g, P)
    BY <1>1 DEF IsListing, IsList
<1>3. PICK i \in 1 .. m : g[i] = x
    BY <1>0, <1>2 DEF Ascending
<1>4. \A j, k \in 1 .. m : j < k => g[j] < g[k]
    BY <1>2 DEF Ascending
<1>5. \A j \in 1 .. m : g[j] \in P /\ g[j] \in Int
  <2>1. \A y \in P : y \in Int
      BY <1>0 DEF IsPositions
  <2>2. \A j \in 1 .. m : g[j] \in P
      BY <1>2
  <2> QED BY <2>1, <2>2
<1>6. \A j \in 1 .. m : j # i => g[j] # x
  <2> SUFFICES ASSUME NEW j \in 1 .. m, j # i PROVE g[j] # g[i]
      BY <1>3
  <2>1. j < i \/ i < j
      BY <1>2
  <2>2. g[j] < g[i] \/ g[i] < g[j]
      BY <1>4, <2>1
  <2>3. g[j] \in Int /\ g[i] \in Int
      BY <1>5
  <2> QED BY <2>2, <2>3
<1> DEFINE to(j) == IF j < i THEN j ELSE j + 1
           h == [j \in 1 .. (m - 1) |-> g[to(j)]]
<1>7. \A j \in 1 .. (m - 1) : to(j) \in 1 .. m /\ to(j) # i
    BY <1>2
<1>8. \A j, k \in 1 .. (m - 1) : j < k => to(j) < to(k)
    BY <1>2
<1>9. \A j \in 1 .. m : j # i => \E k \in 1 .. (m - 1) : to(k) = j
  <2> TAKE j \in 1 .. m
  <2>1. CASE j < i
    <3>1. j \in 1 .. (m - 1) /\ to(j) = j
        BY <1>2, <2>1
    <3> QED BY <3>1
  <2>2. CASE i < j
    <3>1. j - 1 \in 1 .. (m - 1) /\ to(j - 1) = j
        BY <1>2, <2>2
    <3> QED BY <3>1
  <2>3. j = i \/ j < i \/ i < j
      BY <1>2
  <2> QED BY <2>1, <2>2, <2>3
<1> HIDE DEF to
<1>10. h \in [1 .. (m - 1) -> Q]
  <2>1. \A j \in 1 .. (m - 1) : g[to(j)] \in Q
      BY <1>5, <1>6, <1>7 DEF Removes
  <2> QED BY <2>1
<1>11. Ascending(h, Q)
  <2>1. \A j, k \in 1 .. (m - 1) : j < k => h[j] < h[k]
      BY <1>4, <1>7, <1>8
  <2>2. \A y \in Q : \E k \in 1 .. (m - 1) : h[k] = y
    <3> TAKE y \in Q
    <3>1. y \in P /\ y # x
        BY DEF Removes
    <3>2. PICK j \in 1 .. m : g[j] = y
        BY <1>2, <3>1 DEF Ascending
    <3>3. PICK k \in 1 .. (m - 1) : to(k) = j
        BY <1>3, <1>9, <3>1, <3>2
    <3> QED BY <3>2, <3>3
  <2> HIDE DEF h
  <2> QED BY <1>10, <2>1, <2>2 DEF Ascending
<1>12. Listed(Q, G) = [j \in 1 .. (m - 1) |-> G[h[j]]]
  <2>1. PICK k : k = m - 1
      OBVIOUS
  <2>2. k \in Nat
      BY <1>2, <2>1
  <2>3. IsPositions(Q)
      BY DEF IsPositions, Removes
  <2>4. PICK f : f = h
      OBVIOUS
  <2>5. IsList(f, k, Q)
      BY <1>10, <1>11, <2>1, <2>2, <2>4 DEF IsList
  <2>6. Listed(Q, G) = [j \in 1 .. k |-> G[f[j]]]
      BY <2>3, <2>5, ListedBy
  <2> QED BY <2>1, <2>4, <2>6
<1>13. \A j \in 1 .. (m - 1) : G[h[j]] = IF j < i THEN F[g[j]] ELSE F[g[j + 1]]
  <2> TAKE j \in 1 .. (m - 1)
  <2>1. h[j] \in Q
      BY <1>10
  <2>2. G[h[j]] = F[h[j]]
      BY <2>1 DEF Removes
  <2> QED BY <2>2 DEF to
<1> HIDE DEF h
<1>14. Listed(Q, G) = [j \in 1 .. (m - 1) |-> IF j < i THEN F[g[j]] ELSE F[g[j + 1]]]
    BY <1>12, <1>13
<1>15. LacksAt(Q, G, F, x, g, m, i)
    BY <1>3, <1>14 DEF LacksAt
<1> QED BY <1>1, <1>15

\* Positions that all move by the same distance keep their listing.
Shifts(P, S, F, c, Q, G) ==
    /\ IsPositions(P) /\ IsPositions(Q) /\ c \in Int /\ Q = {y - c : y \in P}
    /\ F \in [P -> S] /\ G \in [Q -> S] /\ \A y \in P : G[y - c] = F[y]

\* Dropping a prefix of a queue changes where its orders stand, not their order.
LEMMA ListedShift ==
    ASSUME NEW P, NEW S, NEW F, NEW c, NEW Q, NEW G, Shifts(P, S, F, c, Q, G)
    PROVE  Listed(Q, G) = Listed(P, F)
<1>0. IsPositions(P) /\ F \in [P -> S] /\ c \in Int
    BY DEF Shifts
<1>1. PICK m, g : IsListing(g, m, P, F, S)
    BY <1>0, ListedType
<1>2. /\ m \in Nat /\ g \in [1 .. m -> P] /\ Ascending(g, P)
      /\ Listed(P, F) = [i \in 1 .. m |-> F[g[i]]]
    BY <1>1 DEF IsListing, IsList
<1>3. \A j, k \in 1 .. m : j < k => g[j] < g[k]
    BY <1>2 DEF Ascending
<1>4. \A j \in 1 .. m : g[j] \in P /\ g[j] \in Int
  <2>1. \A y \in P : y \in Int
      BY <1>0 DEF IsPositions
  <2>2. \A j \in 1 .. m : g[j] \in P
      BY <1>2
  <2> QED BY <2>1, <2>2
<1> DEFINE h == [j \in 1 .. m |-> g[j] - c]
<1>5. h \in [1 .. m -> Q]
    BY <1>4 DEF Shifts
<1>6. Ascending(h, Q)
  <2>1. \A j, k \in 1 .. m : j < k => h[j] < h[k]
      BY <1>0, <1>3, <1>4
  <2>2. \A y \in Q : \E k \in 1 .. m : h[k] = y
    <3> TAKE y \in Q
    <3>1. PICK z \in P : y = z - c
        BY DEF Shifts
    <3>2. PICK k \in 1 .. m : g[k] = z
        BY <1>2 DEF Ascending
    <3> QED BY <3>1, <3>2
  <2> HIDE DEF h
  <2> QED BY <1>5, <2>1, <2>2 DEF Ascending
<1>7. \A j \in 1 .. m : G[h[j]] = F[g[j]]
    BY <1>4 DEF Shifts
<1>8. PICK f : f = h
    OBVIOUS
<1>9. IsList(f, m, Q) /\ IsPositions(Q)
    BY <1>2, <1>5, <1>6, <1>8 DEF IsList, Shifts
<1>10. Listed(Q, G) = [j \in 1 .. m |-> G[f[j]]]
    BY <1>9, ListedBy
<1> HIDE DEF h
<1> QED BY <1>2, <1>7, <1>8, <1>10

\* The listing starts at the least position.
IsFirst(P, S, F, x) ==
    /\ IsPositions(P) /\ x \in P /\ F \in [P -> S]
    /\ \A y \in P : x <= y

\* The head of a listing is the value at the least position.
LEMMA ListedHead ==
    ASSUME NEW P, NEW S, NEW F, NEW x, IsFirst(P, S, F, x), NEW g, NEW m, IsListing(g, m, P, F, S)
    PROVE  m \in Nat /\ 1 \in 1 .. m /\ g[1] = x /\ Head(Listed(P, F)) = F[x]
<1>1. /\ m \in Nat /\ g \in [1 .. m -> P] /\ Ascending(g, P) /\ Listed(P, F) \in Seq(S)
      /\ Listed(P, F) = [i \in 1 .. m |-> F[g[i]]] /\ Len(Listed(P, F)) = m
    BY DEF IsListing, IsList
<1>2. x \in P /\ (\A y \in P : y \in Int /\ x <= y)
    BY DEF IsFirst, IsPositions
<1>3. PICK i \in 1 .. m : g[i] = x
    BY <1>1, <1>2 DEF Ascending
<1>4. 1 \in 1 .. m
    BY <1>1
<1>5. g[1] \in P
    BY <1>1, <1>4
<1>6. i # 1 => g[1] < g[i]
  <2>1. i # 1 => 1 < i
      BY <1>1
  <2> QED BY <1>1, <1>4, <2>1 DEF Ascending
<1>7. g[1] = x
  <2>1. x \in Int /\ g[1] \in Int /\ x <= g[1]
      BY <1>2, <1>5
  <2>2. ~(g[1] < x)
      BY <2>1
  <2> QED BY <1>3, <1>6, <2>2
<1>8. Listed(P, F)[1] = F[x]
    BY <1>1, <1>4, <1>7
<1>9. PICK l \in Seq(S) : l = Listed(P, F) /\ Len(l) = m
    BY <1>1
<1>10. Head(l) = l[1]
    BY <1>1, <1>4, <1>9
<1> QED BY <1>1, <1>4, <1>7, <1>8, <1>9, <1>10

\* Without its least position a listing loses its head.
LEMMA ListedTail ==
    ASSUME NEW P, NEW S, NEW F, NEW x, IsFirst(P, S, F, x), NEW Q, NEW G, Removes(P, S, F, x, Q, G)
    PROVE  Listed(Q, G) = Tail(Listed(P, F)) /\ Head(Listed(P, F)) = F[x]
<1>1. PICK m, g, i : IsListing(g, m, P, F, S) /\ LacksAt(Q, G, F, x, g, m, i)
    BY ListedRemove
<1>2. m \in Nat /\ 1 \in 1 .. m /\ g[1] = x /\ Head(Listed(P, F)) = F[x]
    BY <1>1, ListedHead
<1>3. /\ Listed(P, F) \in Seq(S) /\ Len(Listed(P, F)) = m
      /\ Listed(P, F) = [j \in 1 .. m |-> F[g[j]]]
      /\ \A j, k \in 1 .. m : j < k => g[j] < g[k]
      /\ \A j \in 1 .. m : g[j] \in Int
  <2>1. g \in [1 .. m -> P] /\ Ascending(g, P) /\ P \subseteq Int
      BY <1>1 DEF IsListing, IsList, IsFirst, IsPositions
  <2> QED BY <1>1, <2>1 DEF IsListing, Ascending
<1>4. i \in 1 .. m /\ g[i] = x
    BY <1>1 DEF LacksAt
<1>5. i = 1
  <2>1. 1 < i => g[1] < g[i]
      BY <1>2, <1>3, <1>4
  <2>2. ~(g[1] < g[i])
      BY <1>2, <1>3, <1>4
  <2> QED BY <1>2, <1>4, <2>1, <2>2
<1>6. Listed(Q, G) = [j \in 1 .. (m - 1) |-> IF j < 1 THEN F[g[j]] ELSE F[g[j + 1]]]
    BY <1>1, <1>5 DEF LacksAt
<1>7. Listed(Q, G) = [j \in 1 .. (m - 1) |-> F[g[j + 1]]]
    BY <1>2, <1>6
<1>8. PICK l \in Seq(S) : l = Listed(P, F) /\ Len(l) = m
    BY <1>3
<1>9. \A j \in 1 .. m : l[j] = F[g[j]]
    BY <1>3, <1>8
<1>10. /\ Tail(l) \in Seq(S) /\ Len(Tail(l)) = m - 1
       /\ \A j \in 1 .. (m - 1) : Tail(l)[j] = l[j + 1]
    BY <1>2, <1>8
<1>11. PICK t \in Seq(S) : t = Tail(l) /\ Len(t) = m - 1
    BY <1>10
<1>12. \A j \in 1 .. (m - 1) : j + 1 \in 1 .. m
    BY <1>2
<1>13. \A j \in 1 .. (m - 1) : t[j] = F[g[j + 1]]
    BY <1>9, <1>10, <1>11, <1>12
<1>14. PICK n \in Nat : n = m - 1
    BY <1>2
<1>15. PICK v : v = [j \in 1 .. n |-> F[g[j + 1]]]
    OBVIOUS
<1>16. DOMAIN v = 1 .. n /\ \A j \in 1 .. n : v[j] = t[j]
    BY <1>13, <1>14, <1>15
<1>17. t = v
  <2>1. Len(t) = n
      BY <1>11, <1>14
  <2>2. v = [j \in 1 .. n |-> v[j]] /\ t = [j \in 1 .. n |-> t[j]]
      BY <1>15, <2>1
  <2> QED BY <1>16, <2>2
<1> QED BY <1>2, <1>7, <1>8, <1>11, <1>14, <1>15, <1>17

\* Another value at the least position is another head.
LEMMA ListedNewHead ==
    ASSUME NEW P, NEW S, NEW F, NEW x, IsFirst(P, S, F, x),
           NEW G \in [P -> S], \A y \in P : y # x => G[y] = F[y]
    PROVE  Listed(P, G) = <<G[x]>> \o Tail(Listed(P, F)) /\ Head(Listed(P, F)) = F[x]
<1>0. IsPositions(P) /\ F \in [P -> S] /\ x \in P
    BY DEF IsFirst
<1>1. PICK m, g : IsListing(g, m, P, F, S)
    BY <1>0, ListedType
<1>2. m \in Nat /\ 1 \in 1 .. m /\ g[1] = x /\ Head(Listed(P, F)) = F[x]
    BY <1>1, ListedHead
<1>3. /\ Listed(P, F) \in Seq(S) /\ Len(Listed(P, F)) = m
      /\ Listed(P, F) = [j \in 1 .. m |-> F[g[j]]]
      /\ \A j, k \in 1 .. m : j < k => g[j] < g[k]
      /\ \A j \in 1 .. m : g[j] \in Int /\ g[j] \in P
      /\ IsList(g, m, P)
  <2>1. g \in [1 .. m -> P] /\ Ascending(g, P) /\ P \subseteq Int
      BY <1>1 DEF IsListing, IsList, IsFirst, IsPositions
  <2> QED BY <1>1, <2>1 DEF IsListing, Ascending
<1>4. Listed(P, G) = [j \in 1 .. m |-> G[g[j]]]
    BY <1>0, <1>3, ListedBy
<1>5. PICK l \in Seq(S) : l = Listed(P, F) /\ Len(l) = m
    BY <1>3
<1>6. \A j \in 1 .. m : l[j] = F[g[j]]
    BY <1>3, <1>5
<1>7. /\ Tail(l) \in Seq(S) /\ Len(Tail(l)) = m - 1
      /\ \A j \in 1 .. (m - 1) : Tail(l)[j] = l[j + 1]
    BY <1>2, <1>5
<1>8. PICK t \in Seq(S) : t = Tail(l) /\ Len(t) = m - 1
    BY <1>7
<1>9. PICK y \in S : y = G[x]
    BY <1>0
<1>10. /\ <<y>> \o t \in Seq(S) /\ Len(<<y>> \o t) = m
       /\ (<<y>> \o t)[1] = y /\ \A j \in 1 .. (m - 1) : (<<y>> \o t)[j + 1] = t[j]
    BY <1>2, <1>8
<1>11. \A j \in 1 .. m : (<<y>> \o t)[j] = G[g[j]]
  <2> TAKE j \in 1 .. m
  <2>1. CASE j = 1
      BY <1>2, <1>9, <1>10, <2>1
  <2>2. CASE j # 1
    <3>1. PICK k \in 1 .. (m - 1) : j = k + 1
      <4>1. j - 1 \in 1 .. (m - 1) /\ j = (j - 1) + 1
          BY <1>2, <2>2
      <4> QED BY <4>1
    <3>2. (<<y>> \o t)[j] = F[g[j]]
        BY <1>6, <1>7, <1>8, <1>10, <3>1
    <3>3. g[j] # x /\ g[j] \in P
      <4>1. 1 < j
          BY <1>2, <2>2
      <4>2. g[1] < g[j]
          BY <1>2, <1>3, <4>1
      <4> QED BY <1>2, <1>3, <4>2
    <3> QED BY <3>2, <3>3
  <2> QED BY <2>1, <2>2
<1>12. PICK r \in Seq(S) : r = <<y>> \o t /\ Len(r) = m
    BY <1>10
<1>13. r = [j \in 1 .. m |-> G[g[j]]]
    BY <1>11, <1>12
<1> QED BY <1>2, <1>4, <1>5, <1>8, <1>9, <1>12, <1>13


-----------------------------------------------------------------------------
(* The open orders of one queue                                             *)

Slab == [Keys -> Order \cup {Nil}]

OpenOrder == [order_id : Ids, account_id : Accounts, qty : 1 .. MaxQty]

\* OpenOrders, as a function of the slab and the queue.
LiveAt(slab, q) == {i \in 1 .. Len(q) : slab[q[i]] # Nil /\ slab[q[i]].qty_rem > 0}
ValuesAt(slab, q) == [x \in LiveAt(slab, q) |-> OpenOrderOf(slab[q[x]])]
ListAt(slab, q) == Listed(LiveAt(slab, q), ValuesAt(slab, q))


\* An order with something left is seen as an open order.
LEMMA OpenOrderType ==
    ASSUME NEW o \in Order, o.qty_rem > 0
    PROVE  OpenOrderOf(o) \in OpenOrder
<1>1. o.qty_rem \in 1 .. MaxQty
    BY BookAssumption DEF Order
<1> QED BY <1>1 DEF OpenOrderOf, OpenOrder, Order

\* The list is one of open orders, and empty when the queue holds tombstones only.
LEMMA ListAtType ==
    ASSUME NEW slab \in Slab, NEW q \in Seq(Keys)
    PROVE  /\ IsPositions(LiveAt(slab, q)) /\ ValuesAt(slab, q) \in [LiveAt(slab, q) -> OpenOrder]
           /\ ListAt(slab, q) \in Seq(OpenOrder)
           /\ ListAt(slab, q) = <<>> <=> LiveAt(slab, q) = {}
<1>1. Len(q) \in Nat /\ \A i \in 1 .. Len(q) : q[i] \in Keys
    OBVIOUS
<1>2. PICK P : P = LiveAt(slab, q)
    OBVIOUS
<1>3. IsPositions(P)
    BY <1>1, <1>2 DEF IsPositions, LiveAt
<1>4. \A x \in P : OpenOrderOf(slab[q[x]]) \in OpenOrder
  <2> TAKE x \in P
  <2>1. q[x] \in Keys /\ slab[q[x]] # Nil /\ slab[q[x]].qty_rem > 0
      BY <1>1, <1>2 DEF LiveAt
  <2>2. slab[q[x]] \in Order
      BY <2>1 DEF Slab
  <2> QED BY <2>1, <2>2, OpenOrderType
<1>5. PICK F \in [P -> OpenOrder] : F = ValuesAt(slab, q)
    BY <1>2, <1>4 DEF ValuesAt
<1>6. PICK m, g : IsListing(g, m, P, F, OpenOrder)
    BY <1>3, ListedType
<1>7. Listed(P, F) \in Seq(OpenOrder)
    BY <1>6 DEF IsListing
<1>8. Listed(P, F) = <<>> <=> P = {}
    BY <1>3, ListedEmpty
<1> QED BY <1>2, <1>3, <1>5, <1>7, <1>8 DEF ListAt


\* A change elsewhere in the slab leaves a queue's open orders alone.
LEMMA ListAtSame ==
    ASSUME NEW slab, NEW new, NEW q, \A i \in 1 .. Len(q) : new[q[i]] = slab[q[i]]
    PROVE  ListAt(new, q) = ListAt(slab, q)
<1>1. LiveAt(new, q) = LiveAt(slab, q)
    BY DEF LiveAt
<1>2. ValuesAt(new, q) = ValuesAt(slab, q)
    BY <1>1 DEF ValuesAt, LiveAt
<1> QED BY <1>1, <1>2 DEF ListAt

\* The slab new has in slot key, which q does not hold, the order o with something left.
Rests(slab, q, key, o, new) ==
    /\ slab \in Slab /\ q \in Seq(Keys) /\ key \in Keys /\ ~InQueue(key, q)
    /\ o \in Order /\ o.qty_rem > 0 /\ new = [slab EXCEPT ![key] = o]

\* insert_resting puts the new order behind the open orders of its level.
LEMMA ListAtRest ==
    ASSUME NEW slab, NEW q, NEW key, NEW o, NEW new, Rests(slab, q, key, o, new)
    PROVE  ListAt(new, Append(q, key)) = Append(ListAt(slab, q), OpenOrderOf(o))
<1>0. /\ slab \in Slab /\ q \in Seq(Keys) /\ key \in Keys /\ ~InQueue(key, q)
      /\ o \in Order /\ o.qty_rem > 0 /\ new = [slab EXCEPT ![key] = o]
    BY DEF Rests
<1> USE <1>0
<1>1. PICK n \in Nat : n = Len(q)
    OBVIOUS
<1>2. PICK r \in Seq(Keys) : r = Append(q, key)
  <2>1. Append(q, key) \in Seq(Keys)
      OBVIOUS
  <2> QED BY <2>1
<1>3. Len(r) = n + 1 /\ r[n + 1] = key /\ \A i \in 1 .. n : r[i] = q[i]
    BY <1>1, <1>2
<1>4. \A i \in 1 .. n : q[i] \in Keys /\ q[i] # key
    BY <1>1 DEF InQueue
<1>5. new \in Slab /\ new[key] = o /\ \A k \in Keys : k # key => new[k] = slab[k]
    BY DEF Slab
<1>6. PICK P : P = LiveAt(slab, q)
    OBVIOUS
<1>7. PICK F : F = ValuesAt(slab, q)
    OBVIOUS
<1>8. PICK Q : Q = LiveAt(new, r)
    OBVIOUS
<1>9. PICK G : G = ValuesAt(new, r)
    OBVIOUS
<1>10. PICK x : x = n + 1
    OBVIOUS
<1>11. P \in SUBSET (1 .. n)
    BY <1>1, <1>6 DEF LiveAt
<1>12. Q = P \cup {x}
  <2>1. \A i \in 1 .. (n + 1) : i = n + 1 \/ i \in 1 .. n
      OBVIOUS
  <2>2. \A i \in 1 .. n : i \in 1 .. (n + 1) /\ new[r[i]] = slab[q[i]]
      BY <1>3, <1>4, <1>5
  <2>3. n + 1 \in 1 .. (n + 1) /\ new[r[n + 1]] = o /\ o # Nil
      BY <1>3, <1>5, BookAssumption
  <2> QED BY <1>1, <1>3, <1>6, <1>8, <1>10, <2>1, <2>2, <2>3 DEF LiveAt
<1>13. F \in [P -> OpenOrder] /\ G \in [Q -> OpenOrder]
    BY <1>5, <1>6, <1>7, <1>8, <1>9, ListAtType
<1>14. \A y \in P : G[y] = F[y]
  <2> TAKE y \in P
  <2>1. y \in 1 .. n /\ y \in Q
      BY <1>11, <1>12
  <2>2. new[r[y]] = slab[q[y]]
      BY <1>3, <1>4, <1>5, <2>1
  <2> QED BY <1>6, <1>7, <1>8, <1>9, <2>1, <2>2 DEF ValuesAt
<1>15. AddsLast(n, P, OpenOrder, F, x, Q, G)
    BY <1>10, <1>11, <1>12, <1>13, <1>14 DEF AddsLast
<1>16. Listed(Q, G) = Append(Listed(P, F), G[x])
    BY <1>15, ListedAppend
<1>17. G[x] = OpenOrderOf(o)
  <2>1. x \in Q /\ new[r[x]] = o
      BY <1>3, <1>5, <1>10, <1>12
  <2> QED BY <1>8, <1>9, <2>1 DEF ValuesAt
<1> QED BY <1>2, <1>6, <1>7, <1>8, <1>9, <1>16, <1>17 DEF ListAt

\* A sequence is the function of its entries.
LEMMA SeqEntries ==
    ASSUME NEW S, NEW c \in Seq(S), NEW n \in Nat, Len(c) = n
    PROVE  c = [j \in 1 .. n |-> c[j]]
OBVIOUS

\* A listing without one of its entries, as the abstract queue removes it.
LEMMA ListedWithout ==
    ASSUME NEW P, NEW S, NEW F, NEW x, NEW Q, NEW G, Removes(P, S, F, x, Q, G)
    PROVE  \E i \in 1 .. Len(Listed(P, F)) : Listed(Q, G) = Abstract!RemoveAt(Listed(P, F), i)
<1>1. PICK m, g, i : IsListing(g, m, P, F, S) /\ LacksAt(Q, G, F, x, g, m, i)
    BY ListedRemove
<1>2. PICK l \in Seq(S) : l = Listed(P, F) /\ Len(l) = m
    BY <1>1 DEF IsListing
<1>3. m \in Nat /\ l = [j \in 1 .. m |-> F[g[j]]]
    BY <1>1, <1>2 DEF IsListing, IsList
<1>4. i \in 1 .. m
    BY <1>1 DEF LacksAt
<1>5. PICK a \in Seq(S) : a = SubSeq(l, 1, i - 1) /\ Len(a) = i - 1 /\ \A j \in 1 .. (i - 1) : a[j] = l[j]
  <2>1. /\ SubSeq(l, 1, i - 1) \in Seq(S) /\ Len(SubSeq(l, 1, i - 1)) = i - 1
        /\ \A j \in 1 .. (i - 1) : SubSeq(l, 1, i - 1)[j] = l[j]
      BY <1>2, <1>3, <1>4
  <2> QED BY <2>1
<1>6. PICK b \in Seq(S) : b = SubSeq(l, i + 1, m) /\ Len(b) = m - i /\ \A j \in 1 .. (m - i) : b[j] = l[j + i]
  <2>1. /\ SubSeq(l, i + 1, m) \in Seq(S) /\ Len(SubSeq(l, i + 1, m)) = m - i
        /\ \A j \in 1 .. (m - i) : SubSeq(l, i + 1, m)[j] = l[j + i]
      BY <1>2, <1>3, <1>4
  <2> QED BY <2>1
<1>7. PICK n \in Nat : n = m - 1
    BY <1>3, <1>4
<1>8. a \o b \in Seq(S) /\ Len(a \o b) = n
    BY <1>3, <1>4, <1>5, <1>6, <1>7
<1>9. \A j \in 1 .. n : (a \o b)[j] = IF j < i THEN l[j] ELSE l[j + 1]
  <2> TAKE j \in 1 .. n
  <2>1. CASE j < i
    <3>1. (a \o b)[j] = a[j] /\ j \in 1 .. (i - 1)
        BY <1>4, <1>5, <1>6, <2>1
    <3> QED BY <1>5, <2>1, <3>1
  <2>2. CASE ~(j < i)
    <3>1. PICK k \in 1 .. (m - i) : k = j - (i - 1)
        BY <1>3, <1>4, <1>7, <2>2
    <3>2. (a \o b)[Len(a) + k] = b[k]
      <4>1. k \in 1 .. Len(b)
          BY <1>6
      <4> QED BY <4>1
    <3>3. i \in Int /\ m \in Int /\ j \in Int /\ k \in Int
        BY <1>3, <1>4, <1>7
    <3>4. Len(a) + k = j /\ k + i = j + 1
        BY <1>5, <3>1, <3>3
    <3>5. b[k] = l[k + i]
        BY <1>6
    <3> QED BY <2>2, <3>2, <3>4, <3>5
  <2> QED BY <2>1, <2>2
<1>10. \A j \in 1 .. n : j \in 1 .. m /\ j + 1 \in 1 .. m
    BY <1>3, <1>7
<1>11. PICK v : v = [j \in 1 .. n |-> IF j < i THEN F[g[j]] ELSE F[g[j + 1]]]
    OBVIOUS
<1>12. v = Listed(Q, G)
    BY <1>1, <1>7, <1>11 DEF LacksAt
<1>13. PICK c \in Seq(S) : c = a \o b /\ Len(c) = n
    BY <1>8
<1>14. \A j \in 1 .. n : v[j] = c[j]
    BY <1>3, <1>9, <1>10, <1>11, <1>13
<1>15. c = v
  <2>1. v = [j \in 1 .. n |-> v[j]]
      BY <1>11
  <2>2. Len(c) = n
      BY <1>13
  <2>3. c = [j \in 1 .. n |-> c[j]]
      BY <2>2, SeqEntries
  <2> QED BY <1>14, <2>1, <2>3
<1>16. Abstract!RemoveAt(l, i) = c
    BY <1>2, <1>5, <1>6, <1>13 DEF Abstract!RemoveAt
<1> QED BY <1>2, <1>4, <1>12, <1>15, <1>16


\* Taking the order at position x out of the slab, or making it a tombstone, takes it out of
\* the open orders of its queue.
LEMMA ListAtRemoves ==
    ASSUME NEW slab \in Slab, NEW new \in Slab, NEW q \in Seq(Keys), NEW x \in LiveAt(slab, q),
           ~(new[q[x]] # Nil /\ new[q[x]].qty_rem > 0),
           \A i \in 1 .. Len(q) : i # x => new[q[i]] = slab[q[i]]
    PROVE  Removes(LiveAt(slab, q), OpenOrder, ValuesAt(slab, q), x, LiveAt(new, q), ValuesAt(new, q))
<1>1. LiveAt(new, q) = LiveAt(slab, q) \ {x}
    BY DEF LiveAt
<1>2. \A y \in LiveAt(new, q) : ValuesAt(new, q)[y] = ValuesAt(slab, q)[y]
  <2> TAKE y \in LiveAt(new, q)
  <2>1. y \in LiveAt(slab, q) /\ new[q[y]] = slab[q[y]]
      BY <1>1 DEF LiveAt
  <2> QED BY <2>1 DEF ValuesAt
<1>3. IsPositions(LiveAt(slab, q)) /\ ValuesAt(slab, q) \in [LiveAt(slab, q) -> OpenOrder]
    BY ListAtType
<1>4. ValuesAt(new, q) \in [LiveAt(new, q) -> OpenOrder]
    BY ListAtType
<1> QED BY <1>1, <1>2, <1>3, <1>4 DEF Removes

\* The order pop_live_front finds: nothing before it in the queue is live.
IsFront(slab, q, x) == x \in LiveAt(slab, q) /\ \A i \in 1 .. (x - 1) : i \notin LiveAt(slab, q)

\* It is the first of the list.
LEMMA FrontIsFirst ==
    ASSUME NEW slab \in Slab, NEW q \in Seq(Keys), NEW x, IsFront(slab, q, x)
    PROVE  IsFirst(LiveAt(slab, q), OpenOrder, ValuesAt(slab, q), x)
<1>1. \A y \in LiveAt(slab, q) : y \in 1 .. Len(q) /\ x \in 1 .. Len(q)
    BY DEF LiveAt, IsFront
<1>2. \A y \in LiveAt(slab, q) : x <= y
  <2> TAKE y \in LiveAt(slab, q)
  <2>1. y < x => y \in 1 .. (x - 1)
      BY <1>1
  <2> QED BY <1>1, <2>1 DEF IsFront
<1> QED BY <1>2, ListAtType DEF IsFirst, IsFront

\* A fill of the whole maker takes the first order away.
LEMMA ListAtDone ==
    ASSUME NEW slab \in Slab, NEW new \in Slab, NEW q \in Seq(Keys), NEW x, IsFront(slab, q, x),
           new[q[x]] = Nil, \A i \in 1 .. Len(q) : i # x => new[q[i]] = slab[q[i]]
    PROVE  ListAt(new, q) = Tail(ListAt(slab, q)) /\ Head(ListAt(slab, q)) = OpenOrderOf(slab[q[x]])
<1>1. x \in LiveAt(slab, q)
    BY DEF IsFront
<1>2. PICK P, F, Q, G : P = LiveAt(slab, q) /\ F = ValuesAt(slab, q)
                        /\ Q = LiveAt(new, q) /\ G = ValuesAt(new, q)
    OBVIOUS
<1>3. IsFirst(P, OpenOrder, F, x)
    BY <1>2, FrontIsFirst
<1>4. Removes(P, OpenOrder, F, x, Q, G)
    BY <1>1, <1>2, ListAtRemoves
<1>5. Listed(Q, G) = Tail(Listed(P, F)) /\ Head(Listed(P, F)) = F[x]
    BY <1>3, <1>4, ListedTail
<1>6. F[x] = OpenOrderOf(slab[q[x]])
    BY <1>1, <1>2 DEF ValuesAt
<1> QED BY <1>2, <1>5, <1>6 DEF ListAt

\* The first live order of q, at x, keeps something in the slab new; the others stay.
PartlyFills(slab, new, q, x) ==
    /\ slab \in Slab /\ new \in Slab /\ q \in Seq(Keys) /\ IsFront(slab, q, x)
    /\ new[q[x]] # Nil /\ new[q[x]].qty_rem > 0
    /\ \A i \in 1 .. Len(q) : i # x => new[q[i]] = slab[q[i]]

\* A partial fill of the maker changes the first order and moves none.
LEMMA ListAtPartial ==
    ASSUME NEW slab, NEW new, NEW q, NEW x, PartlyFills(slab, new, q, x)
    PROVE  /\ ListAt(new, q) = <<OpenOrderOf(new[q[x]])>> \o Tail(ListAt(slab, q))
           /\ Head(ListAt(slab, q)) = OpenOrderOf(slab[q[x]])
<1>0. /\ slab \in Slab /\ new \in Slab /\ q \in Seq(Keys) /\ IsFront(slab, q, x)
      /\ new[q[x]] # Nil /\ new[q[x]].qty_rem > 0
      /\ \A i \in 1 .. Len(q) : i # x => new[q[i]] = slab[q[i]]
    BY DEF PartlyFills
<1> USE <1>0
<1>1. x \in LiveAt(slab, q)
    BY DEF IsFront
<1>2. PICK P, F, G : P = LiveAt(slab, q) /\ F = ValuesAt(slab, q) /\ G = ValuesAt(new, q)
    OBVIOUS
<1>3. LiveAt(new, q) = P
    BY <1>1, <1>2 DEF LiveAt
<1>4. IsFirst(P, OpenOrder, F, x)
    BY <1>2, FrontIsFirst
<1>5. G \in [P -> OpenOrder]
    BY <1>2, <1>3, ListAtType
<1>6. \A y \in P : y # x => G[y] = F[y]
  <2> TAKE y \in P
  <2>1. y # x => new[q[y]] = slab[q[y]]
      BY <1>2 DEF LiveAt
  <2> QED BY <1>2, <1>3, <2>1 DEF ValuesAt
<1>7. Listed(P, G) = <<G[x]>> \o Tail(Listed(P, F)) /\ Head(Listed(P, F)) = F[x]
    BY <1>4, <1>5, <1>6, ListedNewHead
<1>8. F[x] = OpenOrderOf(slab[q[x]]) /\ G[x] = OpenOrderOf(new[q[x]])
    BY <1>1, <1>2, <1>3 DEF ValuesAt
<1> QED BY <1>2, <1>3, <1>7, <1>8 DEF ListAt

\* Dropping the tombstones in front of a queue drops none of its open orders.
LEMMA ListAtSuffix ==
    ASSUME NEW slab \in Slab, NEW q \in Seq(Keys), NEW m \in 1 .. (Len(q) + 1),
           \A i \in 1 .. (m - 1) : i \notin LiveAt(slab, q)
    PROVE  ListAt(slab, SubSeq(q, m, Len(q))) = ListAt(slab, q)
<1>1. PICK r : r = SubSeq(q, m, Len(q))
    OBVIOUS
<1>2. PICK n \in Nat : n = Len(q)
    OBVIOUS
<1>3. PICK c \in Nat : c = m - 1
    BY <1>2
<1>4. /\ r \in Seq(Keys) /\ Len(r) = n - c /\ c <= n
      /\ \A j \in 1 .. (n - c) : r[j] = q[j + c]
  <2>1. n \in (m - 1) .. n /\ m \in Int
      BY <1>2
  <2>2. /\ r \in Seq(Keys) /\ Len(r) = n - m + 1
        /\ \A j \in 1 .. (n - m + 1) : r[j] = q[m + j - 1]
      BY <1>1, <1>2, <2>1, SubSeqProperties
  <2>3. n - m + 1 = n - c /\ c <= n
      BY <1>3, <2>1
  <2>4. \A j \in 1 .. (n - c) : j \in 1 .. (n - m + 1) /\ m + j - 1 = j + c
      BY <1>3, <2>1
  <2>5. \A j \in 1 .. (n - c) : r[j] = q[j + c]
      BY <2>2, <2>4
  <2> QED BY <2>2, <2>3, <2>5
<1>5. PICK P, F, Q, G : P = LiveAt(slab, q) /\ F = ValuesAt(slab, q)
                        /\ Q = LiveAt(slab, r) /\ G = ValuesAt(slab, r)
    OBVIOUS
<1>6. \A y \in P : y \in 1 .. n /\ y - c \in 1 .. (n - c) /\ y \in Int /\ (y - c) + c = y
  <2> TAKE y \in P
  <2>1. y \in 1 .. n /\ ~(y \in 1 .. (m - 1))
      BY <1>2, <1>5 DEF LiveAt
  <2> QED BY <1>3, <2>1
<1>7. \A y \in P : y - c \in Q
  <2> TAKE y \in P
  <2>1. r[y - c] = q[y]
      BY <1>4, <1>6
  <2>2. slab[q[y]] # Nil /\ slab[q[y]].qty_rem > 0
      BY <1>5 DEF LiveAt
  <2> QED BY <1>4, <1>5, <1>6, <2>1, <2>2 DEF LiveAt
<1>8. \A z \in Q : z + c \in P /\ (z + c) - c = z
  <2> TAKE z \in Q
  <2>1. z \in 1 .. (n - c) /\ slab[r[z]] # Nil /\ slab[r[z]].qty_rem > 0
      BY <1>4, <1>5 DEF LiveAt
  <2>2. r[z] = q[z + c]
      BY <1>4, <2>1
  <2>3. z + c \in 1 .. n /\ (z + c) - c = z
      BY <1>3, <2>1
  <2> QED BY <1>2, <1>5, <2>1, <2>2, <2>3 DEF LiveAt
<1>9. Q = {y - c : y \in P}
    BY <1>7, <1>8
<1>10. \A y \in P : G[y - c] = F[y]
  <2> TAKE y \in P
  <2>1. r[y - c] = q[y] /\ y - c \in Q
      BY <1>4, <1>6, <1>7
  <2> QED BY <1>5, <2>1 DEF ValuesAt
<1>11. IsPositions(P) /\ F \in [P -> OpenOrder]
    BY <1>5, ListAtType
<1>12. IsPositions(Q) /\ G \in [Q -> OpenOrder]
    BY <1>4, <1>5, ListAtType
<1>13. Shifts(P, OpenOrder, F, c, Q, G)
    BY <1>9, <1>10, <1>11, <1>12 DEF Shifts
<1>14. Listed(Q, G) = Listed(P, F)
    BY <1>13, ListedShift
<1> QED BY <1>1, <1>5, <1>14 DEF ListAt


-----------------------------------------------------------------------------
(* The abstract queues across a change of the book                          *)

\* The abstract queues are the listings of the levels.
LEMMA QueuesAre ==
    ASSUME BookTypeOK
    PROVE  OpenQueues = [s \in Sides |-> [p \in Prices |-> ListAt(orders, book[s][p].queue)]]
<1>1. ASSUME NEW s \in Sides, NEW p \in Prices
      PROVE  OpenOrders(book[s][p].queue) = ListAt(orders, book[s][p].queue)
  <2>1. PICK q \in Seq(Keys) : q = book[s][p].queue
      BY DEF BookTypeOK, Level
  <2>2. LivePositions(q) = LiveAt(orders, q)
      BY DEF LivePositions, LiveAt, Live
  <2>3. PICK P : P = LiveAt(orders, q)
      OBVIOUS
  <2>4. PICK m \in Nat : InOrder(P) \in [1 .. m -> P]
    <3>1. Len(q) \in Nat /\ P \in SUBSET (1 .. Len(q))
        BY <2>3 DEF LiveAt
    <3> QED BY <3>1, InOrderType
  <2>5. OpenOrders(q) = [i \in DOMAIN InOrder(P) |-> OpenOrderOf(orders[q[InOrder(P)[i]]])]
      BY <2>2, <2>3 DEF OpenOrders
  <2>6. \A i \in DOMAIN InOrder(P) : ValuesAt(orders, q)[InOrder(P)[i]] = OpenOrderOf(orders[q[InOrder(P)[i]]])
      BY <2>3, <2>4 DEF ValuesAt
  <2>7. ListAt(orders, q) = [i \in DOMAIN InOrder(P) |-> ValuesAt(orders, q)[InOrder(P)[i]]]
      BY <2>3 DEF ListAt, Listed
  <2> QED BY <2>1, <2>5, <2>6, <2>7
<1> QED BY <1>1 DEF OpenQueues

\* The same in the next state.
LEMMA QueuesArePrime ==
    ASSUME BookTypeOK'
    PROVE  OpenQueues' = [s \in Sides |-> [p \in Prices |-> ListAt(orders', book'[s][p].queue)]]
<1>1. ASSUME NEW s \in Sides, NEW p \in Prices
      PROVE  OpenOrders(book[s][p].queue)' = ListAt(orders', book'[s][p].queue)
  <2>1. PICK q \in Seq(Keys) : q = book'[s][p].queue
      BY DEF BookTypeOK, Level
  <2>2. PICK P : P = LiveAt(orders', q)
      OBVIOUS
  <2>3. LivePositions(book[s][p].queue)' = P
      BY <2>1, <2>2 DEF LivePositions, LiveAt, Live
  <2>4. PICK m \in Nat : InOrder(P) \in [1 .. m -> P]
    <3>1. Len(q) \in Nat /\ P \in SUBSET (1 .. Len(q))
        BY <2>2 DEF LiveAt
    <3> QED BY <3>1, InOrderType
  <2>5. OpenOrders(book[s][p].queue)' =
            [i \in DOMAIN InOrder(P) |-> OpenOrderOf(orders'[q[InOrder(P)[i]]])]
      BY <2>1, <2>3 DEF OpenOrders
  <2>6. \A i \in DOMAIN InOrder(P) : ValuesAt(orders', q)[InOrder(P)[i]] = OpenOrderOf(orders'[q[InOrder(P)[i]]])
      BY <2>2, <2>4 DEF ValuesAt
  <2>7. ListAt(orders', q) = [i \in DOMAIN InOrder(P) |-> ValuesAt(orders', q)[InOrder(P)[i]]]
      BY <2>2 DEF ListAt, Listed
  <2> QED BY <2>1, <2>5, <2>6, <2>7
<1> QED BY <1>1 DEF OpenQueues

\* Two books that differ in one queue.
LEMMA WrittenOnce ==
    ASSUME NEW S, NEW T, NEW X, NEW a \in [S -> [T -> X]], NEW b \in [S -> [T -> X]],
           NEW s0 \in S, NEW p0 \in T, NEW l,
           \A s \in S, p \in T : b[s][p] = IF s = s0 /\ p = p0 THEN l ELSE a[s][p]
    PROVE  b = [a EXCEPT ![s0][p0] = l]
<1>1. PICK c : c = [a[s0] EXCEPT ![p0] = l]
    OBVIOUS
<1>2. b[s0] = c
    BY <1>1
<1>3. \A s \in S : s # s0 => b[s] = a[s]
    OBVIOUS
<1>4. b = [a EXCEPT ![s0] = c]
    BY <1>2, <1>3
<1> QED BY <1>1, <1>4

\* Only the queue of one level changes, to l.
OneQueue(s, p, l) == OpenQueues' = [OpenQueues EXCEPT ![s][p] = l]

\* A step that writes one level and one slot, which no other level's queue holds, changes one
\* abstract queue.
LEMMA OneQueueChanges ==
    ASSUME BookTypeOK, BookTypeOK', NEW s0 \in Sides, NEW p0 \in Prices, NEW key \in Keys,
           \A k \in Keys : k # key => orders'[k] = orders[k],
           \A s \in Sides, p \in Prices : ~(s = s0 /\ p = p0) =>
                book'[s][p] = book[s][p] /\ ~InQueue(key, book[s][p].queue)
    PROVE  OneQueue(s0, p0, ListAt(orders', book'[s0][p0].queue))
<1>1. PICK a : a = OpenQueues
    OBVIOUS
<1>2. a = [s \in Sides |-> [p \in Prices |-> ListAt(orders, book[s][p].queue)]]
    BY <1>1, QueuesAre
<1>3. PICK b : b = OpenQueues'
    OBVIOUS
<1>4. b = [s \in Sides |-> [p \in Prices |-> ListAt(orders', book'[s][p].queue)]]
    BY <1>3, QueuesArePrime
<1>5. ASSUME NEW s \in Sides, NEW p \in Prices, ~(s = s0 /\ p = p0)
      PROVE  ListAt(orders', book'[s][p].queue) = ListAt(orders, book[s][p].queue)
  <2>1. PICK q \in Seq(Keys) : q = book[s][p].queue
      BY DEF BookTypeOK, Level
  <2>2. book'[s][p].queue = q /\ ~InQueue(key, q)
      BY <1>5, <2>1
  <2>3. \A i \in 1 .. Len(q) : orders'[q[i]] = orders[q[i]]
      BY <2>2 DEF InQueue
  <2>4. ListAt(orders', q) = ListAt(orders, q)
      BY <2>3, ListAtSame
  <2> QED BY <2>1, <2>2, <2>4
<1>6. PICK l : l = ListAt(orders', book'[s0][p0].queue)
    OBVIOUS
<1>7. \A s \in Sides, p \in Prices : b[s][p] = IF s = s0 /\ p = p0 THEN l ELSE a[s][p]
    BY <1>2, <1>4, <1>5, <1>6
<1>8. a \in [Sides -> [Prices -> Seq(OpenOrder)]] /\ b \in [Sides -> [Prices -> Seq(OpenOrder)]]
  <2>1. orders \in Slab /\ orders' \in Slab
      BY DEF BookTypeOK, Slab
  <2>2. \A s \in Sides, p \in Prices : book[s][p].queue \in Seq(Keys) /\ book'[s][p].queue \in Seq(Keys)
      BY DEF BookTypeOK, Level
  <2>3. \A s \in Sides, p \in Prices : /\ ListAt(orders, book[s][p].queue) \in Seq(OpenOrder)
                                       /\ ListAt(orders', book'[s][p].queue) \in Seq(OpenOrder)
      BY <2>1, <2>2, ListAtType
  <2> QED BY <1>2, <1>4, <2>3
<1>9. b = [a EXCEPT ![s0][p0] = l]
    BY <1>7, <1>8, WrittenOnce
<1> QED BY <1>1, <1>3, <1>6, <1>9 DEF OneQueue

\* A level without a total has no live order in the slab.
LEMMA NobodyWaits ==
    ASSUME BookTypeOK', TotalsExact', NEW s \in Sides, NEW p \in Prices, book'[s][p].total_qty = 0,
           NEW k \in Keys, orders'[k] # Nil, orders'[k].side = s, orders'[k].price = p
    PROVE  ~(orders'[k].qty_rem > 0)
<1>1. PICK w \in [Keys -> Nat] : w = Waiting(s, p)'
    BY WaitingTypePrime
<1>2. IsSum(w, 0)
    BY <1>1 DEF TotalsExact
<1>3. w[k] = 0
    BY <1>2, SlabSumNat
<1>4. orders'[k].qty_rem > 0 => w[k] = orders'[k].qty_rem
    BY <1>1 DEF Waiting, Live
<1>5. orders'[k].qty_rem \in Nat
    BY BookAssumption DEF BookTypeOK, Order
<1> QED BY <1>3, <1>4, <1>5

\* Dropping a level whose total is used up loses no open order.
LEMMA LevelAfterList ==
    ASSUME BookTypeOK', TotalsExact', NEW s \in Sides, NEW p \in Prices, NEW r \in Seq(Keys), NEW t,
           book'[s][p] = LevelAfter(r, t),
           \A i \in 1 .. Len(r) : orders'[r[i]] # Nil =>
                orders'[r[i]].side = s /\ orders'[r[i]].price = p
    PROVE  ListAt(orders', book'[s][p].queue) = ListAt(orders', r)
<1>1. book'[s][p] = [queue |-> r, total_qty |-> t] \/ book'[s][p] = NoLevel
    BY DEF LevelAfter
<1>2. CASE book'[s][p] = NoLevel
  <2>1. book'[s][p].total_qty = 0 /\ book'[s][p].queue = <<>>
      BY <1>2 DEF NoLevel
  <2>2. \A i \in 1 .. Len(r) : r[i] \in Keys
      OBVIOUS
  <2>3. \A i \in 1 .. Len(r) : orders'[r[i]] # Nil => ~(orders'[r[i]].qty_rem > 0)
      BY <2>1, <2>2, NobodyWaits
  <2>4. LiveAt(orders', r) = {}
      BY <2>3 DEF LiveAt
  <2>5. orders' \in Slab /\ <<>> \in Seq(Keys)
      BY DEF BookTypeOK, Slab
  <2>6. ListAt(orders', r) = <<>>
      BY <2>4, <2>5, ListAtType
  <2>7. LiveAt(orders', <<>>) = {}
      BY DEF LiveAt
  <2>8. ListAt(orders', <<>>) = <<>>
      BY <2>5, <2>7, ListAtType
  <2> QED BY <2>1, <2>6, <2>8
<1>3. CASE book'[s][p] = [queue |-> r, total_qty |-> t]
    BY <1>3
<1> QED BY <1>1, <1>2, <1>3

\* A price has a level exactly when the abstract queue of that price is not empty.
LEMMA LevelMeansOpen ==
    ASSUME BookTypeOK, BookInv, NEW s \in Sides, NEW p \in Prices
    PROVE  HasLevel(s, p) <=> OpenQueues[s][p] # <<>>
<1>1. PICK q \in Seq(Keys) : q = book[s][p].queue
    BY DEF BookTypeOK, Level
<1>2. OpenQueues[s][p] = ListAt(orders, q)
    BY <1>1, QueuesAre
<1>3. orders \in Slab
    BY DEF BookTypeOK, Slab
<1>4. ListAt(orders, q) = <<>> <=> LiveAt(orders, q) = {}
    BY <1>3, ListAtType
<1>5. ~HasLevel(s, p) => LiveAt(orders, q) = {}
  <2>1. ~HasLevel(s, p) => q = <<>>
      BY <1>1 DEF HasLevel, NoLevel
  <2> QED BY <2>1 DEF LiveAt
<1>6. ASSUME HasLevel(s, p) PROVE LiveAt(orders, q) # {}
  <2>1. PICK w \in [Keys -> Nat] : w = Waiting(s, p)
      BY WaitingType
  <2>2. PICK t \in Int : t = book[s][p].total_qty
      BY DEF BookTypeOK, Level
  <2>3. IsSum(w, t) /\ t > 0
      BY <1>6, <2>1, <2>2 DEF BookInv, TotalsExact, LevelsNonempty
  <2>4. \E k \in Keys : w[k] # 0
    <3>1. SUFFICES ASSUME \A k \in Keys : w[k] = 0 PROVE FALSE
        OBVIOUS
    <3>2. w \in [Keys -> Int]
        OBVIOUS
    <3>3. SumFunction(w) = 0
        BY <3>1, <3>2, KeysFinite, SumZero
    <3> QED BY <2>2, <2>3, <3>3 DEF IsSum
  <2>5. PICK k \in Keys : w[k] # 0
      BY <2>4
  <2>6. Live(k) /\ orders[k].side = s /\ orders[k].price = p
      BY <2>1, <2>5 DEF Waiting
  <2>7. InQueue(k, q)
      BY <1>1, <2>6 DEF BookInv, QueuesExact
  <2>8. PICK i \in 1 .. Len(q) : q[i] = k
      BY <2>7 DEF InQueue
  <2>9. i \in LiveAt(orders, q)
      BY <2>6, <2>8 DEF LiveAt, Live
  <2> QED BY <2>9
<1> QED BY <1>2, <1>4, <1>5, <1>6


\* The queue that a slot is in, if any, is that of its order's side and price.
LEMMA KeyElsewhere ==
    ASSUME BookTypeOK, BookInv, NEW s0 \in Sides, NEW p0 \in Prices, NEW key \in Keys,
           orders[key] = Nil \/ (orders[key].side = s0 /\ orders[key].price = p0),
           NEW s \in Sides, NEW p \in Prices, ~(s = s0 /\ p = p0)
    PROVE  ~InQueue(key, book[s][p].queue)
BY DEF BookInv, QueuesExact, QueuesSound, InQueue

\* insert_resting appends to one abstract queue.
LEMMA InsertRestingList ==
    ASSUME BookTypeOK, BookInv, NEW o \in Order, o.qty_rem > 0, InsertResting(o)
    PROVE  OneQueue(o.side, o.price, Append(OpenQueues[o.side][o.price], OpenOrderOf(o)))
<1>1. PICK key \in Keys : key = Head(free)
    BY DEF InsertResting, BookTypeOK
<1>2. PICK s0 \in Sides, p0 \in Prices : s0 = o.side /\ p0 = o.price
    BY DEF Order
<1>3. BookTypeOK'
    BY InsertRestingType
<1>4. orders[key] = Nil
  <2>1. free \in Seq(Keys) /\ free # <<>>
      BY DEF InsertResting, BookTypeOK
  <2>2. 1 \in 1 .. Len(free) /\ free[1] = key
      BY <1>1, <2>1
  <2>3. InQueue(key, free)
      BY <2>2 DEF InQueue
  <2> QED BY <2>3 DEF BookInv, FreeListExact
<1>5. orders' = [orders EXCEPT ![key] = o] /\ orders \in Slab
    BY <1>1 DEF InsertResting, BookTypeOK, Slab
<1>6. \A k \in Keys : k # key => orders'[k] = orders[k]
    BY <1>5 DEF Slab
<1>7. PICK l : l = [queue |-> Append(book[s0][p0].queue, key), total_qty |-> book[s0][p0].total_qty + o.qty_rem]
    OBVIOUS
<1>8. book' = [book EXCEPT ![s0][p0] = l]
    BY <1>1, <1>2, <1>7 DEF InsertResting
<1>9. \A s \in Sides, p \in Prices : book'[s][p] = IF s = s0 /\ p = p0 THEN l ELSE book[s][p]
    BY <1>8, SetLevel
<1>10. PICK q \in Seq(Keys) : q = book[s0][p0].queue
    BY DEF BookTypeOK, Level
<1>11. ~InQueue(key, q)
    BY <1>4, <1>10 DEF BookInv, QueuesExact, QueuesSound, InQueue
<1>12. book'[s0][p0].queue = Append(q, key)
    BY <1>7, <1>9, <1>10
<1>13. ListAt(orders', Append(q, key)) = Append(ListAt(orders, q), OpenOrderOf(o))
  <2>1. Rests(orders, q, key, o, orders')
      BY <1>5, <1>11 DEF Rests
  <2> QED BY <2>1, ListAtRest
<1>14. \A s \in Sides, p \in Prices : ~(s = s0 /\ p = p0) =>
            book'[s][p] = book[s][p] /\ ~InQueue(key, book[s][p].queue)
    BY <1>4, <1>9, KeyElsewhere
<1>15. OneQueue(s0, p0, ListAt(orders', book'[s0][p0].queue))
    BY <1>3, <1>6, <1>14, OneQueueChanges
<1>16. OpenQueues[s0][p0] = ListAt(orders, q)
    BY <1>10, QueuesAre
<1> QED BY <1>2, <1>12, <1>13, <1>15, <1>16

\* What CancelOrder and Trade do to one level: a slot of its queue changes, the level keeps the
\* queue from some position on or is dropped.  All of it shows in one abstract queue.
LEMMA LevelChangeList ==
    ASSUME BookTypeOK, BookInv, BookTypeOK', TotalsExact', NEW s0 \in Sides, NEW p0 \in Prices,
           NEW key \in Keys, orders[key] # Nil, orders[key].side = s0, orders[key].price = p0,
           \A k \in Keys : k # key => orders'[k] = orders[k],
           orders'[key] # Nil => orders'[key].side = s0 /\ orders'[key].price = p0,
           NEW r \in Seq(Keys), NEW t, \A i \in 1 .. Len(r) : InQueue(r[i], book[s0][p0].queue),
           book' = [book EXCEPT ![s0][p0] = LevelAfter(r, t)]
    PROVE  OneQueue(s0, p0, ListAt(orders', r))
<1>1. PICK l : l = LevelAfter(r, t)
    OBVIOUS
<1>2. \A s \in Sides, p \in Prices : book'[s][p] = IF s = s0 /\ p = p0 THEN l ELSE book[s][p]
  <2>1. book' = [book EXCEPT ![s0][p0] = l]
      BY <1>1
  <2>2. \A s \in Sides, p \in Prices :
            [book EXCEPT ![s0][p0] = l][s][p] = IF s = s0 /\ p = p0 THEN l ELSE book[s][p]
      BY DEF BookTypeOK
  <2> QED BY <2>1, <2>2
<1>3. book'[s0][p0] = LevelAfter(r, t)
    BY <1>1, <1>2
<1>4. \A s \in Sides, p \in Prices : ~(s = s0 /\ p = p0) =>
            book'[s][p] = book[s][p] /\ ~InQueue(key, book[s][p].queue)
    BY <1>2, KeyElsewhere
<1>5. OneQueue(s0, p0, ListAt(orders', book'[s0][p0].queue))
    BY <1>4, OneQueueChanges
<1>6. \A i \in 1 .. Len(r) : orders'[r[i]] # Nil =>
            orders'[r[i]].side = s0 /\ orders'[r[i]].price = p0
  <2> TAKE i \in 1 .. Len(r)
  <2>1. r[i] \in Keys
      OBVIOUS
  <2>2. orders[r[i]].side = s0 /\ orders[r[i]].price = p0
    <3>1. PICK j \in 1 .. Len(book[s0][p0].queue) : book[s0][p0].queue[j] = r[i]
        BY DEF InQueue
    <3>2. QueuesSound
        BY DEF BookInv, QueuesExact
    <3>3. \A x \in 1 .. Len(book[s0][p0].queue) :
            orders[book[s0][p0].queue[x]].side = s0 /\ orders[book[s0][p0].queue[x]].price = p0
        BY <3>2 DEF QueuesSound
    <3> QED BY <3>1, <3>3
  <2>3. CASE r[i] = key
      BY <2>3
  <2>4. CASE r[i] # key
      BY <2>1, <2>2, <2>4
  <2> QED BY <2>3, <2>4
<1>7. ListAt(orders', book'[s0][p0].queue) = ListAt(orders', r)
    BY <1>3, <1>6, LevelAfterList
<1> QED BY <1>5, <1>7

\* cancel takes one order out of one abstract queue.
LEMMA CancelOrderList ==
    ASSUME BookTypeOK, BookInv, NEW id \in Ids, Found(id), CancelOrder(id)
    PROVE  \E s \in Sides, p \in Prices : \E i \in 1 .. Len(OpenQueues[s][p]) :
              OneQueue(s, p, Abstract!RemoveAt(OpenQueues[s][p], i))
<1>1. BookTypeOK' /\ TotalsExact'
    BY CancelOrderType, CancelOrderInv DEF BookInv
<1>2. PICK key \in Keys : key = index[id]
    BY DEF BookTypeOK, Found
<1>3. orders[key] \in Order /\ Live(key) /\ orders[key] # Nil
    BY <1>2 DEF BookTypeOK, Found, BookInv, IndexSound
<1>4. PICK s0 \in Sides, p0 \in Prices : s0 = orders[key].side /\ p0 = orders[key].price
    BY <1>3 DEF Order
<1>5. PICK q \in Seq(Keys) : q = book[s0][p0].queue
    BY DEF BookTypeOK, Level
<1>6. PICK o : o = [orders[key] EXCEPT !.qty_rem = 0]
    OBVIOUS
<1>7. o.side = s0 /\ o.price = p0 /\ o.qty_rem = 0
    BY <1>3, <1>4, <1>6 DEF Order
<1>8. orders' = [orders EXCEPT ![key] = o] /\ orders \in Slab /\ orders' \in Slab
    BY <1>1, <1>2, <1>6 DEF CancelOrder, BookTypeOK, Slab
<1>9. orders'[key] = o /\ \A k \in Keys : k # key => orders'[k] = orders[k]
    BY <1>8 DEF Slab
<1>10. PICK x \in 1 .. Len(q) : q[x] = key
    BY <1>3, <1>4, <1>5 DEF BookInv, QueuesExact, InQueue
<1>11. \A i \in 1 .. Len(q) : q[i] \in Keys /\ (i # x => q[i] # key)
    BY <1>5, <1>10 DEF BookInv, QueuesExact, QueuesSound
<1>12. PICK t : t = book[s0][p0].total_qty - orders[key].qty_rem
    OBVIOUS
<1>13. book' = [book EXCEPT ![s0][p0] = LevelAfter(q, t)]
    BY <1>2, <1>4, <1>5, <1>12 DEF CancelOrder
<1>14. \A i \in 1 .. Len(q) : InQueue(q[i], book[s0][p0].queue)
    BY <1>5 DEF InQueue
<1>15. OneQueue(s0, p0, ListAt(orders', q))
    BY <1>1, <1>3, <1>4, <1>7, <1>9, <1>13, <1>14, LevelChangeList
<1>16. x \in LiveAt(orders, q)
    BY <1>3, <1>10 DEF LiveAt, Live
<1>17. PICK P, F, Q, G : P = LiveAt(orders, q) /\ F = ValuesAt(orders, q)
                        /\ Q = LiveAt(orders', q) /\ G = ValuesAt(orders', q)
    OBVIOUS
<1>18. Removes(P, OpenOrder, F, x, Q, G)
  <2>1. ~(orders'[q[x]] # Nil /\ orders'[q[x]].qty_rem > 0)
      BY <1>7, <1>9, <1>10
  <2>2. \A i \in 1 .. Len(q) : i # x => orders'[q[i]] = orders[q[i]]
      BY <1>9, <1>11
  <2> QED BY <1>8, <1>16, <1>17, <2>1, <2>2, ListAtRemoves
<1>19. PICK i \in 1 .. Len(Listed(P, F)) : Listed(Q, G) = Abstract!RemoveAt(Listed(P, F), i)
    BY <1>18, ListedWithout
<1>20. OpenQueues[s0][p0] = Listed(P, F) /\ ListAt(orders', q) = Listed(Q, G)
    BY <1>5, <1>17, QueuesAre DEF ListAt
<1> QED BY <1>15, <1>19, <1>20


\* The abstract queue after a trade of n lots with its first order.
AfterTrade(l, n) ==
    IF n = Head(l).qty THEN Tail(l) ELSE <<[Head(l) EXCEPT !.qty = @ - n]>> \o Tail(l)

\* A fill takes its quantity from the first order of one abstract queue.
LEMMA TradeList ==
    ASSUME BookTypeOK, BookInv, NEW s0 \in Sides, NEW p0 \in Prices, NEW i, NEW qty,
           Tradable(s0, p0, i, qty), Trade(s0, p0, i, qty)
    PROVE  /\ Head(OpenQueues[s0][p0]) = OpenOrderOf(orders[book[s0][p0].queue[i]])
           /\ OneQueue(s0, p0, AfterTrade(OpenQueues[s0][p0], qty))
<1>1. BookTypeOK' /\ TotalsExact'
    BY TradeType, TradeInv DEF BookInv
<1>2. PICK q \in Seq(Keys) : q = book[s0][p0].queue
    BY DEF BookTypeOK, Level
<1>3. i \in 1 .. Len(q) /\ q[i] \in Keys /\ orders[q[i]] \in Order
    BY <1>2, TradableFacts
<1>4. PICK key \in Keys : key = q[i]
    BY <1>3
<1>5. PICK maker \in Order : maker = orders[key]
    BY <1>3, <1>4
<1>6. maker # Nil /\ maker.side = s0 /\ maker.price = p0
  <2>1. maker # Nil
      BY BookAssumption
  <2> QED BY <1>2, <1>3, <1>4, <1>5, <2>1 DEF BookInv, QueuesExact, QueuesSound
<1>7. maker.qty_rem \in 1 .. MaxQty /\ qty \in 1 .. maker.qty_rem
    BY <1>2, <1>4, <1>5, TradableFacts DEF Tradable
<1>8. PICK done \in BOOLEAN : done <=> maker.qty_rem = qty
  <2>1. (maker.qty_rem = qty) \in BOOLEAN
      OBVIOUS
  <2> QED BY <2>1
<1>9. PICK o : o = IF maker.qty_rem = qty THEN Nil ELSE [maker EXCEPT !.qty_rem = maker.qty_rem - qty]
    OBVIOUS
<1>10. orders' = [orders EXCEPT ![key] = o] /\ orders \in Slab /\ orders' \in Slab
    BY <1>1, <1>2, <1>4, <1>5, <1>9 DEF Trade, BookTypeOK, Slab
<1>11. orders'[key] = o /\ \A k \in Keys : k # key => orders'[k] = orders[k]
    BY <1>10 DEF Slab
<1>12. o # Nil => o.side = s0 /\ o.price = p0
    BY <1>6, <1>9 DEF Order
<1>13. PICK m \in 1 .. (Len(q) + 1) : m = IF maker.qty_rem = qty THEN i + 1 ELSE i
    BY <1>3
<1>14. PICK r : r = SubSeq(q, m, Len(q))
    OBVIOUS
<1>15. IsSuffix(q, m, r)
    BY <1>14, Suffix
<1>16. r \in Seq(Keys) /\ \A j \in 1 .. Len(r) : InQueue(r[j], book[s0][p0].queue)
  <2>1. r \in Seq(Keys) /\ \A j \in 1 .. Len(r) : r[j] = q[m + j - 1] /\ m + j - 1 \in m .. Len(q)
      BY <1>15 DEF IsSuffix
  <2>2. \A j \in m .. Len(q) : j \in 1 .. Len(q)
      BY <1>13
  <2> QED BY <1>2, <2>1, <2>2 DEF InQueue
<1>17. PICK t : t = book[s0][p0].total_qty - qty
    OBVIOUS
<1>18. book' = [book EXCEPT ![s0][p0] = LevelAfter(r, t)]
    BY <1>2, <1>4, <1>5, <1>13, <1>14, <1>17 DEF Trade, QueueAfter
<1>19. OneQueue(s0, p0, ListAt(orders', r))
    BY <1>1, <1>5, <1>6, <1>11, <1>12, <1>16, <1>18, LevelChangeList
<1>20. IsFront(orders, q, i)
    BY <1>2, <1>3 DEF Tradable, LiveFront, IsFront, LiveAt, Live
<1>21. \A j \in 1 .. Len(q) : j # i => orders'[q[j]] = orders[q[j]]
  <2>1. \A j \in 1 .. Len(q) : q[j] \in Keys /\ (j # i => q[j] # key)
      BY <1>2, <1>3, <1>4 DEF BookInv, QueuesExact, QueuesSound
  <2> QED BY <1>11, <2>1
<1>22. \A j \in 1 .. (i - 1) : j \notin LiveAt(orders', q)
  <2> TAKE j \in 1 .. (i - 1)
  <2>1. j \in 1 .. Len(q) /\ j # i
      BY <1>3
  <2> QED BY <1>20, <1>21, <2>1 DEF IsFront, LiveAt
<1>23. PICK l : l = ListAt(orders, q)
    OBVIOUS
<1>24. OpenQueues[s0][p0] = l
    BY <1>2, <1>23, QueuesAre
<1>25. ListAt(orders', r) = ListAt(orders', q)
  <2>1. \A j \in 1 .. (m - 1) : j \notin LiveAt(orders', q)
    <3>1. CASE maker.qty_rem = qty
      <4>1. orders'[q[i]] = Nil
          BY <1>4, <1>9, <1>11, <3>1
      <4>2. i \notin LiveAt(orders', q)
          BY <4>1 DEF LiveAt
      <4>3. \A j \in 1 .. (m - 1) : j = i \/ j \in 1 .. (i - 1)
          BY <1>3, <1>13, <3>1
      <4> QED BY <1>22, <4>2, <4>3
    <3>2. CASE maker.qty_rem # qty
        BY <1>13, <1>22, <3>2
    <3> QED BY <3>1, <3>2
  <2> QED BY <1>10, <1>14, <2>1, ListAtSuffix
<1>26. ListAt(orders', q) = AfterTrade(l, qty) /\ Head(l) = OpenOrderOf(maker)
  <2>0. OpenOrderOf(maker).qty = maker.qty_rem
      BY DEF OpenOrderOf
  <2>1. CASE maker.qty_rem = qty
    <3>1. orders'[q[i]] = Nil
        BY <1>4, <1>9, <1>11, <2>1
    <3>2. ListAt(orders', q) = Tail(l) /\ Head(l) = OpenOrderOf(maker)
      <4>1. orders \in Slab /\ orders' \in Slab
          BY <1>10
      <4>2. /\ ListAt(orders', q) = Tail(ListAt(orders, q))
            /\ Head(ListAt(orders, q)) = OpenOrderOf(orders[q[i]])
          BY <1>20, <1>21, <3>1, <4>1, ListAtDone
      <4> QED BY <1>4, <1>5, <1>23, <4>2
    <3> QED BY <2>0, <2>1, <3>2 DEF AfterTrade
  <2>2. CASE maker.qty_rem # qty
    <3>1. orders'[q[i]] = o /\ o = [maker EXCEPT !.qty_rem = maker.qty_rem - qty]
        BY <1>4, <1>9, <1>11, <2>2
    <3>2. o.qty_rem = maker.qty_rem - qty /\ o.order_id = maker.order_id /\ o.account_id = maker.account_id
        BY <3>1 DEF Order
    <3>3. o.qty_rem > 0
        BY <1>7, <2>2, <3>2
    <3>4. o # Nil
      <4>1. maker.qty_rem - qty \in 0 .. MaxQty
          BY <1>7, QtyDifference
      <4>2. o \in Order
          BY <3>1, <4>1 DEF Order
      <4> QED BY <4>2, BookAssumption
    <3>5. ListAt(orders', q) = <<OpenOrderOf(o)>> \o Tail(l) /\ Head(l) = OpenOrderOf(maker)
      <4>1. orders'[q[i]] # Nil /\ orders'[q[i]].qty_rem > 0
          BY <3>1, <3>3, <3>4
      <4>2. orders \in Slab /\ orders' \in Slab
          BY <1>10
      <4>3. /\ ListAt(orders', q) = <<OpenOrderOf(orders'[q[i]])>> \o Tail(ListAt(orders, q))
            /\ Head(ListAt(orders, q)) = OpenOrderOf(orders[q[i]])
        <5>1. PartlyFills(orders, orders', q, i)
            BY <1>20, <1>21, <4>1, <4>2 DEF PartlyFills
        <5> QED BY <5>1, ListAtPartial
      <4> QED BY <1>4, <1>5, <1>23, <3>1, <4>3
    <3>6. [OpenOrderOf(maker) EXCEPT !.qty = @ - qty] = OpenOrderOf(o)
        BY <3>2 DEF OpenOrderOf
    <3> QED BY <2>0, <2>2, <3>5, <3>6 DEF AfterTrade
  <2> QED BY <2>1, <2>2
<1> QED BY <1>2, <1>4, <1>5, <1>19, <1>24, <1>25, <1>26

\* Dropping a level without a live order changes no abstract queue.
LEMMA DropLevelList ==
    ASSUME BookTypeOK, BookInv, NEW s0 \in Sides, NEW p0 \in Prices,
           LiveFront(book[s0][p0].queue) = {}, DropLevel(s0, p0)
    PROVE  UNCHANGED OpenQueues
<1>1. BookTypeOK' /\ TotalsExact'
    BY DropLevelType, DropLevelInv DEF BookInv
<1>2. \A s \in Sides, p \in Prices : book'[s][p] = IF s = s0 /\ p = p0 THEN NoLevel ELSE book[s][p]
    BY SetLevel DEF DropLevel
<1>3. orders' = orders /\ orders \in Slab
    BY DEF DropLevel, BookTypeOK, Slab
<1>4. ~(OpenQueues[s0][p0] # <<>>)
  <2>1. PICK q \in Seq(Keys) : q = book[s0][p0].queue
      BY DEF BookTypeOK, Level
  <2>2. LiveAt(orders, q) = {}
    <3>1. SUFFICES ASSUME LiveAt(orders, q) # {} PROVE FALSE
        OBVIOUS
    <3>2. LiveAt(orders, q) \in SUBSET Nat
        BY DEF LiveAt
    <3>3. PICK x \in LiveAt(orders, q) : \A y \in LiveAt(orders, q) : x <= y
        BY <3>1, <3>2, LeastNat
    <3>4. x \in 1 .. Len(q) /\ Live(q[x])
        BY DEF LiveAt, Live
    <3>5. \A j \in 1 .. (x - 1) : j \in 1 .. Len(q) /\ ~(x <= j)
        BY <3>4
    <3>6. \A j \in 1 .. (x - 1) : ~Live(q[j])
        BY <3>3, <3>5 DEF LiveAt, Live
    <3>7. x \in LiveFront(q)
        BY <3>4, <3>6 DEF LiveFront
    <3> QED BY <2>1, <3>7
  <2>3. ListAt(orders, q) = <<>>
      BY <1>3, <2>2, ListAtType
  <2> QED BY <2>1, <2>3, QueuesAre
<1>5. \A s \in Sides, p \in Prices : ListAt(orders', book'[s][p].queue) = ListAt(orders, book[s][p].queue)
  <2> TAKE s \in Sides, p \in Prices
  <2>1. CASE s = s0 /\ p = p0
    <3>1. book'[s][p].queue = <<>>
        BY <1>2, <2>1 DEF NoLevel
    <3>2. LiveAt(orders, <<>>) = {} /\ <<>> \in Seq(Keys)
        BY DEF LiveAt
    <3>3. ListAt(orders, <<>>) = <<>>
        BY <1>3, <3>2, ListAtType
    <3>4. ListAt(orders, book[s0][p0].queue) = <<>>
        BY <1>4, QueuesAre
    <3> QED BY <1>3, <2>1, <3>1, <3>3, <3>4
  <2>2. CASE ~(s = s0 /\ p = p0)
      BY <1>2, <1>3, <2>2
  <2> QED BY <2>1, <2>2
<1> QED BY <1>1, <1>5, QueuesAre, QueuesArePrime


-----------------------------------------------------------------------------
(* Every step of the engine is a step of the abstract book                  *)

\* While an order is matched the abstract book has it in hand, with what it still wants.
LEMMA InHandMatching ==
    ASSUME TypeInv, stage = "match"
    PROVE  /\ InHand = IncomingOf(taker, rem) /\ InHand # Nil
           /\ InHand.side = taker.side /\ InHand.price = taker.price /\ InHand.qty = rem
           /\ InHand.gtc = (taker.tif = "Gtc") /\ InHand.order_id = taker.order_id
           /\ InHand.account_id = taker.account_id
<1>1. taker \in NewOrders /\ rem \in 0 .. MaxQty
    BY DEF TypeInv, HasTaker, TypeOK
<1>2. IncomingOf(taker, rem) \in
        [order_id : Ids, account_id : Accounts, side : Sides, price : Prices, qty : 0 .. MaxQty, gtc : BOOLEAN]
    BY <1>1 DEF IncomingOf, NewOrders
<1>3. IncomingOf(taker, rem) # Nil
    BY <1>2, RefinementAssumption
<1> QED BY <1>3 DEF InHand, IncomingOf

\* The opposite prices that the order in hand accepts.
LEMMA AcceptablePrices ==
    ASSUME TypeInv, BookInv, stage = "match"
    PROVE  Abstract!Acceptable =
              {p \in Prices : HasLevel(Opposite(taker.side), p) /\ Accepts(taker.side, taker.price, p)}
<1>1. InHand.side = taker.side /\ InHand.price = taker.price /\ taker.side \in Sides
    BY InHandMatching DEF TypeInv, HasTaker, NewOrders
<1>2. PICK s \in Sides : s = Opposite(taker.side) /\ s = Abstract!Other(InHand.side)
    BY <1>1 DEF Opposite, Abstract!Other, Sides
<1>3. BookTypeOK
    BY DEF TypeInv, TypeOK
<1>4. \A p \in Prices : HasLevel(s, p) <=> OpenQueues[s][p] # <<>>
    BY <1>3, LevelMeansOpen
<1> QED BY <1>1, <1>2, <1>4 DEF Abstract!Acceptable, Accepts

\* The abstract queues depend on the slab and the levels only.
LEMMA BookUnchanged ==
    ASSUME UNCHANGED bookVars
    PROVE  UNCHANGED OpenQueues
BY DEF bookVars, OpenQueues, OpenOrders, LivePositions, Live

\* An iteration of match_taker that fills is a trade with the first order at the best price.
LEMMA FillRefines ==
    ASSUME TypeInv, TypeInv', BookInv, MatchStep, NEW s \in Sides, NEW p \in Prices,
           s = Opposite(taker.side), NEW i \in Nat, NEW qty \in Nat, Fill(s, p, i, qty)
    PROVE  Abstract!TradeWithFirst
<1>1. stage = "match" /\ rem > 0 /\ WouldCross(taker.side, taker.price) /\ stage' = stage /\ taker' = taker
    BY DEF MatchStep, Matching
<1>2. taker \in NewOrders /\ BookTypeOK /\ rem \in 0 .. MaxQty
    BY <1>1 DEF TypeInv, HasTaker, TypeOK
<1>3. /\ InHand = IncomingOf(taker, rem) /\ InHand # Nil
      /\ InHand.side = taker.side /\ InHand.price = taker.price /\ InHand.qty = rem
    BY <1>1, InHandMatching
<1>4. InHand' = IncomingOf(taker, rem - qty)
    BY <1>1 DEF InHand, Fill
<1>5. InHand' = [InHand EXCEPT !.qty = @ - qty]
    BY <1>3, <1>4 DEF IncomingOf
<1>6. IsBest(s, p) /\ Tradable(s, p, i, qty) /\ Trade(s, p, i, qty) /\ qty = TradeQty(orders[book[s][p].queue[i]])
    BY DEF Fill
<1>7. /\ Head(OpenQueues[s][p]) = OpenOrderOf(orders[book[s][p].queue[i]])
      /\ OneQueue(s, p, AfterTrade(OpenQueues[s][p], qty))
    BY <1>2, <1>6, TradeList
<1>8. taker.side \in Sides /\ taker.price \in Int /\ Prices \subseteq Int
    BY <1>2, BookAssumption DEF NewOrders
<1>9. PICK A : A = Abstract!Acceptable
    OBVIOUS
<1>10. A = {x \in Prices : HasLevel(s, x) /\ Accepts(taker.side, taker.price, x)}
    BY <1>1, <1>9, AcceptablePrices
<1>11. p \in A
  <2>1. PICK x \in Prices : HasLevel(s, x) /\ Accepts(taker.side, taker.price, x)
      BY <1>1 DEF WouldCross
  <2>2. HasLevel(s, p) /\ AtLeastAsGood(s, p, x)
      BY <1>6, <2>1 DEF IsBest
  <2>3. p \in Int /\ x \in Int
      BY <1>8
  <2>4. Accepts(taker.side, taker.price, p)
      BY <1>8, <2>1, <2>2, <2>3 DEF Accepts, AtLeastAsGood, Opposite, Sides
  <2> QED BY <1>10, <2>2, <2>4
<1>12. Abstract!Best(p)
  <2>1. \A x \in A : AtLeastAsGood(s, p, x)
      BY <1>6, <1>10 DEF IsBest
  <2>2. \A x \in A : IF InHand.side = "Buy" THEN p <= x ELSE p >= x
      BY <1>3, <1>8, <2>1 DEF AtLeastAsGood, Opposite, Sides
  <2> QED BY <1>9, <2>2 DEF Abstract!Best
<1>13. Abstract!Other(InHand.side) = s
    BY <1>3, <1>8 DEF Abstract!Other, Opposite, Sides
<1>14. qty = IF InHand.qty < Head(OpenQueues[s][p]).qty THEN InHand.qty ELSE Head(OpenQueues[s][p]).qty
  <2>1. PICK maker : maker = orders[book[s][p].queue[i]]
      OBVIOUS
  <2>2. PICK first : first = Head(OpenQueues[s][p]) /\ first = OpenOrderOf(maker)
      BY <1>7, <2>1
  <2>3. first.qty = maker.qty_rem
      BY <2>2 DEF OpenOrderOf
  <2>4. qty = TradeQty(maker)
      BY <1>6, <2>1
  <2>5. qty = IF InHand.qty < first.qty THEN InHand.qty ELSE first.qty
      BY <1>3, <2>3, <2>4 DEF TradeQty
  <2> QED BY <2>2, <2>5
<1>15. OpenQueues' = [OpenQueues EXCEPT ![s][p] =
            IF qty = Head(OpenQueues[s][p]).qty THEN Tail(@)
            ELSE <<[Head(OpenQueues[s][p]) EXCEPT !.qty = @ - qty]>> \o Tail(@)]
    BY <1>7 DEF OneQueue, AfterTrade
<1> QED BY <1>1, <1>3, <1>5, <1>9, <1>11, <1>12, <1>13, <1>14, <1>15 DEF Abstract!TradeWithFirst

\* The end of handle_new settles the order in hand.
LEMMA FinishRefines ==
    ASSUME TypeInv, BookInv, FinishNew
    PROVE  Abstract!Settle
<1>1. stage = "match" /\ stage' = "done" /\ ~(rem > 0 /\ WouldCross(taker.side, taker.price))
    BY DEF FinishNew, Matching, Answer
<1>2. taker \in NewOrders /\ BookTypeOK /\ rem \in 0 .. MaxQty
    BY <1>1 DEF TypeInv, HasTaker, TypeOK
<1>3. /\ InHand # Nil /\ InHand.gtc = (taker.tif = "Gtc") /\ InHand.order_id = taker.order_id
      /\ InHand.account_id = taker.account_id
      /\ InHand.side = taker.side /\ InHand.price = taker.price /\ InHand.qty = rem
    BY <1>1, InHandMatching
<1>4. InHand' = Nil
    BY <1>1 DEF InHand
<1>5. InHand.qty = 0 \/ Abstract!Acceptable = {}
  <2>1. CASE rem > 0
    <3>1. {p \in Prices : HasLevel(Opposite(taker.side), p) /\ Accepts(taker.side, taker.price, p)} = {}
        BY <1>1, <2>1 DEF WouldCross
    <3> QED BY <1>1, <3>1, AcceptablePrices
  <2>2. CASE ~(rem > 0)
      BY <1>2, <1>3, <2>2, BookAssumption
  <2> QED BY <2>1, <2>2
<1>6. CASE rem > 0 /\ taker.tif = "Gtc"
  <2>1. PICK o \in Order : o = RestingOrder(taker, rem)
      BY <1>2, RestingOrderType
  <2>2. InsertResting(o)
      BY <1>6, <2>1 DEF FinishNew
  <2>3. o.qty_rem > 0 /\ o.side = InHand.side /\ o.price = InHand.price
      BY <1>3, <1>6, <2>1 DEF RestingOrder
  <2>4. OneQueue(o.side, o.price, Append(OpenQueues[o.side][o.price], OpenOrderOf(o)))
      BY <1>2, <2>2, <2>3, InsertRestingList
  <2>5. OpenOrderOf(o) = [order_id |-> InHand.order_id, account_id |-> InHand.account_id, qty |-> InHand.qty]
      BY <1>3, <2>1 DEF OpenOrderOf, RestingOrder
  <2>6. OpenQueues' = [OpenQueues EXCEPT ![InHand.side][InHand.price] =
            Append(@, [order_id |-> InHand.order_id, account_id |-> InHand.account_id, qty |-> InHand.qty])]
      BY <2>3, <2>4, <2>5 DEF OneQueue
  <2>7. InHand.qty > 0 /\ InHand.gtc
      BY <1>3, <1>6
  <2> QED BY <1>3, <1>4, <1>5, <2>6, <2>7 DEF Abstract!Settle
<1>7. CASE ~(rem > 0 /\ taker.tif = "Gtc")
  <2>1. UNCHANGED OpenQueues
      BY <1>7, BookUnchanged DEF FinishNew
  <2>2. ~(InHand.qty > 0 /\ InHand.gtc)
      BY <1>3, <1>7
  <2> QED BY <1>3, <1>4, <1>5, <2>1, <2>2 DEF Abstract!Settle
<1> QED BY <1>6, <1>7

\* A cancel, or the first half of a replace, withdraws one order.
LEMMA CancelRefines ==
    ASSUME TypeInv, BookInv, NEW id \in Ids, Found(id), CancelOrder(id), stage = "idle", stage' # "match"
    PROVE  Abstract!AbstractNext
<1>1. BookTypeOK
    BY DEF TypeInv, TypeOK
<1>2. InHand = Nil /\ InHand' = Nil
    BY DEF InHand
<1>3. PICK s \in Sides, p \in Prices : \E i \in 1 .. Len(OpenQueues[s][p]) :
            OneQueue(s, p, Abstract!RemoveAt(OpenQueues[s][p], i))
    BY <1>1, CancelOrderList
<1>4. PICK i \in 1 .. Len(OpenQueues[s][p]) : OneQueue(s, p, Abstract!RemoveAt(OpenQueues[s][p], i))
    BY <1>3
<1>5. OpenQueues' = Abstract!Without(s, p, i)
    BY <1>4 DEF OneQueue, Abstract!Without
<1>6. Abstract!Withdraw(s, p, i)
    BY <1>2, <1>5 DEF Abstract!Withdraw
<1>7. s \in {"Buy", "Sell"}
    BY DEF Sides
<1> QED BY <1>6, <1>7 DEF Abstract!AbstractNext


\* Every step of the engine is a step of the abstract book, or leaves it alone.
LEMMA RefinementStep ==
    ASSUME TypeInv, BookInv, [Next]_vars
    PROVE  [Abstract!AbstractNext]_(Abstract!abstractVars)
<1> DEFINE Quiet == UNCHANGED OpenQueues /\ UNCHANGED InHand
           Step == Quiet \/ Abstract!AbstractNext
<1>0. TypeInv'
    BY TypeStep
<1>1. ASSUME UNCHANGED bookVars, stage # "match", stage' # "match"
      PROVE  Step
    BY <1>1, BookUnchanged DEF InHand
<1>2. ASSUME NEW no \in NewOrders, NewOrder(no)
      PROVE  Step
    BY <1>1, <1>2 DEF NewOrder
<1>3. ASSUME NEW id \in Ids, NEW a \in Accounts, NEW y \in Symbols, Cancel(id, a, y)
      PROVE  Step
  <2>1. stage = "idle" /\ stage' = "done"
      BY <1>3 DEF Cancel, Answer
  <2>2. UNCHANGED bookVars \/ (Found(id) /\ CancelOrder(id))
      BY <1>3 DEF Cancel, OwnedBy
  <2>3. CASE UNCHANGED bookVars
      BY <1>1, <2>1, <2>3
  <2>4. CASE Found(id) /\ CancelOrder(id)
      BY <2>1, <2>4, CancelRefines
  <2> QED BY <2>2, <2>3, <2>4
<1>4. ASSUME NEW id \in Ids, NEW a \in Accounts, NEW y \in Symbols, NEW p \in Prices,
             NEW n \in 0 .. MaxQty, Replace(id, a, y, p, n)
      PROVE  Step
  <2>1. stage = "idle" /\ stage' \in {"done", "new"}
      BY <1>4 DEF Replace, Answer
  <2>2. UNCHANGED bookVars \/ (Found(id) /\ CancelOrder(id))
      BY <1>4 DEF Replace, OwnedBy
  <2>3. CASE UNCHANGED bookVars
      BY <1>1, <2>1, <2>3
  <2>4. CASE Found(id) /\ CancelOrder(id)
      BY <2>1, <2>4, CancelRefines
  <2> QED BY <2>2, <2>3, <2>4
<1>5. ASSUME NEW a \in Accounts, NEW lim \in Limits, SetRiskLimits(a, lim)
      PROVE  Step
    BY <1>1, <1>5 DEF SetRiskLimits, Answer
<1>6. ASSUME NEW a \in Accounts, QueryAccount(a)
      PROVE  Step
    BY <1>1, <1>6 DEF QueryAccount, Answer
<1>7. ASSUME RejectNew
      PROVE  Step
    BY <1>1, <1>7 DEF RejectNew, Answer
<1>8. ASSUME AcceptNew
      PROVE  Step
  <2>1. stage = "new" /\ stage' = "match" /\ rem' = taker.qty /\ taker' = taker /\ UNCHANGED bookVars
      BY <1>8 DEF AcceptNew
  <2>2. taker \in NewOrders
      BY <2>1 DEF TypeInv, HasTaker
  <2>3. taker.qty > 0
    <3>1. ~(taker.qty <= 0)
        BY <1>8 DEF AcceptNew, FailedCheck
    <3>2. taker.qty \in Int
        BY <2>2 DEF NewOrders
    <3> QED BY <3>1, <3>2
  <2>4. PICK o : o = IncomingOf(taker, taker.qty)
      OBVIOUS
  <2>5. o \in Abstract!Incoming
    <3>1. taker.qty \in 1 .. MaxQty
        BY <2>2, <2>3, BookAssumption DEF NewOrders
    <3> QED BY <2>2, <2>4, <3>1 DEF Abstract!Incoming, IncomingOf, NewOrders, Sides
  <2>6. InHand = Nil /\ InHand' = o
      BY <2>1, <2>4 DEF InHand
  <2>7. UNCHANGED OpenQueues
      BY <2>1, BookUnchanged
  <2>8. Abstract!Arrive(o)
      BY <2>6, <2>7 DEF Abstract!Arrive
  <2> QED BY <2>5, <2>8 DEF Abstract!AbstractNext
<1>9. ASSUME MatchStep
      PROVE  Step
  <2>1. PICK s \in Sides, p \in Prices :
            /\ s = Opposite(taker.side)
            /\ Drop(s, p) \/ \E i \in Nat, qty \in Nat : Fill(s, p, i, qty)
      BY <1>9, MatchStepCases
  <2>2. CASE Drop(s, p)
    <3>1. BookTypeOK
        BY DEF TypeInv, TypeOK
    <3>2. UNCHANGED OpenQueues
        BY <2>2, <3>1, DropLevelList DEF Drop
    <3>3. UNCHANGED InHand
        BY <1>9, <2>2 DEF InHand, MatchStep, Drop
    <3> QED BY <3>2, <3>3
  <2>3. ASSUME NEW i \in Nat, NEW qty \in Nat, Fill(s, p, i, qty)
        PROVE  Step
    <3>1. Abstract!TradeWithFirst
        BY <1>0, <1>9, <2>1, <2>3, FillRefines
    <3> QED BY <3>1 DEF Abstract!AbstractNext
  <2> QED BY <2>1, <2>2, <2>3
<1>10. ASSUME FinishNew
       PROVE  Step
    BY <1>10, FinishRefines DEF Abstract!AbstractNext
<1>11. ASSUME SendEvents
       PROVE  Step
    BY <1>1, <1>11 DEF SendEvents
<1>12. ASSUME UNCHANGED vars
       PROVE  Step
  <2>1. UNCHANGED bookVars /\ UNCHANGED InHand
      BY <1>12 DEF vars, engineVars, InHand
  <2> QED BY <2>1, BookUnchanged
<1>13. Step
    BY <1>2, <1>3, <1>4, <1>5, <1>6, <1>7, <1>8, <1>9, <1>10, <1>11, <1>12 DEF Next
<1> QED BY <1>13 DEF Abstract!abstractVars

\* An empty book is an empty abstract book.
LEMMA RefinementInit == Init => Abstract!AbstractInit
<1> SUFFICES ASSUME Init PROVE Abstract!AbstractInit
    OBVIOUS
<1>1. BookTypeOK
    BY TypeInit DEF TypeInv, TypeOK
<1>2. InHand = Nil
    BY DEF Init, InHand
<1>3. orders \in Slab /\ <<>> \in Seq(Keys)
    BY <1>1 DEF BookTypeOK, Slab
<1>4. LiveAt(orders, <<>>) = {}
    BY DEF LiveAt
<1>5. ListAt(orders, <<>>) = <<>>
    BY <1>3, <1>4, ListAtType
<1>6. \A s \in Sides, p \in Prices : book[s][p].queue = <<>>
    BY DEF Init, BookInit, NoLevel
<1>7. OpenQueues = [s \in Sides |-> [p \in Prices |-> <<>>]]
    BY <1>1, <1>5, <1>6, QueuesAre
<1> QED BY <1>2, <1>7 DEF Abstract!AbstractInit, Sides

\* The engine implements price-time priority, for any ids, accounts, prices, limits and sizes,
\* even when clients reuse the ids of live orders: whatever tombstones, partial fills, eager
\* level removal and slot reuse do to the slab, the index and the levels, the open orders are
\* served best price first and in order of arrival, and a cancel moves no other order.
THEOREM EngineRefines == Spec => PriceTimePriority
<1>1. Init => TypeInv /\ BookInv
    BY TypeInit, BookInvInit
<1>2. TypeInv /\ BookInv /\ [Next]_vars => TypeInv' /\ BookInv'
    BY TypeStep, BookChanges, BookInvStep DEF TypeInv, TypeOK
<1>3. TypeInv /\ BookInv /\ [Next]_vars => [Abstract!AbstractNext]_(Abstract!abstractVars)
    BY RefinementStep
<1>4. Init => Abstract!AbstractInit
    BY RefinementInit
<1> QED BY <1>1, <1>2, <1>3, <1>4, PTL DEF Spec, PriceTimePriority, Abstract!PriceTimeSpec

-----------------------------------------------------------------------------
(* Restarts from a snapshot *)

\* Every nonempty set of keys has a greatest one.
LEMMA MaxKey ==
    ASSUME NEW n \in Nat, NEW S \in SUBSET (0 .. (n - 1)), S # {}
    PROVE  Max(S) \in S
<1> DEFINE T == {n - x : x \in S}
<1>1. T \in SUBSET Nat /\ T # {}
    OBVIOUS
<1>2. PICK t \in T : \A u \in T : t <= u
    BY <1>1, LeastNat
<1>3. PICK x \in S : t = n - x
    BY <1>2
<1>4. \A y \in S : x >= y
  <2> TAKE y \in S
  <2>1. t <= n - y
      BY <1>2
  <2>2. x \in Int /\ y \in Int
      OBVIOUS
  <2> QED BY <1>3, <2>1, <2>2
<1> QED BY <1>4 DEF Max

\* n orders are re-inserted, the order of key k from the slot old[k + 1].
Reinserts(n, old) ==
    /\ n \in Nat /\ n <= MaxSlots /\ n = Cardinality(LiveKeys)
    /\ old \in [1 .. n -> Keys] /\ \A i \in 1 .. n : Live(old[i])
    /\ \A i, j \in 1 .. n : old[i] = old[j] => i = j
    /\ \A k \in Keys : Live(k) => \E i \in 1 .. n : old[i] = k

\* The orders a restart leaves.
Reinserted(n, old) ==
    /\ Reinserts(n, old)
    /\ orders' = [k \in Keys |-> IF k < n THEN orders[old[k + 1]] ELSE Nil]
    /\ free' = [i \in 1 .. (MaxSlots - n) |-> n + i - 1]
    /\ index' = [id \in Ids |-> IF Indexing(old, id) = {} THEN Nil ELSE Max(Indexing(old, id))]
    /\ book' = [s \in Sides |-> [p \in Prices |-> RebuiltLevel(old, s, p)]]
    /\ Len(old) = n

\* serialize_snapshot lists every live order once.
LEMMA SnapshotLists ==
    ASSUME BookTypeOK
    PROVE  \E n : Reinserts(n, SnapshotKeys) /\ Len(SnapshotKeys) = n
<1>1. MaxSlots \in Nat /\ LiveKeys \in SUBSET (0 .. (MaxSlots - 1)) /\ Keys = 0 .. (MaxSlots - 1)
    BY BookAssumption DEF LiveKeys, Keys
<1>2. PICK n : n = Cardinality(LiveKeys)
    OBVIOUS
<1>3. n \in Nat /\ SnapshotKeys \in [1 .. n -> LiveKeys] /\ Ascending(SnapshotKeys, LiveKeys)
    BY <1>1, <1>2, InOrderKeys DEF SnapshotKeys
<1>4. PICK old : old = SnapshotKeys
    OBVIOUS
<1>5. n <= MaxSlots
  <2>1. IsFiniteSet(Keys) /\ Cardinality(Keys) = MaxSlots
    <3>1. 0 \in Int /\ MaxSlots - 1 \in Int /\ 0 <= MaxSlots - 1 /\ (MaxSlots - 1) - 0 + 1 = MaxSlots
        BY BookAssumption
    <3>2. IsFiniteSet(0 .. (MaxSlots - 1))
          /\ Cardinality(0 .. (MaxSlots - 1)) = IF 0 > MaxSlots - 1 THEN 0 ELSE (MaxSlots - 1) - 0 + 1
        BY <3>1, FS_Interval
    <3> QED BY <1>1, <3>1, <3>2
  <2>2. LiveKeys \subseteq Keys
      BY DEF LiveKeys
  <2> QED BY <1>2, <2>1, <2>2, FS_Subset
<1>6. \A k \in Keys : Live(k) <=> k \in LiveKeys
    BY DEF LiveKeys
<1> HIDE DEF LiveKeys
<1>7. old \in [1 .. n -> Keys] /\ \A i \in 1 .. n : Live(old[i])
  <2>1. \A i \in 1 .. n : old[i] \in LiveKeys /\ old[i] \in Keys
      BY <1>1, <1>3, <1>4
  <2> QED BY <1>3, <1>4, <1>6, <2>1
<1>8. \A i, j \in 1 .. n : old[i] = old[j] => i = j
  <2> SUFFICES ASSUME NEW i \in 1 .. n, NEW j \in 1 .. n, old[i] = old[j], i # j PROVE FALSE
      OBVIOUS
  <2>1. old[i] \in Int /\ old[j] \in Int
      BY <1>1, <1>7
  <2>2. \A a, b \in 1 .. n : a < b => old[a] < old[b]
      BY <1>3, <1>4 DEF Ascending
  <2>3. i < j \/ j < i
      BY <1>3
  <2> QED BY <2>1, <2>2, <2>3
<1>9. \A k \in Keys : Live(k) => \E i \in 1 .. n : old[i] = k
    BY <1>3, <1>4, <1>6 DEF Ascending
<1>10. Len(old) = n
    BY <1>3, <1>7
<1> QED BY <1>2, <1>3, <1>4, <1>5, <1>7, <1>8, <1>9, <1>10 DEF Reinserts

\* RestartFromSnapshot in these terms.
LEMMA RestartReinserts ==
    ASSUME BookTypeOK, RestartFromSnapshot
    PROVE  \E n, old : Reinserted(n, old)
<1>1. PICK n : Reinserts(n, SnapshotKeys) /\ Len(SnapshotKeys) = n
    BY SnapshotLists
<1>2. PICK old : old = SnapshotKeys
    OBVIOUS
<1>3. Reinserted(n, old)
    BY <1>1, <1>2 DEF RestartFromSnapshot, Reinserted
<1> QED BY <1>3

\* What is in the slots afterwards.
LEMMA SlotsAfter ==
    ASSUME BookTypeOK, NEW n, NEW old, Reinserted(n, old)
    PROVE  /\ n \in Nat /\ n <= MaxSlots /\ 0 .. (n - 1) \subseteq Keys
           /\ \A k \in 0 .. (n - 1) : /\ k + 1 \in 1 .. n /\ old[k + 1] \in Keys
                                      /\ orders'[k] = orders[old[k + 1]]
                                      /\ orders'[k] \in Order /\ orders'[k] # Nil
                                      /\ orders'[k].qty_rem \in Nat /\ orders'[k].qty_rem > 0
           /\ \A k \in Keys : k \notin 0 .. (n - 1) => orders'[k] = Nil
           /\ \A k \in Keys : Live(k)' <=> k \in 0 .. (n - 1)
           /\ orders' \in [Keys -> Order \cup {Nil}]
<1>1. /\ n \in Nat /\ n <= MaxSlots /\ old \in [1 .. n -> Keys] /\ \A i \in 1 .. n : Live(old[i])
    BY DEF Reinserted, Reinserts
<1>2. MaxSlots \in Nat /\ Keys = 0 .. (MaxSlots - 1)
    BY BookAssumption DEF Keys
<1>3. 0 .. (n - 1) \subseteq Keys
    BY <1>1, <1>2
<1>4. \A k \in Keys : orders'[k] = IF k < n THEN orders[old[k + 1]] ELSE Nil
    BY DEF Reinserted
<1>5. ASSUME NEW k \in 0 .. (n - 1)
      PROVE  /\ k + 1 \in 1 .. n /\ old[k + 1] \in Keys
             /\ orders'[k] = orders[old[k + 1]]
             /\ orders'[k] \in Order /\ orders'[k] # Nil
             /\ orders'[k].qty_rem \in Nat /\ orders'[k].qty_rem > 0
  <2>1. k + 1 \in 1 .. n /\ k < n /\ k \in Keys
      BY <1>1, <1>3
  <2>2. old[k + 1] \in Keys /\ Live(old[k + 1])
      BY <1>1, <2>1
  <2>3. orders'[k] = orders[old[k + 1]]
      BY <1>4, <2>1
  <2>4. orders[old[k + 1]] \in Order /\ orders[old[k + 1]] # Nil /\ orders[old[k + 1]].qty_rem > 0
      BY <2>2 DEF BookTypeOK, Live
  <2>5. orders[old[k + 1]].qty_rem \in Nat
      BY <2>4, BookAssumption DEF Order
  <2> QED BY <2>1, <2>2, <2>3, <2>4, <2>5
<1>6. \A k \in Keys : k \notin 0 .. (n - 1) => orders'[k] = Nil
  <2> SUFFICES ASSUME NEW k \in Keys, k \notin 0 .. (n - 1) PROVE orders'[k] = Nil
      OBVIOUS
  <2>1. ~(k < n)
      BY <1>1, <1>2
  <2> QED BY <1>4, <2>1
<1>7. \A k \in Keys : Live(k)' <=> k \in 0 .. (n - 1)
    BY <1>5, <1>6 DEF Live
<1>8. orders' \in [Keys -> Order \cup {Nil}]
  <2>1. \A k \in Keys : orders'[k] \in Order \cup {Nil}
      BY <1>5, <1>6
  <2>2. orders' = [k \in Keys |-> orders'[k]]
      BY DEF Reinserted
  <2> QED BY <2>1, <2>2
<1> QED BY <1>1, <1>3, <1>5, <1>6, <1>7, <1>8

\* q lists the new keys of the orders at a price of a side, in the order of their old slots.
Rebuilds(n, old, s, p, m, q) ==
    /\ m \in Nat /\ q \in [1 .. m -> 0 .. (n - 1)]
    /\ \A i \in 1 .. m : orders'[q[i]].side = s /\ orders'[q[i]].price = p
    /\ \A i, j \in 1 .. m : q[i] = q[j] => i = j
    /\ \A k \in 0 .. (n - 1) :
          orders'[k].side = s /\ orders'[k].price = p => \E i \in 1 .. m : q[i] = k
    /\ book'[s][p] = [queue |-> q, total_qty |-> SumFunction([i \in 1 .. m |-> orders'[q[i]].qty_rem])]

\* Every level is rebuilt like that.
LEMMA LevelsRebuilt ==
    ASSUME BookTypeOK, NEW n, NEW old, Reinserted(n, old), NEW s \in Sides, NEW p \in Prices
    PROVE  \E m, q : Rebuilds(n, old, s, p, m, q)
<1>1. /\ n \in Nat
      /\ \A k \in 0 .. (n - 1) : orders'[k] = orders[old[k + 1]]
    BY SlotsAfter
<1>2. PICK P : P = Waiters(old, s, p)
    OBVIOUS
<1>3. /\ P \in SUBSET (0 .. (n - 1))
      /\ \A k \in 0 .. (n - 1) : k \in P <=> orders'[k].side = s /\ orders'[k].price = p
  <2>1. P = {k \in 0 .. (n - 1) : orders[old[k + 1]].side = s /\ orders[old[k + 1]].price = p}
      BY <1>2 DEF Waiters, Reinserted
  <2> QED BY <1>1, <2>1
<1>4. PICK m \in Nat : InOrder(P) \in [1 .. m -> P] /\ Ascending(InOrder(P), P)
    BY <1>1, <1>3, InOrderKeys
<1>5. PICK q : q = InOrder(P)
    OBVIOUS
<1>6. /\ q \in [1 .. m -> P] /\ \A i \in 1 .. m : q[i] \in P
      /\ \A x \in P : \E i \in 1 .. m : q[i] = x
      /\ \A i, j \in 1 .. m : i < j => q[i] < q[j]
    BY <1>4, <1>5 DEF Ascending
<1>7. \A i \in 1 .. m : /\ q[i] \in 0 .. (n - 1) /\ q[i] \in Int
                        /\ orders'[q[i]].side = s /\ orders'[q[i]].price = p
                        /\ orders'[q[i]] = orders[old[q[i] + 1]]
  <2> TAKE i \in 1 .. m
  <2>1. q[i] \in P
      BY <1>6
  <2>2. q[i] \in 0 .. (n - 1)
      BY <1>3, <2>1
  <2> QED BY <1>1, <1>3, <2>1, <2>2
<1>8. q \in [1 .. m -> 0 .. (n - 1)]
    BY <1>6, <1>7
<1>9. \A i, j \in 1 .. m : q[i] = q[j] => i = j
  <2> SUFFICES ASSUME NEW i \in 1 .. m, NEW j \in 1 .. m, q[i] = q[j], i # j PROVE FALSE
      OBVIOUS
  <2>1. i < j \/ j < i
      OBVIOUS
  <2> QED BY <1>6, <1>7, <2>1
<1>10. book'[s][p] = RebuiltLevel(old, s, p)
    BY DEF Reinserted
<1>11. Len(q) = m
    BY <1>8
<1>12. [i \in 1 .. m |-> orders[old[q[i] + 1]].qty_rem] = [i \in 1 .. m |-> orders'[q[i]].qty_rem]
    BY <1>7
<1>13. book'[s][p] = [queue |-> q, total_qty |-> SumFunction([i \in 1 .. m |-> orders'[q[i]].qty_rem])]
    BY <1>2, <1>5, <1>10, <1>11, <1>12 DEF RebuiltLevel
<1>14. \A k \in 0 .. (n - 1) :
          orders'[k].side = s /\ orders'[k].price = p => \E i \in 1 .. m : q[i] = k
    BY <1>3, <1>6
<1>15. Rebuilds(n, old, s, p, m, q)
    BY <1>7, <1>8, <1>9, <1>13, <1>14 DEF Rebuilds
<1> QED BY <1>15

\* Its queue is a list of keys, and its total what waits at its price.
LEMMA LevelRebuilt ==
    ASSUME BookTypeOK, NEW n, NEW old, Reinserted(n, old), NEW s \in Sides, NEW p \in Prices,
           NEW m, NEW q, Rebuilds(n, old, s, p, m, q)
    PROVE  /\ q \in Seq(Keys) /\ Len(q) = m /\ book'[s][p].queue = q
           /\ IsSum(Waiting(s, p)', book'[s][p].total_qty)
           /\ book'[s][p].total_qty \in Nat
           /\ book'[s][p] \in Level
           /\ book'[s][p] # NoLevel => book'[s][p].total_qty > 0
<1>1. /\ m \in Nat /\ q \in [1 .. m -> 0 .. (n - 1)]
      /\ \A i \in 1 .. m : orders'[q[i]].side = s /\ orders'[q[i]].price = p
      /\ \A i, j \in 1 .. m : q[i] = q[j] => i = j
      /\ \A k \in 0 .. (n - 1) :
            orders'[k].side = s /\ orders'[k].price = p => \E i \in 1 .. m : q[i] = k
      /\ book'[s][p] = [queue |-> q, total_qty |-> SumFunction([i \in 1 .. m |-> orders'[q[i]].qty_rem])]
    BY DEF Rebuilds
<1>2. /\ n \in Nat /\ 0 .. (n - 1) \subseteq Keys
      /\ \A k \in 0 .. (n - 1) : orders'[k].qty_rem \in Nat /\ orders'[k].qty_rem > 0
      /\ \A k \in Keys : Live(k)' <=> k \in 0 .. (n - 1)
    BY SlotsAfter
<1>3. q \in [1 .. m -> Keys] /\ \A i \in 1 .. m : q[i] \in Keys /\ q[i] \in 0 .. (n - 1)
    BY <1>1, <1>2
<1>4. q \in Seq(Keys) /\ Len(q) = m
    BY <1>1, <1>3
<1>5. PICK v : v = [i \in 1 .. m |-> orders'[q[i]].qty_rem]
    OBVIOUS
<1>6. /\ v \in [1 .. m -> Int] /\ \A i \in 1 .. m : v[i] = orders'[q[i]].qty_rem /\ v[i] \in Nat /\ v[i] > 0
    BY <1>1, <1>2, <1>3, <1>5
<1>7. PICK w : w = Waiting(s, p)'
    OBVIOUS
<1>8. \A k \in Keys : w[k] = IF k \in 0 .. (n - 1) /\ orders'[k].side = s /\ orders'[k].price = p
                             THEN orders'[k].qty_rem ELSE 0
    BY <1>2, <1>7 DEF Waiting
<1>9. w \in [Keys -> Nat] /\ w \in [Keys -> Int]
  <2>1. w = [k \in Keys |-> w[k]]
      BY <1>7 DEF Waiting
  <2>2. \A k \in Keys : w[k] \in Nat
      BY <1>2, <1>8
  <2> QED BY <2>1, <2>2
<1>10. IsFiniteSet(1 .. m) /\ IsFiniteSet(Keys)
    BY <1>1, FS_Interval, KeysFinite
<1>11. \A i \in 1 .. m : v[i] = w[q[i]]
    BY <1>1, <1>3, <1>6, <1>8
<1>12. Through(w, v, q, 1 .. m, Keys)
    BY <1>1, <1>3, <1>6, <1>9, <1>10, <1>11 DEF Through
<1>13. \A z \in Keys : (\A i \in 1 .. m : q[i] # z) => w[z] = 0
    BY <1>1, <1>8
<1>14. SumFunction(v) = SumFunction(w)
  <2>1. PICK S : S = 1 .. m
      OBVIOUS
  <2>2. Through(w, v, q, S, Keys) /\ \A z \in Keys : (\A i \in S : q[i] # z) => w[z] = 0
      BY <1>12, <1>13, <2>1
  <2> QED BY <2>2, SumImage
<1>15. book'[s][p].queue = q /\ book'[s][p].total_qty = SumFunction(w)
    BY <1>1, <1>5, <1>14
<1>16. SumFunction(w) \in Nat /\ \A k \in Keys : w[k] <= SumFunction(w)
    BY <1>9, KeysFinite, SumAtLeast
<1>17. book'[s][p] # NoLevel => book'[s][p].total_qty > 0
  <2>1. CASE m = 0
    <3>1. q = <<>>
        BY <1>4, <2>1
    <3>2. \A z \in Keys : w[z] = 0
      <4>1. 1 .. m = {}
          BY <2>1
      <4> QED BY <1>13, <4>1
    <3>3. SumFunction(w) = 0
        BY <1>9, <3>2, KeysFinite, SumZero
    <3>4. book'[s][p] = NoLevel
        BY <1>1, <1>5, <1>14, <3>1, <3>3 DEF NoLevel
    <3> QED BY <3>4
  <2>2. CASE m # 0
    <3>1. 1 \in 1 .. m
        BY <1>1, <2>2
    <3>2. q[1] \in Keys /\ w[q[1]] = v[1] /\ v[1] \in Nat /\ v[1] > 0
        BY <1>3, <1>6, <1>11, <3>1
    <3> QED BY <1>15, <1>16, <3>2
  <2> QED BY <2>1, <2>2
<1>18. book'[s][p] \in Level
    BY <1>1, <1>4, <1>5, <1>14, <1>16 DEF Level
<1>19. IsSum(Waiting(s, p)', book'[s][p].total_qty)
    BY <1>7, <1>15 DEF IsSum
<1> QED BY <1>4, <1>15, <1>16, <1>17, <1>18, <1>19

\* The index leads to the last order of an id.
LEMMA IndexRebuilt ==
    ASSUME BookTypeOK, NEW n, NEW old, Reinserted(n, old), NEW id \in Ids
    PROVE  /\ index'[id] # Nil => index'[id] \in 0 .. (n - 1) /\ orders'[index'[id]].order_id = id
           /\ \A k \in 0 .. (n - 1) : orders'[k].order_id = id => index'[id] # Nil
<1>1. /\ n \in Nat /\ 0 .. (n - 1) \subseteq Keys
      /\ \A k \in 0 .. (n - 1) : orders'[k] = orders[old[k + 1]]
    BY SlotsAfter
<1>2. PICK S : S = Indexing(old, id)
    OBVIOUS
<1>3. S = {k \in 0 .. (n - 1) : orders[old[k + 1]].order_id = id}
    BY <1>2 DEF Indexing, Reinserted
<1>4. S \in SUBSET (0 .. (n - 1)) /\ \A k \in 0 .. (n - 1) : k \in S <=> orders'[k].order_id = id
    BY <1>1, <1>3
<1>5. index'[id] = IF S = {} THEN Nil ELSE Max(S)
    BY <1>2 DEF Reinserted
<1>6. S # {} => Max(S) \in S
    BY <1>1, <1>4, MaxKey
<1>7. Nil \notin 0 .. (n - 1)
    BY <1>1, BookAssumption
<1> QED BY <1>4, <1>5, <1>6, <1>7

\* The book of a restarted engine is well typed.
LEMMA RestartType ==
    ASSUME BookTypeOK, NEW n, NEW old, Reinserted(n, old)
    PROVE  BookTypeOK'
<1>1. n \in Nat /\ n <= MaxSlots /\ 0 .. (n - 1) \subseteq Keys /\ orders' \in [Keys -> Order \cup {Nil}]
    BY SlotsAfter
<1>2. free' \in Seq(Keys)
  <2>1. MaxSlots \in Nat /\ MaxSlots - n \in Nat /\ Keys = 0 .. (MaxSlots - 1)
      BY <1>1, BookAssumption DEF Keys
  <2>2. PICK c \in Nat : c = MaxSlots - n
      BY <2>1
  <2>3. \A i \in 1 .. c : n + i - 1 \in Keys
      BY <1>1, <2>1, <2>2
  <2>4. free' = [i \in 1 .. c |-> n + i - 1]
      BY <2>2 DEF Reinserted
  <2> QED BY <2>2, <2>3, <2>4
<1>3. index' \in [Ids -> Keys \cup {Nil}]
  <2>1. \A id \in Ids : index'[id] \in Keys \cup {Nil}
      BY <1>1, IndexRebuilt
  <2>2. index' = [id \in Ids |-> index'[id]]
      BY DEF Reinserted
  <2> QED BY <2>1, <2>2
<1>4. book' \in [Sides -> [Prices -> Level]]
  <2>1. \A s \in Sides, p \in Prices : book'[s][p] \in Level
      BY LevelsRebuilt, LevelRebuilt
  <2>2. /\ book' = [s \in Sides |-> book'[s]]
        /\ \A s \in Sides : book'[s] = [p \in Prices |-> book'[s][p]]
      BY DEF Reinserted
  <2>3. \A s \in Sides : book'[s] \in [Prices -> Level]
      BY <2>1, <2>2
  <2> QED BY <2>2, <2>3
<1> QED BY <1>1, <1>2, <1>3, <1>4 DEF BookTypeOK

\* Slab, free list, queues, totals and index of a restarted engine agree.
LEMMA RestartInv ==
    ASSUME BookTypeOK, NEW n, NEW old, Reinserted(n, old)
    PROVE  BookInv'
<1>1. /\ n \in Nat /\ n <= MaxSlots /\ 0 .. (n - 1) \subseteq Keys
      /\ \A k \in 0 .. (n - 1) : orders'[k] \in Order /\ orders'[k] # Nil
      /\ \A k \in Keys : k \notin 0 .. (n - 1) => orders'[k] = Nil
      /\ \A k \in Keys : Live(k)' <=> k \in 0 .. (n - 1)
    BY SlotsAfter
<1>2. Keys = 0 .. (MaxSlots - 1) /\ MaxSlots \in Nat
    BY BookAssumption DEF Keys
<1>3. FreeListExact'
  <2>1. PICK f : f = free'
      OBVIOUS
  <2>2. f = [i \in 1 .. (MaxSlots - n) |-> n + i - 1] /\ MaxSlots - n \in Nat
      BY <1>1, <1>2, <2>1 DEF Reinserted
  <2>3. Len(f) = MaxSlots - n /\ \A i \in 1 .. Len(f) : f[i] = n + i - 1
      BY <2>2
  <2>4. \A i, j \in 1 .. Len(f) : f[i] = f[j] => i = j
      BY <1>1, <2>2, <2>3
  <2>5. ASSUME NEW k \in Keys, orders'[k] = Nil PROVE \E i \in 1 .. Len(f) : f[i] = k
    <3>1. k \notin 0 .. (n - 1) /\ k \in Int
        BY <1>1, <1>2, <2>5
    <3>2. (k - n) + 1 \in 1 .. Len(f)
        BY <1>1, <1>2, <2>2, <2>3, <3>1
    <3>3. f[(k - n) + 1] = k
        BY <1>1, <2>3, <3>1, <3>2
    <3> QED BY <3>2, <3>3
  <2>6. ASSUME NEW k \in Keys, NEW i \in 1 .. Len(f), f[i] = k PROVE orders'[k] = Nil
    <3>1. k = n + i - 1 /\ i \in Nat /\ i >= 1
        BY <2>2, <2>3, <2>6
    <3>2. k \notin 0 .. (n - 1)
        BY <1>1, <3>1
    <3> QED BY <1>1, <3>2
  <2> QED BY <2>1, <2>4, <2>5, <2>6 DEF FreeListExact, InQueue
<1>4. ASSUME NEW s \in Sides, NEW p \in Prices
      PROVE  /\ \A i \in 1 .. Len(book'[s][p].queue) :
                    LET k == book'[s][p].queue[i]
                    IN  orders'[k] # Nil /\ orders'[k].side = s /\ orders'[k].price = p
             /\ \A i, j \in 1 .. Len(book'[s][p].queue) :
                    book'[s][p].queue[i] = book'[s][p].queue[j] => i = j
             /\ \A k \in 0 .. (n - 1) : orders'[k].side = s /\ orders'[k].price = p =>
                    \E i \in 1 .. Len(book'[s][p].queue) : book'[s][p].queue[i] = k
             /\ IsSum(Waiting(s, p)', book'[s][p].total_qty)
             /\ book'[s][p] # NoLevel => book'[s][p].total_qty > 0
  <2>1. PICK m, q : Rebuilds(n, old, s, p, m, q)
      BY LevelsRebuilt
  <2>2. /\ Len(q) = m /\ book'[s][p].queue = q
        /\ IsSum(Waiting(s, p)', book'[s][p].total_qty)
        /\ book'[s][p] # NoLevel => book'[s][p].total_qty > 0
      BY <2>1, LevelRebuilt
  <2>3. /\ q \in [1 .. m -> 0 .. (n - 1)]
        /\ \A i \in 1 .. m : orders'[q[i]].side = s /\ orders'[q[i]].price = p
        /\ \A i, j \in 1 .. m : q[i] = q[j] => i = j
        /\ \A k \in 0 .. (n - 1) :
              orders'[k].side = s /\ orders'[k].price = p => \E i \in 1 .. m : q[i] = k
      BY <2>1 DEF Rebuilds
  <2>4. \A i \in 1 .. m : q[i] \in 0 .. (n - 1) /\ orders'[q[i]] # Nil
      BY <1>1, <2>3
  <2> QED BY <2>2, <2>3, <2>4
<1>5. QueuesExact'
  <2>1. QueuesSound'
      BY <1>4 DEF QueuesSound
  <2>2. ASSUME NEW k \in Keys, Live(k)'
        PROVE  InQueue(k, book[orders[k].side][orders[k].price].queue)'
    <3>1. k \in 0 .. (n - 1)
        BY <1>1, <2>2
    <3>2. orders'[k].side \in Sides /\ orders'[k].price \in Prices
        BY <1>1, <3>1 DEF Order
    <3> QED BY <1>4, <3>1, <3>2 DEF InQueue
  <2> QED BY <2>1, <2>2 DEF QueuesExact
<1>6. TotalsExact'
    BY <1>4 DEF TotalsExact
<1>7. LevelsNonempty'
    BY <1>4 DEF LevelsNonempty, HasLevel
<1>8. IndexSound'
  <2> SUFFICES ASSUME NEW id \in Ids, index'[id] # Nil
               PROVE  Live(index[id])' /\ orders'[index'[id]].order_id = id
      BY DEF IndexSound
  <2>1. index'[id] \in 0 .. (n - 1) /\ orders'[index'[id]].order_id = id
      BY IndexRebuilt
  <2>2. PICK k : k = index'[id]
      OBVIOUS
  <2>3. k \in Keys /\ Live(k)'
      BY <1>1, <2>1, <2>2
  <2>4. Live(index[id])'
      BY <2>2, <2>3 DEF Live
  <2> QED BY <2>1, <2>4
<1> QED BY <1>3, <1>5, <1>6, <1>7, <1>8 DEF BookInv

\* Everything but the book stays as it was.
LEMMA RestartTypeStep ==
    ASSUME TypeInv, RestartFromSnapshot
    PROVE  TypeInv'
<1>1. BookTypeOK
    BY DEF TypeInv, TypeOK
<1>2. PICK n, old : Reinserted(n, old)
    BY <1>1, RestartReinserts
<1>3. BookTypeOK'
    BY <1>1, <1>2, RestartType
<1>4. UNCHANGED <<stage, taker, rem, replaced, positions, limits, events>>
    BY DEF RestartFromSnapshot, engineVars
<1> QED BY <1>3, <1>4 DEF TypeInv, TypeOK, HasTaker

\* A restart brings back no level that had not been there.
LEMMA RestartOpensNone ==
    ASSUME BookTypeOK, BookInv, RestartFromSnapshot
    PROVE  NoNewLevel
<1>1. PICK n, old : Reinserted(n, old)
    BY RestartReinserts
<1> SUFFICES ASSUME NEW s \in Sides, NEW p \in Prices, HasLevel(s, p)'
             PROVE  HasLevel(s, p)
    BY DEF NoNewLevel
<1>2. BookInv' /\ BookTypeOK'
    BY <1>1, RestartInv, RestartType
<1>3. PICK m, q : Rebuilds(n, old, s, p, m, q)
    BY <1>1, LevelsRebuilt
<1>4. IsSum(Waiting(s, p)', book'[s][p].total_qty) /\ book'[s][p].total_qty > 0
    BY <1>2 DEF BookInv, TotalsExact, LevelsNonempty
<1>5. PICK w : w = Waiting(s, p)'
    OBVIOUS
<1>6. \E k \in Keys : w[k] # 0
  <2>1. w \in [Keys -> Nat]
      BY <1>2, <1>5, WaitingTypePrime
  <2> SUFFICES ASSUME \A k \in Keys : w[k] = 0 PROVE FALSE
      OBVIOUS
  <2>2. w \in [Keys -> Int]
      BY <2>1
  <2>3. SumFunction(w) = 0
      BY <2>2, KeysFinite, SumZero
  <2> QED BY <1>4, <1>5, <2>3 DEF IsSum
<1>7. PICK k \in Keys : Live(k)' /\ orders'[k].side = s /\ orders'[k].price = p
    BY <1>5, <1>6 DEF Waiting
<1>8. k \in 0 .. (n - 1) /\ old[k + 1] \in Keys /\ orders'[k] = orders[old[k + 1]] /\ k + 1 \in 1 .. n
    BY <1>1, <1>7, SlotsAfter
<1>9. PICK j \in Keys : j = old[k + 1] /\ Live(j) /\ orders[j].side = s /\ orders[j].price = p
    BY <1>1, <1>7, <1>8 DEF Reinserted, Reinserts
<1>10. InQueue(j, book[s][p].queue)
    BY <1>9 DEF BookInv, QueuesExact
<1> QED BY <1>10 DEF HasLevel, NoLevel, InQueue

\* A restart finds and leaves the engine idle.
LEMMA RestartIdle ==
    ASSUME RestartFromSnapshot
    PROVE  stage = "idle" /\ UNCHANGED <<stage, taker, rem, replaced, positions, limits, events>>
BY DEF RestartFromSnapshot, engineVars

\* What the engine keeps invariant, with restarts from a snapshot among its steps.
RestartableInv == TypeInv /\ BookInv /\ Uncrossed /\ RiskInv /\ PositionsBalance

\* It holds initially.
LEMMA RestartableInit == Init => RestartableInv
<1> SUFFICES ASSUME Init PROVE RestartableInv
    OBVIOUS
<1>1. TypeInv /\ BookInv
    BY TypeInit, BookInvInit
<1>2. Uncrossed
    BY DEF Init, BookInit, Uncrossed, HasLevel, Sides
<1>3. RiskInv
    BY DEF Init, RiskInv
<1>4. PositionsBalance
  <2>1. positions \in [Accounts -> Int] /\ \A a \in Accounts : positions[a] = 0
      BY DEF Init
  <2> QED BY <2>1, EngineAssumption, SumZero DEF PositionsBalance
<1> QED BY <1>1, <1>2, <1>3, <1>4 DEF RestartableInv

\* Commands and restarts keep it.
LEMMA RestartableStep ==
    ASSUME RestartableInv, [RestartNext]_vars
    PROVE  RestartableInv'
<1>0. TypeInv /\ BookInv /\ Uncrossed /\ RiskInv /\ PositionsBalance /\ BookTypeOK
    BY DEF RestartableInv, TypeInv, TypeOK
<1>1. CASE [Next]_vars
  <2>1. TypeInv' /\ BookInv' /\ RiskInv' /\ PositionsBalance'
      BY <1>0, <1>1, TypeStep, BookChanges, BookInvStep, RiskStep, BalanceStep
  <2>2. Uncrossed'
      BY <1>0, <1>1, BookChanges, UncrossedStep
  <2> QED BY <2>1, <2>2 DEF RestartableInv
<1>2. CASE RestartFromSnapshot
  <2>1. TypeInv'
      BY <1>0, <1>2, RestartTypeStep
  <2>2. BookInv'
      BY <1>0, <1>2, RestartReinserts, RestartInv
  <2>3. NoNewLevel
      BY <1>0, <1>2, RestartOpensNone
  <2>4. Uncrossed'
    <3>1. \A p \in Prices : /\ HasLevel("Buy", p)' => HasLevel("Buy", p)
                            /\ HasLevel("Sell", p)' => HasLevel("Sell", p)
        BY <2>3 DEF NoNewLevel, Sides
    <3> QED BY <1>0, <3>1 DEF Uncrossed
  <2>5. RiskInv' /\ PositionsBalance'
      BY <1>0, <1>2, RestartIdle DEF RiskInv, PositionsBalance
  <2> QED BY <2>1, <2>2, <2>4, <2>5 DEF RestartableInv
<1> QED BY <1>1, <1>2 DEF RestartNext

\* An engine that restores its snapshots any number of times between commands keeps what an
\* engine without restarts keeps: slab, free list, queues, totals and index agree, bids stay
\* below asks, positions sum to zero and no taker exceeds its limits.
THEOREM RestartsKeepInvariants ==
    RestartSpec => [](/\ TypeOK /\ FreeListExact /\ QueuesExact /\ LevelTotals /\ IndexSound
                      /\ Uncrossed /\ PositionsBalance /\ TakerWithinLimits)
<1>1. Init => RestartableInv
    BY RestartableInit
<1>2. RestartableInv /\ [RestartNext]_vars => RestartableInv'
    BY RestartableStep
<1>3. RestartableInv => /\ TypeOK /\ FreeListExact /\ QueuesExact /\ LevelTotals /\ IndexSound
                        /\ Uncrossed /\ PositionsBalance /\ TakerWithinLimits
  <2> SUFFICES ASSUME RestartableInv
               PROVE  /\ TypeOK /\ FreeListExact /\ QueuesExact /\ LevelTotals /\ IndexSound
                      /\ Uncrossed /\ PositionsBalance /\ TakerWithinLimits
      OBVIOUS
  <2>1. TypeInv /\ BookInv /\ Uncrossed /\ RiskInv /\ PositionsBalance
      BY DEF RestartableInv
  <2>2. FreeListExact /\ QueuesExact /\ LevelTotals /\ IndexSound
      BY <2>1 DEF BookInv, TotalsExact, LevelsNonempty, LevelTotals, IsSum
  <2>3. TakerWithinLimits
      BY <2>1, RiskInvMeans
  <2> QED BY <2>1, <2>2, <2>3 DEF TypeInv
<1> QED BY <1>1, <1>2, <1>3, PTL DEF RestartSpec

\* A restart neither loses a live order from the index nor finds two of one id.
LEMMA RestartIndex ==
    ASSUME TypeInv, BookInv, Indexed, RestartFromSnapshot
    PROVE  Indexed'
<1>0. BookTypeOK
    BY DEF TypeInv, TypeOK
<1>1. PICK n, old : Reinserted(n, old)
    BY <1>0, RestartReinserts
<1> SUFFICES ASSUME NEW k \in Keys, Live(k)'
             PROVE  index'[orders'[k].order_id] = k
    BY DEF Indexed
<1>2. /\ \A j \in 0 .. (n - 1) : /\ j + 1 \in 1 .. n /\ old[j + 1] \in Keys /\ j \in Nat
                                 /\ orders'[j] = orders[old[j + 1]] /\ orders'[j] \in Order
      /\ k \in 0 .. (n - 1)
    BY <1>0, <1>1, SlotsAfter
<1>3. PICK id \in Ids : id = orders'[k].order_id
    BY <1>2 DEF Order
<1>4. PICK j : j = index'[id]
    OBVIOUS
<1>5. j \in 0 .. (n - 1) /\ orders'[j].order_id = id
    BY <1>0, <1>1, <1>2, <1>3, <1>4, IndexRebuilt
<1>6. Live(old[k + 1]) /\ Live(old[j + 1])
    BY <1>1, <1>2, <1>5 DEF Reinserted, Reinserts
<1>7. index[id] = old[k + 1] /\ index[id] = old[j + 1]
    BY <1>2, <1>3, <1>5, <1>6 DEF Indexed
<1>8. k + 1 = j + 1
  <2>1. \A i, l \in 1 .. n : old[i] = old[l] => i = l
      BY <1>1 DEF Reinserted, Reinserts
  <2>2. k + 1 \in 1 .. n /\ j + 1 \in 1 .. n /\ old[k + 1] = old[j + 1]
      BY <1>2, <1>5, <1>7
  <2> QED BY <2>1, <2>2
<1>9. k = j
    BY <1>2, <1>5, <1>8
<1> QED BY <1>3, <1>4, <1>9

\* With unique ids the index finds exactly the live orders, also after restarts, though
\* restore_from_snapshot rebuilds it from the orders alone.
THEOREM RestartsKeepIndex == UniqueIds => (RestartSpec => []IndexExact)
<1> SUFFICES ASSUME UniqueIds PROVE RestartSpec => []IndexExact
    OBVIOUS
<1> DEFINE I == TypeInv /\ BookInv /\ Indexed /\ TakerUnindexed
<1>1. Init => I
  <2> SUFFICES ASSUME Init PROVE Indexed /\ TakerUnindexed
      BY TypeInit, BookInvInit
  <2>1. \A k \in Keys : ~Live(k)
      BY DEF Init, BookInit, Live
  <2> QED BY <2>1 DEF Init, Indexed, TakerUnindexed
<1>2. I /\ [RestartNext]_vars => I'
  <2> SUFFICES ASSUME I, [RestartNext]_vars PROVE I'
      OBVIOUS
  <2>1. CASE [Next]_vars
      BY <2>1, TypeStep, BookChanges, BookInvStep, IndexStep DEF TypeInv, TypeOK
  <2>2. CASE RestartFromSnapshot
    <3>1. TypeInv'
        BY <2>2, RestartTypeStep
    <3>2. BookInv'
        BY <2>2, RestartReinserts, RestartInv DEF TypeInv, TypeOK
    <3>3. Indexed'
        BY <2>2, RestartIndex
    <3>4. TakerUnindexed'
        BY <2>2, RestartIdle DEF TakerUnindexed
    <3> QED BY <3>1, <3>2, <3>3, <3>4
  <2> QED BY <2>1, <2>2 DEF RestartNext
<1>3. I => IndexExact
    BY DEF BookInv, Indexed, IndexExact
<1> QED BY <1>1, <1>2, <1>3, PTL DEF RestartSpec

\* A step from idle to idle is a restart.
LEMMA IdleStep ==
    ASSUME [RestartNext]_vars, stage = "idle", stage' = "idle"
    PROVE  RestartFromSnapshot \/ UNCHANGED vars
BY DEF RestartNext, Next, NewOrder, Cancel, Replace, SetRiskLimits, QueryAccount, RejectNew, AcceptNew,
       MatchStep, FinishNew, SendEvents, Answer

\* A restart frees every slot that a tombstone holds, and no other: each live order is in the
\* slab again, once.
THEOREM RestartsReclaim == RestartSpec => RestartReclaims
<1>1. Init => TypeInv
    BY TypeInit
<1>2. TypeInv /\ [RestartNext]_vars => TypeInv'
    BY TypeStep, RestartTypeStep DEF RestartNext
<1>3. TypeInv /\ [RestartNext]_vars =>
        [stage = "idle" /\ stage' = "idle" =>
            /\ Cardinality(LiveKeys') = Cardinality(LiveKeys)
            /\ Len(free') = MaxSlots - Cardinality(LiveKeys)]_vars
  <2> SUFFICES ASSUME TypeInv, RestartFromSnapshot
               PROVE  /\ Cardinality(LiveKeys') = Cardinality(LiveKeys)
                      /\ Len(free') = MaxSlots - Cardinality(LiveKeys)
      BY IdleStep
  <2>1. BookTypeOK
      BY DEF TypeInv, TypeOK
  <2>2. PICK n, old : Reinserted(n, old)
      BY <2>1, RestartReinserts
  <2>3. /\ n \in Nat /\ n <= MaxSlots /\ 0 .. (n - 1) \subseteq Keys
        /\ \A k \in Keys : Live(k)' <=> k \in 0 .. (n - 1)
      BY <2>1, <2>2, SlotsAfter
  <2>4. n = Cardinality(LiveKeys)
      BY <2>2 DEF Reinserted, Reinserts
  <2>5. LiveKeys' = 0 .. (n - 1)
      BY <2>3 DEF LiveKeys
  <2>6. Cardinality(0 .. (n - 1)) = n
    <3>1. 0 \in Int /\ n - 1 \in Int /\ (n - 1) - 0 + 1 = n /\ (0 > n - 1 => n = 0)
        BY <2>3
    <3>2. Cardinality(0 .. (n - 1)) = IF 0 > n - 1 THEN 0 ELSE (n - 1) - 0 + 1
        BY <3>1, FS_Interval
    <3> QED BY <3>1, <3>2
  <2>7. Len(free') = MaxSlots - n
    <3>1. PICK c \in Nat : c = MaxSlots - n
      <4>1. MaxSlots \in Nat
          BY BookAssumption
      <4> QED BY <2>3, <4>1
    <3>2. free' = [i \in 1 .. c |-> n + i - 1]
        BY <2>2, <3>1 DEF Reinserted
    <3> QED BY <3>1, <3>2
  <2> QED BY <2>4, <2>5, <2>6, <2>7
<1> QED BY <1>1, <1>2, <1>3, PTL DEF RestartSpec, RestartReclaims
=============================================================================
