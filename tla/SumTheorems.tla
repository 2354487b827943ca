---------------------------- MODULE SumTheorems ----------------------------
(***************************************************************************)
(* Facts about SumFunction, the sum of the values of an integer function   *)
(* on a finite domain: reservations of an account, positions of all        *)
(* accounts, quantities of a price level.  The recursion of the fold is    *)
(* shown to be well defined, and each fact follows by induction on the     *)
(* size of a subset of the domain.  Induction is over sets of numbers:     *)
(* a theorem with an operator as parameter cannot be instantiated here.    *)
(***************************************************************************)
EXTENDS Integers, Functions, FiniteSetTheorems, WellFoundedInduction, TLAPS

\* Induction on the natural numbers, for the set of numbers that have the property.
LEMMA NatSetInduction ==
    ASSUME NEW S \in SUBSET Nat, 0 \in S, \A n \in S : n + 1 \in S
    PROVE  S = Nat
<1> SUFFICES ASSUME Nat \ S # {} PROVE FALSE
    OBVIOUS
<1> DEFINE R == OpToRel(<, Nat)
<1>1. IsWellFoundedOn(R, Nat)
    BY NatLessThanWellFounded
<1> HIDE DEF R
<1>2. PICK x \in Nat \ S : \A y \in Nat \ S : <<y, x>> \notin R
    BY <1>1, WFMin
<1>3. x # 0 /\ x - 1 \in Nat /\ x - 1 \notin S
    OBVIOUS
<1>4. x - 1 < x /\ x \in Nat
    OBVIOUS
<1>5. <<x - 1, x>> \in R
    BY <1>3, <1>4 DEF R, OpToRel
<1> QED BY <1>2, <1>3, <1>5

-----------------------------------------------------------------------------
\* The element the fold takes from a set first.
FirstOf(T) == CHOOSE x \in T : TRUE

\* The recursion of the fold, as a property of a function g on a collection of sets.
SumsUp(w, D, g) ==
    \A T \in D : g[T] = IF T = {} THEN 0 ELSE w[FirstOf(T)] + g[T \ {FirstOf(T)}]

\* The sum of nothing.
LEMMA SumsUpEmpty ==
    ASSUME NEW S, NEW w, NEW g, SumsUp(w, SUBSET S, g)
    PROVE  {} \in SUBSET S /\ g[{}] = 0
<1>1. {} \in SUBSET S OBVIOUS
<1> QED BY <1>1 DEF SumsUp

\* The fold takes an element of the set.
LEMMA FirstOfIn ==
    ASSUME NEW T, T # {}
    PROVE  FirstOf(T) \in T
BY DEF FirstOf

\* Induction on the subsets of a finite set, for the collection of subsets that have the
\* property, along the order in which the fold takes elements.
LEMMA SubsetInduction ==
    ASSUME NEW S, IsFiniteSet(S), NEW Q \in SUBSET SUBSET S, {} \in Q,
           \A T \in SUBSET S : T # {} /\ T \ {FirstOf(T)} \in Q => T \in Q
    PROVE  Q = SUBSET S
<1> DEFINE N == {n \in Nat : \A T \in SUBSET S : Cardinality(T) = n => T \in Q}
<1>1. 0 \in N
    BY FS_Subset, FS_EmptySet
<1>2. ASSUME NEW n \in N PROVE n + 1 \in N
  <2> SUFFICES ASSUME NEW T \in SUBSET S, Cardinality(T) = n + 1 PROVE T \in Q
      OBVIOUS
  <2>1. IsFiniteSet(T) /\ T # {}
      BY FS_Subset, FS_EmptySet
  <2>2. FirstOf(T) \in T
      BY <2>1, FirstOfIn
  <2>3. Cardinality(T \ {FirstOf(T)}) = Cardinality(T) - 1
      BY <2>1, <2>2, FS_RemoveElement
  <2>4. Cardinality(T \ {FirstOf(T)}) = n
    <3>1. n \in Nat OBVIOUS
    <3> QED BY <2>3, <3>1
  <2> QED BY <2>1, <2>4
<1>3. N = Nat
  <2> HIDE DEF N
  <2>1. N \in SUBSET Nat BY DEF N
  <2> QED BY <1>1, <1>2, <2>1, NatSetInduction
<1>4. \A T \in SUBSET S : Cardinality(T) \in Nat
    BY FS_Subset, FS_CardinalityType
<1> QED BY <1>3, <1>4

\* Such a function exists on all subsets of a finite set.
LEMMA SumExists ==
    ASSUME NEW S, IsFiniteSet(S), NEW w \in [S -> Int]
    PROVE  \E g \in [SUBSET S -> Int] : SumsUp(w, SUBSET S, g)
<1> DEFINE Low(n) == {T \in SUBSET S : Cardinality(T) <= n}
           N == {n \in Nat : \E g \in [Low(n) -> Int] : SumsUp(w, Low(n), g)}
<1>0. \A T \in SUBSET S : IsFiniteSet(T) /\ Cardinality(T) \in Nat
    BY FS_Subset, FS_CardinalityType
<1>1. 0 \in N
  <2>1. Low(0) = {{}}
      BY <1>0, FS_EmptySet
  <2>2. [T \in {{}} |-> 0] \in [Low(0) -> Int]
      BY <2>1
  <2>3. SumsUp(w, Low(0), [T \in {{}} |-> 0])
      BY <2>1 DEF SumsUp
  <2> QED BY <2>2, <2>3
<1>2. ASSUME NEW n \in N PROVE n + 1 \in N
  <2>1. PICK g \in [Low(n) -> Int] : SumsUp(w, Low(n), g)
      OBVIOUS
  <2> DEFINE h == [T \in Low(n + 1) |->
                      IF T = {} THEN 0 ELSE w[FirstOf(T)] + g[T \ {FirstOf(T)}]]
  <2>2. ASSUME NEW T \in Low(n + 1), T # {}
        PROVE  FirstOf(T) \in S /\ T \ {FirstOf(T)} \in Low(n)
    <3>1. FirstOf(T) \in T BY <2>2, FirstOfIn
    <3>2. Cardinality(T \ {FirstOf(T)}) = Cardinality(T) - 1
        BY <3>1, <1>0, FS_RemoveElement
    <3> QED BY <3>1, <3>2, <1>0
  <2>3. h \in [Low(n + 1) -> Int]
    <3> SUFFICES ASSUME NEW T \in Low(n + 1) PROVE h[T] \in Int
        OBVIOUS
    <3>1. CASE T = {} BY <3>1
    <3>2. CASE T # {}
        <4> HIDE DEF Low
        <4> QED BY <3>2, <2>2
    <3> QED BY <3>1, <3>2
  <2>4. \A T \in Low(n) : T \in Low(n + 1) /\ h[T] = g[T]
    <3> TAKE T \in Low(n)
    <3>1. T \in Low(n + 1) BY <1>0
    <3> QED BY <2>1, <3>1 DEF SumsUp
  <2>5. SumsUp(w, Low(n + 1), h)
    <3> SUFFICES ASSUME NEW T \in Low(n + 1)
                 PROVE h[T] = IF T = {} THEN 0 ELSE w[FirstOf(T)] + h[T \ {FirstOf(T)}]
        BY DEF SumsUp
    <3>1. CASE T = {} BY <3>1
    <3>2. CASE T # {}
      <4>1. h[T \ {FirstOf(T)}] = g[T \ {FirstOf(T)}]
          <5> HIDE DEF h, Low
          <5> QED BY <3>2, <2>2, <2>4
      <4>2. h[T] = w[FirstOf(T)] + g[T \ {FirstOf(T)}]
          BY <3>2
      <4> QED BY <3>2, <4>1, <4>2
    <3> QED BY <3>1, <3>2
  <2>6. n + 1 \in Nat /\ \E k \in [Low(n + 1) -> Int] : SumsUp(w, Low(n + 1), k)
    <3> HIDE DEF h, Low
    <3> QED BY <2>3, <2>5
  <2> QED BY <2>6
<1>3. N = Nat
  <2> HIDE DEF N
  <2>1. N \in SUBSET Nat BY DEF N
  <2> QED BY <1>1, <1>2, <2>1, NatSetInduction
<1>4. Cardinality(S) \in N
    BY <1>0, <1>3
<1>5. Low(Cardinality(S)) = SUBSET S
    BY FS_Subset
<1> QED BY <1>4, <1>5

\* The function the fold defines.
SumIter(w, S) ==
    CHOOSE g : g = [T \in SUBSET S |->
                       IF T = {} THEN 0 ELSE w[FirstOf(T)] + g[T \ {FirstOf(T)}]]

\* It satisfies its own equation, and its values are integers.
LEMMA SumIterDef ==
    ASSUME NEW S, IsFiniteSet(S), NEW w \in [S -> Int]
    PROVE  /\ SumIter(w, S) \in [SUBSET S -> Int]
           /\ SumsUp(w, SUBSET S, SumIter(w, S))
<1>1. PICK g \in [SUBSET S -> Int] : SumsUp(w, SUBSET S, g)
    BY SumExists
<1>2. g = [T \in SUBSET S |-> IF T = {} THEN 0 ELSE w[FirstOf(T)] + g[T \ {FirstOf(T)}]]
    BY <1>1 DEF SumsUp
<1> DEFINE h == SumIter(w, S)
<1>3. h = [T \in SUBSET S |-> IF T = {} THEN 0 ELSE w[FirstOf(T)] + h[T \ {FirstOf(T)}]]
    BY <1>2 DEF SumIter
<1> HIDE DEF h
<1>4. SumsUp(w, SUBSET S, h)
  <2> SUFFICES ASSUME NEW T \in SUBSET S
               PROVE h[T] = IF T = {} THEN 0 ELSE w[FirstOf(T)] + h[T \ {FirstOf(T)}]
      BY DEF SumsUp
  <2> QED BY <1>3
<1>5. \A T \in SUBSET S : h[T] \in Int
  <2> DEFINE Q == {T \in SUBSET S : h[T] \in Int}
  <2>1. {} \in Q
      BY <1>4, SumsUpEmpty
  <2>2. ASSUME NEW T \in SUBSET S, T # {}, T \ {FirstOf(T)} \in Q
        PROVE  T \in Q
      BY <2>2, <1>4, FirstOfIn DEF SumsUp
  <2> HIDE DEF Q
  <2>3. Q \in SUBSET SUBSET S BY DEF Q
  <2>4. Q = SUBSET S
      BY <2>1, <2>2, <2>3, SubsetInduction
  <2> QED BY <2>4 DEF Q
<1>6. h \in [SUBSET S -> Int]
    BY <1>3, <1>5
<1> QED BY <1>4, <1>6 DEF h

\* The sum of the community module is the value of that function at the whole domain.
LEMMA SumIsIter ==
    ASSUME NEW S, NEW w \in [S -> Int]
    PROVE  SumFunction(w) = SumIter(w, S)[S]
<1>1. DOMAIN w = S OBVIOUS
<1> QED
  BY <1>1 DEF SumFunction, SumFunctionOnSet, FoldFunctionOnSet, MapThenFoldSet, SumIter, FirstOf

-----------------------------------------------------------------------------
\* A sum of integers is an integer.
LEMMA SumType ==
    ASSUME NEW S, IsFiniteSet(S), NEW w \in [S -> Int]
    PROVE  SumFunction(w) \in Int
<1>1. S \in SUBSET S OBVIOUS
<1>2. SumIter(w, S) \in [SUBSET S -> Int]
    BY SumIterDef
<1>3. SumFunction(w) = SumIter(w, S)[S]
    BY SumIsIter
<1> QED BY <1>1, <1>2, <1>3

\* A change at one place changes the sum by as much.
LEMMA SumUpdate ==
    ASSUME NEW S, IsFiniteSet(S), NEW w \in [S -> Int], NEW v \in [S -> Int], NEW i \in S,
           \A x \in S \ {i} : v[x] = w[x]
    PROVE  SumFunction(v) = SumFunction(w) + (v[i] - w[i])
<1> DEFINE g == SumIter(w, S)
           h == SumIter(v, S)
           Q == {T \in SUBSET S : h[T] = g[T] + (IF i \in T THEN v[i] - w[i] ELSE 0)}
<1>1. g \in [SUBSET S -> Int] /\ SumsUp(w, SUBSET S, g)
    BY SumIterDef
<1>2. h \in [SUBSET S -> Int] /\ SumsUp(v, SUBSET S, h)
    BY SumIterDef
<1>3. SumFunction(w) = g[S] /\ SumFunction(v) = h[S]
    BY SumIsIter
<1> HIDE DEF g, h
<1>4. {} \in Q
    BY <1>1, <1>2, SumsUpEmpty
<1>5. ASSUME NEW T \in SUBSET S, T # {}, T \ {FirstOf(T)} \in Q
      PROVE  T \in Q
  <2> DEFINE x == FirstOf(T)
             U == T \ {FirstOf(T)}
  <2>1. x \in T /\ x \in S
      BY <1>5, FirstOfIn
  <2>2. U \in SUBSET S /\ (i \in U <=> (i \in T /\ i # x))
      OBVIOUS
  <2>3. g[T] = w[x] + g[U] /\ h[T] = v[x] + h[U]
      BY <1>1, <1>2, <1>5 DEF SumsUp
  <2>4. h[U] = g[U] + (IF i \in U THEN v[i] - w[i] ELSE 0)
      BY <1>5
  <2>5. g[U] \in Int /\ h[U] \in Int /\ w[x] \in Int /\ v[x] \in Int /\ w[i] \in Int /\ v[i] \in Int
      BY <1>1, <1>2, <2>1
  <2> HIDE DEF x, U
  <2> DEFINE d(W) == IF i \in W THEN v[i] - w[i] ELSE 0
  <2>6. h[T] = g[T] + d(T)
    <3>1. CASE i = x
        BY <2>1, <2>2, <2>3, <2>4, <2>5, <3>1
    <3>2. CASE i # x
      <4>1. v[x] = w[x] BY <2>1, <3>2
      <4>2. d(T) = d(U) BY <2>2, <3>2
      <4>3. d(U) \in Int BY <2>5
      <4> HIDE DEF d
      <4>4. h[U] = g[U] + d(U) BY <2>4 DEF d
      <4> QED BY <2>3, <2>5, <4>1, <4>2, <4>3, <4>4
    <3> QED BY <3>1, <3>2
  <2> QED BY <2>6
<1> HIDE DEF Q
<1>6. Q \in SUBSET SUBSET S BY DEF Q
<1>7. Q = SUBSET S
    BY <1>4, <1>5, <1>6, SubsetInduction
<1>8. S \in Q BY <1>7
<1> QED BY <1>3, <1>8 DEF Q

\* A sum of zeros is zero.
LEMMA SumZero ==
    ASSUME NEW S, IsFiniteSet(S), NEW w \in [S -> Int], \A x \in S : w[x] = 0
    PROVE  SumFunction(w) = 0
<1> DEFINE g == SumIter(w, S)
           Q == {T \in SUBSET S : g[T] = 0}
<1>1. g \in [SUBSET S -> Int] /\ SumsUp(w, SUBSET S, g)
    BY SumIterDef
<1>2. SumFunction(w) = g[S]
    BY SumIsIter
<1> HIDE DEF g
<1>3. {} \in Q
    BY <1>1, SumsUpEmpty
<1>4. ASSUME NEW T \in SUBSET S, T # {}, T \ {FirstOf(T)} \in Q
      PROVE  T \in Q
    BY <1>1, <1>4, FirstOfIn DEF SumsUp
<1> HIDE DEF Q
<1>5. Q \in SUBSET SUBSET S BY DEF Q
<1>6. Q = SUBSET S
    BY <1>3, <1>4, <1>5, SubsetInduction
<1>7. S \in Q BY <1>6
<1> QED BY <1>2, <1>7 DEF Q

\* A sum of larger numbers is larger.
LEMMA SumMonotonic ==
    ASSUME NEW S, IsFiniteSet(S), NEW w \in [S -> Int], NEW v \in [S -> Int],
           \A x \in S : w[x] <= v[x]
    PROVE  SumFunction(w) <= SumFunction(v)
<1> DEFINE g == SumIter(w, S)
           h == SumIter(v, S)
           Q == {T \in SUBSET S : g[T] <= h[T]}
<1>1. g \in [SUBSET S -> Int] /\ SumsUp(w, SUBSET S, g)
    BY SumIterDef
<1>2. h \in [SUBSET S -> Int] /\ SumsUp(v, SUBSET S, h)
    BY SumIterDef
<1>3. SumFunction(w) = g[S] /\ SumFunction(v) = h[S]
    BY SumIsIter
<1> HIDE DEF g, h
<1>4. {} \in Q
    BY <1>1, <1>2, SumsUpEmpty
<1>5. ASSUME NEW T \in SUBSET S, T # {}, T \ {FirstOf(T)} \in Q
      PROVE  T \in Q
  <2> DEFINE x == FirstOf(T)
             U == T \ {FirstOf(T)}
  <2>1. x \in S
      BY <1>5, FirstOfIn
  <2>2. g[T] = w[x] + g[U] /\ h[T] = v[x] + h[U]
      BY <1>1, <1>2, <1>5 DEF SumsUp
  <2>3. g[U] <= h[U] /\ g[U] \in Int /\ h[U] \in Int /\ w[x] \in Int /\ v[x] \in Int
      BY <1>1, <1>2, <1>5, <2>1
  <2> HIDE DEF x, U
  <2>4. w[x] <= v[x] BY <2>1
  <2>5. g[T] <= h[T] BY <2>2, <2>3, <2>4
  <2> QED BY <2>5
<1> HIDE DEF Q
<1>6. Q \in SUBSET SUBSET S BY DEF Q
<1>7. Q = SUBSET S
    BY <1>4, <1>5, <1>6, SubsetInduction
<1>8. S \in Q BY <1>7
<1> QED BY <1>3, <1>8 DEF Q

\* A sum of natural numbers is at least each of them.
LEMMA SumAtLeast ==
    ASSUME NEW S, IsFiniteSet(S), NEW w \in [S -> Nat]
    PROVE  /\ SumFunction(w) \in Nat
           /\ \A i \in S : w[i] <= SumFunction(w)
<1>1. w \in [S -> Int]
    OBVIOUS
<1>2. SumFunction(w) \in Int
    BY <1>1, SumType
<1> DEFINE z == [x \in S |-> 0]
<1>3. z \in [S -> Int] /\ SumFunction(z) = 0
    BY SumZero
<1>4. SumFunction(z) <= SumFunction(w)
    BY <1>1, <1>3, SumMonotonic
<1>5. ASSUME NEW i \in S PROVE w[i] <= SumFunction(w)
  <2> DEFINE v == [w EXCEPT ![i] = 0]
  <2>1. v \in [S -> Int] /\ v[i] = 0 /\ \A x \in S \ {i} : v[x] = w[x]
      BY <1>1
  <2>2. SumFunction(v) = SumFunction(w) + (v[i] - w[i])
    <3> HIDE DEF v
    <3> QED BY <1>1, <2>1, SumUpdate
  <2>3. \A x \in S : z[x] <= v[x]
      OBVIOUS
  <2> HIDE DEF v, z
  <2>4. SumFunction(z) <= SumFunction(v)
      BY <1>3, <2>1, <2>3, SumMonotonic
  <2> QED BY <1>2, <1>3, <2>1, <2>2, <2>4
<1> QED BY <1>2, <1>3, <1>4, <1>5

\* The sum of two functions is the sum of their sums.
LEMMA SumAdd ==
    ASSUME NEW S, IsFiniteSet(S), NEW w \in [S -> Int], NEW v \in [S -> Int],
           NEW u \in [S -> Int], \A x \in S : u[x] = w[x] + v[x]
    PROVE  SumFunction(u) = SumFunction(w) + SumFunction(v)
<1> DEFINE g == SumIter(w, S)
           h == SumIter(v, S)
           k == SumIter(u, S)
           Q == {T \in SUBSET S : k[T] = g[T] + h[T]}
<1>1. g \in [SUBSET S -> Int] /\ SumsUp(w, SUBSET S, g)
    BY SumIterDef
<1>2. h \in [SUBSET S -> Int] /\ SumsUp(v, SUBSET S, h)
    BY SumIterDef
<1>3. k \in [SUBSET S -> Int] /\ SumsUp(u, SUBSET S, k)
    BY SumIterDef
<1>4. SumFunction(w) = g[S] /\ SumFunction(v) = h[S] /\ SumFunction(u) = k[S]
    BY SumIsIter
<1> HIDE DEF g, h, k
<1>5. {} \in Q
    BY <1>1, <1>2, <1>3, SumsUpEmpty
<1>6. ASSUME NEW T \in SUBSET S, T # {}, T \ {FirstOf(T)} \in Q
      PROVE  T \in Q
  <2> DEFINE x == FirstOf(T)
             U == T \ {FirstOf(T)}
  <2>1. x \in S
      BY <1>6, FirstOfIn
  <2>2. g[T] = w[x] + g[U] /\ h[T] = v[x] + h[U] /\ k[T] = u[x] + k[U]
      BY <1>1, <1>2, <1>3, <1>6 DEF SumsUp
  <2>3. k[U] = g[U] + h[U] /\ g[U] \in Int /\ h[U] \in Int /\ w[x] \in Int /\ v[x] \in Int
      BY <1>1, <1>2, <1>6, <2>1
  <2> HIDE DEF x, U
  <2>4. u[x] = w[x] + v[x] BY <2>1
  <2>5. k[T] = g[T] + h[T] BY <2>2, <2>3, <2>4
  <2> QED BY <2>5
<1> HIDE DEF Q
<1>7. Q \in SUBSET SUBSET S BY DEF Q
<1>8. Q = SUBSET S
    BY <1>5, <1>6, <1>7, SubsetInduction
<1>9. S \in Q BY <1>8
<1> QED BY <1>4, <1>9 DEF Q

\* A function that is zero outside a part of its domain.
OnPart(w, S, T) == [x \in S |-> IF x \in T THEN w[x] ELSE 0]

\* The fold over a part of the domain is the sum of the function on that part.
LEMMA SumPart ==
    ASSUME NEW S, IsFiniteSet(S), NEW w \in [S -> Int], NEW P \in SUBSET S
    PROVE  SumIter(w, S)[P] = SumFunction(OnPart(w, S, P))
<1> DEFINE g == SumIter(w, S)
           Q == {T \in SUBSET S : g[T] = SumFunction(OnPart(w, S, T))}
<1>1. g \in [SUBSET S -> Int] /\ SumsUp(w, SUBSET S, g)
    BY SumIterDef
<1> HIDE DEF g
<1>2. \A T \in SUBSET S : OnPart(w, S, T) \in [S -> Int]
    BY DEF OnPart
<1>3. {} \in Q
  <2>1. \A x \in S : OnPart(w, S, {})[x] = 0
      BY DEF OnPart
  <2>2. SumFunction(OnPart(w, S, {})) = 0
      BY <1>2, <2>1, SumZero
  <2> QED BY <1>1, <2>2, SumsUpEmpty
<1>4. ASSUME NEW T \in SUBSET S, T # {}, T \ {FirstOf(T)} \in Q
      PROVE  T \in Q
  <2> DEFINE x == FirstOf(T)
             U == T \ {FirstOf(T)}
  <2>1. x \in T /\ x \in S /\ U \in SUBSET S
      BY <1>4, FirstOfIn
  <2>2. g[T] = w[x] + g[U] /\ g[U] = SumFunction(OnPart(w, S, U)) /\ g[U] \in Int /\ w[x] \in Int
      BY <1>1, <1>4, <2>1 DEF SumsUp
  <2>3. /\ OnPart(w, S, T)[x] = w[x] /\ OnPart(w, S, U)[x] = 0
        /\ \A y \in S \ {x} : OnPart(w, S, T)[y] = OnPart(w, S, U)[y]
      BY <2>1 DEF OnPart
  <2>4. OnPart(w, S, T) \in [S -> Int] /\ OnPart(w, S, U) \in [S -> Int]
      BY <1>2, <2>1
  <2> HIDE DEF x, U
  <2>5. SumFunction(OnPart(w, S, T)) =
            SumFunction(OnPart(w, S, U)) + (OnPart(w, S, T)[x] - OnPart(w, S, U)[x])
      BY <2>1, <2>3, <2>4, SumUpdate
  <2> QED BY <2>2, <2>3, <2>5
<1> HIDE DEF Q
<1>5. Q \in SUBSET SUBSET S BY DEF Q
<1>6. Q = SUBSET S
    BY <1>3, <1>4, <1>5, SubsetInduction
<1>7. P \in Q BY <1>6
<1> QED BY <1>7 DEF Q, g

\* The fold may take any element first.
LEMMA SumAny ==
    ASSUME NEW S, IsFiniteSet(S), NEW w \in [S -> Int]
    PROVE  \A P \in SUBSET S : \A y \in P : SumIter(w, S)[P] = w[y] + SumIter(w, S)[P \ {y}]
<1> TAKE P \in SUBSET S
<1> TAKE y \in P
<1> DEFINE u == OnPart(w, S, P)
           v == OnPart(w, S, P \ {y})
<1>1. u \in [S -> Int] /\ v \in [S -> Int] /\ u[y] = w[y] /\ v[y] = 0
    BY DEF OnPart
<1>2. \A x \in S \ {y} : u[x] = v[x]
    BY DEF OnPart
<1>3. SumIter(w, S)[P] = SumFunction(u) /\ SumIter(w, S)[P \ {y}] = SumFunction(v)
    BY SumPart
<1> HIDE DEF u, v
<1>4. SumFunction(u) = SumFunction(v) + (u[y] - v[y])
    BY <1>1, <1>2, SumUpdate
<1>5. SumFunction(v) \in Int /\ w[y] \in Int
    BY <1>1, SumType
<1> QED BY <1>1, <1>3, <1>4, <1>5

\* A function v with one more element in its domain than w.
OneMore(w, v, S, x) ==
    /\ IsFiniteSet(S) /\ x \notin S
    /\ w \in [S -> Int] /\ v \in [S \cup {x} -> Int]
    /\ \A y \in S : v[y] = w[y]

\* One more element adds its value.
LEMMA SumExtend ==
    ASSUME NEW S, NEW x, NEW w, NEW v, OneMore(w, v, S, x)
    PROVE  SumFunction(v) = SumFunction(w) + v[x]
<1> DEFINE T == S \cup {x}
           g == SumIter(w, S)
           h == SumIter(v, T)
           d(R) == IF x \in R THEN v[x] ELSE 0
           Q == {R \in SUBSET T : h[R] = g[R \ {x}] + d(R)}
<1> USE DEF OneMore
<1>1. IsFiniteSet(T) /\ v \in [T -> Int] /\ v[x] \in Int
    BY FS_AddElement
<1>2. g \in [SUBSET S -> Int] /\ SumsUp(w, SUBSET S, g)
    BY SumIterDef
<1>3. h \in [SUBSET T -> Int] /\ SumsUp(v, SUBSET T, h)
    BY <1>1, SumIterDef
<1>4. SumFunction(w) = g[S] /\ SumFunction(v) = h[T]
    BY <1>1, SumIsIter
<1>5. \A P \in SUBSET S : \A y \in P : g[P] = w[y] + g[P \ {y}]
  <2>1. IsFiniteSet(S) /\ w \in [S -> Int]
      OBVIOUS
  <2> HIDE DEF OneMore
  <2> QED BY <2>1, SumAny
<1>6. \A R \in SUBSET T : R \ {x} \in SUBSET S /\ d(R) \in Int
    BY <1>1
<1> HIDE DEF g, h
<1>7. {} \in Q
  <2>1. g[{}] = 0 /\ h[{}] = 0 /\ {} \ {x} = {} /\ d({}) = 0
      BY <1>2, <1>3, SumsUpEmpty
  <2> QED BY <2>1
<1>8. ASSUME NEW R \in SUBSET T, R # {}, R \ {FirstOf(R)} \in Q
      PROVE  R \in Q
  <2> DEFINE f == FirstOf(R)
             U == R \ {FirstOf(R)}
  <2>1. f \in R /\ f \in T /\ U \in SUBSET T
      BY <1>8, FirstOfIn
  <2>2. h[R] = v[f] + h[U] /\ h[U] = g[U \ {x}] + d(U)
      BY <1>3, <1>8 DEF SumsUp
  <2>3. g[U \ {x}] \in Int /\ v[f] \in Int /\ d(U) \in Int
      BY <1>1, <1>2, <1>6, <2>1
  <2>4. h[R] = g[R \ {x}] + d(R)
    <3>1. CASE f = x
      <4>1. U = R \ {x} /\ U \ {x} = R \ {x} /\ d(U) = 0 /\ d(R) = v[x]
          BY <2>1, <3>1
      <4>2. PICK b : b = g[R \ {x}]
          OBVIOUS
      <4>3. b \in Int /\ v[x] \in Int
          BY <1>1, <2>3, <4>1, <4>2
      <4>4. h[R] = v[x] + (b + 0)
          BY <2>2, <3>1, <4>1, <4>2
      <4>5. h[R] = b + v[x]
          BY <4>3, <4>4
      <4> QED BY <4>1, <4>2, <4>5
    <3>2. CASE f # x
      <4>1. f \in S /\ f \in R \ {x} /\ R \ {x} \in SUBSET S /\ U \ {x} = (R \ {x}) \ {f} /\ d(U) = d(R)
          BY <2>1, <3>2
      <4>2. v[f] = w[f] /\ g[R \ {x}] = w[f] + g[U \ {x}]
          BY <1>5, <4>1
      <4>3. PICK e : e = d(R)
          OBVIOUS
      <4>4. PICK b : b = g[U \ {x}]
          OBVIOUS
      <4>5. e \in Int /\ b \in Int /\ w[f] \in Int
          BY <1>6, <2>3, <4>1, <4>3, <4>4
      <4>6. h[R] = w[f] + (b + e)
          BY <2>2, <4>1, <4>2, <4>3, <4>4
      <4>7. h[R] = (w[f] + b) + e
          BY <4>5, <4>6
      <4> QED BY <4>2, <4>3, <4>4, <4>7
    <3> QED BY <3>1, <3>2
  <2> QED BY <2>4
<1>9. Q \in SUBSET SUBSET T
    OBVIOUS
<1> HIDE DEF Q, T
<1>10. Q = SUBSET T
    BY <1>1, <1>7, <1>8, <1>9, SubsetInduction
<1>11. T \in Q
    BY <1>10
<1>12. h[T] = g[T \ {x}] + d(T) /\ T \ {x} = S /\ d(T) = v[x]
    BY <1>11 DEF Q, T
<1> QED BY <1>4, <1>12


\* The numbers w of a set T, read through an injection f of S into T.
Through(w, v, f, S, T) ==
    /\ IsFiniteSet(S) /\ IsFiniteSet(T)
    /\ w \in [T -> Int] /\ v \in [S -> Int] /\ f \in [S -> T]
    /\ \A x, y \in S : f[x] = f[y] => x = y
    /\ \A x \in S : v[x] = w[f[x]]

\* They have the same sum, if the numbers outside the image are zero.
LEMMA SumImage ==
    ASSUME NEW S, NEW T, NEW w, NEW v, NEW f, Through(w, v, f, S, T),
           \A z \in T : (\A x \in S : f[x] # z) => w[z] = 0
    PROVE  SumFunction(v) = SumFunction(w)
<1> DEFINE img(P) == {f[x] : x \in P}
           g == SumIter(v, S)
           h == SumIter(w, T)
           Q == {P \in SUBSET S : g[P] = h[img(P)]}
<1>0. /\ IsFiniteSet(S) /\ IsFiniteSet(T)
      /\ w \in [T -> Int] /\ v \in [S -> Int] /\ f \in [S -> T]
      /\ \A x, y \in S : f[x] = f[y] => x = y
      /\ \A x \in S : v[x] = w[f[x]]
    BY DEF Through
<1>1. g \in [SUBSET S -> Int] /\ SumsUp(v, SUBSET S, g)
    BY <1>0, SumIterDef
<1>2. h \in [SUBSET T -> Int] /\ SumsUp(w, SUBSET T, h)
    BY <1>0, SumIterDef
<1>3. ASSUME NEW P \in SUBSET T, NEW z \in P PROVE h[P] = w[z] + h[P \ {z}]
  <2>1. IsFiniteSet(T) /\ w \in [T -> Int]
      BY <1>0
  <2>2. \A R \in SUBSET T : \A y \in R : h[R] = w[y] + h[R \ {y}]
      BY <2>1, SumAny
  <2> HIDE DEF h
  <2> QED BY <2>2
<1>4. h[img(S)] = SumFunction(OnPart(w, T, img(S)))
  <2>1. img(S) \in SUBSET T
      BY <1>0
  <2> HIDE DEF img
  <2> QED BY <2>1, <1>0, SumPart
<1>5. SumFunction(v) = g[S]
    BY <1>0, SumIsIter
<1>6. OnPart(w, T, img(S)) = w
    BY <1>0 DEF OnPart
<1> HIDE DEF g, h
<1>7. {} \in Q
  <2>1. img({}) = {}
      OBVIOUS
  <2> QED BY <2>1, <1>1, <1>2, SumsUpEmpty
<1>8. ASSUME NEW P \in SUBSET S, P # {}, P \ {FirstOf(P)} \in Q PROVE P \in Q
  <2> DEFINE y == FirstOf(P)
  <2>1. y \in P /\ y \in S
      BY <1>8, FirstOfIn
  <2> HIDE DEF y
  <2>2. g[P] = v[y] + g[P \ {y}]
      BY <1>1, <1>8 DEF SumsUp, y
  <2>3. g[P \ {y}] = h[img(P \ {y})]
      BY <1>8 DEF y
  <2>4. img(P) \in SUBSET T /\ f[y] \in img(P)
      BY <2>1, <1>0
  <2>5. img(P) \ {f[y]} = img(P \ {y})
      BY <2>1, <1>0
  <2>6. h[img(P)] = w[f[y]] + h[img(P) \ {f[y]}]
      BY <2>4, <1>3
  <2>7. v[y] = w[f[y]]
      BY <2>1, <1>0
  <2> QED BY <2>2, <2>3, <2>5, <2>6, <2>7
<1>9. Q = SUBSET S
  <2>1. Q \in SUBSET SUBSET S
      OBVIOUS
  <2> HIDE DEF Q
  <2> QED BY <2>1, <1>0, <1>7, <1>8, SubsetInduction
<1> QED BY <1>4, <1>5, <1>6, <1>9
=============================================================================
