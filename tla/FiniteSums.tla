------------------------------ MODULE FiniteSums ------------------------------
(***************************************************************************)
(* Facts about sums over finite sets, for the sizes of the messages of a   *)
(* recipient (recipientUsageLocked) and of a page (writeRPC).  The model   *)
(* writes them with MapThenSumSet, a recursive function that takes one     *)
(* chosen element after the other; here is what such a function computes.  *)
(* Induction is over the subsets of a finite set, with the set of subsets  *)
(* for which a claim holds in the place of a predicate.                    *)
(***************************************************************************)
EXTENDS Integers, FiniteSets, FiniteSetTheorems, WellFoundedInduction, TLAPS

\* A nonempty set of natural numbers has a least element.
LEMMA NatMin ==
  ASSUME NEW S \in SUBSET Nat, S # {}
  PROVE  \E m \in S : \A x \in S : m <= x
<1> DEFINE R == {p \in Nat \X Nat : p[1] < p[2]}
<1>1. R = OpToRel(<, Nat)
  BY DEF OpToRel
<1>2. IsWellFoundedOn(R, Nat)
  BY <1>1, NatLessThanWellFounded
<1>3. PICK m \in S : \A x \in S : ~(<<x, m>> \in R)
  <2> HIDE DEF R
  <2> QED BY <1>2, WFMin
<1>4. ASSUME NEW x \in S PROVE m <= x
  <2>1. x \in Nat /\ m \in Nat
    OBVIOUS
  <2>2. <<x, m>> \in R <=> x < m
    BY <2>1
  <2> QED BY <1>3, <2>1, <2>2
<1> QED BY <1>4

\* A claim that holds of a subset whenever it holds of all smaller ones holds of
\* every subset of a finite set.
LEMMA SubsetInduction ==
  ASSUME NEW S, IsFiniteSet(S), NEW P,
         \A s \in SUBSET S : (\A t \in SUBSET s : t # s => t \in P) => s \in P
  PROVE  \A s \in SUBSET S : s \in P
<1> DEFINE card == [s \in SUBSET S |-> Cardinality(s)]
           Bad == {s \in SUBSET S : s \notin P}
           N == {card[s] : s \in Bad}
<1>1. \A s \in SUBSET S : IsFiniteSet(s) /\ card[s] = Cardinality(s) /\ card[s] \in Nat
  BY FS_Subset, FS_CardinalityType
<1>2. ASSUME NEW s \in SUBSET S, NEW t \in SUBSET s, t # s PROVE card[t] < card[s]
  <2>1. IsFiniteSet(s) /\ t \in SUBSET S
    BY <1>1
  <2>2. Cardinality(t) <= Cardinality(s) /\ Cardinality(t) # Cardinality(s)
    BY <1>2, <2>1, FS_Subset
  <2>3. card[t] = Cardinality(t) /\ card[s] = Cardinality(s) /\ card[t] \in Nat /\ card[s] \in Nat
    BY <1>1, <2>1
  <2> QED BY <2>2, <2>3
<1> HIDE DEF card
<1>3. SUFFICES ASSUME Bad # {} PROVE FALSE
  OBVIOUS
<1>4. N \in SUBSET Nat /\ N # {}
  BY <1>1, <1>3
<1>5. PICK m \in N : \A x \in N : m <= x
  BY <1>4, NatMin
<1>6. PICK s \in Bad : m = card[s]
  OBVIOUS
<1>7. ASSUME NEW t \in SUBSET s, t # s, t \notin P PROVE FALSE
  <2>1. t \in Bad /\ t \in SUBSET S
    BY <1>7
  <2>2. card[t] \in N /\ card[t] < card[s] /\ card[t] \in Nat /\ card[s] \in Nat
    BY <1>1, <1>2, <1>7, <2>1
  <2> QED BY <1>5, <1>6, <2>2
<1> QED BY <1>6, <1>7

-----------------------------------------------------------------------------
(* The sum of g over S, taken in the order in which CHOOSE picks.          *)

Any(s) == CHOOSE x \in s : TRUE

IsSum(it, g, S) ==
    it = [s \in SUBSET S |-> IF s = {} THEN 0 ELSE g[Any(s)] + it[s \ {Any(s)}]]

SumOver(g, S) == (CHOOSE it : IsSum(it, g, S))[S]

\* A nonempty set loses exactly one element at a time.
LEMMA AnyFacts ==
  ASSUME NEW s, s # {}
  PROVE  Any(s) \in s /\ s \ {Any(s)} \in SUBSET s /\ s \ {Any(s)} # s
  BY DEF Any

\* What a sum function returns for a subset.
LEMMA SumAt ==
  ASSUME NEW S, NEW g, NEW it, IsSum(it, g, S), NEW s \in SUBSET S
  PROVE  it[s] = IF s = {} THEN 0 ELSE g[Any(s)] + it[s \ {Any(s)}]
<1> DEFINE F == [t \in SUBSET S |-> IF t = {} THEN 0 ELSE g[Any(t)] + it[t \ {Any(t)}]]
<1>1. it = F
  BY DEF IsSum
<1>2. F[s] = IF s = {} THEN 0 ELSE g[Any(s)] + it[s \ {Any(s)}]
  OBVIOUS
<1> QED BY <1>1, <1>2

\* Two sum functions agree where both are defined.
LEMMA SumUnique ==
  ASSUME NEW S, NEW T, IsFiniteSet(S), NEW g, NEW a, NEW b, IsSum(a, g, S), IsSum(b, g, T)
  PROVE  \A s \in SUBSET (S \cap T) : a[s] = b[s]
<1> DEFINE C == S \cap T
           P == {s \in SUBSET C : a[s] = b[s]}
<1>1. IsFiniteSet(C)
  BY FS_Subset
<1>2. ASSUME NEW s \in SUBSET C, \A t \in SUBSET s : t # s => t \in P PROVE s \in P
  <2>1. CASE s = {}
    BY <2>1, SumAt
  <2>2. CASE s # {}
    <3> DEFINE t == s \ {Any(s)}
    <3>1. a[t] = b[t]
      BY <1>2, <2>2, AnyFacts
    <3>2. a[s] = g[Any(s)] + a[t] /\ b[s] = g[Any(s)] + b[t]
      BY <2>2, SumAt
    <3> QED BY <3>1, <3>2
  <2> QED BY <2>1, <2>2
<1> HIDE DEF P
<1>3. \A s \in SUBSET C : s \in P
  BY <1>1, <1>2, SubsetInduction
<1> QED BY <1>3 DEF P

\* There is a sum function over every finite set.
LEMMA SumExists ==
  ASSUME NEW S, IsFiniteSet(S), NEW g
  PROVE  \E it : IsSum(it, g, S)
<1> DEFINE P == {s \in SUBSET S : \E it : IsSum(it, g, s)}
<1>1. ASSUME NEW s \in SUBSET S, \A t \in SUBSET s : t # s => t \in P PROVE s \in P
  <2> DEFINE F == [u \in SUBSET s |-> IF u = {} THEN 0 ELSE g[Any(u)] + SumOver(g, u \ {Any(u)})]
             f(v) == CHOOSE it : IsSum(it, g, v)
  <2>1. ASSUME NEW v \in SUBSET s, v # s PROVE IsSum(f(v), g, v) /\ SumOver(g, v) = f(v)[v] /\ IsFiniteSet(v)
    <3>1. \E it : IsSum(it, g, v)
      BY <1>1, <2>1
    <3>2. IsFiniteSet(v)
      BY FS_Subset
    <3> QED BY <3>1, <3>2 DEF SumOver
  <2> HIDE DEF f
  <2>2. ASSUME NEW v \in SUBSET s, v # s PROVE F[v] = SumOver(g, v)
    <3>1. IsSum(f(v), g, v) /\ SumOver(g, v) = f(v)[v] /\ IsFiniteSet(v)
      BY <2>1, <2>2
    <3>2. CASE v = {}
      BY <3>1, <3>2, SumAt
    <3>3. CASE v # {}
      <4> DEFINE w == v \ {Any(v)}
      <4>1. w \in SUBSET s /\ w # s /\ w \in SUBSET v
        BY <2>2, <3>3, AnyFacts
      <4>2. IsSum(f(w), g, w) /\ SumOver(g, w) = f(w)[w]
        BY <2>1, <4>1
      <4>3. w \in SUBSET (v \cap w)
        BY <4>1
      <4>4. f(v)[w] = f(w)[w]
        BY <3>1, <4>2, <4>3, SumUnique
      <4>5. f(v)[v] = g[Any(v)] + f(v)[w]
        BY <3>1, <3>3, SumAt
      <4>6. F[v] = g[Any(v)] + SumOver(g, w)
        BY <3>3
      <4> QED BY <3>1, <4>2, <4>4, <4>5, <4>6
    <3> QED BY <3>2, <3>3
  <2>3. ASSUME NEW u \in SUBSET s
        PROVE  F[u] = IF u = {} THEN 0 ELSE g[Any(u)] + F[u \ {Any(u)}]
    <3>1. CASE u = {}
      BY <3>1
    <3>2. CASE u # {}
      <4>1. u \ {Any(u)} \in SUBSET s /\ u \ {Any(u)} # s
        BY <3>2, AnyFacts
      <4>2. F[u \ {Any(u)}] = SumOver(g, u \ {Any(u)})
        BY <2>2, <4>1
      <4>3. F[u] = g[Any(u)] + SumOver(g, u \ {Any(u)})
        BY <3>2
      <4> QED BY <3>2, <4>2, <4>3
    <3> QED BY <3>1, <3>2
  <2>4. F = [u \in SUBSET s |-> F[u]]
    OBVIOUS
  <2> HIDE DEF F
  <2>5. F = [u \in SUBSET s |-> IF u = {} THEN 0 ELSE g[Any(u)] + F[u \ {Any(u)}]]
    BY <2>3, <2>4
  <2> QED BY <2>5 DEF IsSum
<1> HIDE DEF P
<1>2. S \in P
  BY <1>1, SubsetInduction
<1> QED BY <1>2 DEF P

\* A sum is the value of any sum function that is defined there.
LEMMA SumIs ==
  ASSUME NEW S, IsFiniteSet(S), NEW g, NEW it, NEW T \in SUBSET S, IsSum(it, g, S)
  PROVE  it[T] = SumOver(g, T)
<1> DEFINE a == CHOOSE x : IsSum(x, g, T)
<1>1. IsFiniteSet(T)
  BY FS_Subset
<1>2. IsSum(a, g, T)
  BY <1>1, SumExists
<1> HIDE DEF a
<1>3. T \in SUBSET (S \cap T)
  OBVIOUS
<1>4. it[T] = a[T]
  BY <1>2, <1>3, SumUnique
<1> QED BY <1>4 DEF SumOver, a

\* The sum of nothing, and of a set with one element set aside by CHOOSE.
LEMMA SumUnfold ==
  ASSUME NEW S, IsFiniteSet(S), NEW g
  PROVE  /\ S = {} => SumOver(g, S) = 0
         /\ S # {} => SumOver(g, S) = g[Any(S)] + SumOver(g, S \ {Any(S)})
<1>1. PICK it : IsSum(it, g, S)
  BY SumExists
<1>2. it[S] = SumOver(g, S)
  BY <1>1, SumIs
<1>3. S \ {Any(S)} \in SUBSET S
  OBVIOUS
<1>4. it[S \ {Any(S)}] = SumOver(g, S \ {Any(S)})
  BY <1>1, <1>3, SumIs
<1>5. it[S] = IF S = {} THEN 0 ELSE g[Any(S)] + it[S \ {Any(S)}]
  BY <1>1, SumAt
<1> QED BY <1>2, <1>4, <1>5

\* A sum of natural numbers is one.
LEMMA SumType ==
  ASSUME NEW S, IsFiniteSet(S), NEW g, \A x \in S : g[x] \in Nat
  PROVE  SumOver(g, S) \in Nat
<1> DEFINE P == {s \in SUBSET S : SumOver(g, s) \in Nat}
<1>1. ASSUME NEW s \in SUBSET S, \A t \in SUBSET s : t # s => t \in P PROVE s \in P
  <2>1. IsFiniteSet(s)
    BY FS_Subset
  <2>2. CASE s = {}
    BY <2>1, <2>2, SumUnfold
  <2>3. CASE s # {}
    <3>1. s \ {Any(s)} \in P /\ Any(s) \in S
      BY <1>1, <2>3, AnyFacts
    <3>2. SumOver(g, s) = g[Any(s)] + SumOver(g, s \ {Any(s)})
      BY <2>1, <2>3, SumUnfold
    <3> QED BY <3>1, <3>2
  <2> QED BY <2>2, <2>3
<1> HIDE DEF P
<1>2. S \in P
  BY <1>1, SubsetInduction
<1> QED BY <1>2 DEF P

\* Any element may be set aside: the order of the iteration does not matter.
LEMMA SumRemove ==
  ASSUME NEW S, IsFiniteSet(S), NEW g, \A x \in S : g[x] \in Nat, NEW x \in S
  PROVE  SumOver(g, S) = g[x] + SumOver(g, S \ {x})
<1> DEFINE P == {s \in SUBSET S : \A y \in s : SumOver(g, s) = g[y] + SumOver(g, s \ {y})}
<1>1. ASSUME NEW s \in SUBSET S, \A t \in SUBSET s : t # s => t \in P PROVE s \in P
  <2> SUFFICES ASSUME NEW y \in s PROVE SumOver(g, s) = g[y] + SumOver(g, s \ {y})
    OBVIOUS
  <2> DEFINE z == Any(s)
  <2>1. IsFiniteSet(s) /\ s # {}
    BY FS_Subset
  <2>2. SumOver(g, s) = g[z] + SumOver(g, s \ {z}) /\ z \in s
    BY <2>1, SumUnfold, AnyFacts
  <2> HIDE DEF z
  <2>3. CASE y = z
    BY <2>2, <2>3
  <2>4. CASE y # z
    <3> DEFINE w == (s \ {z}) \ {y}
    <3>1. s \ {z} \in P /\ s \ {y} \in P
      BY <1>1, <2>2
    <3>2. SumOver(g, s \ {z}) = g[y] + SumOver(g, w)
      BY <2>4, <3>1
    <3>3. (s \ {y}) \ {z} = w
      OBVIOUS
    <3>4. SumOver(g, s \ {y}) = g[z] + SumOver(g, w)
      BY <2>2, <2>4, <3>1, <3>3
    <3>5. SumOver(g, w) \in Nat /\ g[y] \in Nat /\ g[z] \in Nat
      <4>1. IsFiniteSet(w) /\ \A u \in w : g[u] \in Nat
        BY <2>1, FS_Subset
      <4> QED BY <2>2, <4>1, SumType
    <3> HIDE DEF w
    <3> QED BY <2>2, <3>2, <3>4, <3>5
  <2> QED BY <2>3, <2>4
<1> HIDE DEF P
<1>2. S \in P
  BY <1>1, SubsetInduction
<1> QED BY <1>2 DEF P

\* A larger set has a sum at least as large.
LEMMA SumMonotone ==
  ASSUME NEW S, IsFiniteSet(S), NEW g, \A x \in S : g[x] \in Nat, NEW T \in SUBSET S
  PROVE  SumOver(g, T) <= SumOver(g, S)
<1> DEFINE P == {s \in SUBSET S : T \subseteq s => SumOver(g, T) <= SumOver(g, s)}
<1>0. IsFiniteSet(T) /\ SumOver(g, T) \in Nat
  BY FS_Subset, SumType
<1>1. ASSUME NEW s \in SUBSET S, \A t \in SUBSET s : t # s => t \in P PROVE s \in P
  <2> SUFFICES ASSUME T \subseteq s PROVE SumOver(g, T) <= SumOver(g, s)
    OBVIOUS
  <2>1. IsFiniteSet(s)
    BY FS_Subset
  <2>2. CASE s = T
    BY <1>0, <2>2
  <2>3. CASE s # T
    <3>1. PICK y \in s : y \notin T
      BY <2>3
    <3>2. SumOver(g, s) = g[y] + SumOver(g, s \ {y})
      BY <2>1, SumRemove
    <3>3. SumOver(g, T) <= SumOver(g, s \ {y})
      <4>1. s \ {y} \in P /\ T \subseteq s \ {y}
        BY <1>1, <3>1
      <4> QED BY <4>1
    <3>4. SumOver(g, s \ {y}) \in Nat /\ g[y] \in Nat
      <4>1. IsFiniteSet(s \ {y}) /\ \A u \in s \ {y} : g[u] \in Nat
        BY <2>1, FS_Subset
      <4> QED BY <4>1, SumType
    <3> QED BY <1>0, <3>2, <3>3, <3>4
  <2> QED BY <2>2, <2>3
<1> HIDE DEF P
<1>2. S \in P
  BY <1>1, SubsetInduction
<1> QED BY <1>2 DEF P

\* A sum of terms of at most b is at most b times their number.
LEMMA SumBound ==
  ASSUME NEW S, IsFiniteSet(S), NEW g, NEW b \in Nat, \A x \in S : g[x] \in Nat /\ g[x] <= b
  PROVE  SumOver(g, S) <= b * Cardinality(S)
<1> DEFINE P == {s \in SUBSET S : SumOver(g, s) <= b * Cardinality(s)}
<1>1. ASSUME NEW s \in SUBSET S, \A t \in SUBSET s : t # s => t \in P PROVE s \in P
  <2>1. IsFiniteSet(s)
    BY FS_Subset
  <2>2. CASE s = {}
    <3>1. SumOver(g, s) = 0
      BY <2>1, <2>2, SumUnfold
    <3>2. Cardinality(s) = 0
      BY <2>2, FS_EmptySet
    <3>3. b * 0 = 0
      OBVIOUS
    <3> QED BY <3>1, <3>2, <3>3
  <2>3. CASE s # {}
    <3> DEFINE x == Any(s)
               t == s \ {x}
    <3>1. t \in P /\ x \in s /\ x \in S
      BY <1>1, <2>3, AnyFacts
    <3>2. SumOver(g, s) = g[x] + SumOver(g, t)
      BY <2>1, <2>3, SumUnfold
    <3>3. IsFiniteSet(t) /\ Cardinality(t) = Cardinality(s) - 1 /\ Cardinality(s) \in Nat /\ Cardinality(t) \in Nat
      BY <2>1, <3>1, FS_RemoveElement, FS_CardinalityType
    <3>4. SumOver(g, t) \in Nat /\ SumOver(g, t) <= b * Cardinality(t) /\ g[x] \in Nat /\ g[x] <= b
      <4>1. \A u \in t : g[u] \in Nat
        OBVIOUS
      <4> QED BY <3>1, <3>3, <4>1, SumType
    <3> DEFINE n == Cardinality(t)
               c == b * n
    <3>5. b * (n + 1) = c + b /\ c \in Nat
      BY <3>3
    <3>6. Cardinality(s) = n + 1
      BY <3>3
    <3> HIDE DEF x, t, n, c
    <3>7. SumOver(g, s) <= b * Cardinality(s)
      BY <3>2, <3>4, <3>5, <3>6 DEF n, c
    <3> QED BY <3>7
  <2> QED BY <2>2, <2>3
<1> HIDE DEF P
<1>2. S \in P
  BY <1>1, SubsetInduction
<1> QED BY <1>2 DEF P

\* Only the values on S matter.
LEMMA SumSame ==
  ASSUME NEW S, IsFiniteSet(S), NEW f, NEW g, \A x \in S : f[x] = g[x]
  PROVE  SumOver(f, S) = SumOver(g, S)
<1> DEFINE P == {s \in SUBSET S : SumOver(f, s) = SumOver(g, s)}
<1>1. ASSUME NEW s \in SUBSET S, \A t \in SUBSET s : t # s => t \in P PROVE s \in P
  <2>1. IsFiniteSet(s)
    BY FS_Subset
  <2>2. CASE s = {}
    BY <2>1, <2>2, SumUnfold
  <2>3. CASE s # {}
    <3>1. s \ {Any(s)} \in P /\ Any(s) \in S
      BY <1>1, <2>3, AnyFacts
    <3>2. /\ SumOver(f, s) = f[Any(s)] + SumOver(f, s \ {Any(s)})
          /\ SumOver(g, s) = g[Any(s)] + SumOver(g, s \ {Any(s)})
      BY <2>1, <2>3, SumUnfold
    <3> QED BY <3>1, <3>2
  <2> QED BY <2>2, <2>3
<1> HIDE DEF P
<1>2. S \in P
  BY <1>1, SubsetInduction
<1> QED BY <1>2 DEF P
===============================================================================
