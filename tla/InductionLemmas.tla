--------------------------- MODULE InductionLemmas ---------------------------
(***************************************************************************)
(* Induction over the natural numbers for sets instead of predicates, and  *)
(* what follows from it for functions defined by recursion over an         *)
(* interval, and division with a remainder: facts about data that the      *)
(* proofs of several modules need.                                         *)
(***************************************************************************)
EXTENDS Integers, WellFoundedInduction, TLAPS

\* A set of natural numbers that is not empty has a least element.
LEMMA LeastElement ==
    ASSUME NEW T \in SUBSET Nat, T # {}
    PROVE  \E n \in T : \A m \in T : n <= m
<1> DEFINE R == OpToRel(<, Nat)
<1>1. \A m, n \in Nat : <<m, n>> \in R <=> m < n
  BY DEF OpToRel
<1>2. IsWellFoundedOn(R, Nat)
  BY NatLessThanWellFounded
<1> HIDE DEF R
<1>3. PICK x \in T : \A y \in T : <<y, x>> \notin R
  BY <1>2, WFMin
<1>4. \A y \in T : ~(y < x)
  BY <1>1, <1>3
<1>5. x \in Nat /\ \A y \in T : y \in Nat
  OBVIOUS
<1> QED
  BY <1>4, <1>5

\* One that has an upper bound has a greatest.
LEMMA GreatestElement ==
    ASSUME NEW T \in SUBSET Nat, T # {}, NEW b \in Nat, \A m \in T : m <= b
    PROVE  \E n \in T : \A m \in T : m <= n
<1> DEFINE U == {k \in 0 .. b : b - k \in T}
<1>1. PICK m \in T : TRUE
  OBVIOUS
<1>2. b - m \in U
  <2>1. m \in Nat /\ m <= b
    BY <1>1
  <2>2. b - (b - m) = m
    BY <2>1
  <2> QED
    BY <1>1, <2>1, <2>2
<1>3. U \in SUBSET Nat /\ U # {}
  <2>1. U \subseteq 0 .. b
    OBVIOUS
  <2> HIDE DEF U
  <2> QED
    BY <1>2, <2>1
<1>4. PICK k \in U : \A j \in U : k <= j
  BY <1>3, LeastElement
<1>5. ASSUME NEW j \in T PROVE j <= b - k
  <2>1. j \in Nat /\ j <= b /\ k \in Nat /\ k <= b
    OBVIOUS
  <2>2. b - (b - j) = j
    BY <2>1
  <2>3. b - j \in U
    BY <2>1, <2>2
  <2>4. k <= b - j
    BY <1>4, <2>3
  <2> QED
    BY <2>1, <2>4
<1>6. b - k \in T
  OBVIOUS
<1>7. \A j \in T : j <= b - k
  BY <1>5
<1> QED
  BY <1>6, <1>7, Zenon

\* Induction.
LEMMA SetInduction ==
    ASSUME NEW T, 0 \in T, \A n \in Nat : n \in T => n + 1 \in T
    PROVE  Nat \subseteq T
<1> SUFFICES ASSUME ~(Nat \subseteq T) PROVE FALSE
  OBVIOUS
<1>1. PICK n \in Nat \ T : \A m \in Nat \ T : n <= m
  <2>1. Nat \ T \in SUBSET Nat /\ Nat \ T # {}
    OBVIOUS
  <2> QED
    BY <2>1, LeastElement
<1>2. n # 0 /\ n - 1 \in Nat
  BY <1>1
<1>3. n - 1 \in T
  BY <1>1, <1>2
<1> QED
  BY <1>1, <1>2, <1>3

\* Induction over an interval.
LEMMA IntervalInduction ==
    ASSUME NEW n \in Nat, NEW T, 0 \in T,
           \A k \in 0 .. n - 1 : k \in T => k + 1 \in T
    PROVE  0 .. n \subseteq T
<1> DEFINE U == {k \in Nat : k <= n => k \in T}
<1>1. 0 \in U
  OBVIOUS
<1>2. ASSUME NEW k \in Nat, k \in U PROVE k + 1 \in U
  <2>1. CASE k + 1 <= n
    <3>1. k \in T /\ k \in 0 .. n - 1
      BY <1>2, <2>1
    <3> QED
      BY <3>1
  <2>2. CASE ~(k + 1 <= n)
    BY <2>2
  <2> QED
    BY <2>1, <2>2
<1> HIDE DEF U
<1>3. Nat \subseteq U
  BY <1>1, <1>2, SetInduction
<1> QED
  BY <1>3 DEF U

\* Functions that step from an element of S to another, n times.
Steps(S, n) == [S -> [1 .. n -> S]]

\* g goes from c by these steps.
Follows(g, c, step, n) ==
    /\ g[0] = c
    /\ \A k \in 1 .. n : g[k] = step[g[k - 1]][k]

\* Two functions that begin alike and step alike.
Alike(g, h, n) ==
    /\ g[0] = h[0]
    /\ \A k \in 1 .. n : g[k - 1] = h[k - 1] => g[k] = h[k]

\* A step for every element of S and every index defines a function on an interval.
LEMMA RecursionExists ==
    ASSUME NEW S, NEW c \in S, NEW n \in Nat, NEW step \in Steps(S, n)
    PROVE  \E g \in [0 .. n -> S] : Follows(g, c, step, n)
<1>0. step \in [S -> [1 .. n -> S]]
  BY DEF Steps
<1> DEFINE Upto(m) == \E g \in [0 .. m -> S] :
                         /\ g[0] = c
                         /\ \A k \in 1 .. m : g[k] = step[g[k - 1]][k]
           T == {m \in 0 .. n : Upto(m)}
<1>1. 0 \in T
  <2>1. [k \in 0 .. 0 |-> c] \in [0 .. 0 -> S] /\ [k \in 0 .. 0 |-> c][0] = c
    OBVIOUS
  <2>2. \A k \in 1 .. 0 : FALSE
    OBVIOUS
  <2>3. Upto(0)
    <3> DEFINE g == [k \in 0 .. 0 |-> c]
    <3>1. g \in [0 .. 0 -> S] /\ g[0] = c
      BY <2>1
    <3> HIDE DEF g
    <3> QED
      BY <2>2, <3>1
  <2>4. 0 \in 0 .. n
    OBVIOUS
  <2> HIDE DEF Upto
  <2> QED
    BY <2>3, <2>4
<1>2. ASSUME NEW m \in 0 .. n - 1, m \in T PROVE m + 1 \in T
  <2>1. PICK g \in [0 .. m -> S] : /\ g[0] = c
                                   /\ \A k \in 1 .. m : g[k] = step[g[k - 1]][k]
    BY <1>2
  <2> DEFINE h == [k \in 0 .. m + 1 |-> IF k <= m THEN g[k] ELSE step[g[m]][m + 1]]
  <2>2. m \in 0 .. m /\ m + 1 \in 1 .. n /\ m + 1 \in 0 .. n
    OBVIOUS
  <2>3. step[g[m]][m + 1] \in S
    BY <1>0, <2>2
  <2>4. h \in [0 .. m + 1 -> S]
    <3>1. \A k \in 0 .. m + 1 : k <= m => k \in 0 .. m
      OBVIOUS
    <3> QED
      BY <2>3, <3>1
  <2>5. h[0] = c
    BY <2>1
  <2>6. ASSUME NEW k \in 1 .. m + 1 PROVE h[k] = step[h[k - 1]][k]
    <3>1. k - 1 \in 0 .. m /\ k - 1 \in 0 .. m + 1 /\ k \in 0 .. m + 1
      OBVIOUS
    <3>2. h[k - 1] = g[k - 1]
      BY <3>1
    <3>3. CASE k <= m
      BY <2>1, <3>1, <3>2, <3>3
    <3>4. CASE ~(k <= m)
      <4>1. k = m + 1 /\ k - 1 = m
        BY <3>4
      <4> QED
        BY <3>1, <3>2, <4>1
    <3> QED
      BY <3>3, <3>4
  <2> HIDE DEF h
  <2>7. \E x \in [0 .. m + 1 -> S] :
           /\ x[0] = c
           /\ \A k \in 1 .. m + 1 : x[k] = step[x[k - 1]][k]
    BY <2>4, <2>5, <2>6, Zenon
  <2>8. Upto(m + 1)
    BY <2>7, Zenon
  <2> HIDE DEF Upto
  <2> QED
    BY <2>2, <2>8
<1>3. \A m \in 0 .. n - 1 : m \in T => m + 1 \in T
  BY <1>2
<1>4. 0 .. n \subseteq T
  <2> HIDE DEF T
  <2> QED
    BY <1>1, <1>3, IntervalInduction
<1>5. n \in T
  <2>1. n \in 0 .. n
    OBVIOUS
  <2> QED
    BY <1>4, <2>1
<1> QED
  BY <1>5 DEF Follows

\* Two functions that begin alike and step alike are the same as far as they do.
LEMMA SameRecursion ==
    ASSUME NEW n \in Nat, NEW g, NEW h, Alike(g, h, n)
    PROVE  \A k \in 0 .. n : g[k] = h[k]
<1> DEFINE T == {k \in 0 .. n : g[k] = h[k]}
<1>1. 0 \in T
  BY DEF Alike
<1>2. ASSUME NEW k \in 0 .. n - 1, k \in T PROVE k + 1 \in T
  <2>1. k + 1 \in 1 .. n /\ (k + 1) - 1 = k /\ k + 1 \in 0 .. n
    OBVIOUS
  <2>2. g[k] = h[k]
    BY <1>2
  <2> QED
    BY <2>1, <2>2 DEF Alike
<1>3. \A k \in 0 .. n - 1 : k \in T => k + 1 \in T
  BY <1>2
<1> HIDE DEF T
<1>4. 0 .. n \subseteq T
  BY <1>1, <1>3, IntervalInduction
<1> QED
  BY <1>4 DEF T

\* Division with a remainder.
LEMMA DivisionFacts ==
    ASSUME NEW a \in Nat, NEW d \in Nat, d > 0
    PROVE  /\ a \div d \in Nat /\ a % d \in 0 .. d - 1
           /\ a = d * (a \div d) + (a % d)
  OBVIOUS

\* A quotient is small where the number is.
LEMMA QuotientBelow ==
    ASSUME NEW a \in Nat, NEW d \in Nat, d > 0, NEW n \in Nat, a < n * d
    PROVE  a \div d < n
<1>1. PICK q \in Nat : q = a \div d
  BY DivisionFacts
<1>2. PICK r \in 0 .. d - 1 : r = a % d
  BY DivisionFacts
<1>3. a = d * q + r
  BY <1>1, <1>2, DivisionFacts
<1>4. SUFFICES ASSUME q >= n PROVE FALSE
  BY <1>1
<1>5. d * q >= d * n
  BY <1>4
<1> QED
  BY <1>2, <1>3, <1>5
=============================================================================
