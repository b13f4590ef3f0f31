------------------------------ MODULE Induction ------------------------------
(***************************************************************************)
(* Induction over the naturals in first-order form: a non-empty set of     *)
(* naturals has a least element, because the finite subsets of a set are   *)
(* well-founded under inclusion; and what a recursive function computes    *)
(* exists.                                                                 *)
(***************************************************************************)
EXTENDS Integers, FiniteSetTheorems, WellFoundedInduction, TLAPS

\* A property that fails for some natural fails for a least one.
LEMMA LeastNatural ==
  ASSUME NEW T \in SUBSET Nat, T # {}
  PROVE  \E n \in T : \A m \in T : n <= m
<1>1. PICK top \in T : TRUE
  OBVIOUS
<1> DEFINE S == 0 .. top
           R == StrictSubsetOrdering(S)
           U == {0 .. n : n \in {x \in T : x <= top}}
<1>2. IsFiniteSet(S)
  BY <1>1, FS_Interval
<1>3. IsWellFoundedOn(R, SUBSET S)
  BY <1>2, FS_StrictSubsetOrderingWellFounded, FS_FiniteSubsetsOfFinite
<1>4. U \subseteq SUBSET S /\ U # {}
  BY <1>1
<1> HIDE DEF R, U, S
<1>5. PICK u \in U : \A v \in U : ~(<<v, u>> \in R)
  BY <1>3, <1>4, WFMin
<1>6. PICK m \in T : m <= top /\ u = 0 .. m
  BY <1>5 DEF U
<1>7. ASSUME NEW n \in T, n < m PROVE FALSE
  <2>1. 0 .. n \in U /\ 0 .. n \subseteq S
    BY <1>1, <1>6, <1>7 DEF U, S
  <2>2. m \in u /\ m \notin 0 .. n /\ 0 .. n \subseteq u /\ u \subseteq S
    BY <1>1, <1>6, <1>7 DEF S
  <2> QED BY <1>5, <2>1, <2>2 DEF R, StrictSubsetOrdering
<1> QED BY <1>6, <1>7

\* A set that holds the first of an interval, and with each number the next,
\* holds the interval.
LEMMA IntervalInduction ==
  ASSUME NEW lo \in Int, NEW hi \in Int, NEW T,
         lo \in T,
         \A k \in lo .. hi : k # lo /\ k - 1 \in T => k \in T
  PROVE  lo .. hi \subseteq T
<1> DEFINE Bad == {m \in Nat : lo + m \in lo .. hi /\ lo + m \notin T}
<1>1. CASE Bad = {}
  <2>1. ASSUME NEW k \in lo .. hi PROVE k \in T
    <3>1. k - lo \in Nat /\ lo + (k - lo) = k
      OBVIOUS
    <3>2. k \notin T => k - lo \in Bad
      BY <3>1
    <3> HIDE DEF Bad
    <3> QED BY <1>1, <3>2
  <2> QED BY <2>1
<1>2. CASE Bad # {}
  <2>1. Bad \subseteq Nat
    OBVIOUS
  <2> HIDE DEF Bad
  <2>2. PICK m \in Bad : \A l \in Bad : m <= l
    BY <1>2, <2>1, LeastNatural
  <2>3. m \in Nat /\ lo + m \in lo .. hi /\ lo + m \notin T
    BY <2>2 DEF Bad
  <2>4. m # 0
    BY <2>3
  <2>5. m - 1 \notin Bad
    BY <2>2, <2>3
  <2>6. m - 1 \in Nat /\ lo + (m - 1) \in lo .. hi
    BY <2>3, <2>4
  <2>7. lo + (m - 1) \in T
    BY <2>5, <2>6 DEF Bad
  <2>8. lo + m # lo /\ (lo + m) - 1 = lo + (m - 1)
    BY <2>3, <2>4
  <2> QED BY <2>3, <2>7, <2>8
<1> QED BY <1>1, <1>2

\* Each value of w on lo .. hi is computed from the one before.
Computes(w, lo, hi, D, first, step) ==
  /\ w \in [lo .. hi -> D]
  /\ lo <= hi => w[lo] = first
  /\ \A k \in lo .. hi : k # lo => w[k] = step[<<k, w[k - 1]>>]

\* Recursion over an interval defines a function.
LEMMA Recursion ==
  ASSUME NEW lo \in Int, NEW hi \in Int, NEW D, NEW first \in D,
         NEW step \in [(lo .. hi) \X D -> D]
  PROVE  \E w : Computes(w, lo, hi, D, first, step)
<1> DEFINE Upto(w, n) == /\ w \in [lo .. n -> D]
                         /\ w[lo] = first
                         /\ \A k \in lo .. n : k # lo => w[k] = step[<<k, w[k - 1]>>]
           T == {n \in lo .. hi : \E w : Upto(w, n)}
<1>1. CASE hi < lo
  <2> DEFINE w == [k \in lo .. hi |-> first]
  <2>1. ~(lo <= hi) /\ \A k \in lo .. hi : FALSE
    BY <1>1
  <2>2. w \in [lo .. hi -> D]
    OBVIOUS
  <2> HIDE DEF w
  <2> QED BY <2>1, <2>2 DEF Computes
<1>2. CASE lo <= hi
  <2>1. lo \in T
    <3> DEFINE w == [k \in lo .. lo |-> first]
    <3>1. lo \in lo .. lo /\ \A k \in lo .. lo : k = lo
      OBVIOUS
    <3>2. Upto(w, lo)
      BY <3>1
    <3>3. lo \in lo .. hi
      BY <1>2
    <3> HIDE DEF w
    <3> QED BY <3>2, <3>3
  <2>2. ASSUME NEW n \in lo .. hi, n # lo, n - 1 \in T
        PROVE  n \in T
    <3>1. PICK w : Upto(w, n - 1)
      BY <2>2
    <3> DEFINE v == [k \in lo .. n |-> IF k = n THEN step[<<n, w[n - 1]>>] ELSE w[k]]
    <3>2. \A k \in lo .. n - 1 : k \in lo .. n /\ k # n /\ w[k] \in D
      BY <3>1
    <3>3. \A k \in lo .. n - 1 : v[k] = w[k]
      BY <3>2
    <3>4. w[n - 1] \in D /\ v[n] = step[<<n, w[n - 1]>>] /\ v[n] \in D
      <4>1. n - 1 \in lo .. n - 1 /\ n \in lo .. n
        BY <2>2
      <4>2. w[n - 1] \in D
        BY <3>2, <4>1
      <4>3. step[<<n, w[n - 1]>>] \in D
        BY <2>2, <4>2
      <4> QED BY <4>1, <4>2, <4>3
    <3>5. v \in [lo .. n -> D]
      BY <3>2, <3>4
    <3>6. v[lo] = first
      <4>1. lo \in lo .. n - 1
        BY <2>2
      <4> QED BY <3>1, <3>3, <4>1
    <3>7. ASSUME NEW k \in lo .. n, k # lo PROVE v[k] = step[<<k, v[k - 1]>>]
      <4>1. k - 1 \in lo .. n - 1
        BY <2>2, <3>7
      <4>2. v[k - 1] = w[k - 1]
        BY <3>3, <4>1
      <4>3. CASE k = n
        BY <3>4, <4>2, <4>3
      <4>4. CASE k # n
        <5>1. k \in lo .. n - 1
          BY <2>2, <4>4
        <5> QED BY <3>1, <3>3, <3>7, <4>2, <5>1
      <4> QED BY <4>3, <4>4
    <3> HIDE DEF v
    <3>8. Upto(v, n)
      BY <3>5, <3>6, <3>7
    <3> QED BY <2>2, <3>8
  <2> HIDE DEF T
  <2>3. lo .. hi \subseteq T
    BY <2>1, <2>2, IntervalInduction
  <2>4. hi \in T
    BY <1>2, <2>3
  <2>5. \E w : Upto(w, hi)
    BY <2>4 DEF T
  <2> QED BY <2>5 DEF Computes
<1> QED BY <1>1, <1>2
=============================================================================
