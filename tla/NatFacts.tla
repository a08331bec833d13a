------------------------------ MODULE NatFacts ------------------------------
(***************************************************************************)
(* Least and greatest elements of sets of naturals, which the minima and   *)
(* maxima of the other modules are defined by.  They follow from the       *)
(* well-foundedness of < without an induction over data.                   *)
(***************************************************************************)
EXTENDS Integers, WellFoundedInduction, TLAPS

\* A non-empty set of naturals has a least element.
LEMMA LeastNat ==
    ASSUME NEW T \in SUBSET Nat, T # {}
    PROVE  \E x \in T : \A y \in T : x <= y
<1> DEFINE R == {ss \in Nat \X Nat : ss[1] < ss[2]}
<1>1. IsWellFoundedOn(R, Nat)
  BY NatLessThanWellFounded DEF OpToRel
<1>2. \A x, y \in T : y < x => <<y, x>> \in R
  OBVIOUS
<1> HIDE DEF R
<1>3. PICK x \in T : \A y \in T : ~(<<y, x>> \in R)
  BY <1>1, WFMin
<1>4. \A y \in T : ~(y < x)
  BY <1>2, <1>3, Zenon
<1>5. \A y \in T : x <= y
  BY <1>4, SMT
<1>6. QED
  BY <1>5

\* A non-empty, bounded set of naturals has a greatest element.
LEMMA GreatestNat ==
    ASSUME NEW T \in SUBSET Nat, T # {}, NEW n \in Nat, \A y \in T : y <= n
    PROVE  \E x \in T : \A y \in T : y <= x
<1> DEFINE U == {n - y : y \in T}
<1>1. U \in SUBSET Nat /\ U # {}
  <2>1. \A y \in T : n - y \in Nat
    OBVIOUS
  <2>2. QED
    BY <2>1, Zenon
<1>2. PICK u \in U : \A v \in U : u <= v
  <2> HIDE DEF U
  <2>1. QED
    BY <1>1, LeastNat
<1>3. PICK x \in T : u = n - x
  OBVIOUS
<1>4. \A y \in T : n - x <= n - y
  BY <1>2, <1>3
<1>5. \A y \in T : y <= x
  BY <1>4
<1>6. QED
  BY <1>5

\* A finite list of naturals is bounded.
LEMMA ListBound ==
    ASSUME NEW n \in Nat, NEW s \in [1..n -> Nat]
    PROVE  \E m \in Nat : \A i \in 1..n : s[i] <= m
<1> DEFINE K == {k \in 0..n : \E m \in Nat : \A i \in 1..k : s[i] <= m}
<1>1. 0 \in K
  OBVIOUS
<1>2. K \in SUBSET Nat /\ K # {} /\ \A k \in K : k <= n
  BY <1>1
<1>3. PICK k \in K : \A j \in K : j <= k
  <2> HIDE DEF K
  <2>1. QED
    BY <1>2, GreatestNat
<1>4. PICK m \in Nat : \A i \in 1..k : s[i] <= m
  OBVIOUS
<1>5. ASSUME k # n PROVE FALSE
  <2>1. k + 1 \in 0..n /\ s[k + 1] \in Nat
    BY <1>5
  <2> DEFINE M == m + s[k + 1]
  <2>2. M \in Nat /\ M >= m /\ M >= s[k + 1]
    BY <2>1
  <2> HIDE DEF M
  <2>3. \A i \in 1..(k + 1) : s[i] <= M
    <3>1. \A i \in 1..k : s[i] \in Nat /\ s[i] <= M
      BY <1>4, <2>1, <2>2
    <3>2. QED
      BY <2>1, <2>2, <3>1
  <2>4. k + 1 \in K
    BY <2>1, <2>2, <2>3
  <2>5. k \in Nat
    OBVIOUS
  <2> HIDE DEF K
  <2>6. k + 1 <= k
    BY <1>3, <2>4
  <2>7. QED
    BY <2>5, <2>6
<1>6. QED
  BY <1>4, <1>5
=============================================================================
