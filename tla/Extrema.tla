------------------------------- MODULE Extrema -------------------------------
(***************************************************************************)
(* Sets of naturals have a least element and, when bounded, a greatest:    *)
(* what the CHOOSE definitions of Raft and LockTable rely on.              *)
(***************************************************************************)
EXTENDS Integers, WellFoundedInduction, TLAPS

\* A set of naturals that is not empty has a least element.
LEMMA MinExists ==
    ASSUME NEW S, S \subseteq Nat, S # {}
    PROVE  \E x \in S : \A y \in S : x <= y
<1>. DEFINE R == OpToRel(<, Nat)
<1>1. \A a, b \in Nat : <<b, a>> \in R <=> b < a
    BY DEF OpToRel
<1>2. \E x \in S : \A y \in S : ~ (<<y, x>> \in R)
    BY NatLessThanWellFounded, WFMin, Zenon
<1>. HIDE DEF R
<1>3. PICK x \in S : \A y \in S : ~ (<<y, x>> \in R)
    BY <1>2
<1>4. \A y \in S : ~ (y < x)
    BY <1>1, <1>3, Zenon
<1>. QED
    BY <1>4

\* A bounded set of naturals that is not empty has a greatest element: the
\* least distance to the bound.
LEMMA MaxExists ==
    ASSUME NEW S, S \subseteq Nat, S # {},
           NEW b \in Nat, \A x \in S : x <= b
    PROVE  \E x \in S : \A y \in S : y <= x
<1>. DEFINE T == {n \in Nat : \E x \in S : n = b - x}
<1>1. \A y \in S : b - y \in T
    OBVIOUS
<1>2. PICK t \in T : \A u \in T : t <= u
    BY <1>1, MinExists, T \subseteq Nat, T # {}
<1>3. PICK x \in S : t = b - x
    OBVIOUS
<1>4. \A y \in S : b - x <= b - y
    BY <1>1, <1>2, <1>3
<1>. QED
    BY <1>4
==============================================================================
