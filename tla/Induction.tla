------------------------------- MODULE Induction -------------------------------
(***************************************************************************)
(* Induction over the naturals as a fact about sets.  The provers cannot   *)
(* use an induction theorem, whose parameter is an operator; but finite    *)
(* sets can be counted, and what counting says is enough.                  *)
(***************************************************************************)
EXTENDS Integers, FiniteSetTheorems, TLAPS

(* A set of naturals, not beyond m, with everything below each of its      *)
(* members is an interval: it has as many members as it has to have.       *)
LEMMA DownwardClosed ==
    ASSUME NEW B \in SUBSET Nat, NEW m \in Nat, B \subseteq 0..m, 0 \in B,
           \A k \in B : 0..k \subseteq B
    PROVE  \E c \in Nat : B = 0..c
<1>1. IsFiniteSet(0..m)
  BY FS_Interval
<1>2. IsFiniteSet(B)
  BY <1>1, FS_Subset
<1>3. PICK c \in Nat : c = Cardinality(B)
  BY <1>2, FS_CardinalityType
<1>4. ASSUME NEW k \in B
      PROVE  k + 1 <= c
  <2>1. Cardinality(0..k) <= Cardinality(B)
    BY <1>2, FS_Subset
  <2>2. Cardinality(0..k) = k + 1
    <3>1. 0 \in Int /\ k \in Int /\ ~ 0 > k
      OBVIOUS
    <3> QED
      BY <3>1, FS_Interval
  <2> QED
    BY <2>1, <2>2, <1>3
<1>5. c >= 1 /\ B \subseteq 0..(c - 1)
  BY <1>4
<1>6. IsFiniteSet(0..(c - 1)) /\ Cardinality(0..(c - 1)) = c
  <2>1. 0 \in Int /\ c - 1 \in Int /\ ~ 0 > c - 1 /\ (c - 1) - 0 + 1 = c
    BY <1>5
  <2> QED
    BY <2>1, FS_Interval
<1>7. B = 0..(c - 1)
  BY <1>3, <1>5, <1>6, FS_Subset
<1> QED
  BY <1>5, <1>7

(* What holds of 0, and of a number up to m if it holds of the one before, *)
(* holds of m; B is the set of the numbers that it holds of.               *)
LEMMA UpTo ==
    ASSUME NEW m \in Nat, NEW B, 0 \in B, \A k \in 0..(m - 1) : k \in B => k + 1 \in B
    PROVE  m \in B
<1> DEFINE Reached == {k \in 0..m : 0..k \subseteq B}
<1>1. /\ Reached \in SUBSET Nat /\ Reached \subseteq 0..m
      /\ 0 \in Reached
      /\ \A k \in Reached : 0..k \subseteq Reached
  OBVIOUS
<1>2. PICK c \in Nat : Reached = 0..c
  <2> HIDE DEF Reached
  <2> QED
    BY <1>1, DownwardClosed
<1>3. c \in Reached /\ c + 1 \notin Reached
  <2>1. c \in 0..c /\ c + 1 \notin 0..c
    OBVIOUS
  <2> HIDE DEF Reached
  <2> QED
    BY <1>2, <2>1
<1>4. c < m => c + 1 \in Reached
  <2>1. c < m => c + 1 \in B
    BY <1>3
  <2>2. 0..(c + 1) = (0..c) \cup {c + 1}
    OBVIOUS
  <2> QED
    BY <1>3, <2>1, <2>2
<1>5. c = m
  BY <1>3, <1>4
<1> QED
  BY <1>3, <1>5
===============================================================================
