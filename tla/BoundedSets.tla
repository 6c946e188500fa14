----------------------------- MODULE BoundedSets -----------------------------
(* Facts about sets of numbers that several proofs need.                    *)
EXTENDS Integers, WellFoundedInduction, TLAPS

(* A set of numbers up to N that is not empty has a greatest element.       *)
LEMMA GreatestExists ==
    ASSUME NEW N \in Nat, NEW S \in SUBSET (0..N), S # {}
    PROVE  \E m \in S : \A x \in S : x <= m
<1> DEFINE R == OpToRel(<, Nat)
           T == {N - x : x \in S}
<1>1. T \subseteq Nat /\ T # {}
  <2>1. \A x \in S : N - x \in Nat
    OBVIOUS
  <2> QED BY <2>1
<1>2. IsWellFoundedOn(R, Nat)
  BY NatLessThanWellFounded
<1> HIDE DEF R
<1>3. PICK y \in T : \A z \in T : <<z, y>> \notin R
  BY <1>1, <1>2, WFMin
<1>4. \A z \in T : ~(z < y)
  BY <1>1, <1>3 DEF R, OpToRel
<1>5. PICK m \in S : y = N - m
  OBVIOUS
<1>6. ASSUME NEW x \in S PROVE x <= m
  <2>1. ~(N - x < N - m)
    BY <1>4, <1>5
  <2>2. x \in Int /\ m \in Int
    OBVIOUS
  <2> QED BY <2>1, <2>2
<1> QED BY <1>6

(***************************************************************************)
(* Induction up to N, for a predicate given as the set of numbers that have *)
(* it.                                                                      *)
(***************************************************************************)
LEMMA IntervalInduction ==
    ASSUME NEW N \in Nat, NEW S \in SUBSET (0..N), 0 \in S,
           \A k \in S : k < N => k + 1 \in S
    PROVE  N \in S
<1>1. PICK m \in S : \A x \in S : x <= m
  BY GreatestExists
<1>2. m \in 0..N
  OBVIOUS
<1>3. ~(m < N)
  BY <1>1, <1>2
<1> QED BY <1>2, <1>3
=============================================================================
