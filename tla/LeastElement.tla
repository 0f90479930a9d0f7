---------------------------- MODULE LeastElement ----------------------------
(* A fact about the naturals that several proofs use.                      *)
EXTENDS Integers, FiniteSetTheorems, TLAPS

(* Every set of naturals that is not empty has a least element: the        *)
(* intervals up to its elements are finite sets, on which strict inclusion *)
(* is well-founded.                                                        *)
LEMMA LeastExists ==
    ASSUME NEW nats, nats \subseteq Nat, nats # {}
    PROVE  \E x \in nats : \A y \in nats : x <= y
<1> DEFINE intervals == {0..x : x \in nats}
<1>1. intervals \subseteq FiniteSubsetsOf(Nat) /\ intervals # {}
  <2>1. ASSUME NEW x \in nats PROVE 0..x \in FiniteSubsetsOf(Nat)
    <3>1. IsFiniteSet(0..x)
      BY FS_Interval
    <3> QED BY <3>1 DEF FiniteSubsetsOf
  <2> QED BY <2>1
<1>2. PICK shortest \in intervals :
         \A i \in intervals : <<i, shortest>> \notin StrictSubsetOrdering(Nat)
  <2> HIDE DEF intervals
  <2>1. IsWellFoundedOn(StrictSubsetOrdering(Nat), FiniteSubsetsOf(Nat))
    BY FS_StrictSubsetOrderingWellFounded
  <2> QED BY <1>1, <2>1, WFMin
<1>3. PICK x \in nats : shortest = 0..x
  OBVIOUS
<1>4. ASSUME NEW y \in nats, y < x PROVE FALSE
  <2>1. 0..y \in intervals /\ 0..y \in SUBSET Nat /\ 0..x \in SUBSET Nat
    OBVIOUS
  <2>2. 0..y \subseteq 0..x /\ 0..y # 0..x
    <3>1. x \in 0..x /\ x \notin 0..y
      BY <1>4
    <3> QED BY <1>4, <3>1
  <2> HIDE DEF intervals
  <2> QED BY <1>2, <1>3, <2>1, <2>2 DEF StrictSubsetOrdering
<1> QED BY <1>4
=============================================================================
