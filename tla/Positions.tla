----------------------------- MODULE Positions -----------------------------
(***************************************************************************)
(* Sets of positions in a list, for the proofs that argue about the first    *)
(* of them.                                                                 *)
(***************************************************************************)
EXTENDS Naturals, FiniteSetTheorems, TLAPS

(* A set of naturals has a least element: the strict subset order on finite  *)
(* sets is well-founded, and n is ordered like 0..n.                         *)
LEMMA LeastElement ==
    ASSUME NEW T, T \subseteq Nat, T # {}
    PROVE  \E x \in T : \A y \in T : x <= y
<1> DEFINE F == {0..x : x \in T}
<1>1. F \subseteq FiniteSubsetsOf(Nat)
  <2> SUFFICES ASSUME NEW x \in T PROVE 0..x \in FiniteSubsetsOf(Nat)
    OBVIOUS
  <2>1. x \in Nat /\ IsFiniteSet(0..x)
    BY FS_Interval
  <2> QED
    BY <2>1 DEF FiniteSubsetsOf
<1>2. F # {}
  OBVIOUS
<1>3. PICK s \in F : \A r \in F : <<r, s>> \notin StrictSubsetOrdering(Nat)
  <2> HIDE DEF F
  <2> QED
    BY <1>1, <1>2, FS_StrictSubsetOrderingWellFounded, WFMin
<1>4. PICK x \in T : s = 0..x
  BY <1>3
<1>5. ASSUME NEW y \in T, y < x PROVE FALSE
  <2>1. y \in Nat /\ x \in Nat /\ 0..y \in F
    BY DEF F
  <2>2. 0..y \subseteq 0..x /\ x \in 0..x /\ x \notin 0..y
    BY <1>5, <2>1
  <2>3. <<0..y, 0..x>> \in StrictSubsetOrdering(Nat)
    <3>1. 0..y \in SUBSET Nat /\ 0..x \in SUBSET Nat /\ 0..y # 0..x
      BY <2>1, <2>2
    <3> QED
      BY <2>2, <3>1 DEF StrictSubsetOrdering
  <2> QED
    BY <1>3, <1>4, <2>1, <2>3
<1> QED
  BY <1>5
=============================================================================
