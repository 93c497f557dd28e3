---------------------------- MODULE NatLemmas ----------------------------
(***************************************************************************)
(* The least-number principle, from which the proofs of the other modules  *)
(* take their inductions: a claim about every number is shown by looking   *)
(* at the least number for which it fails.  It is derived from the well-   *)
(* foundedness of the strict subset ordering on finite sets.               *)
(***************************************************************************)
EXTENDS Integers, FiniteSets, FiniteSetTheorems, WellFoundedInduction, TLAPS

\* Every nonempty set of natural numbers has a least element: n is compared
\* through the interval of the numbers below it.
LEMMA Least ==
  ASSUME NEW C \in SUBSET Nat, C # {}
  PROVE  \E m \in C : \A k \in C : m <= k
<1> DEFINE R == StrictSubsetOrdering(Nat)
           Below(n) == 0 .. (n - 1)
           T == {Below(n) : n \in C}
<1>1. \A n \in C : Below(n) \in FiniteSubsetsOf(Nat)
  <2> SUFFICES ASSUME NEW n \in C PROVE Below(n) \in FiniteSubsetsOf(Nat)
    OBVIOUS
  <2>1. IsFiniteSet(Below(n))
    <3>1. 0 \in Int /\ n - 1 \in Int OBVIOUS
    <3> QED BY <3>1, FS_Interval
  <2> QED BY <2>1 DEF FiniteSubsetsOf
<1>2. T \subseteq FiniteSubsetsOf(Nat) /\ T # {}
  BY <1>1
<1>3. IsWellFoundedOn(R, FiniteSubsetsOf(Nat))
  BY FS_StrictSubsetOrderingWellFounded
<1> HIDE DEF R, T
<1>4. PICK x \in T : \A y \in T : ~ (<<y, x>> \in R)
  BY <1>2, <1>3, WFMin
<1>5. PICK m \in C : x = Below(m)
  BY DEF T
<1>6. ASSUME NEW k \in C, k < m PROVE FALSE
  <2>1. Below(k) \in T BY DEF T
  <2>2. Below(k) \subseteq Below(m) /\ Below(k) # Below(m) /\ Below(k) \in SUBSET Nat /\ Below(m) \in SUBSET Nat
    <3>1. k \in Nat /\ m \in Nat OBVIOUS
    <3>2. k \in Below(m) /\ k \notin Below(k) BY <3>1, <1>6
    <3>3. Below(k) \subseteq Below(m) BY <3>1, <1>6
    <3> QED BY <3>2, <3>3
  <2> HIDE DEF Below
  <2>3. <<Below(k), Below(m)>> \in R BY <2>2 DEF R, StrictSubsetOrdering
  <2> QED BY <2>1, <2>3, <1>4, <1>5
<1> QED BY <1>6
==========================================================================
