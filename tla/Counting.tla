------------------------------ MODULE Counting ------------------------------
(***************************************************************************)
(* Facts about cardinalities that the proofs about reference counts need:  *)
(* how a count changes when one element enters or leaves a set, and the    *)
(* least element of a set of numbers.                                      *)
(***************************************************************************)
EXTENDS Integers, FiniteSets, FiniteSetsExt, FiniteSetTheorems,
        WellFoundedInduction, TLAPS

\* To write a count as a sum.
Eq(a, b) == IF a = b THEN 1 ELSE 0
In(x, A) == IF x \in A THEN 1 ELSE 0

\* A set that changes in x only grows or shrinks by x.
LEMMA CardStep ==
  ASSUME NEW A, IsFiniteSet(A), NEW B, NEW x, A \ {x} = B \ {x}
  PROVE  /\ Cardinality(A) \in Nat /\ Cardinality(B) \in Nat
         /\ Cardinality(B) = Cardinality(A) + In(x, B) - In(x, A)
<1>1. IsFiniteSet(A) /\ IsFiniteSet(B)
  <2>1. IsFiniteSet(A \cup {x}) /\ B \subseteq A \cup {x}
    BY FS_AddElement
  <2> QED
    BY <2>1, FS_Subset
<1>2. Cardinality(A) \in Nat /\ Cardinality(B) \in Nat
  BY <1>1, FS_CardinalityType
<1>3. Cardinality(A \ {x}) = Cardinality(B \ {x})
  BY Zenon
<1>4. Cardinality(A \ {x}) = IF x \in A THEN Cardinality(A) - 1 ELSE Cardinality(A)
  BY <1>1, FS_RemoveElement
<1>5. Cardinality(B \ {x}) = IF x \in B THEN Cardinality(B) - 1 ELSE Cardinality(B)
  BY <1>1, FS_RemoveElement
<1>6. CASE x \in A /\ x \in B
  BY <1>2, <1>3, <1>4, <1>5, <1>6 DEF In
<1>7. CASE x \in A /\ x \notin B
  BY <1>2, <1>3, <1>4, <1>5, <1>7 DEF In
<1>8. CASE x \notin A /\ x \in B
  <2>1. Cardinality(A) = Cardinality(B) - 1
    BY <1>3, <1>4, <1>5, <1>8
  <2>2. Cardinality(B) = Cardinality(A) + 1
    BY <1>2, <2>1
  <2>3. In(x, B) = 1 /\ In(x, A) = 0
    BY <1>8 DEF In
  <2> QED
    BY <1>2, <2>2, <2>3
<1>9. CASE x \notin A /\ x \notin B
  BY <1>2, <1>3, <1>4, <1>5, <1>9 DEF In
<1> QED
  BY <1>6, <1>7, <1>8, <1>9

\* A set that has an element counts at least one, an empty one none.
LEMMA CountZero ==
  ASSUME NEW S, IsFiniteSet(S), NEW A, A \subseteq S
  PROVE  Cardinality(A) \in Nat /\ (Cardinality(A) = 0 <=> A = {})
BY FS_Subset, FS_CardinalityType, FS_EmptySet

\* A set of numbers that is not empty has a least element.
LEMMA LeastElement ==
  ASSUME NEW T, T \subseteq Nat, T # {}
  PROVE  /\ \E x \in T : \A y \in T : x <= y
         /\ Min(T) \in T /\ \A y \in T : Min(T) <= y
<1>1. PICK x \in T : \A y \in T : ~ (<<y, x>> \in OpToRel(<, Nat))
  BY NatLessThanWellFounded, WFMin, Zenon
<1>2. \A y \in T : x <= y
  <2>1. ASSUME NEW y \in T, ~(x <= y)
        PROVE  FALSE
    <3>1. x \in Nat /\ y \in Nat /\ y < x
      BY <2>1
    <3>2. <<y, x>> \in OpToRel(<, Nat)
      BY <3>1 DEF OpToRel
    <3> QED
      BY <1>1, <3>2
  <2> QED
    BY <2>1
<1> QED
  BY <1>2 DEF Min
=============================================================================
