------------------------------- MODULE FiniteLemmas ----------------------------
(***************************************************************************)
(* Lemmas on finite sets: how a cardinality changes when a set changes,    *)
(* the arithmetic behind every reference count of this project, and that   *)
(* sets of numbers have a greatest and a least element, on which row ids   *)
(* and the cursor of a folder rest. And on queues, place by place.         *)
(***************************************************************************)
EXTENDS Integers, Sequences, FiniteSetsExt, FiniteSetTheorems, SequenceTheorems,
        WellFoundedInduction, TLAPS

\* A subset of a finite set has a natural number of elements, none if empty.
LEMMA SubsetCard ==
  ASSUME NEW D, IsFiniteSet(D), NEW S \in SUBSET D
  PROVE  /\ IsFiniteSet(S)
         /\ Cardinality(S) \in Nat
         /\ Cardinality(S) = 0 <=> S = {}
BY FS_Subset, FS_CardinalityType, FS_EmptySet

\* Two subsets of a finite set that agree on all elements but d differ in size
\* by what d weighs in each.
LEMMA PointChange ==
  ASSUME NEW D, IsFiniteSet(D), NEW S \in SUBSET D, NEW T \in SUBSET D,
         NEW d \in D, \A x \in D \ {d} : x \in S <=> x \in T
  PROVE  Cardinality(T) = Cardinality(S)
           + (IF d \in T THEN 1 ELSE 0) - (IF d \in S THEN 1 ELSE 0)
<1>1. IsFiniteSet(S) /\ Cardinality(S) \in Nat BY SubsetCard
<1>2. IsFiniteSet(T) /\ Cardinality(T) \in Nat BY SubsetCard
<1>3. CASE d \in S /\ d \in T
  <2>1. S = T BY <1>3
  <2>2. QED BY <2>1, <1>3, <1>1
<1>4. CASE d \in S /\ d \notin T
  <2>1. S \ {d} = T BY <1>4
  <2>2. QED BY <2>1, <1>4, <1>1, <1>2, FS_RemoveElement
<1>5. CASE d \notin S /\ d \in T
  <2>1. T \ {d} = S BY <1>5
  <2>2. QED BY <2>1, <1>5, <1>1, <1>2, FS_RemoveElement
<1>6. CASE d \notin S /\ d \notin T
  <2>1. S = T BY <1>6
  <2>2. QED BY <2>1, <1>6, <1>1
<1>7. QED BY <1>3, <1>4, <1>5, <1>6

\* Taking X out of a finite set lowers its count by the elements taken.
LEMMA SplitCard ==
  ASSUME NEW D, IsFiniteSet(D), NEW S \in SUBSET D, NEW X
  PROVE  /\ Cardinality(S \ X) = Cardinality(S) - Cardinality(S \cap X)
         /\ Cardinality(S \cap X) \in Nat
         /\ Cardinality(S \ X) \in Nat
<1>1. IsFiniteSet(S) BY SubsetCard
<1>2. IsFiniteSet(S \cap X) /\ Cardinality(S \cap X) \in Nat BY SubsetCard
<1>3. IsFiniteSet(S \ X) /\ Cardinality(S \ X) \in Nat BY SubsetCard
<1>4. QED BY <1>1, <1>2, <1>3, FS_Difference

-----------------------------------------------------------------------------
(* Greatest and least elements.                                            *)

\* A collection of subsets of a finite set has one that contains no other.
LEMMA SmallestSubset ==
  ASSUME NEW S, IsFiniteSet(S), NEW C, \A T \in C : T \subseteq S, C # {}
  PROVE  \E T \in C : \A U \in C : U \subseteq T => U = T
<1>1. PICK T \in C : \A U \in C : <<U, T>> \notin StrictSubsetOrdering(S)
  <2>1. C \subseteq FiniteSubsetsOf(S)
    BY FS_FiniteSubsetsOfFinite
  <2> QED  BY <2>1, FS_StrictSubsetOrderingWellFounded, WFMin
<1> QED  BY <1>1 DEF StrictSubsetOrdering

\* A finite set of numbers has a greatest element: a smallest set without one would
\* not have one either when an element is taken out of it.
LEMMA Greatest ==
  ASSUME NEW S \in SUBSET Nat, IsFiniteSet(S), S # {}
  PROVE  \E x \in S : \A y \in S : x >= y
<1> DEFINE Unbounded == {T \in SUBSET S : T # {} /\ \A x \in T : \E y \in T : y > x}
<1>1. SUFFICES ASSUME S \in Unbounded PROVE FALSE
  OBVIOUS
<1>2. PICK T \in Unbounded : \A U \in Unbounded : U \subseteq T => U = T
  <2> HIDE DEF Unbounded
  <2>1. \A T \in Unbounded : T \subseteq S
    BY DEF Unbounded
  <2>2. Unbounded # {}
    BY <1>1
  <2> QED  BY <2>1, <2>2, SmallestSubset
<1>3. PICK x \in T : TRUE
  OBVIOUS
<1>4. PICK y \in T : y > x
  OBVIOUS
<1>5. T \ {x} \notin Unbounded
  BY <1>2, <1>3
<1>6. PICK z \in T \ {x} : \A w \in T \ {x} : ~(w > z)
  BY <1>3, <1>4, <1>5
<1>7. PICK w \in T : w > z
  BY <1>6
<1> QED  BY <1>3, <1>4, <1>6, <1>7

\* Max finds it.
LEMMA MaxIsGreatest ==
  ASSUME NEW S \in SUBSET Nat, IsFiniteSet(S), S # {}
  PROVE  Max(S) \in S /\ \A y \in S : Max(S) >= y
BY Greatest DEF Max

\* Likewise, a least one, and Min finds it.
LEMMA MinIsLeast ==
  ASSUME NEW S \in SUBSET Nat, IsFiniteSet(S), S # {}
  PROVE  Min(S) \in S /\ \A y \in S : Min(S) <= y
<1> DEFINE Unbounded == {T \in SUBSET S : T # {} /\ \A x \in T : \E y \in T : y < x}
<1>1. SUFFICES ASSUME S \in Unbounded PROVE FALSE
  <2>1. CASE \E x \in S : \A y \in S : x <= y
    BY <2>1 DEF Min
  <2>2. CASE ~\E x \in S : \A y \in S : x <= y
    <3>1. \A x \in S : \E y \in S : y < x
      BY <2>2
    <3> QED  BY <3>1
  <2> QED  BY <2>1, <2>2
<1>2. PICK T \in Unbounded : \A U \in Unbounded : U \subseteq T => U = T
  <2> HIDE DEF Unbounded
  <2>1. \A T \in Unbounded : T \subseteq S
    BY DEF Unbounded
  <2>2. Unbounded # {}
    BY <1>1
  <2> QED  BY <2>1, <2>2, SmallestSubset
<1>3. PICK x \in T : TRUE
  OBVIOUS
<1>4. PICK y \in T : y < x
  OBVIOUS
<1>5. T \ {x} \notin Unbounded
  BY <1>2, <1>3
<1>6. PICK z \in T \ {x} : \A w \in T \ {x} : ~(w < z)
  BY <1>3, <1>4, <1>5
<1>7. PICK w \in T : w < z
  BY <1>6
<1> QED  BY <1>3, <1>4, <1>6, <1>7

\* The greater and the smaller of two numbers.
LEMMA MaxOfTwo ==
  ASSUME NEW a \in Int, NEW b \in Int
  PROVE  Max({a, b}) = IF a >= b THEN a ELSE b
<1>1. \E x \in {a, b} : \A y \in {a, b} : x >= y
  OBVIOUS
<1>2. Max({a, b}) \in {a, b} /\ \A y \in {a, b} : Max({a, b}) >= y
  BY <1>1 DEF Max
<1> QED  BY <1>2

LEMMA MinOfTwo ==
  ASSUME NEW a \in Int, NEW b \in Int
  PROVE  Min({a, b}) = IF a <= b THEN a ELSE b
<1>1. \E x \in {a, b} : \A y \in {a, b} : x <= y
  OBVIOUS
<1>2. Min({a, b}) \in {a, b} /\ \A y \in {a, b} : Min({a, b}) <= y
  BY <1>1 DEF Min
<1> QED  BY <1>2

\* A function has finitely many values on a finite set.
LEMMA ImageIsFinite ==
  ASSUME NEW S, IsFiniteSet(S), NEW f
  PROVE  IsFiniteSet({f[x] : x \in S})
<1> DEFINE T == {f[x] : x \in S}
           g == [x \in S |-> f[x]]
<1>1. g \in Surjection(S, T)
  BY DEF Surjection
<1> QED  BY <1>1, FS_Surjection

-----------------------------------------------------------------------------
(* Queues.                                                                 *)

\* A queue has a place for each number up to its length.
LEMMA Places ==
  ASSUME NEW S, NEW q \in Seq(S)
  PROVE  /\ Len(q) \in Nat /\ DOMAIN q = 1..Len(q)
         /\ \A i \in 1..Len(q) : q[i] \in S
         /\ q = <<>> <=> Len(q) = 0
BY LenProperties, ElementOfSeq, EmptySeq

\* Append adds a place at the end.
LEMMA Appended ==
  ASSUME NEW S, NEW q \in Seq(S), NEW m \in S
  PROVE  /\ Append(q, m) \in Seq(S) /\ Len(Append(q, m)) = Len(q) + 1
         /\ \A i \in 1..Len(q) : Append(q, m)[i] = q[i]
         /\ Append(q, m)[Len(q) + 1] = m
BY AppendProperties

\* Taking the head moves all others up.
LEMMA Taken ==
  ASSUME NEW S, NEW q \in Seq(S), q # <<>>
  PROVE  /\ Len(q) \in Nat \ {0} /\ Head(q) = q[1] /\ Head(q) \in S
         /\ Tail(q) \in Seq(S) /\ Len(Tail(q)) = Len(q) - 1
         /\ \A i \in 1..Len(q) - 1 : Tail(q)[i] = q[i + 1]
BY HeadTailProperties, EmptySeq
=============================================================================
