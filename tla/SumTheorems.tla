----------------------------- MODULE SumTheorems -----------------------------
(***************************************************************************)
(* What the sum of the values of a function over a finite set does when    *)
(* elements come and go: the arithmetic behind every byte count of the     *)
(* server.  A sum is the number of units <<x, i>> with i \in 1 .. f[x], so *)
(* that facts about sums are facts about the cardinality of sets.          *)
(***************************************************************************)
EXTENDS FiniteSets, Integers, Functions, FiniteSetTheorems, WellFoundedInduction, TLAPS

Column(x, n) == {x} \X (1 .. n)

Units(S, f) == UNION {Column(x, f[x]) : x \in S}

Counts(S, f) == IsFiniteSet(S) /\ \A x \in S : f[x] \in Nat

LEMMA ColumnSize ==
    ASSUME NEW x, NEW n \in Nat
    PROVE  IsFiniteSet(Column(x, n)) /\ Cardinality(Column(x, n)) = n
<1>1. IsFiniteSet({x}) /\ Cardinality({x}) = 1
  BY FS_Singleton
<1>2. IsFiniteSet(1 .. n) /\ Cardinality(1 .. n) = n
  BY FS_Interval
<1>3. /\ IsFiniteSet({x} \X (1 .. n))
      /\ Cardinality({x} \X (1 .. n)) = Cardinality({x}) * Cardinality(1 .. n)
  BY <1>1, <1>2, FS_Product
<1>4. Cardinality({x}) * Cardinality(1 .. n) = n
  BY <1>1, <1>2
<1> QED
  BY <1>3, <1>4 DEF Column

LEMMA UnitsFinite ==
    ASSUME NEW S, NEW f, Counts(S, f)
    PROVE  IsFiniteSet(Units(S, f)) /\ Cardinality(Units(S, f)) \in Nat
<1> DEFINE C == {Column(x, f[x]) : x \in S}
           c == [x \in S |-> Column(x, f[x])]
<1>1. c \in Surjection(S, C)
  BY DEF Surjection
<1>2. IsFiniteSet(C)
  BY <1>1, FS_Surjection DEF Counts
<1>3. \A T \in C : IsFiniteSet(T)
  BY ColumnSize DEF Counts
<1>4. IsFiniteSet(Units(S, f))
  BY <1>2, <1>3, FS_UNION DEF Units
<1> QED
  BY <1>4, FS_CardinalityType

LEMMA UnitsRemove ==
    ASSUME NEW S, NEW f, Counts(S, f), NEW x \in S
    PROVE  Cardinality(Units(S, f)) = f[x] + Cardinality(Units(S \ {x}, f))
<1> DEFINE A == Column(x, f[x])
           B == Units(S \ {x}, f)
<1>1. Counts(S \ {x}, f)
  BY FS_RemoveElement DEF Counts
<1>2. IsFiniteSet(A) /\ Cardinality(A) = f[x] /\ f[x] \in Nat
  BY ColumnSize DEF Counts
<1>3. IsFiniteSet(B) /\ Cardinality(B) \in Nat
  BY <1>1, UnitsFinite
<1>4. Units(S, f) = A \cup B
  BY DEF Units
<1>5. A \cap B = {}
  BY DEF Units, Column
<1>6. Cardinality(A \cap B) = 0
  BY <1>5, FS_EmptySet
<1> HIDE DEF A, B
<1>7. Cardinality(A \cup B) = Cardinality(A) + Cardinality(B) - Cardinality(A \cap B)
  BY <1>2, <1>3, FS_Union
<1> QED
  BY <1>2, <1>3, <1>4, <1>6, <1>7 DEF B

LEMMA UnitsEmpty == \A f : Cardinality(Units({}, f)) = 0
<1>1. \A f : Units({}, f) = {}
  BY DEF Units
<1> QED
  BY <1>1, FS_EmptySet

(* The recursive definition of the sum has one solution, the number of     *)
(* units: it is a solution, and two solutions that differ would differ on  *)
(* a set with no smaller set they differ on.                               *)
LEMMA SumIsUnits ==
    ASSUME NEW S, NEW f, Counts(S, f)
    PROVE  SumFunctionOnSet(f, S) = Cardinality(Units(S, f))
<1> DEFINE pick(s) == CHOOSE x \in s : TRUE
           Body(g) == [s \in SUBSET S |-> IF s = {} THEN 0 ELSE f[pick(s)] + g[s \ {pick(s)}]]
           sum == CHOOSE g : g = Body(g)
           units == [s \in SUBSET S |-> Cardinality(Units(s, f))]
<1>1. SumFunctionOnSet(f, S) = sum[S]
  BY DEF SumFunctionOnSet, FoldFunctionOnSet, MapThenFoldSet
<1>2. \A s \in SUBSET S : Counts(s, f)
  BY FS_Subset DEF Counts
<1>3. \A s \in SUBSET S : s # {} => pick(s) \in s
  OBVIOUS
<1> HIDE DEF pick
<1>4. units = Body(units)
  <2>1. ASSUME NEW s \in SUBSET S
        PROVE  units[s] = IF s = {} THEN 0 ELSE f[pick(s)] + units[s \ {pick(s)}]
    <3>1. CASE s = {}
      BY <3>1, UnitsEmpty
    <3>2. CASE s # {}
      BY <1>2, <1>3, <3>2, UnitsRemove
    <3> QED
      BY <3>1, <3>2
  <2> QED
    BY <2>1
<1> HIDE DEF units
<1>5. sum = Body(sum)
  BY <1>4
<1> HIDE DEF sum
<1>6. \A s \in SUBSET S : sum[s] = units[s]
  <2> DEFINE bad == {s \in SUBSET S : sum[s] # units[s]}
             sizes == {Cardinality(s) : s \in bad}
  <2> SUFFICES ASSUME bad # {} PROVE FALSE
    OBVIOUS
  <2>1. \A s \in SUBSET S : IsFiniteSet(s) /\ Cardinality(s) \in Nat
    BY <1>2, FS_CardinalityType DEF Counts
  <2>2. sizes \subseteq Nat /\ sizes # {}
    BY <2>1
  <2>3. PICK n \in sizes : \A m \in sizes : ~(<<m, n>> \in OpToRel(<, Nat))
    BY <2>2, NatLessThanWellFounded, WFMin
  <2>4. \A m \in sizes : ~(m < n)
    BY <2>2, <2>3 DEF OpToRel
  <2>5. PICK s \in bad : Cardinality(s) = n
    OBVIOUS
  <2>6. s # {}
    BY <1>4, <1>5
  <2> DEFINE r == s \ {pick(s)}
  <2>7. Cardinality(r) < n /\ r \in SUBSET S
    BY <1>3, <2>1, <2>5, <2>6, FS_RemoveElement
  <2>8. sum[r] = units[r]
    BY <2>4, <2>7
  <2>9. sum[s] = f[pick(s)] + sum[r] /\ units[s] = f[pick(s)] + units[r]
    BY <1>4, <1>5, <2>6
  <2> QED
    BY <2>8, <2>9
<1> QED
  BY <1>1, <1>6 DEF units

-----------------------------------------------------------------------------
(* The facts the proofs about the components cite.                         *)

(* A sum of natural numbers is a natural number.                           *)
LEMMA SumType ==
    ASSUME NEW S, NEW f, Counts(S, f)
    PROVE  SumFunctionOnSet(f, S) \in Nat
BY SumIsUnits, UnitsFinite

(* Nothing adds up to nothing.                                             *)
LEMMA SumEmpty == \A f : SumFunctionOnSet(f, {}) = 0
BY SumIsUnits, UnitsEmpty, FS_EmptySet DEF Counts

(* An element leaves the set: the sum loses its value.                     *)
LEMMA SumRemove ==
    ASSUME NEW S, NEW f, Counts(S, f), NEW x \in S
    PROVE  /\ Counts(S \ {x}, f)
           /\ f[x] \in Nat
           /\ SumFunctionOnSet(f, S) = f[x] + SumFunctionOnSet(f, S \ {x})
<1>1. Counts(S \ {x}, f) /\ f[x] \in Nat
  BY FS_RemoveElement DEF Counts
<1> QED
  BY <1>1, SumIsUnits, UnitsRemove

(* An element joins the set: the sum gains its value.                      *)
LEMMA SumAdd ==
    ASSUME NEW S, NEW f, NEW x, x \notin S, Counts(S \cup {x}, f)
    PROVE  /\ Counts(S, f)
           /\ f[x] \in Nat
           /\ SumFunctionOnSet(f, S \cup {x}) = f[x] + SumFunctionOnSet(f, S)
<1>1. (S \cup {x}) \ {x} = S
  OBVIOUS
<1> QED
  BY <1>1, SumRemove

(* A part adds up to no more than the whole of larger values.              *)
LEMMA SumLe ==
    ASSUME NEW S, NEW T, NEW f, NEW g, Counts(S, f), Counts(T, g),
           S \subseteq T, \A x \in S : f[x] <= g[x]
    PROVE  SumFunctionOnSet(f, S) <= SumFunctionOnSet(g, T)
<1>1. Units(S, f) \subseteq Units(T, g)
  <2>1. ASSUME NEW x \in S PROVE Column(x, f[x]) \subseteq Column(x, g[x])
    BY DEF Column, Counts
  <2> QED
    BY <2>1 DEF Units
<1>2. Cardinality(Units(S, f)) <= Cardinality(Units(T, g))
  BY <1>1, UnitsFinite, FS_Subset
<1> QED
  BY <1>2, SumIsUnits

(* Only the values on the set count.                                       *)
LEMMA SumSame ==
    ASSUME NEW S, NEW f, NEW g, Counts(S, f), \A x \in S : f[x] = g[x]
    PROVE  Counts(S, g) /\ SumFunctionOnSet(f, S) = SumFunctionOnSet(g, S)
<1>1. Counts(S, g)
  BY DEF Counts
<1>2. Units(S, f) = Units(S, g)
  BY DEF Units
<1> QED
  BY <1>1, <1>2, SumIsUnits
=============================================================================
