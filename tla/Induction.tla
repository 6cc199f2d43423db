------------------------------ MODULE Induction ------------------------------
(***************************************************************************)
(* Induction over the natural numbers and over finite sets, for the proofs *)
(* of other modules: what holds of 0 and passes from n to n + 1 is a set   *)
(* of numbers, and the least number outside of it does not exist.          *)
(***************************************************************************)
EXTENDS Integers, FiniteSets, WellFoundedInduction, FiniteSetTheorems, TLAPS

\* The pairs of natural numbers in increasing order.
Increasing == {pair \in Nat \X Nat : pair[1] < pair[2]}

\* A number below another one is in order with it.
LEMMA LowerIsBefore == \A a, b \in Nat : a < b => <<a, b>> \in Increasing
  BY DEF Increasing

\* The order of the natural numbers is well founded.
LEMMA NaturalOrder == IsWellFoundedOn(Increasing, Nat)
  BY NatLessThanWellFounded DEF OpToRel, Increasing

\* A set of natural numbers has a least element.
LEMMA Least ==
    ASSUME NEW T, T \subseteq Nat, T # {}
    PROVE  \E n \in T : \A m \in T : n <= m
  <1>1. \E n \in T : \A m \in T : ~(<<m, n>> \in Increasing)
    BY NaturalOrder, WFMin
  <1>2. PICK n \in T : \A m \in T : ~(<<m, n>> \in Increasing)
    BY <1>1
  <1>3. ASSUME NEW m \in T PROVE n <= m
    <2>1. m \in Nat /\ n \in Nat
      OBVIOUS
    <2>2. ~(m < n)
      BY <1>2, <2>1, LowerIsBefore
    <2> QED BY <2>1, <2>2
  <1> QED BY <1>3

\* A set of numbers that holds 0 and with each number the next one holds them all.
LEMMA Induct ==
    ASSUME NEW S, 0 \in S, \A n \in S \cap Nat : n + 1 \in S
    PROVE  Nat \subseteq S
  <1> SUFFICES ASSUME Nat \ S # {} PROVE FALSE
    OBVIOUS
  <1>1. PICK n \in Nat \ S : \A m \in Nat \ S : n <= m
    BY Least
  <1>2. n # 0 /\ n - 1 \in Nat /\ ~(n <= n - 1)
    OBVIOUS
  <1>3. n - 1 \in S \cap Nat
    BY <1>1, <1>2
  <1>4. (n - 1) + 1 = n
    OBVIOUS
  <1> QED BY <1>3, <1>4

\* A family that holds the empty set, and a set of which it holds every part that lacks one
\* element, holds the finite subsets of U.
LEMMA InductOverSets ==
    ASSUME NEW U, NEW F,
           {} \in F,
           \A S \in SUBSET U :
              IsFiniteSet(S) /\ S # {} /\ (\A x \in S : S \ {x} \in F) => S \in F
    PROVE  \A S \in SUBSET U : IsFiniteSet(S) => S \in F
  <1> DEFINE Sized(n) == \A S \in SUBSET U : IsFiniteSet(S) /\ Cardinality(S) = n => S \in F
  <1> DEFINE sizes == {n \in Nat : Sized(n)}
  <1>1. 0 \in sizes
    <2>1. \A S : IsFiniteSet(S) /\ Cardinality(S) = 0 => S = {}
      BY FS_EmptySet
    <2> QED BY <2>1
  <1>2. ASSUME NEW n \in Nat, Sized(n) PROVE Sized(n + 1)
    <2> SUFFICES ASSUME NEW S \in SUBSET U, IsFiniteSet(S), Cardinality(S) = n + 1
                 PROVE  S \in F
      OBVIOUS
    <2>1. S # {}
      BY FS_EmptySet
    <2>2. ASSUME NEW x \in S PROVE S \ {x} \in F
      <3>1. Cardinality(S \ {x}) = Cardinality(S) - 1 /\ IsFiniteSet(S \ {x})
        BY FS_RemoveElement
      <3> QED BY <1>2, <3>1
    <2> QED BY <2>1, <2>2
  <1>3. Nat \subseteq sizes
    <2>1. \A n \in sizes \cap Nat : n + 1 \in sizes
      BY <1>2
    <2> HIDE DEF sizes
    <2> QED BY <1>1, <2>1, Induct
  <1>4. \A S \in SUBSET U : IsFiniteSet(S) => S \in F
    <2> SUFFICES ASSUME NEW S \in SUBSET U, IsFiniteSet(S) PROVE S \in F
      OBVIOUS
    <2>1. Cardinality(S) \in Nat
      BY FS_CardinalityType
    <2>2. Sized(Cardinality(S))
      BY <1>3, <2>1
    <2> QED BY <2>2
  <1> QED BY <1>4

-----------------------------------------------------------------------------
(* Folds *)

\* A choice of an element in every part of a set that has one.
Picks(pick, S) == \A s \in SUBSET S : s # {} => pick[s] \in s

\* A step from an element and a value to a value.
Steps(step, S, V) == \A x \in S : \A v \in V : step[x][v] \in V

\* The values of the parts of S: that of the empty one is the base, that of another one comes
\* by a step from the element picked and the value of the rest.
IsFold(g, S, V, base, pick, step) ==
    /\ g \in [SUBSET S -> V]
    /\ \A s \in SUBSET S : g[s] = IF s = {} THEN base ELSE step[pick[s]][g[s \ {pick[s]}]]

\* A fold over a finite set is defined.
LEMMA FoldExists ==
    ASSUME NEW S, IsFiniteSet(S), NEW V, NEW base \in V,
           NEW pick, Picks(pick, S), NEW step, Steps(step, S, V)
    PROVE  \E g : IsFold(g, S, V, base, pick, step)
  <1> USE DEF Picks, Steps
  <1> DEFINE Small(n) == {s \in SUBSET S : Cardinality(s) <= n}
  <1> DEFINE Fits(g, n) ==
               \A s \in Small(n) :
                  g[s] = IF s = {} THEN base ELSE step[pick[s]][g[s \ {pick[s]}]]
  <1> DEFINE Exists(n) == \E g \in [Small(n) -> V] : Fits(g, n)
  <1> DEFINE sizes == {n \in Nat : Exists(n)}
  <1>1. \A s \in SUBSET S : IsFiniteSet(s) /\ Cardinality(s) \in Nat
    BY FS_Subset, FS_CardinalityType
  <1>2. Exists(0)
    <2>1. \A s \in Small(0) : s = {}
      <3> SUFFICES ASSUME NEW s \in Small(0) PROVE s = {}
        OBVIOUS
      <3>1. Cardinality(s) = 0 /\ IsFiniteSet(s)
        BY <1>1
      <3> QED BY <3>1, FS_EmptySet
    <2> DEFINE g == [s \in Small(0) |-> base]
    <2>2. g \in [Small(0) -> V]
      OBVIOUS
    <2>3. Fits(g, 0)
      BY <2>1
    <2> QED BY <2>2, <2>3
  <1>3. ASSUME NEW n \in Nat, Exists(n) PROVE Exists(n + 1)
    <2>1. PICK g \in [Small(n) -> V] : Fits(g, n)
      BY <1>3
    <2> DEFINE h == [s \in Small(n + 1) |->
                        IF s = {} THEN base ELSE step[pick[s]][g[s \ {pick[s]}]]]
    <2>2. ASSUME NEW s \in Small(n + 1), s # {}
          PROVE  pick[s] \in S /\ s \ {pick[s]} \in Small(n) /\ s \ {pick[s]} \in Small(n + 1)
      <3>1. pick[s] \in s /\ IsFiniteSet(s) /\ s \in SUBSET S
        BY <1>1, <2>2
      <3>2. Cardinality(s \ {pick[s]}) = Cardinality(s) - 1
        BY <3>1, FS_RemoveElement
      <3>3. Cardinality(s) \in Nat /\ Cardinality(s) <= n + 1
        BY <1>1
      <3>4. Cardinality(s \ {pick[s]}) <= n /\ Cardinality(s \ {pick[s]}) <= n + 1
        BY <3>2, <3>3
      <3>5. s \ {pick[s]} \in SUBSET S
        BY <3>1
      <3> QED BY <3>1, <3>4, <3>5
    <2>3. ASSUME NEW s \in Small(n + 1)
          PROVE  (IF s = {} THEN base ELSE step[pick[s]][g[s \ {pick[s]}]]) \in V
      <3>1. CASE s = {}
        BY <3>1
      <3>2. CASE s # {}
        <4>1. pick[s] \in S /\ g[s \ {pick[s]}] \in V
          BY <2>1, <2>2, <3>2
        <4> QED BY <3>2, <4>1
      <3> QED BY <3>1, <3>2
    <2>4. h \in [Small(n + 1) -> V]
      BY <2>3
    <2>5. ASSUME NEW s \in Small(n) PROVE s \in Small(n + 1) /\ h[s] = g[s]
      <3>1. s \in Small(n + 1)
        BY <1>1
      <3>2. g[s] = IF s = {} THEN base ELSE step[pick[s]][g[s \ {pick[s]}]]
        BY <2>1
      <3> QED BY <3>1, <3>2
    <2>6. Fits(h, n + 1)
      <3> SUFFICES ASSUME NEW s \in Small(n + 1)
                   PROVE  h[s] = IF s = {} THEN base ELSE step[pick[s]][h[s \ {pick[s]}]]
        OBVIOUS
      <3>1. h[s] = IF s = {} THEN base ELSE step[pick[s]][g[s \ {pick[s]}]]
        OBVIOUS
      <3>2. s # {} => h[s \ {pick[s]}] = g[s \ {pick[s]}]
        BY <2>2, <2>5
      <3> HIDE DEF h
      <3> QED BY <3>1, <3>2
    <2> QED BY <2>4, <2>6
  <1>4. Nat \subseteq sizes
    <2>1. 0 \in sizes
      BY <1>2
    <2>2. \A n \in sizes \cap Nat : n + 1 \in sizes
      <3> SUFFICES ASSUME NEW n \in Nat, Exists(n) PROVE n + 1 \in Nat /\ Exists(n + 1)
        OBVIOUS
      <3>1. Exists(n + 1)
        BY <1>3
      <3> HIDE DEF Exists
      <3> QED BY <3>1
    <2> HIDE DEF sizes
    <2> QED BY <2>1, <2>2, Induct
  <1>5. Cardinality(S) \in Nat
    BY FS_CardinalityType
  <1>6. Exists(Cardinality(S))
    BY <1>4, <1>5
  <1>7. Small(Cardinality(S)) = SUBSET S
    BY FS_Subset
  <1> QED BY <1>6, <1>7 DEF IsFold

\* What holds of the base, and passes from the rest of a part to the part, holds of the whole.
LEMMA FoldHolds ==
    ASSUME NEW S, IsFiniteSet(S), NEW V, NEW pick, Picks(pick, S),
           NEW g, g[{}] \in V,
           \A s \in SUBSET S : s # {} /\ g[s \ {pick[s]}] \in V => g[s] \in V
    PROVE  g[S] \in V
  <1> USE DEF Picks
  <1> DEFINE F == {s \in SUBSET S : g[s] \in V}
  <1>1. {} \in F
    OBVIOUS
  <1>2. ASSUME NEW s \in SUBSET S, s # {}, \A x \in s : s \ {x} \in F PROVE s \in F
    BY <1>2
  <1> HIDE DEF F
  <1>3. \A s \in SUBSET S : IsFiniteSet(s) => s \in F
    BY <1>1, <1>2, InductOverSets
  <1> QED BY <1>3 DEF F
==============================================================================
