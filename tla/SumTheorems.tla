----------------------------- MODULE SumTheorems -----------------------------
(* What the proofs need of SumFunction, the sum of the values of a function   *)
(* with a finite domain: of the charges of a Run's reservations, and of the  *)
(* bytes of its stored commands.                                             *)
(*                                                                           *)
(* The sum is a recursive function over the subsets of the domain.  To a     *)
(* natural number n at x correspond the n pairs <<x, 1>> ... <<x, n>>; the   *)
(* sum is the number of all of them, and counting has no order.              *)

EXTENDS Functions, FiniteSetTheorems, WellFoundedInduction, TLAPS

(* Induction over the subsets of a finite set: from the least set that is    *)
(* not in F, take an element away.                                           *)
LEMMA SubsetInduction ==
  ASSUME NEW S, IsFiniteSet(S), NEW F, {} \in F,
         \A T \in SUBSET S : T # {} /\ (\A x \in T : T \ {x} \in F) => T \in F
  PROVE  \A T \in SUBSET S : T \in F
<1> DEFINE Bad == {T \in FiniteSubsetsOf(S) : T \notin F}
<1> SUFFICES ASSUME Bad # {} PROVE FALSE
  BY FS_Subset DEF FiniteSubsetsOf
<1>1. PICK T \in Bad : \A U \in Bad : <<U, T>> \notin StrictSubsetOrdering(S)
  <2>1. IsWellFoundedOn(StrictSubsetOrdering(S), FiniteSubsetsOf(S)) /\ Bad \subseteq FiniteSubsetsOf(S)
    BY FS_StrictSubsetOrderingWellFounded
  <2> HIDE DEF Bad
  <2> QED
    BY <2>1, WFMin
<1>2. T \subseteq S /\ IsFiniteSet(T) /\ T # {} /\ T \notin F
  BY DEF FiniteSubsetsOf
<1>3. ASSUME NEW x \in T PROVE T \ {x} \in F
  <2>1. T \ {x} \in FiniteSubsetsOf(S)
    BY <1>2, FS_RemoveElement DEF FiniteSubsetsOf
  <2>2. <<T \ {x}, T>> \in StrictSubsetOrdering(S)
    BY <1>2, <1>3 DEF StrictSubsetOrdering
  <2> QED
    BY <1>1, <2>1, <2>2
<1> QED
  BY <1>2, <1>3

(* The pairs that are counted.                                               *)
Pile(f, T) == UNION {{x} \X (1..f[x]) : x \in T}

LEMMA PileFinite ==
  ASSUME NEW S, IsFiniteSet(S), NEW f \in [S -> Nat], NEW T \in SUBSET S
  PROVE  IsFiniteSet(Pile(f, T)) /\ Cardinality(Pile(f, T)) \in Nat
<1> DEFINE F == {U \in SUBSET S : IsFiniteSet(Pile(f, U))}
<1>1. {} \in F
  BY FS_EmptySet DEF Pile
<1>2. ASSUME NEW U \in SUBSET S, U # {}, \A x \in U : U \ {x} \in F PROVE U \in F
  <2>1. PICK x \in U : TRUE
    BY <1>2
  <2>2. Pile(f, U) = Pile(f, U \ {x}) \cup ({x} \X (1..f[x]))
    BY <2>1 DEF Pile
  <2>3. IsFiniteSet({x} \X (1..f[x]))
    <3>1. f[x] \in Nat
      BY <2>1
    <3>2. IsFiniteSet({x})
      BY FS_Singleton
    <3>3. IsFiniteSet(1..f[x])
      BY <3>1, FS_Interval
    <3> QED
      BY <3>2, <3>3, FS_Product
  <2>4. IsFiniteSet(Pile(f, U \ {x}))
    BY <1>2
  <2>5. IsFiniteSet(Pile(f, U))
    <3>1. IsFiniteSet(Pile(f, U \ {x}) \cup ({x} \X (1..f[x])))
      BY <2>3, <2>4, FS_Union, Zenon
    <3> QED
      BY <2>2, <3>1
  <2> QED
    BY <2>5
<1> HIDE DEF F
<1>3. T \in F
  BY <1>1, <1>2, SubsetInduction
<1> QED
  BY <1>3, FS_CardinalityType DEF F

LEMMA PileGrows ==
  ASSUME NEW S, IsFiniteSet(S), NEW f \in [S -> Nat], NEW T \in SUBSET S, NEW x \in T
  PROVE  Cardinality(Pile(f, T)) = f[x] + Cardinality(Pile(f, T \ {x}))
<1> DEFINE P == Pile(f, T \ {x})  Q == {x} \X (1..f[x])
<1>1. Pile(f, T) = P \cup Q
  BY DEF Pile
<1>2. P \cap Q = {}
  BY DEF Pile
<1>3. IsFiniteSet(P) /\ Cardinality(P) \in Nat
  BY PileFinite
<1>4. IsFiniteSet(Q) /\ Cardinality(Q) = f[x]
  <2>1. f[x] \in Nat
    OBVIOUS
  <2>2. IsFiniteSet(1..f[x]) /\ Cardinality(1..f[x]) = f[x]
    BY <2>1, FS_Interval
  <2>3. IsFiniteSet({x}) /\ Cardinality({x}) = 1
    BY FS_Singleton
  <2>4. IsFiniteSet(Q) /\ Cardinality(Q) = Cardinality({x}) * Cardinality(1..f[x])
    BY <2>2, <2>3, FS_Product
  <2> QED
    BY <2>1, <2>2, <2>3, <2>4
<1> HIDE DEF P, Q
<1>5. Cardinality(P \cap Q) = 0
  BY <1>2, FS_EmptySet
<1>6. Cardinality(P \cup Q) = Cardinality(P) + Cardinality(Q) - Cardinality(P \cap Q)
  BY <1>3, <1>4, FS_Union
<1> QED
  BY <1>1, <1>3, <1>4, <1>5, <1>6 DEF P

(* The recursion has a solution, the count, and no other.                    *)
LEMMA SumIsCount ==
  ASSUME NEW S, IsFiniteSet(S), NEW f \in [S -> Nat]
  PROVE  SumFunction(f) = Cardinality(Pile(f, S))
<1> DEFINE some(s) == CHOOSE x \in s : TRUE
           Def(g) == [s \in SUBSET S |-> IF s = {} THEN 0 ELSE f[some(s)] + g[s \ {some(s)}]]
           iter == CHOOSE g : g = Def(g)
           count == [s \in SUBSET S |-> Cardinality(Pile(f, s))]
<1>1. DOMAIN f = S
  OBVIOUS
<1>2. SumFunction(f) = iter[S]
  BY <1>1 DEF SumFunction, SumFunctionOnSet, FoldFunctionOnSet, MapThenFoldSet
<1>3. count = Def(count)
  <2>1. ASSUME NEW s \in SUBSET S
        PROVE  count[s] = IF s = {} THEN 0 ELSE f[some(s)] + count[s \ {some(s)}]
    <3>1. CASE s = {}
      <4>1. Pile(f, s) = {}
        BY <3>1 DEF Pile
      <4> QED
        BY <3>1, <4>1, FS_EmptySet
    <3>2. CASE s # {}
      <4>1. some(s) \in s /\ s \ {some(s)} \in SUBSET S
        BY <3>2
      <4> HIDE DEF some
      <4> QED
        BY <3>2, <4>1, PileGrows
    <3> QED
      BY <3>1, <3>2
  <2> HIDE DEF some
  <2>2. Def(count) = [s \in SUBSET S |-> count[s]]
    BY <2>1
  <2> QED
    BY <2>2
<1>4. iter = Def(iter)
  <2> HIDE DEF Def, count
  <2> QED
    BY <1>3
<1> HIDE DEF iter
<1> DEFINE F == {s \in SUBSET S : iter[s] = count[s]}
<1>5. {} \in F
  <2>1. iter[{}] = 0 /\ count[{}] = 0
    <3> HIDE DEF count
    <3> QED
      BY <1>3, <1>4
  <2> QED
    BY <2>1
<1>6. ASSUME NEW s \in SUBSET S, s # {}, \A x \in s : s \ {x} \in F PROVE s \in F
  <2>1. some(s) \in s
    BY <1>6
  <2> HIDE DEF some, count
  <2>2. iter[s] = f[some(s)] + iter[s \ {some(s)}]
    BY <1>4, <1>6
  <2>3. count[s] = f[some(s)] + count[s \ {some(s)}]
    BY <1>3, <1>6
  <2> QED
    BY <1>6, <2>1, <2>2, <2>3
<1>7. S \in F
  <2> HIDE DEF F
  <2> QED
    BY <1>5, <1>6, SubsetInduction
<1> QED
  BY <1>2, <1>7

-----------------------------------------------------------------------------
(* The facts that are cited.                                                 *)

LEMMA SumType ==
  ASSUME NEW S, IsFiniteSet(S), NEW f \in [S -> Nat]
  PROVE  SumFunction(f) \in Nat
BY SumIsCount, PileFinite

(* A value that changes moves the sum by the difference.                     *)
LEMMA SumUpdate ==
  ASSUME NEW S, IsFiniteSet(S), NEW f \in [S -> Nat], NEW g \in [S -> Nat], NEW x \in S,
         \A y \in S \ {x} : g[y] = f[y]
  PROVE  SumFunction(g) = SumFunction(f) - f[x] + g[x]
<1>1. Pile(g, S \ {x}) = Pile(f, S \ {x})
  BY DEF Pile
<1>2. Cardinality(Pile(f, S)) = f[x] + Cardinality(Pile(f, S \ {x}))
  BY PileGrows
<1>3. Cardinality(Pile(g, S)) = g[x] + Cardinality(Pile(f, S \ {x}))
  BY <1>1, PileGrows
<1>4. Cardinality(Pile(f, S \ {x})) \in Nat /\ f[x] \in Nat /\ g[x] \in Nat
  BY PileFinite
<1>5. SumFunction(f) = Cardinality(Pile(f, S)) /\ SumFunction(g) = Cardinality(Pile(g, S))
  BY SumIsCount
<1> QED
  BY <1>2, <1>3, <1>4, <1>5

(* Smaller values have a smaller sum.                                        *)
LEMMA SumMonotonic ==
  ASSUME NEW S, IsFiniteSet(S), NEW f \in [S -> Nat], NEW g \in [S -> Nat],
         \A x \in S : f[x] <= g[x]
  PROVE  SumFunction(f) <= SumFunction(g)
<1>1. Pile(f, S) \subseteq Pile(g, S)
  <2>1. \A x \in S : 1..f[x] \subseteq 1..g[x]
    OBVIOUS
  <2> QED
    BY <2>1 DEF Pile
<1> QED
  BY <1>1, SumIsCount, PileFinite, FS_Subset

LEMMA SumOfZeros ==
  ASSUME NEW S, IsFiniteSet(S), NEW f \in [S -> Nat], \A x \in S : f[x] = 0
  PROVE  SumFunction(f) = 0
<1>1. Pile(f, S) = {}
  BY DEF Pile
<1> QED
  BY <1>1, SumIsCount, FS_EmptySet
=============================================================================
