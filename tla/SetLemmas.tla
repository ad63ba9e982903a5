------------------------------ MODULE SetLemmas ------------------------------
(***************************************************************************)
(* What the proofs need to know of a minimum, and of a sum of amounts: how *)
(* it grows by an element, changes with a value, and compares.             *)
(*                                                                         *)
(* SumFunctionOnSet is a fold, so all of it is induction over data.  The   *)
(* induction theorems of the library cannot be instantiated; a minimal     *)
(* counterexample, from the well-foundedness of strict inclusion among     *)
(* finite sets, does the same.                                             *)
(***************************************************************************)
EXTENDS Integers, FiniteSetsExt, Functions, FiniteSetTheorems, WellFoundedInduction, TLAPS

Pick(s) == CHOOSE x \in s : TRUE

\* The recursion equation of the fold over the subsets of S.
IsFold(g, f, S) ==
  g = [s \in SUBSET S |-> IF s = {} THEN 0 ELSE f[Pick(s)] + g[s \ {Pick(s)}]]

\* The fold of the module, named.
LEMMA SumUnfolded ==
  ASSUME NEW f, NEW S
  PROVE  SumFunctionOnSet(f, S) = (CHOOSE g : IsFold(g, f, S))[S]
BY DEF SumFunctionOnSet, FoldFunctionOnSet, MapThenFoldSet, IsFold, Pick

\* Among finite sets there is a least one by inclusion.
LEMMA MinimalSubset ==
  ASSUME NEW D, IsFiniteSet(D), NEW W \in SUBSET (SUBSET D), W # {}
  PROVE  \E s \in W : IsFiniteSet(s) /\ \A t \in SUBSET s : t # s => t \notin W
<1>1. W \subseteq FiniteSubsetsOf(D)
  BY FS_FiniteSubsetsOfFinite
<1>2. PICK s \in W : \A t \in W : ~ (<<t, s>> \in StrictSubsetOrdering(D))
  <2>1. IsWellFoundedOn(StrictSubsetOrdering(D), FiniteSubsetsOf(D))
    BY FS_StrictSubsetOrderingWellFounded
  <2> QED BY <1>1, <2>1, WFMin
<1>3. ASSUME NEW t \in SUBSET s, t # s, t \in W PROVE FALSE
  BY <1>1, <1>2, <1>3 DEF StrictSubsetOrdering, FiniteSubsetsOf
<1> QED BY <1>2, <1>3, FS_Subset

\* Two folds agree wherever both are defined.
LEMMA FoldsAgree ==
  ASSUME NEW f, NEW A, NEW B, IsFiniteSet(A),
         NEW g, IsFold(g, f, A), NEW h, IsFold(h, f, B)
  PROVE  \A s \in SUBSET (A \cap B) : g[s] = h[s]
<1> DEFINE W == {s \in SUBSET (A \cap B) : g[s] # h[s]}
<1> SUFFICES ASSUME W # {} PROVE FALSE
  OBVIOUS
<1>1. IsFiniteSet(A \cap B)
  BY FS_Intersection
<1>2. PICK s \in W : \A t \in SUBSET s : t # s => t \notin W
  <2> HIDE DEF W
  <2>1. W \in SUBSET (SUBSET (A \cap B))
    BY DEF W
  <2> QED BY <1>1, <2>1, MinimalSubset
<1>3. /\ g[s] = IF s = {} THEN 0 ELSE f[Pick(s)] + g[s \ {Pick(s)}]
      /\ h[s] = IF s = {} THEN 0 ELSE f[Pick(s)] + h[s \ {Pick(s)}]
  <2>1. s \in SUBSET A /\ s \in SUBSET B
    OBVIOUS
  <2>2. g = [t \in SUBSET A |-> IF t = {} THEN 0 ELSE f[Pick(t)] + g[t \ {Pick(t)}]]
    BY DEF IsFold
  <2>3. h = [t \in SUBSET B |-> IF t = {} THEN 0 ELSE f[Pick(t)] + h[t \ {Pick(t)}]]
    BY DEF IsFold
  <2>4. g[s] = IF s = {} THEN 0 ELSE f[Pick(s)] + g[s \ {Pick(s)}]
    BY <2>1, <2>2
  <2>5. h[s] = IF s = {} THEN 0 ELSE f[Pick(s)] + h[s \ {Pick(s)}]
    BY <2>1, <2>3
  <2> QED BY <2>4, <2>5
<1>4. s # {} /\ g[s \ {Pick(s)}] # h[s \ {Pick(s)}]
  BY <1>3
<1>5. Pick(s) \in s
  BY <1>4 DEF Pick
<1>6. s \ {Pick(s)} \in SUBSET s /\ s \ {Pick(s)} # s /\ s \ {Pick(s)} \in W
  BY <1>4, <1>5
<1> QED BY <1>2, <1>6

\* Every finite set has its fold.
LEMMA FoldExists ==
  ASSUME NEW f, NEW S, IsFiniteSet(S)
  PROVE  \E g : IsFold(g, f, S)
<1> DEFINE W == {T \in SUBSET S : ~\E g : IsFold(g, f, T)}
<1> SUFFICES ASSUME W # {} PROVE FALSE
  OBVIOUS
<1>1. PICK T \in W : IsFiniteSet(T) /\ \A t \in SUBSET T : t # T => t \notin W
  <2> HIDE DEF W
  <2>1. W \in SUBSET (SUBSET S)
    BY DEF W
  <2> QED BY <2>1, MinimalSubset
<1> DEFINE Fold(U) == CHOOSE g : IsFold(g, f, U)
           Value(U) == IF U = {} THEN 0 ELSE f[Pick(U)] + Fold(U \ {Pick(U)})[U \ {Pick(U)}]
           g == [s \in SUBSET T |-> Value(s)]
<1>2. ASSUME NEW U \in SUBSET T, U # T PROVE IsFold(Fold(U), f, U) /\ IsFiniteSet(U)
  <2>1. \E h : IsFold(h, f, U)
    BY <1>1, <1>2
  <2>2. IsFold(Fold(U), f, U)
    BY <2>1
  <2> QED BY <2>2, <1>1, FS_Subset
<1>3. ASSUME NEW U \in SUBSET T, U # T PROVE Fold(U)[U] = Value(U)
  <2>1. IsFold(Fold(U), f, U) /\ IsFiniteSet(U)
    BY <1>2, <1>3
  <2> HIDE DEF Fold
  <2>2. Fold(U) = [s \in SUBSET U |-> IF s = {} THEN 0 ELSE f[Pick(s)] + Fold(U)[s \ {Pick(s)}]]
    BY <2>1 DEF IsFold
  <2>3. Fold(U)[U] = IF U = {} THEN 0 ELSE f[Pick(U)] + Fold(U)[U \ {Pick(U)}]
    BY <2>2
  <2>4. CASE U # {}
    <3> DEFINE V == U \ {Pick(U)}
    <3>1. V \in SUBSET U /\ V \in SUBSET T
      OBVIOUS
    <3>2. V # T
      BY <2>4 DEF Pick
    <3>3. IsFold(Fold(V), f, V)
      BY <1>2, <3>1, <3>2
    <3>4. V \in SUBSET (U \cap V)
      OBVIOUS
    <3>5. Fold(U)[V] = Fold(V)[V]
      <4> HIDE DEF V
      <4> QED BY <2>1, <3>3, <3>4, FoldsAgree
    <3> QED BY <2>3, <3>5, <2>4
  <2> QED BY <2>3, <2>4
<1>4. ASSUME NEW s \in SUBSET T, s # {}
      PROVE  Fold(s \ {Pick(s)})[s \ {Pick(s)}] = g[s \ {Pick(s)}]
  <2> DEFINE V == s \ {Pick(s)}
  <2>1. V \in SUBSET T /\ V # T
    BY <1>4 DEF Pick
  <2>2. g[V] = Value(V)
    BY <2>1
  <2> HIDE DEF V, g, Value, Fold
  <2>3. Fold(V)[V] = Value(V)
    BY <1>3, <2>1
  <2> QED BY <2>2, <2>3 DEF V
<1>5. g = [s \in SUBSET T |-> IF s = {} THEN 0 ELSE f[Pick(s)] + g[s \ {Pick(s)}]]
  <2>1. ASSUME NEW s \in SUBSET T
        PROVE  Value(s) = IF s = {} THEN 0 ELSE f[Pick(s)] + g[s \ {Pick(s)}]
    <3> HIDE DEF g, Fold
    <3> QED BY <1>4
  <2> HIDE DEF Value
  <2> QED BY <2>1
<1>6. IsFold(g, f, T)
  <2> HIDE DEF g
  <2> QED BY <1>5 DEF IsFold
<1> QED BY <1>1, <1>6

-----------------------------------------------------------------------------
\* Nothing sums to zero.
LEMMA SumEmpty == ASSUME NEW f PROVE SumFunctionOnSet(f, {}) = 0
<1>1. IsFiniteSet({})
  BY FS_EmptySet
<1>2. IsFold(CHOOSE g : IsFold(g, f, {}), f, {})
  BY <1>1, FoldExists
<1>3. (CHOOSE g : IsFold(g, f, {}))[{}] = 0
  BY <1>2 DEF IsFold
<1> QED BY <1>3, SumUnfolded

\* The fold takes the element it picks first.
LEMMA SumPicked ==
  ASSUME NEW f, NEW S, IsFiniteSet(S), S # {}
  PROVE  SumFunctionOnSet(f, S) = f[Pick(S)] + SumFunctionOnSet(f, S \ {Pick(S)})
<1> DEFINE Fold(U) == CHOOSE g : IsFold(g, f, U)
           T == S \ {Pick(S)}
<1>1. IsFiniteSet(T)
  BY FS_RemoveElement
<1>2. IsFold(Fold(S), f, S) /\ IsFold(Fold(T), f, T)
  BY <1>1, FoldExists
<1>3. SumFunctionOnSet(f, S) = Fold(S)[S] /\ SumFunctionOnSet(f, T) = Fold(T)[T]
  BY SumUnfolded
<1> HIDE DEF Fold
<1>4. Fold(S) = [s \in SUBSET S |-> IF s = {} THEN 0 ELSE f[Pick(s)] + Fold(S)[s \ {Pick(s)}]]
  BY <1>2 DEF IsFold
<1>5. Fold(S)[S] = f[Pick(S)] + Fold(S)[T]
  BY <1>4
<1>6. Fold(S)[T] = Fold(T)[T]
  <2>1. T \in SUBSET (S \cap T)
    OBVIOUS
  <2> HIDE DEF T
  <2> QED BY <1>2, <2>1, FoldsAgree
<1> QED BY <1>3, <1>5, <1>6

\* A sum of integers is an integer,
LEMMA SumType ==
  ASSUME NEW f, NEW S, IsFiniteSet(S), \A x \in S : f[x] \in Int
  PROVE  SumFunctionOnSet(f, S) \in Int
<1> DEFINE W == {T \in SUBSET S : SumFunctionOnSet(f, T) \notin Int}
<1> SUFFICES ASSUME W # {} PROVE FALSE
  OBVIOUS
<1>1. PICK T \in W : IsFiniteSet(T) /\ \A t \in SUBSET T : t # T => t \notin W
  <2> HIDE DEF W
  <2>1. W \in SUBSET (SUBSET S)
    BY DEF W
  <2> QED BY <2>1, MinimalSubset
<1>2. T # {}
  BY SumEmpty
<1>3. Pick(T) \in T
  BY <1>2 DEF Pick
<1>4. SumFunctionOnSet(f, T \ {Pick(T)}) \in Int
  BY <1>1, <1>3
<1>5. SumFunctionOnSet(f, T) = f[Pick(T)] + SumFunctionOnSet(f, T \ {Pick(T)})
  BY <1>1, <1>2, SumPicked
<1>6. f[Pick(T)] \in Int
  BY <1>3
<1> QED BY <1>4, <1>5, <1>6

\* and of naturals a natural.
LEMMA SumNat ==
  ASSUME NEW f, NEW S, IsFiniteSet(S), \A x \in S : f[x] \in Nat
  PROVE  SumFunctionOnSet(f, S) \in Nat
<1> DEFINE W == {T \in SUBSET S : SumFunctionOnSet(f, T) \notin Nat}
<1> SUFFICES ASSUME W # {} PROVE FALSE
  OBVIOUS
<1>1. PICK T \in W : IsFiniteSet(T) /\ \A t \in SUBSET T : t # T => t \notin W
  <2> HIDE DEF W
  <2>1. W \in SUBSET (SUBSET S)
    BY DEF W
  <2> QED BY <2>1, MinimalSubset
<1>2. T # {}
  BY SumEmpty
<1>3. Pick(T) \in T
  BY <1>2 DEF Pick
<1>4. SumFunctionOnSet(f, T \ {Pick(T)}) \in Nat
  BY <1>1, <1>3
<1>5. SumFunctionOnSet(f, T) = f[Pick(T)] + SumFunctionOnSet(f, T \ {Pick(T)})
  BY <1>1, <1>2, SumPicked
<1>6. f[Pick(T)] \in Nat
  BY <1>3
<1> QED BY <1>4, <1>5, <1>6

\* Which element goes first does not matter.
LEMMA SumRemove ==
  ASSUME NEW f, NEW S, IsFiniteSet(S), \A x \in S : f[x] \in Int, NEW e \in S
  PROVE  SumFunctionOnSet(f, S) = f[e] + SumFunctionOnSet(f, S \ {e})
<1> DEFINE Sum(T) == SumFunctionOnSet(f, T)
           Good(T) == \A z \in T : Sum(T) = f[z] + Sum(T \ {z})
           W == {T \in SUBSET S : ~Good(T)}
<1> SUFFICES ASSUME W # {} PROVE FALSE
  OBVIOUS
<1>1. PICK T \in W : IsFiniteSet(T) /\ \A t \in SUBSET T : t # T => t \notin W
  <2> HIDE DEF W
  <2>1. W \in SUBSET (SUBSET S)
    BY DEF W
  <2> QED BY <2>1, MinimalSubset
<1>2. PICK x \in T : Sum(T) # f[x] + Sum(T \ {x})
  OBVIOUS
<1>3. PICK y \in T : Sum(T) = f[y] + Sum(T \ {y})
  <2>1. Pick(T) \in T
    BY <1>2 DEF Pick
  <2> QED BY <1>1, <2>1, SumPicked
<1>4. x # y /\ x \in S /\ y \in S
  BY <1>2, <1>3
<1>5. ASSUME NEW z \in T PROVE Good(T \ {z}) /\ IsFiniteSet(T \ {z})
  <2>1. T \ {z} \in SUBSET T /\ T \ {z} # T /\ T \ {z} \in SUBSET S
    OBVIOUS
  <2>2. T \ {z} \notin W
    BY <1>1, <2>1
  <2> HIDE DEF Good
  <2> QED BY <1>1, <2>1, <2>2, FS_RemoveElement
<1> DEFINE U == (T \ {x}) \ {y}
<1>6. (T \ {y}) \ {x} = U
  OBVIOUS
<1>7. Sum(T \ {y}) = f[x] + Sum(U)
  <2> HIDE DEF Sum, U
  <2> QED BY <1>4, <1>5, <1>6
<1>8. Sum(T \ {x}) = f[y] + Sum(U)
  <2> HIDE DEF Sum
  <2> QED BY <1>4, <1>5
<1>9. Sum(U) \in Int
  <2>1. IsFiniteSet(U) /\ \A u \in U : f[u] \in Int
    BY <1>5, FS_RemoveElement
  <2> HIDE DEF U
  <2> QED BY <2>1, SumType
<1>10. f[x] \in Int /\ f[y] \in Int
  BY <1>4
<1> HIDE DEF Sum, U
<1> QED BY <1>2, <1>3, <1>7, <1>8, <1>9, <1>10

\* An element more.
LEMMA SumInsert ==
  ASSUME NEW f, NEW S, IsFiniteSet(S), NEW e, e \notin S,
         \A x \in S \cup {e} : f[x] \in Int
  PROVE  SumFunctionOnSet(f, S \cup {e}) = f[e] + SumFunctionOnSet(f, S)
<1> DEFINE T == S \cup {e}
<1>1. IsFiniteSet(T) /\ e \in T /\ T \ {e} = S
  BY FS_AddElement
<1>2. \A x \in T : f[x] \in Int
  OBVIOUS
<1> HIDE DEF T
<1>3. SumFunctionOnSet(f, T) = f[e] + SumFunctionOnSet(f, T \ {e})
  BY <1>1, <1>2, SumRemove
<1> QED BY <1>1, <1>3 DEF T

\* Where two functions agree, so do their sums.
LEMMA SumSame ==
  ASSUME NEW f, NEW g, NEW S, IsFiniteSet(S),
         \A x \in S : f[x] \in Int /\ g[x] = f[x]
  PROVE  SumFunctionOnSet(g, S) = SumFunctionOnSet(f, S)
<1> DEFINE W == {T \in SUBSET S : SumFunctionOnSet(g, T) # SumFunctionOnSet(f, T)}
<1> SUFFICES ASSUME W # {} PROVE FALSE
  OBVIOUS
<1>1. PICK T \in W : IsFiniteSet(T) /\ \A t \in SUBSET T : t # T => t \notin W
  <2> HIDE DEF W
  <2>1. W \in SUBSET (SUBSET S)
    BY DEF W
  <2> QED BY <2>1, MinimalSubset
<1>2. T # {}
  BY SumEmpty
<1>3. Pick(T) \in T
  BY <1>2 DEF Pick
<1>4. SumFunctionOnSet(g, T \ {Pick(T)}) = SumFunctionOnSet(f, T \ {Pick(T)})
  BY <1>1, <1>3
<1>5. /\ SumFunctionOnSet(f, T) = f[Pick(T)] + SumFunctionOnSet(f, T \ {Pick(T)})
      /\ SumFunctionOnSet(g, T) = g[Pick(T)] + SumFunctionOnSet(g, T \ {Pick(T)})
  BY <1>1, <1>2, SumPicked
<1>6. g[Pick(T)] = f[Pick(T)]
  BY <1>3
<1> QED BY <1>4, <1>5, <1>6

\* One value changes.
LEMMA SumExcept ==
  ASSUME NEW f, NEW g, NEW S, IsFiniteSet(S), \A x \in S : f[x] \in Int /\ g[x] \in Int,
         NEW e \in S, \A x \in S \ {e} : g[x] = f[x]
  PROVE  SumFunctionOnSet(g, S) = SumFunctionOnSet(f, S) - f[e] + g[e]
<1> DEFINE T == S \ {e}
<1>1. IsFiniteSet(T) /\ \A x \in T : f[x] \in Int /\ g[x] = f[x]
  BY FS_RemoveElement
<1>2. SumFunctionOnSet(f, S) = f[e] + SumFunctionOnSet(f, T)
      /\ SumFunctionOnSet(g, S) = g[e] + SumFunctionOnSet(g, T)
  BY SumRemove
<1> HIDE DEF T
<1>3. SumFunctionOnSet(g, T) = SumFunctionOnSet(f, T) /\ SumFunctionOnSet(f, T) \in Int
  BY <1>1, SumSame, SumType
<1>4. f[e] \in Int /\ g[e] \in Int
  OBVIOUS
<1> QED BY <1>2, <1>3, <1>4

\* The sum over two disjoint sets.
LEMMA SumUnion ==
  ASSUME NEW f, NEW S, NEW T, IsFiniteSet(S), IsFiniteSet(T), S \cap T = {},
         \A x \in S \cup T : f[x] \in Int
  PROVE  SumFunctionOnSet(f, S \cup T) = SumFunctionOnSet(f, S) + SumFunctionOnSet(f, T)
<1> DEFINE Sum(U) == SumFunctionOnSet(f, U)
           W == {U \in SUBSET T : Sum(S \cup U) # Sum(S) + Sum(U)}
<1> SUFFICES ASSUME W # {} PROVE FALSE
  OBVIOUS
<1>1. PICK U \in W : IsFiniteSet(U) /\ \A t \in SUBSET U : t # U => t \notin W
  <2> HIDE DEF W
  <2>1. W \in SUBSET (SUBSET T)
    BY DEF W
  <2> QED BY <2>1, MinimalSubset
<1>2. Sum(S) \in Int
  BY SumType
<1>3. PICK y : y \in U
  <2>1. CASE U = {}
    <3>1. S \cup U = S /\ Sum(U) = 0
      BY <2>1, SumEmpty
    <3>2. Sum(S \cup U) # Sum(S) + Sum(U)
      BY <1>1
    <3>3. Sum(S \cup U) = Sum(S)
      BY <3>1
    <3> HIDE DEF Sum, W
    <3> QED BY <1>2, <3>1, <3>2, <3>3
  <2> QED BY <2>1
<1> DEFINE V == U \ {y}
<1>4. V \in SUBSET U /\ V # U /\ V \in SUBSET T /\ IsFiniteSet(V)
  BY <1>1, <1>3, FS_RemoveElement
<1>5. Sum(S \cup V) = Sum(S) + Sum(V)
  BY <1>1, <1>4
<1>6. Sum(U) = f[y] + Sum(V)
  <2>1. \A x \in U : f[x] \in Int
    OBVIOUS
  <2> QED BY <1>1, <1>3, <2>1, SumRemove
<1>7. Sum(S \cup U) = f[y] + Sum(S \cup V)
  <2>1. S \cup U = (S \cup V) \cup {y} /\ y \notin S \cup V /\ IsFiniteSet(S \cup V)
    BY <1>3, <1>4, FS_Union
  <2>2. \A x \in (S \cup V) \cup {y} : f[x] \in Int
    BY <2>1
  <2> HIDE DEF V
  <2> QED BY <2>1, <2>2, SumInsert
<1>8. Sum(V) \in Int /\ f[y] \in Int
  BY <1>3, <1>4, SumType
<1>9. Sum(S \cup U) # Sum(S) + Sum(U)
  BY <1>1
<1> HIDE DEF Sum, V, W
<1> QED BY <1>2, <1>5, <1>6, <1>7, <1>8, <1>9

\* Of naturals, a part is at most the whole,
LEMMA SumSubset ==
  ASSUME NEW f, NEW S, IsFiniteSet(S), \A x \in S : f[x] \in Nat, NEW T \in SUBSET S
  PROVE  SumFunctionOnSet(f, T) <= SumFunctionOnSet(f, S)
<1> DEFINE R == S \ T
<1>1. IsFiniteSet(T) /\ IsFiniteSet(R) /\ T \cap R = {} /\ T \cup R = S
  BY FS_Subset, FS_Difference
<1>2. \A x \in T \cup R : f[x] \in Int
  OBVIOUS
<1>3. \A x \in R : f[x] \in Nat
  OBVIOUS
<1> HIDE DEF R
<1>4. SumFunctionOnSet(f, T) \in Nat /\ SumFunctionOnSet(f, R) \in Nat
  BY <1>1, <1>3, SumNat
<1>5. SumFunctionOnSet(f, S) = SumFunctionOnSet(f, T) + SumFunctionOnSet(f, R)
  BY <1>1, <1>2, SumUnion
<1> QED BY <1>4, <1>5

\* each term is,
LEMMA SumTerm ==
  ASSUME NEW f, NEW S, IsFiniteSet(S), \A x \in S : f[x] \in Nat, NEW e \in S
  PROVE  f[e] <= SumFunctionOnSet(f, S)
<1>1. SumFunctionOnSet(f, S) = f[e] + SumFunctionOnSet(f, S \ {e})
  BY SumRemove
<1>2. IsFiniteSet(S \ {e}) /\ \A x \in S \ {e} : f[x] \in Nat
  BY FS_RemoveElement
<1>3. SumFunctionOnSet(f, S \ {e}) \in Nat
  BY <1>2, SumNat
<1> QED BY <1>1, <1>3

\* and smaller terms give no larger sum.
LEMMA SumLess ==
  ASSUME NEW f, NEW g, NEW S, IsFiniteSet(S),
         \A x \in S : f[x] \in Int /\ g[x] \in Int /\ f[x] <= g[x]
  PROVE  SumFunctionOnSet(f, S) <= SumFunctionOnSet(g, S)
<1> DEFINE W == {T \in SUBSET S : ~(SumFunctionOnSet(f, T) <= SumFunctionOnSet(g, T))}
<1> SUFFICES ASSUME W # {} PROVE FALSE
  OBVIOUS
<1>1. PICK T \in W : IsFiniteSet(T) /\ \A t \in SUBSET T : t # T => t \notin W
  <2> HIDE DEF W
  <2>1. W \in SUBSET (SUBSET S)
    BY DEF W
  <2> QED BY <2>1, MinimalSubset
<1>2. T # {}
  BY SumEmpty
<1>3. Pick(T) \in T
  BY <1>2 DEF Pick
<1> DEFINE U == T \ {Pick(T)}
<1>4. SumFunctionOnSet(f, U) <= SumFunctionOnSet(g, U)
  BY <1>1, <1>3
<1>5. /\ SumFunctionOnSet(f, T) = f[Pick(T)] + SumFunctionOnSet(f, U)
      /\ SumFunctionOnSet(g, T) = g[Pick(T)] + SumFunctionOnSet(g, U)
  BY <1>1, <1>2, SumPicked
<1>6. f[Pick(T)] \in Int /\ g[Pick(T)] \in Int /\ f[Pick(T)] <= g[Pick(T)]
  BY <1>3
<1>7. SumFunctionOnSet(f, U) \in Int /\ SumFunctionOnSet(g, U) \in Int
  <2>1. IsFiniteSet(U) /\ \A x \in U : f[x] \in Int /\ g[x] \in Int
    BY <1>1, FS_RemoveElement
  <2> HIDE DEF U
  <2> QED BY <2>1, SumType
<1>8. ~(SumFunctionOnSet(f, T) <= SumFunctionOnSet(g, T))
  BY <1>1
<1> HIDE DEF U, W
<1> QED BY <1>4, <1>5, <1>6, <1>7, <1>8

\* Terms carried one to a place, to others at least as large, sum to no more.
LEMMA SumInto ==
  ASSUME NEW f, NEW S, IsFiniteSet(S), \A x \in S : f[x] \in Nat,
         NEW g, NEW R, IsFiniteSet(R), \A y \in R : g[y] \in Nat,
         NEW h, \A x \in S : h[x] \in R /\ f[x] <= g[h[x]],
         \A x, y \in S : h[x] = h[y] => x = y
  PROVE  SumFunctionOnSet(f, S) <= SumFunctionOnSet(g, R)
<1> DEFINE Fits(U) == \A Q \in SUBSET R : (\A x \in U : h[x] \in Q) =>
                         SumFunctionOnSet(f, U) <= SumFunctionOnSet(g, Q)
           W == {U \in SUBSET S : ~Fits(U)}
<1>1. CASE W # {}
  <2>1. PICK U \in W : IsFiniteSet(U) /\ \A t \in SUBSET U : t # U => t \notin W
    <3> HIDE DEF W
    <3>1. W \in SUBSET (SUBSET S)
      BY DEF W
    <3> QED BY <1>1, <3>1, MinimalSubset
  <2>2. PICK Q \in SUBSET R : /\ \A x \in U : h[x] \in Q
                             /\ ~(SumFunctionOnSet(f, U) <= SumFunctionOnSet(g, Q))
    BY <2>1
  <2>3. IsFiniteSet(Q) /\ \A y \in Q : g[y] \in Nat
    BY FS_Subset
  <2>4. SumFunctionOnSet(g, Q) \in Nat
    BY <2>3, SumNat
  <2>5. PICK x : x \in U
    BY <2>2, <2>4, SumEmpty
  <2> DEFINE V == U \ {x}
             P == Q \ {h[x]}
  <2>6. V \in SUBSET U /\ V # U /\ V \in SUBSET S /\ P \in SUBSET R /\ h[x] \in Q
    BY <2>1, <2>2, <2>5
  <2>7. \A y \in V : h[y] \in P
    BY <2>1, <2>2, <2>5
  <2>8. Fits(V)
    BY <2>1, <2>6
  <2>9. SumFunctionOnSet(f, V) <= SumFunctionOnSet(g, P)
    <3> HIDE DEF V, P
    <3> QED BY <2>6, <2>7, <2>8
  <2>10. SumFunctionOnSet(f, U) = f[x] + SumFunctionOnSet(f, V)
    <3>1. \A y \in U : f[y] \in Int
      BY <2>1
    <3> QED BY <2>1, <2>5, <3>1, SumRemove
  <2>11. SumFunctionOnSet(g, Q) = g[h[x]] + SumFunctionOnSet(g, P)
    <3>1. \A y \in Q : g[y] \in Int
      BY <2>3
    <3> QED BY <2>3, <2>6, <3>1, SumRemove
  <2>12. SumFunctionOnSet(f, V) \in Nat /\ SumFunctionOnSet(g, P) \in Nat
    <3>1. IsFiniteSet(V) /\ IsFiniteSet(P)
      BY <2>1, <2>3, FS_RemoveElement
    <3>2. (\A y \in V : f[y] \in Nat) /\ (\A y \in P : g[y] \in Nat)
      BY <2>1
    <3> HIDE DEF V, P
    <3> QED BY <3>1, <3>2, SumNat
  <2>13. f[x] \in Nat /\ g[h[x]] \in Nat /\ f[x] <= g[h[x]]
    BY <2>1, <2>5
  <2> HIDE DEF V, P
  <2> QED BY <2>2, <2>9, <2>10, <2>11, <2>12, <2>13
<1>2. CASE W = {}
  <2>1. Fits(S)
    BY <1>2
  <2> QED BY <2>1
<1> QED BY <1>1, <1>2

\* Sums add up term by term,
LEMMA SumPlus ==
  ASSUME NEW f, NEW g, NEW h, NEW S, IsFiniteSet(S),
         \A x \in S : f[x] \in Int /\ g[x] \in Int /\ h[x] = f[x] + g[x]
  PROVE  SumFunctionOnSet(h, S) = SumFunctionOnSet(f, S) + SumFunctionOnSet(g, S)
<1> DEFINE Sum(e, T) == SumFunctionOnSet(e, T)
           W == {T \in SUBSET S : Sum(h, T) # Sum(f, T) + Sum(g, T)}
<1> SUFFICES ASSUME W # {} PROVE FALSE
  OBVIOUS
<1>1. PICK T \in W : IsFiniteSet(T) /\ \A t \in SUBSET T : t # T => t \notin W
  <2> HIDE DEF W
  <2>1. W \in SUBSET (SUBSET S)
    BY DEF W
  <2> QED BY <2>1, MinimalSubset
<1>2. T # {}
  <2>1. Sum(f, {}) = 0 /\ Sum(g, {}) = 0 /\ Sum(h, {}) = 0
    BY SumEmpty
  <2>2. Sum(h, T) # Sum(f, T) + Sum(g, T)
    BY <1>1
  <2> HIDE DEF Sum, W
  <2> QED BY <2>1, <2>2
<1>3. Pick(T) \in T
  BY <1>2 DEF Pick
<1> DEFINE U == T \ {Pick(T)}
<1>4. Sum(h, U) = Sum(f, U) + Sum(g, U)
  BY <1>1, <1>3
<1>5. /\ Sum(f, T) = f[Pick(T)] + Sum(f, U)
      /\ Sum(g, T) = g[Pick(T)] + Sum(g, U)
      /\ Sum(h, T) = h[Pick(T)] + Sum(h, U)
  BY <1>1, <1>2, SumPicked
<1>6. f[Pick(T)] \in Int /\ g[Pick(T)] \in Int /\ h[Pick(T)] = f[Pick(T)] + g[Pick(T)]
  BY <1>3
<1>7. Sum(f, U) \in Int /\ Sum(g, U) \in Int
  <2>1. IsFiniteSet(U) /\ \A x \in U : f[x] \in Int /\ g[x] \in Int
    BY <1>1, FS_RemoveElement
  <2> HIDE DEF U
  <2> QED BY <2>1, SumType
<1>8. Sum(h, T) # Sum(f, T) + Sum(g, T)
  BY <1>1
<1> HIDE DEF U, W, Sum
<1> QED BY <1>4, <1>5, <1>6, <1>7, <1>8

\* so nothing but noughts sums to nought,
LEMMA SumZero ==
  ASSUME NEW f, NEW S, IsFiniteSet(S), \A x \in S : f[x] = 0
  PROVE  SumFunctionOnSet(f, S) = 0
<1>1. SumFunctionOnSet(f, S) = SumFunctionOnSet(f, S) + SumFunctionOnSet(f, S)
  <2>1. \A x \in S : f[x] \in Int /\ f[x] \in Int /\ f[x] = f[x] + f[x]
    OBVIOUS
  <2> QED BY <2>1, SumPlus
<1>2. SumFunctionOnSet(f, S) \in Int
  BY SumType
<1>3. \A x \in Int : x = x + x => x = 0
  OBVIOUS
<1> QED BY <1>1, <1>2, <1>3

\* and a multiple of each is a multiple of the sum,
LEMMA SumTimes ==
  ASSUME NEW n \in Int, NEW f, NEW h, NEW S, IsFiniteSet(S),
         \A x \in S : f[x] \in Int /\ h[x] = n * f[x]
  PROVE  SumFunctionOnSet(h, S) = n * SumFunctionOnSet(f, S)
<1> DEFINE Sum(e, T) == SumFunctionOnSet(e, T)
           W == {T \in SUBSET S : Sum(h, T) # n * Sum(f, T)}
<1> SUFFICES ASSUME W # {} PROVE FALSE
  OBVIOUS
<1>1. PICK T \in W : IsFiniteSet(T) /\ \A t \in SUBSET T : t # T => t \notin W
  <2> HIDE DEF W
  <2>1. W \in SUBSET (SUBSET S)
    BY DEF W
  <2> QED BY <2>1, MinimalSubset
<1>2. T # {}
  <2>1. Sum(f, {}) = 0 /\ Sum(h, {}) = 0
    BY SumEmpty
  <2>2. Sum(h, T) # n * Sum(f, T)
    BY <1>1
  <2>3. n * 0 = 0
    OBVIOUS
  <2> HIDE DEF Sum, W
  <2> QED BY <2>1, <2>2, <2>3
<1>3. Pick(T) \in T
  BY <1>2 DEF Pick
<1> DEFINE U == T \ {Pick(T)}
<1>4. Sum(h, U) = n * Sum(f, U)
  BY <1>1, <1>3
<1>5. Sum(f, T) = f[Pick(T)] + Sum(f, U) /\ Sum(h, T) = h[Pick(T)] + Sum(h, U)
  BY <1>1, <1>2, SumPicked
<1>6. f[Pick(T)] \in Int /\ h[Pick(T)] = n * f[Pick(T)]
  BY <1>3
<1>7. Sum(f, U) \in Int
  <2>1. IsFiniteSet(U) /\ \A x \in U : f[x] \in Int
    BY <1>1, FS_RemoveElement
  <2> HIDE DEF U
  <2> QED BY <2>1, SumType
<1>8. Sum(h, T) # n * Sum(f, T)
  BY <1>1
<1>9. \A a, b \in Int : n * (a + b) = n * a + n * b
  OBVIOUS
<1> HIDE DEF U, W, Sum
<1>10. n * (f[Pick(T)] + Sum(f, U)) = n * f[Pick(T)] + n * Sum(f, U)
  BY <1>6, <1>7, <1>9
<1>11. n * Sum(f, T) = n * f[Pick(T)] + n * Sum(f, U)
  BY <1>5, <1>10
<1>12. Sum(h, T) = n * f[Pick(T)] + n * Sum(f, U)
  BY <1>4, <1>5, <1>6
<1> QED BY <1>8, <1>11, <1>12

\* part by part,
LEMMA SumParts ==
  ASSUME NEW f, NEW S, IsFiniteSet(S), \A x \in S : f[x] \in Int,
         NEW P, IsFiniteSet(P), NEW part, \A p \in P : part[p] \subseteq S,
         \A x \in S : \E p \in P : x \in part[p] /\ \A q \in P : x \in part[q] => q = p,
         NEW g, \A p \in P : g[p] = SumFunctionOnSet(f, part[p])
  PROVE  SumFunctionOnSet(g, P) = SumFunctionOnSet(f, S)
<1> DEFINE In(Q) == {x \in S : \E q \in Q : x \in part[q]}
           W == {Q \in SUBSET P : SumFunctionOnSet(g, Q) # SumFunctionOnSet(f, In(Q))}
<1>1. CASE W # {}
  <2>1. PICK Q \in W : IsFiniteSet(Q) /\ \A q \in SUBSET Q : q # Q => q \notin W
    <3> HIDE DEF W
    <3>1. W \in SUBSET (SUBSET P)
      BY DEF W
    <3> QED BY <1>1, <3>1, MinimalSubset
  <2>2. Q # {}
    <3>1. In({}) = {}
      OBVIOUS
    <3> QED BY <3>1, SumEmpty
  <2> DEFINE p == Pick(Q)
             U == Q \ {p}
             one == part[p]
  <2>3. p \in Q
    BY <2>2 DEF Pick
  <2>4. SumFunctionOnSet(g, U) = SumFunctionOnSet(f, In(U))
    BY <2>1, <2>3
  <2>5. SumFunctionOnSet(g, Q) = g[p] + SumFunctionOnSet(g, U)
    BY <2>1, <2>2, SumPicked
  <2>6. g[p] = SumFunctionOnSet(f, one)
    BY <2>3
  <2>7. In(Q) = one \cup In(U) /\ one \cap In(U) = {}
    BY <2>3
  <2>8. IsFiniteSet(one) /\ IsFiniteSet(In(U)) /\ one \subseteq S
    <3>1. one \subseteq S /\ In(U) \subseteq S
      BY <2>3
    <3> QED BY <3>1, FS_Subset
  <2>9. \A x \in one \cup In(U) : f[x] \in Int
    BY <2>8
  <2>10. SumFunctionOnSet(g, Q) # SumFunctionOnSet(f, In(Q))
    BY <2>1
  <2> HIDE DEF p, U, one, In, W
  <2>11. SumFunctionOnSet(f, In(Q)) = SumFunctionOnSet(f, one) + SumFunctionOnSet(f, In(U))
    BY <2>7, <2>8, <2>9, SumUnion
  <2> QED BY <2>4, <2>5, <2>6, <2>10, <2>11
<1>2. CASE W = {}
  <2>1. In(P) = S
    OBVIOUS
  <2> QED BY <1>2, <2>1
<1> QED BY <1>1, <1>2

\* and row by row: rows of at most n each sum to at most n a row, column by
\* column.
LEMMA SumRows ==
  ASSUME NEW K, IsFiniteSet(K), NEW P, IsFiniteSet(P), NEW n \in Nat,
         NEW c, \A k \in K : \A p \in P : c[k][p] \in Nat,
         \A k \in K : SumFunctionOnSet(c[k], P) <= n,
         NEW g, \A p \in P : g[p] = SumFunctionOnSet([k \in K |-> c[k][p]], K)
  PROVE  SumFunctionOnSet(g, P) <= n * Cardinality(K)
<1> DEFINE Col(L, p) == SumFunctionOnSet([k \in K |-> c[k][p]], L)
           All(L) == SumFunctionOnSet([p \in P |-> Col(L, p)], P)
           W == {L \in SUBSET K : ~(All(L) <= n * Cardinality(L))}
<1>0. \A L \in SUBSET K : \A p \in P : IsFiniteSet(L) /\ Col(L, p) \in Nat
  <2> SUFFICES ASSUME NEW L \in SUBSET K, NEW p \in P PROVE IsFiniteSet(L) /\ Col(L, p) \in Nat
    OBVIOUS
  <2>1. IsFiniteSet(L)
    BY FS_Subset
  <2> DEFINE f == [k \in K |-> c[k][p]]
  <2>2. \A x \in L : f[x] \in Nat
    OBVIOUS
  <2> HIDE DEF f
  <2>3. SumFunctionOnSet(f, L) \in Nat
    BY <2>1, <2>2, SumNat
  <2> QED BY <2>1, <2>3 DEF f
<1>1. CASE W # {}
  <2>1. PICK L \in W : IsFiniteSet(L) /\ \A l \in SUBSET L : l # L => l \notin W
    <3> HIDE DEF W
    <3>1. W \in SUBSET (SUBSET K)
      BY DEF W
    <3> QED BY <1>1, <3>1, MinimalSubset
  <2> DEFINE k == Pick(L)
             U == L \ {k}
  <2>2. L # {}
    <3> SUFFICES ASSUME L = {} PROVE FALSE
      OBVIOUS
    <3> DEFINE h == [p \in P |-> Col({}, p)]
    <3>1. \A p \in P : h[p] = 0
      BY SumEmpty
    <3>4. SumFunctionOnSet(h, P) = 0
      <4> HIDE DEF h
      <4> QED BY <3>1, SumZero
    <3>5. All({}) = 0 /\ n * Cardinality({}) = 0
      BY <3>4, FS_EmptySet
    <3> QED BY <2>1, <3>5
  <2>3. k \in L /\ k \in K
    BY <2>1, <2>2 DEF Pick
  <2>4. U \in SUBSET K /\ All(U) <= n * Cardinality(U)
    BY <2>1, <2>3
  <2>5. Cardinality(L) = Cardinality(U) + 1 /\ Cardinality(U) \in Nat
    <3>1. IsFiniteSet(U) /\ Cardinality(U) = Cardinality(L) - 1
      BY <2>1, <2>3, FS_RemoveElement
    <3>2. Cardinality(U) \in Nat /\ Cardinality(L) \in Nat
      BY <2>1, <3>1, FS_CardinalityType
    <3> QED BY <3>1, <3>2
  <2>6. All(L) = SumFunctionOnSet(c[k], P) + All(U)
    <3> DEFINE before == [p \in P |-> Col(U, p)]
               now == [p \in P |-> Col(L, p)]
    <3>1. \A p \in P : c[k][p] \in Int /\ before[p] \in Int /\ now[p] = c[k][p] + before[p]
      <4> SUFFICES ASSUME NEW p \in P
                   PROVE  c[k][p] \in Int /\ before[p] \in Int /\ now[p] = c[k][p] + before[p]
        OBVIOUS
      <4> DEFINE f == [j \in K |-> c[j][p]]
      <4>1. SumFunctionOnSet(f, L) = f[k] + SumFunctionOnSet(f, U)
        BY <2>1, <2>2, SumPicked
      <4>2. c[k][p] \in Nat /\ Col(U, p) \in Nat
        BY <1>0, <2>3, <2>4
      <4> QED BY <2>3, <4>1, <4>2
    <3> HIDE DEF before, now
    <3>2. SumFunctionOnSet(now, P) = SumFunctionOnSet(c[k], P) + SumFunctionOnSet(before, P)
      BY <3>1, SumPlus
    <3> QED BY <3>2 DEF before, now
  <2>7. All(U) \in Nat
    <3> DEFINE before == [p \in P |-> Col(U, p)]
    <3>1. \A p \in P : before[p] \in Nat
      BY <1>0, <2>4
    <3> HIDE DEF before
    <3>2. SumFunctionOnSet(before, P) \in Nat
      BY <3>1, SumNat
    <3> QED BY <3>2 DEF before
  <2>8. SumFunctionOnSet(c[k], P) \in Nat /\ SumFunctionOnSet(c[k], P) <= n
    BY <2>3, SumNat
  <2>9. n * (Cardinality(U) + 1) = n * Cardinality(U) + n /\ n * Cardinality(U) \in Nat
    BY <2>5
  <2>10. ~(All(L) <= n * Cardinality(L))
    BY <2>1
  <2> HIDE DEF All, U, k, W
  <2> QED BY <2>4, <2>5, <2>6, <2>7, <2>8, <2>9, <2>10
<1>2. CASE W = {}
  <2>1. All(K) <= n * Cardinality(K)
    BY <1>2
  <2>2. SumFunctionOnSet(g, P) = All(K)
    <3> DEFINE h == [p \in P |-> Col(K, p)]
    <3>1. \A p \in P : h[p] \in Int /\ g[p] = h[p]
      BY <1>0
    <3> HIDE DEF h
    <3>2. SumFunctionOnSet(g, P) = SumFunctionOnSet(h, P)
      BY <3>1, SumSame
    <3> QED BY <3>2 DEF h
  <2> QED BY <2>1, <2>2
<1> QED BY <1>1, <1>2

-----------------------------------------------------------------------------
\* The image of a finite set is finite, and not larger.
LEMMA ImageFinite ==
  ASSUME NEW f, NEW S, IsFiniteSet(S), NEW T, T = {f[x] : x \in S}
  PROVE  IsFiniteSet(T) /\ Cardinality(T) <= Cardinality(S)
<1> DEFINE g == [x \in S |-> f[x]]
<1>1. g \in Surjection(S, T)
  BY DEF Surjection
<1> HIDE DEF g
<1> QED BY <1>1, FS_Surjection

\* A set of naturals has a least element.
LEMMA MinIsLeast ==
  ASSUME NEW S \in SUBSET Nat, S # {}
  PROVE  Min(S) \in S /\ \A y \in S : Min(S) <= y
<1> DEFINE R == OpToRel(<, Nat)
<1>1. R = {ss \in Nat \X Nat : ss[1] < ss[2]}
  BY DEF OpToRel
<1>2. PICK x \in S : \A y \in S : ~ (<<y, x>> \in R)
  BY NatLessThanWellFounded, WFMin
<1> HIDE DEF R
<1>3. ASSUME NEW y \in S PROVE x <= y
  <2>1. <<y, x>> \in Nat \X Nat /\ <<y, x>> \notin R
    BY <1>2
  <2>2. ~(y < x)
    BY <2>1, <1>1
  <2> QED BY <2>2
<1> QED BY <1>3 DEF Min

\* A finite set of integers has a greatest element.
LEMMA MaxIsGreatest ==
  ASSUME NEW S \in SUBSET Int, IsFiniteSet(S), S # {}
  PROVE  Max(S) \in S /\ \A y \in S : Max(S) >= y
<1> DEFINE Tops(T) == \E x \in T : \A y \in T : x >= y
           W == {T \in SUBSET S : T # {} /\ ~Tops(T)}
<1> SUFFICES Tops(S)
  BY DEF Max
<1> SUFFICES ASSUME W # {} PROVE FALSE
  OBVIOUS
<1>1. PICK T \in W : IsFiniteSet(T) /\ \A t \in SUBSET T : t # T => t \notin W
  <2> HIDE DEF W
  <2>1. W \in SUBSET (SUBSET S)
    BY DEF W
  <2> QED BY <2>1, MinimalSubset
<1>2. PICK e \in T : TRUE
  OBVIOUS
<1>3. CASE T = {e}
  BY <1>1, <1>3
<1>4. CASE T # {e}
  <2>1. T \ {e} # {} /\ T \ {e} \notin W
    <3>1. T \ {e} # T /\ T \ {e} \in SUBSET T
      BY <1>2
    <3>2. T \ {e} # {}
      BY <1>2, <1>4
    <3> QED BY <1>1, <3>1, <3>2
  <2>2. PICK x \in T \ {e} : \A y \in T \ {e} : x >= y
    BY <2>1
  <2>3. x \in Int /\ e \in Int /\ T \subseteq Int
    OBVIOUS
  <2>4. \A y \in T : (IF x >= e THEN x ELSE e) >= y
    BY <2>2, <2>3
  <2> QED BY <1>1, <2>2, <2>4
<1> QED BY <1>3, <1>4
=============================================================================
