---------------------------- MODULE Chain_proofs ----------------------------
(***************************************************************************)
(* Theorems about the block tree and the fork choice, for every tree of    *)
(* blocks, every number of callers and every bound; and about the accounts *)
(* of the block that is composed, for every nesting of calls.              *)
(***************************************************************************)
EXTENDS Chain, Accounts, SetLemmas, WellFoundedInduction, SequenceTheorems, TLAPS

\* A block whose ancestors are one valid path, a block at each height down to
\* genesis.  It speaks of constants only, but holds of a block because its
\* parent was in the tree first: the inductive step is an action of the node.
Grounded(b) ==
  /\ b \in Valid
  /\ Genesis \in Ancestors[b] /\ b \in Ancestors[b]
  /\ \A a \in Ancestors[b] : a \in Valid /\ Height[a] \in 0 .. Height[b]
  /\ \A a, c \in Ancestors[b] : Height[a] = Height[c] => a = c
  /\ \A h \in 0 .. Height[b] : \E a \in Ancestors[b] : Height[a] = h
  /\ \A a \in Ancestors[b] \ {Genesis} :
       Parent[a] \in Ancestors[b] /\ Height[a] = Height[Parent[a]] + 1

LEMMA GenesisGrounded == Grounded(Genesis)
BY BlockTreeAssumption DEF Grounded

LEMMA ChildGrounded ==
  ASSUME NEW b \in Valid \ {Genesis}, Grounded(Parent[b])
  PROVE  Grounded(b)
<1> DEFINE p == Parent[b]
<1>1. /\ b \in Block /\ p \in Block
      /\ Ancestors[b] = {b} \cup Ancestors[p]
      /\ Height[b] = Height[p] + 1
      /\ Height[p] \in Nat /\ Height[b] \in Nat
      /\ p \in Valid
  BY BlockTreeAssumption DEF Grounded
<1>2. \A a \in Ancestors[p] : a \in Valid /\ Height[a] \in 0 .. Height[p]
  BY DEF Grounded
<1>3. \A a \in Ancestors[b] : a \in Valid /\ Height[a] \in 0 .. Height[b]
  BY <1>1, <1>2
<1>4. \A a, c \in Ancestors[b] : Height[a] = Height[c] => a = c
  <2> SUFFICES ASSUME NEW a \in Ancestors[b], NEW c \in Ancestors[b],
                      Height[a] = Height[c]
               PROVE  a = c
    OBVIOUS
  <2>1. CASE a = b \/ c = b
    BY <2>1, <1>1, <1>2
  <2>2. CASE a # b /\ c # b
    BY <2>2, <1>1 DEF Grounded
  <2> QED BY <2>1, <2>2
<1>5. \A h \in 0 .. Height[b] : \E a \in Ancestors[b] : Height[a] = h
  <2> SUFFICES ASSUME NEW h \in 0 .. Height[b]
               PROVE  \E a \in Ancestors[b] : Height[a] = h
    OBVIOUS
  <2>1. CASE h = Height[b]
    BY <2>1, <1>1
  <2>2. CASE h # Height[b]
    <3>1. h \in 0 .. Height[p]
      BY <2>2, <1>1
    <3> QED BY <3>1, <1>1 DEF Grounded
  <2> QED BY <2>1, <2>2
<1>6. \A a \in Ancestors[b] \ {Genesis} :
        Parent[a] \in Ancestors[b] /\ Height[a] = Height[Parent[a]] + 1
  BY <1>1 DEF Grounded
<1>7. Genesis \in Ancestors[b] /\ b \in Ancestors[b]
  BY <1>1 DEF Grounded
<1> QED BY <1>3, <1>4, <1>5, <1>6, <1>7 DEF Grounded

\* The tree holds grounded blocks and all their ancestors.
KnownTree ==
  /\ Genesis \in known
  /\ \A b \in known : Grounded(b) /\ Ancestors[b] \subseteq known

\* The order of the naturals, as the relation the library's theorems speak of.
Less == {ss \in Nat \X Nat : ss[1] < ss[2]}

LEMMA LessIsWellFounded == IsWellFoundedOn(Less, Nat)
<1>1. OpToRel(<, Nat) = Less
  BY Zenon DEF OpToRel, Less
<1> QED BY <1>1, NatLessThanWellFounded, Zenon

\* A bounded, nonempty set of numbers has a greatest element.
LEMMA Greatest ==
  ASSUME NEW S \in SUBSET Nat, S # {}, NEW n \in Nat, \A x \in S : x <= n
  PROVE  \E m \in S : \A x \in S : x <= m
<1> DEFINE T == {n - x : x \in S}
<1>1. T \subseteq Nat /\ T # {}
  <2>1. \A x \in S : x \in Nat /\ n - x \in Nat
    OBVIOUS
  <2>2. PICK x \in S : TRUE
    OBVIOUS
  <2>3. n - x \in T
    BY <2>2
  <2> QED BY <2>1, <2>3
<1>2. PICK d \in T : \A y \in T : <<y, d>> \notin Less
  <2> HIDE DEF T
  <2> QED BY <1>1, LessIsWellFounded, WFMin
<1>3. \A y \in T : ~(y < d)
  BY <1>1, <1>2 DEF Less
<1>4. PICK m \in S : d = n - m
  BY <1>2
<1>5. \A x \in S : x <= m
  BY <1>3, <1>4
<1> QED BY <1>5

\* From the tree to a block with the given ancestors, the walk back meets the
\* canonical chain, and first at the block the fork choice calls ForkPoint.
LEMMA ForkPointIsCanonical ==
  ASSUME canonical \in Seq(Block), canonical # <<>>, CanonicalChain,
         NEW b \in Block, Grounded(b)
  PROVE  /\ ForkPoint(b) \in Ancestors[b]
         /\ IsCanonical(ForkPoint(b))
         /\ Height[ForkPoint(b)] \in 0 .. Height[b]
         /\ \A c \in Ancestors[b] : IsCanonical(c) => Height[c] <= Height[ForkPoint(b)]
<1> DEFINE C == {a \in Ancestors[b] : IsCanonical(a)}
           H == {Height[a] : a \in C}
<1>1. Genesis \in C
  BY BlockTreeAssumption DEF Grounded, IsCanonical, CanonicalChain, Tip
<1>2. Height[b] \in Nat /\ \A a \in Ancestors[b] : Height[a] \in 0 .. Height[b]
  BY BlockTreeAssumption DEF Grounded
<1>3. H \in SUBSET Nat /\ H # {} /\ \A x \in H : x <= Height[b]
  BY <1>1, <1>2
<1>4. PICK m \in H : \A x \in H : x <= m
  <2> HIDE DEF H
  <2> QED BY <1>2, <1>3, Greatest
<1>5. PICK a \in C : \A c \in C : Height[c] <= Height[a]
  BY <1>4
<1>6. \E x \in Ancestors[b] :
        /\ IsCanonical(x)
        /\ \A c \in Ancestors[b] : IsCanonical(c) => Height[c] <= Height[x]
  BY <1>5
<1> HIDE DEF C, H
<1>7. /\ ForkPoint(b) \in Ancestors[b]
      /\ IsCanonical(ForkPoint(b))
      /\ \A c \in Ancestors[b] : IsCanonical(c) => Height[c] <= Height[ForkPoint(b)]
  <2> HIDE DEF IsCanonical
  <2> QED BY <1>6 DEF ForkPoint
<1> QED BY <1>2, <1>7

\* The chain that setHead splices: one path from genesis to b, which keeps the
\* canonical blocks up to the fork and takes ancestors of b above it.
LEMMA ChainToIsAPath ==
  ASSUME canonical \in Seq(Block), canonical # <<>>, CanonicalChain,
         NEW b \in Block, Grounded(b)
  PROVE  /\ ChainTo(b) \in Seq(Block) /\ Len(ChainTo(b)) = Height[b] + 1
         /\ ChainTo(b)[1] = Genesis /\ ChainTo(b)[Height[b] + 1] = b
         /\ \A i \in 1 .. Height[b] + 1 :
              /\ i <= Height[ForkPoint(b)] + 1 => ChainTo(b)[i] = canonical[i]
              /\ ChainTo(b)[i] \in known \cup Ancestors[b]
              /\ Height[ChainTo(b)[i]] = i - 1
              /\ i > 1 => Parent[ChainTo(b)[i]] = ChainTo(b)[i - 1]
         /\ Height[ForkPoint(b)] + 1 <= Len(canonical)
<1> DEFINE F == ForkPoint(b)
           n == Height[F] + 1
           c == ChainTo(b)
           Above(i) == CHOOSE a \in Branch(b) : Height[a] = i - 1
<1>1. /\ Height[b] \in Nat /\ Height[F] \in 0 .. Height[b]
      /\ F \in Ancestors[b] /\ b \in Ancestors[b] /\ Ancestors[b] \subseteq Block
      /\ n <= Len(canonical) /\ canonical[n] = F /\ n \in Nat /\ n >= 1
  <2>1. F \in Ancestors[b] /\ IsCanonical(F) /\ Height[F] \in 0 .. Height[b]
    BY ForkPointIsCanonical
  <2>2. Height[b] \in Nat /\ b \in Ancestors[b] /\ Ancestors[b] \subseteq Block
    BY BlockTreeAssumption DEF Grounded
  <2>3. n <= Len(canonical) /\ canonical[n] = F
    <3>1. Len(canonical) \in Nat
      OBVIOUS
    <3> QED BY ONLY <2>1, <3>1 DEF IsCanonical, Tip
  <2> HIDE DEF F
  <2> QED BY ONLY <2>1, <2>2, <2>3
<1>2. \A i \in 1 .. n : /\ canonical[i] \in Block /\ canonical[i] \in known
                        /\ Height[canonical[i]] = i - 1
                        /\ i > 1 => Parent[canonical[i]] = canonical[i - 1]
  BY <1>1 DEF CanonicalChain
<1>3. \A i \in n + 1 .. Height[b] + 1 :
        Above(i) \in Ancestors[b] /\ Height[Above(i)] = i - 1
  <2> SUFFICES ASSUME NEW i \in n + 1 .. Height[b] + 1
               PROVE  \E a \in Branch(b) : Height[a] = i - 1
    BY DEF Branch
  <2>1. i - 1 \in 0 .. Height[b] /\ i - 1 > Height[F]
    BY <1>1
  <2>2. PICK a \in Ancestors[b] : Height[a] = i - 1
    BY <2>1 DEF Grounded
  <2> QED BY <2>1, <2>2 DEF Branch
<1>4. /\ DOMAIN c = 1 .. Height[b] + 1
      /\ \A i \in 1 .. Height[b] + 1 : c[i] = IF i <= n THEN canonical[i] ELSE Above(i)
  BY DEF ChainTo
<1> HIDE DEF c, Above, F
<1>5. \A i \in 1 .. Height[b] + 1 :
        /\ i <= n => i \in 1 .. n /\ c[i] = canonical[i]
        /\ i > n  => i \in n + 1 .. Height[b] + 1 /\ c[i] = Above(i)
  BY <1>1, <1>4
<1>6. \A i \in 1 .. Height[b] + 1 :
        c[i] \in Block /\ c[i] \in known \cup Ancestors[b] /\ Height[c[i]] = i - 1
  <2> SUFFICES ASSUME NEW i \in 1 .. Height[b] + 1
               PROVE  /\ c[i] \in Block /\ c[i] \in known \cup Ancestors[b]
                      /\ Height[c[i]] = i - 1
    OBVIOUS
  <2>1. CASE i <= n
    BY <2>1, <1>2, <1>5
  <2>2. CASE i > n
    BY <2>2, <1>1, <1>3, <1>5
  <2> QED BY <2>1, <2>2, <1>1
<1>7. c \in Seq(Block) /\ Len(c) = Height[b] + 1
  <2>1. c = [i \in 1 .. Height[b] + 1 |-> c[i]]
    BY <1>4 DEF c, ChainTo
  <2>2. Height[b] + 1 \in Nat /\ \A i \in 1 .. Height[b] + 1 : c[i] \in Block
    BY <1>1, <1>6
  <2>3. c \in [1 .. Height[b] + 1 -> Block]
    BY <2>1, <2>2
  <2> QED BY <2>2, <2>3
<1>8. c[1] = Genesis
  <2>1. 1 \in 1 .. Height[b] + 1 /\ 1 <= n
    BY ONLY <1>1
  <2>2. c[1] = canonical[1]
    BY ONLY <2>1, <1>5
  <2> QED BY <2>2 DEF CanonicalChain
<1>9. \A a, d \in Ancestors[b] : Height[a] = Height[d] => a = d
  BY DEF Grounded
<1>10. c[Height[b] + 1] = b
  <2>1. CASE Height[F] = Height[b]
    BY <2>1, <1>1, <1>5, <1>9
  <2>2. CASE Height[F] # Height[b]
    <3> DEFINE t == Height[b] + 1
    <3>1. t \in n + 1 .. Height[b] + 1 /\ t > n /\ t \in 1 .. Height[b] + 1 /\ t - 1 = Height[b]
      BY ONLY <2>2, <1>1
    <3> SUFFICES c[t] = b
      OBVIOUS
    <3> HIDE DEF t
    <3>2. c[t] = Above(t)
      BY ONLY <3>1, <1>5
    <3>3. Above(t) \in Ancestors[b] /\ Height[Above(t)] = Height[b]
      BY ONLY <3>1, <1>3
    <3> QED BY ONLY <3>2, <3>3, <1>1, <1>9
  <2> QED BY <2>1, <2>2
<1>11. \A i \in 1 .. Height[b] + 1 : i > 1 => Parent[c[i]] = c[i - 1]
  <2> SUFFICES ASSUME NEW i \in 1 .. Height[b] + 1, i > 1
               PROVE  Parent[c[i]] = c[i - 1]
    OBVIOUS
  <2>1. i - 1 \in 1 .. Height[b] + 1
    BY <1>1
  <2>2. CASE i <= n
    BY <2>1, <2>2, <1>1, <1>2, <1>5
  <2>3. CASE i > n
    <3>1. /\ c[i] \in Ancestors[b] /\ Height[c[i]] = i - 1
      BY <2>3, <1>3, <1>5
    <3>2. c[i] # Genesis
      BY <3>1, BlockTreeAssumption
    <3>3. Parent[c[i]] \in Ancestors[b] /\ Height[Parent[c[i]]] \in Nat
          /\ i - 1 = Height[Parent[c[i]]] + 1
      BY <3>1, <3>2, <1>1, BlockTreeAssumption DEF Grounded
    <3>4. c[i - 1] \in Ancestors[b]
      <4>1. CASE i - 1 <= n
        <5>1. i - 1 = n
          BY ONLY <4>1, <2>1, <2>3, <1>1
        <5>2. c[i - 1] = canonical[i - 1]
          BY ONLY <4>1, <2>1, <1>5
        <5> QED BY ONLY <5>1, <5>2, <1>1
      <4>2. CASE i - 1 > n
        BY ONLY <4>2, <2>1, <1>3, <1>5
      <4>3. i - 1 \in Int /\ n \in Int
        BY ONLY <2>1, <1>1
      <4> QED BY ONLY <4>1, <4>2, <4>3
    <3>5. Height[c[i - 1]] = i - 2
      BY <2>1, <1>6
    <3> QED BY <3>3, <3>4, <3>5, <1>9
  <2> QED BY <1>1, <2>2, <2>3
<1> QED BY <1>1, <1>5, <1>6, <1>7, <1>8, <1>10, <1>11 DEF c, F

-----------------------------------------------------------------------------
(* A block enters the tree *)

TreeInv ==
  /\ known \subseteq Block
  /\ canonical \in Seq(Block) \ {<<>>}
  /\ refused \subseteq Block
  /\ KnownTree
  /\ CanonicalChain
  /\ HeaviestOrRefused

\* The head is a block of the tree, at the height of the chain's end.
LEMMA HeadIsKnown ==
  ASSUME TreeInv
  PROVE  /\ HeadBlock \in known /\ HeadBlock \in Block /\ HeadBlock \in Valid
         /\ Len(canonical) \in Nat \ {0} /\ Height[HeadBlock] = Tip
         /\ Work[HeadBlock] \in Nat
<1>1. Len(canonical) \in Nat \ {0}
  BY DEF TreeInv
<1>2. HeadBlock \in known /\ Height[HeadBlock] = Len(canonical) - 1
  BY <1>1 DEF TreeInv, CanonicalChain, HeadBlock
<1> QED BY <1>1, <1>2, BlockTreeAssumption DEF TreeInv, Tip, KnownTree, Grounded

\* A verified block joins the tree and keeps it grounded.
LEMMA TreeGrows ==
  ASSUME TreeInv, NEW b \in Valid \ {Genesis}, Parent[b] \in known,
         known' = known \cup {b}
  PROVE  Grounded(b) /\ Ancestors[b] \subseteq known' /\ KnownTree'
<1>1. Grounded(b)
  BY ChildGrounded DEF TreeInv, KnownTree
<1>2. Ancestors[b] \subseteq known'
  BY BlockTreeAssumption DEF TreeInv, KnownTree
<1>3. KnownTree'
  BY <1>1, <1>2 DEF TreeInv, KnownTree, Grounded
<1> QED BY <1>1, <1>2, <1>3

\* setHead leaves a chain of verified blocks from genesis to b.
LEMMA SetHeadKeepsChain ==
  ASSUME TreeInv, NEW b \in Valid \ {Genesis}, Parent[b] \in known,
         known' = known \cup {b}, canonical' = ChainTo(b)
  PROVE  /\ canonical' \in Seq(Block) \ {<<>>} /\ CanonicalChain'
         /\ HeadBlock' = b
         /\ \A i \in 1 .. Height[ForkPoint(b)] + 1 :
              i <= Len(canonical) /\ i <= Len(canonical') /\ canonical'[i] = canonical[i]
<1>1. Grounded(b) /\ Ancestors[b] \subseteq known' /\ b \in Block
  BY TreeGrows, BlockTreeAssumption
<1>2. canonical \in Seq(Block) /\ canonical # <<>> /\ CanonicalChain
  BY DEF TreeInv
<1> DEFINE c == ChainTo(b)
<1>3. /\ c \in Seq(Block) /\ Len(c) = Height[b] + 1
      /\ c[1] = Genesis /\ c[Height[b] + 1] = b
      /\ \A i \in 1 .. Height[b] + 1 :
           /\ i <= Height[ForkPoint(b)] + 1 => c[i] = canonical[i]
           /\ c[i] \in known \cup Ancestors[b]
           /\ Height[c[i]] = i - 1
           /\ i > 1 => Parent[c[i]] = c[i - 1]
      /\ Height[ForkPoint(b)] + 1 <= Len(canonical)
  BY <1>1, <1>2, ChainToIsAPath
<1>4. Height[b] \in Nat /\ Height[ForkPoint(b)] \in 0 .. Height[b]
  BY <1>1, <1>2, ForkPointIsCanonical, BlockTreeAssumption
<1> HIDE DEF c
<1>5. canonical' = c
  BY DEF c
<1>6. known \cup Ancestors[b] \subseteq known'
  BY <1>1
<1>7. canonical' \in Seq(Block) \ {<<>>}
  BY <1>3, <1>4, <1>5
<1>8. CanonicalChain'
  BY <1>3, <1>5, <1>6 DEF CanonicalChain
<1>9. HeadBlock' = b
  BY <1>3, <1>5 DEF HeadBlock
<1>10. \A i \in 1 .. Height[ForkPoint(b)] + 1 :
              i <= Len(canonical) /\ i <= Len(canonical') /\ canonical'[i] = canonical[i]
  <2> SUFFICES ASSUME NEW i \in 1 .. Height[ForkPoint(b)] + 1
               PROVE  i <= Len(canonical) /\ i <= Len(c) /\ c[i] = canonical[i]
    BY <1>5
  <2>1. i \in 1 .. Height[b] + 1
    BY <1>4
  <2>2. Len(canonical) \in Nat
    BY <1>2
  <2> QED BY <2>1, <2>2, <1>3, <1>4
<1> QED BY <1>7, <1>8, <1>9, <1>10

\* A verified block enters the tree and fork choice runs, whichever way.
Weighed(b) ==
  /\ b \in Valid \ {Genesis} /\ Parent[b] \in known
  /\ known' = known \cup {b}
  /\ Adopt(b) \/ KeepLighter(b) \/ KeepRefused(b)

\* Fork choice keeps the tree, the chain and the weight of its head in order.
LEMMA WeighedKeepsTree ==
  ASSUME TreeInv, NEW b, Weighed(b)
  PROVE  /\ TreeInv'
         /\ HeadBlock' = HeadBlock \/ (HeadBlock' = b /\ Work[b] > Work[HeadBlock])
         /\ canonical' # canonical =>
              /\ Work[HeadBlock'] > Work[HeadBlock]
              /\ \A h \in Binding(canonical) : Height[ForkPoint(b)] >= h
              /\ Tip - Height[ForkPoint(b)] <= MaxReorgDepth
              /\ \A i \in 1 .. Height[ForkPoint(b)] + 1 :
                   /\ i <= Len(canonical) /\ i <= Len(canonical')
                   /\ canonical'[i] = canonical[i]
<1>1. /\ b \in Valid \ {Genesis} /\ Parent[b] \in known
      /\ known' = known \cup {b}
      /\ b \in Block /\ known' \subseteq Block /\ Work \in [Block -> Nat]
      /\ known \subseteq Block
  BY BlockTreeAssumption DEF Weighed, TreeInv
<1>2. KnownTree' /\ HeadBlock \in Block
  BY <1>1, TreeGrows, HeadIsKnown
<1>3. CASE Adopt(b)
  <2>1. /\ canonical' = ChainTo(b) /\ refused' = refused
        /\ Work[b] > Work[HeadBlock]
        /\ \A h \in Binding(canonical) : Height[ForkPoint(b)] >= h
        /\ ~(Tip - Height[ForkPoint(b)] > MaxReorgDepth)
    BY <1>3 DEF Adopt, SetHead, Heavier, RefusesReorg, PermitsReorgFrom
  <2>2. /\ canonical' \in Seq(Block) \ {<<>>} /\ CanonicalChain' /\ HeadBlock' = b
        /\ \A i \in 1 .. Height[ForkPoint(b)] + 1 :
              i <= Len(canonical) /\ i <= Len(canonical') /\ canonical'[i] = canonical[i]
    BY <1>1, <2>1, SetHeadKeepsChain
  <2>3. HeaviestOrRefused'
    <3> SUFFICES ASSUME NEW a \in known'
                 PROVE  Work[a] <= Work[b] \/ a \in refused'
      BY <2>2 DEF HeaviestOrRefused
    <3>1. a = b \/ Work[a] <= Work[HeadBlock] \/ a \in refused
      BY <1>1 DEF TreeInv, HeaviestOrRefused
    <3> QED BY <3>1, <2>1, <1>1, <1>2
  <2>4. Tip - Height[ForkPoint(b)] <= MaxReorgDepth
    <3>1. Tip \in Nat
      BY HeadIsKnown DEF Tip
    <3>2. Height[ForkPoint(b)] \in 0 .. Height[b]
      BY <1>1, TreeGrows, ForkPointIsCanonical DEF TreeInv
    <3>3. Height[b] \in Nat
      BY <1>1, BlockTreeAssumption
    <3> QED BY <3>1, <3>2, <3>3, <2>1, ChainAssumption
  <2> QED BY <1>1, <1>2, <2>1, <2>2, <2>3, <2>4 DEF TreeInv
<1>4. CASE KeepLighter(b)
  <2>1. canonical' = canonical /\ refused' = refused /\ ~(Work[b] > Work[HeadBlock])
    BY <1>4 DEF KeepLighter, Heavier
  <2>2. HeadBlock' = HeadBlock /\ CanonicalChain'
    BY <1>1, <2>1 DEF HeadBlock, CanonicalChain, TreeInv
  <2>3. HeaviestOrRefused'
    BY <1>1, <1>2, <2>1, <2>2 DEF TreeInv, HeaviestOrRefused
  <2> QED BY <1>1, <1>2, <2>1, <2>2, <2>3 DEF TreeInv
<1>5. CASE KeepRefused(b)
  <2>1. canonical' = canonical /\ refused' = refused \cup {b}
    BY <1>5 DEF KeepRefused
  <2>2. HeadBlock' = HeadBlock /\ CanonicalChain'
    BY <1>1, <2>1 DEF HeadBlock, CanonicalChain, TreeInv
  <2>3. HeaviestOrRefused'
    BY <1>1, <1>2, <2>1, <2>2 DEF TreeInv, HeaviestOrRefused
  <2> QED BY <1>1, <1>2, <2>1, <2>2, <2>3 DEF TreeInv
<1> QED BY <1>3, <1>4, <1>5 DEF Weighed

-----------------------------------------------------------------------------
(* The inductive invariant *)

\* A verification in progress is of a block whose parent is in the tree; after
\* it the block is in the tree, and only then are there blocks to connect.
Starts(f, k) ==
  /\ f.stage = "verify" => f.block # Genesis /\ Parent[f.block] \in k
  /\ f.stage # "verify" => f.block \in k
  /\ f.stage # "children" => f.todo = <<>>
CallsOK == \A t \in Task : \A i \in 1 .. Len(stack[t]) : Starts(stack[t][i], known)

\* The file holds valid blocks with their parents, all of them in the tree of
\* a running node; while it loads, the tree is what has been replayed.
FileOK ==
  /\ stored.blocks \subseteq Valid \ {Genesis}
  /\ FileIsClosed
  /\ phase = "running" => stored.blocks \subseteq known
  /\ phase = "loading" => /\ replay \subseteq stored.blocks
                          /\ known = {Genesis} \cup (stored.blocks \ replay)

Inv ==
  /\ TypeOK
  /\ KnownTree
  /\ CanonicalChain
  /\ HeaviestOrRefused
  /\ CallsOK
  /\ FileOK

\* TypeOK, by the groups of variables that a step changes together.
PoolTypes ==
  /\ DOMAIN txIndex \subseteq Tx
  /\ \A u \in DOMAIN txIndex : txIndex[u] \in Nat
  /\ DOMAIN receipts \subseteq Tx
  /\ \A u \in DOMAIN receipts : receipts[u] \in Block
  /\ mempool \subseteq Tx

CallTypes ==
  /\ orphans \in [Block -> Seq(Block)]
  /\ stack \in [Task -> Seq(Frame)]
  /\ unsaved \subseteq Task \ Persisting

DiskTypes ==
  /\ phase \in {"running", "loading"}
  /\ replay \subseteq Block
  /\ stored \in [blocks : SUBSET Block, head : Block]
  /\ crashes \in 0 .. MaxCrashes

LEMMA InvByGroups ==
  Inv <=> /\ TreeInv /\ PoolTypes /\ CallTypes /\ DiskTypes /\ AnchorTypeOK
          /\ CallsOK /\ FileOK
BY DEF Inv, TypeOK, TreeInv, PoolTypes, CallTypes, DiskTypes

LEMMA SameTree == TreeInv /\ UNCHANGED treeVars => TreeInv' /\ HeadBlock' = HeadBlock
BY DEF TreeInv, treeVars, KnownTree, CanonicalChain, HeaviestOrRefused, HeadBlock

LEMMA SamePool == PoolTypes /\ UNCHANGED poolVars => PoolTypes'
BY DEF PoolTypes, poolVars

LEMMA SameAnchors == AnchorTypeOK /\ UNCHANGED anchorVars => AnchorTypeOK'
BY DEF AnchorTypeOK, anchorVars

LEMMA SameDisk ==
  DiskTypes /\ FileOK /\ UNCHANGED diskVars /\ UNCHANGED treeVars
    => DiskTypes' /\ FileOK'
BY DEF DiskTypes, FileOK, FileIsClosed, diskVars, treeVars

LEMMA InitInv == Init => Inv
<1> SUFFICES ASSUME Init PROVE Inv
  OBVIOUS
<1>1. Genesis \in Block /\ Genesis \in Valid /\ Height[Genesis] = 0
      /\ Ancestors[Genesis] = {Genesis}
  BY BlockTreeAssumption
<1>2. <<Genesis>> \in Seq(Block) \ {<<>>} /\ Len(<<Genesis>>) = 1
  BY <1>1
<1>3. KnownTree
  BY <1>1, GenesisGrounded DEF Init, KnownTree
<1>4. CanonicalChain
  BY <1>1, <1>2 DEF Init, CanonicalChain
<1>5. HeaviestOrRefused
  BY <1>1, <1>2, BlockTreeAssumption DEF Init, HeaviestOrRefused, HeadBlock
<1>6. TreeInv
  BY <1>1, <1>2, <1>3, <1>4, <1>5 DEF Init, TreeInv
<1>7. PoolTypes
  BY DEF Init, PoolTypes
<1>8. CallTypes
  BY DEF Init, CallTypes
<1>9. DiskTypes
  BY <1>1, ChainAssumption DEF Init, DiskTypes
<1>10. AnchorTypeOK
  BY DEF Init, AnchorInit, AnchorTypeOK
<1>11. CallsOK
  BY DEF Init, CallsOK
<1>12. FileOK
  BY DEF Init, FileOK, FileIsClosed
<1> QED BY <1>6, <1>7, <1>8, <1>9, <1>10, <1>11, <1>12, InvByGroups

-----------------------------------------------------------------------------
(* The steps *)

\* Fork choice keeps the index, the receipts and the mempool well typed.
LEMMA WeighedKeepsPool ==
  ASSUME TreeInv, PoolTypes, NEW b, Weighed(b)
  PROVE  PoolTypes'
<1>1. CASE ~Adopt(b)
  BY <1>1, SamePool DEF Weighed, KeepLighter, KeepRefused, poolVars
<1>2. CASE Adopt(b)
  <2>1. /\ b \in Block /\ Ancestors[b] \subseteq Block /\ Branch(b) \subseteq Block
        /\ Branch(b) \subseteq Ancestors[b]
    BY BlockTreeAssumption DEF Weighed, Branch
  <2>2. Reverted(b) \subseteq Block
    <3>1. Height[ForkPoint(b)] \in Nat
      <4>1. Grounded(b) /\ Height[b] \in Nat
        BY <2>1, TreeGrows, BlockTreeAssumption DEF Weighed
      <4> QED BY <4>1, <2>1, ForkPointIsCanonical DEF TreeInv
    <3>2. \A i \in Height[ForkPoint(b)] + 2 .. Len(canonical) : i \in 1 .. Len(canonical)
      BY <3>1 DEF TreeInv
    <3> QED BY <3>2 DEF TreeInv, Reverted
  <2> DEFINE applied == TxsOf(Branch(b))
             dropped == TxsOf(Reverted(b))
             carrier(u) == CHOOSE a \in Branch(b) : u \in Txs[a]
  <2>3. applied \subseteq Tx /\ dropped \subseteq Tx
    BY <2>1, <2>2, TxsAssumption DEF TxsOf
  <2>4. \A u \in applied : carrier(u) \in Block /\ Height[carrier(u)] \in Nat
    <3> SUFFICES ASSUME NEW u \in applied
                 PROVE  carrier(u) \in Branch(b)
      BY <2>1, BlockTreeAssumption
    <3>1. \E a \in Branch(b) : u \in Txs[a]
      BY DEF TxsOf
    <3> QED BY <3>1
  <2>5. /\ txIndex' = [u \in (DOMAIN txIndex \ dropped) \cup applied |->
                         IF u \in applied THEN Height[carrier(u)] ELSE txIndex[u]]
        /\ receipts' = [u \in (DOMAIN receipts \ dropped) \cup applied |->
                          IF u \in applied THEN carrier(u) ELSE receipts[u]]
        /\ mempool' = (mempool \cup dropped) \ applied
    BY <1>2 DEF Adopt, SetHead
  <2> HIDE DEF applied, dropped, carrier
  <2>6. DOMAIN txIndex' \subseteq Tx /\ \A u \in DOMAIN txIndex' : txIndex'[u] \in Nat
    BY <2>3, <2>4, <2>5 DEF PoolTypes
  <2>7. DOMAIN receipts' \subseteq Tx /\ \A u \in DOMAIN receipts' : receipts'[u] \in Block
    BY <2>3, <2>4, <2>5 DEF PoolTypes
  <2>8. mempool' \subseteq Tx
    BY <2>3, <2>5 DEF PoolTypes
  <2> QED BY <2>6, <2>7, <2>8 DEF PoolTypes
<1> QED BY <1>1, <1>2

\* Writing the file of the present tree keeps the file in order.
LEMMA WriteKeepsFile ==
  ASSUME TreeInv', DiskTypes, phase = "running",
         stored' = File(known', canonical'), UNCHANGED <<phase, replay, crashes>>
  PROVE  DiskTypes' /\ FileOK'
<1>1. HeadBlock' \in Block
  BY DEF TreeInv, HeadBlock
<1>2. /\ stored'.blocks = known' \ {Genesis}
      /\ stored' \in [blocks : SUBSET Block, head : Block]
  BY <1>1 DEF File, TreeInv, HeadBlock
<1>3. \A b \in known' : b \in Valid /\ (b # Genesis => Parent[b] \in known')
  BY BlockTreeAssumption DEF TreeInv, KnownTree, Grounded
<1>4. FileIsClosed'
  BY <1>2, <1>3 DEF FileIsClosed
<1>5. FileOK'
  BY <1>2, <1>3, <1>4 DEF FileOK
<1> QED BY <1>2, <1>5 DEF DiskTypes

\* A file that is not written stays in order while the tree grows.
LEMMA KeepFile ==
  ASSUME DiskTypes, FileOK, phase = "running", known \subseteq known',
         UNCHANGED <<stored, phase, replay, crashes>>
  PROVE  DiskTypes' /\ FileOK'
BY DEF DiskTypes, FileOK, FileIsClosed

\* The calls in progress after one of them is replaced.
LEMMA CallReplaced ==
  ASSUME CallTypes, CallsOK, known \subseteq known',
         NEW t \in Task, NEW s \in Seq(Frame),
         \A i \in 1 .. Len(s) : Starts(s[i], known'),
         stack' = [stack EXCEPT ![t] = s]
  PROVE  stack' \in [Task -> Seq(Frame)] /\ CallsOK'
<1>1. stack' \in [Task -> Seq(Frame)] /\ stack'[t] = s
      /\ \A u \in Task \ {t} : stack'[u] = stack[u]
  BY DEF CallTypes
<1>2. \A u \in Task \ {t} : \A i \in 1 .. Len(stack[u]) : Starts(stack[u][i], known')
  BY DEF CallsOK, Starts
<1>3. CallsOK'
  BY <1>1, <1>2 DEF CallsOK
<1> QED BY <1>1, <1>3

\* Facts about the top frame of a call.
LEMMA TopFrame ==
  ASSUME CallTypes, CallsOK, NEW t \in Task, stack[t] # <<>>
  PROVE  /\ Len(stack[t]) \in Nat \ {0} /\ Top(t) \in Frame
         /\ Starts(Top(t), known)
         /\ Pop(stack[t]) \in Seq(Frame)
         /\ \A i \in 1 .. Len(Pop(stack[t])) : Starts(Pop(stack[t])[i], known)
<1>1. stack[t] \in Seq(Frame) /\ Len(stack[t]) \in Nat \ {0}
  BY DEF CallTypes
<1>2. \A i \in 1 .. Len(stack[t]) : Starts(stack[t][i], known)
  BY DEF CallsOK
<1>3. /\ Pop(stack[t]) \in Seq(Frame) /\ Len(Pop(stack[t])) = Len(stack[t]) - 1
      /\ \A i \in 1 .. Len(Pop(stack[t])) : Pop(stack[t])[i] = stack[t][i]
  BY <1>1 DEF Pop
<1> QED BY <1>1, <1>2, <1>3 DEF Top

\* Replacing the top frame.
LEMMA TopReplaced ==
  ASSUME CallTypes, CallsOK, NEW t \in Task, stack[t] # <<>>,
         NEW f \in Frame, NEW k, known \subseteq k, Starts(f, k)
  PROVE  /\ [stack[t] EXCEPT ![Len(stack[t])] = f] \in Seq(Frame)
         /\ \A i \in 1 .. Len([stack[t] EXCEPT ![Len(stack[t])] = f]) :
              Starts([stack[t] EXCEPT ![Len(stack[t])] = f][i], k)
<1> DEFINE s == stack[t]
           r == [s EXCEPT ![Len(s)] = f]
<1>1. s \in Seq(Frame) /\ Len(s) \in Nat \ {0}
  BY DEF CallTypes
<1>2. \A i \in 1 .. Len(s) : Starts(s[i], k)
  BY DEF CallsOK, Starts
<1> HIDE DEF s
<1>3. r \in Seq(Frame) /\ Len(r) = Len(s)
      /\ \A i \in 1 .. Len(s) : r[i] = IF i = Len(s) THEN f ELSE s[i]
  BY <1>1
<1> QED BY <1>1, <1>2, <1>3 DEF s

\* Entering processBlock.
LEMMA EnterKeepsCalls ==
  ASSUME TreeInv, CallTypes, CallsOK, UNCHANGED <<known, unsaved>>,
         NEW t \in Task, NEW s \in Seq(Frame), NEW b \in Block,
         \A i \in 1 .. Len(s) : Starts(s[i], known),
         Enter(t, s, b)
  PROVE  CallTypes' /\ CallsOK'
<1>1. b \in known \/ (b # Genesis /\ Parent[b] \in Block)
  BY BlockTreeAssumption DEF TreeInv, KnownTree
<1>2. CASE b \notin known /\ Parent[b] \in known
  <2> DEFINE f == [block |-> b, stage |-> "verify", todo |-> <<>>]
  <2>1. f \in Frame /\ Starts(f, known)
    BY <1>1, <1>2 DEF Frame, Starts
  <2>2. stack' = [stack EXCEPT ![t] = Append(s, f)] /\ UNCHANGED orphans
    BY <1>2 DEF Enter
  <2> HIDE DEF f
  <2>3. Append(s, f) \in Seq(Frame)
        /\ \A i \in 1 .. Len(Append(s, f)) : Starts(Append(s, f)[i], known)
    <3>1. Append(s, f) \in Seq(Frame) /\ Len(Append(s, f)) = Len(s) + 1
          /\ \A i \in 1 .. Len(s) + 1 : Append(s, f)[i] = IF i = Len(s) + 1 THEN f ELSE s[i]
      BY <2>1
    <3>2. \A i \in 1 .. Len(s) + 1 : i = Len(s) + 1 \/ i \in 1 .. Len(s)
      OBVIOUS
    <3> QED BY <3>1, <3>2, <2>1
  <2>4. stack' \in [Task -> Seq(Frame)] /\ CallsOK'
    BY <2>2, <2>3, CallReplaced
  <2> QED BY <2>2, <2>4 DEF CallTypes
<1>3. CASE ~(b \notin known /\ Parent[b] \in known)
  <2>1. stack' = [stack EXCEPT ![t] = s]
        /\ (UNCHANGED orphans
            \/ (b # Genesis /\ orphans' = [orphans EXCEPT ![Parent[b]] = Append(@, b)]))
    BY <1>1, <1>3 DEF Enter
  <2>2. orphans' \in [Block -> Seq(Block)]
    <3>1. CASE UNCHANGED orphans
      BY <3>1 DEF CallTypes
    <3>2. CASE b # Genesis /\ orphans' = [orphans EXCEPT ![Parent[b]] = Append(@, b)]
      <4>1. Parent[b] \in Block /\ orphans[Parent[b]] \in Seq(Block)
        BY <3>2, BlockTreeAssumption DEF CallTypes
      <4>2. Append(orphans[Parent[b]], b) \in Seq(Block)
        BY <4>1
      <4> QED BY <3>2, <4>1, <4>2 DEF CallTypes
    <3> QED BY <2>1, <3>1, <3>2
  <2>3. stack' \in [Task -> Seq(Frame)] /\ CallsOK'
    BY <2>1, CallReplaced
  <2> QED BY <2>2, <2>3 DEF CallTypes
<1> QED BY <1>2, <1>3

LEMMA ReceiveInv ==
  ASSUME Inv, NEW t \in Task, NEW b \in Block, Receive(t, b)
  PROVE  Inv'
<1> USE InvByGroups
<1>1. TreeInv' /\ PoolTypes' /\ DiskTypes' /\ FileOK' /\ AnchorTypeOK'
  BY SameTree, SamePool, SameDisk, SameAnchors DEF Receive
<1>2. CallTypes' /\ CallsOK'
  <2>1. <<>> \in Seq(Frame) /\ \A i \in 1 .. Len(<<>>) : Starts(<<>>[i], known)
    OBVIOUS
  <2>2. Enter(t, <<>>, b) /\ UNCHANGED <<known, unsaved>>
    BY DEF Receive, treeVars
  <2> QED BY <2>1, <2>2, EnterKeepsCalls
<1> QED BY <1>1, <1>2 DEF Inv, TypeOK, TreeInv, PoolTypes, CallTypes, DiskTypes

\* The block that Verify adds is weighed as fork choice demands.
LEMMA VerifyWeighs ==
  ASSUME Inv, NEW t \in Task, Verify(t)
  PROVE  Weighed(Top(t).block) /\ Top(t).block \in Block
<1>1. CallTypes /\ CallsOK /\ stack[t] # <<>> /\ Top(t).stage = "verify"
  BY InvByGroups DEF Verify, InStage
<1>2. Top(t).block \in Block \ {Genesis} /\ Parent[Top(t).block] \in known
  BY <1>1, TopFrame DEF Starts, Frame
<1> QED BY <1>2 DEF Verify, Weighed

\* The outermost call returns: the file is written or left alone.
LEMMA AcceptedKeepsFile ==
  ASSUME TreeInv', DiskTypes, FileOK, phase = "running", known \subseteq known',
         NEW t \in Task, unsaved \subseteq Task \ Persisting, Accepted(t),
         UNCHANGED <<phase, replay, crashes>>
  PROVE  DiskTypes' /\ FileOK' /\ unsaved' \subseteq Task \ Persisting
<1>1. \/ stored' = File(known', canonical') /\ UNCHANGED unsaved
      \/ UNCHANGED stored /\ unsaved' \subseteq Task \ Persisting
  BY DEF Accepted
<1> QED BY <1>1, WriteKeepsFile, KeepFile

LEMMA VerifyInv ==
  ASSUME Inv, NEW t \in Task, Verify(t)
  PROVE  Inv'
<1> DEFINE b == Top(t).block
<1>1. /\ TreeInv /\ PoolTypes /\ CallTypes /\ DiskTypes /\ AnchorTypeOK
      /\ CallsOK /\ FileOK
  BY InvByGroups
<1>2. Weighed(b) /\ b \in Block /\ known \subseteq known'
  BY VerifyWeighs DEF Weighed
<1>3. TreeInv' /\ PoolTypes'
  BY <1>1, <1>2, WeighedKeepsTree, WeighedKeepsPool
<1>4. AnchorTypeOK'
  BY <1>1, SameAnchors DEF Verify
<1>5. /\ phase = "running" /\ stack[t] # <<>> /\ UNCHANGED <<orphans, phase, replay, crashes>>
      /\ \/ /\ stack' = [stack EXCEPT ![t][Len(stack[t])].stage = "resolve"]
            /\ UNCHANGED <<stored, unsaved>>
         \/ /\ stack' = [stack EXCEPT ![t] = Pop(@)]
            /\ Accepted(t)
  BY DEF Verify, InStage
<1>6. DiskTypes' /\ FileOK' /\ unsaved' \subseteq Task \ Persisting
  <2>1. CASE UNCHANGED <<stored, unsaved>>
    BY <2>1, <1>1, <1>2, <1>5, KeepFile DEF CallTypes
  <2>2. CASE Accepted(t)
    BY <2>2, <1>1, <1>2, <1>3, <1>5, AcceptedKeepsFile DEF CallTypes
  <2> QED BY <2>1, <2>2, <1>5
<1>7. stack' \in [Task -> Seq(Frame)] /\ CallsOK'
  <2>1. CASE stack' = [stack EXCEPT ![t][Len(stack[t])].stage = "resolve"]
    <3> DEFINE f == [Top(t) EXCEPT !.stage = "resolve"]
               s == [stack[t] EXCEPT ![Len(stack[t])] = f]
    <3>1. f \in Frame /\ Starts(f, known')
      <4>1. Top(t) \in Frame /\ Top(t).todo = <<>> /\ b \in known'
        BY <1>1, <1>2, <1>5, TopFrame DEF Starts, Verify, InStage, Weighed
      <4> QED BY <4>1 DEF Frame, Starts
    <3>2. stack' = [stack EXCEPT ![t] = s]
      BY <2>1 DEF Top
    <3> HIDE DEF f
    <3>3. s \in Seq(Frame) /\ \A i \in 1 .. Len(s) : Starts(s[i], known')
      BY <3>1, <1>1, <1>2, <1>5, TopReplaced
    <3> HIDE DEF s
    <3> QED BY <3>2, <3>3, <1>1, <1>2, CallReplaced
  <2>2. CASE stack' = [stack EXCEPT ![t] = Pop(@)]
    <3>1. Pop(stack[t]) \in Seq(Frame)
          /\ \A i \in 1 .. Len(Pop(stack[t])) : Starts(Pop(stack[t])[i], known')
      BY <1>1, <1>2, <1>5, TopFrame DEF Starts
    <3>2. stack' = [stack EXCEPT ![t] = Pop(stack[t])]
      BY <2>2
    <3> QED BY <3>1, <3>2, <1>1, <1>2, CallReplaced
  <2> QED BY <2>1, <2>2, <1>5
<1>8. CallTypes'
  BY <1>1, <1>5, <1>6, <1>7 DEF CallTypes
<1> QED BY <1>3, <1>4, <1>6, <1>7, <1>8
        DEF Inv, TypeOK, TreeInv, PoolTypes, CallTypes, DiskTypes

LEMMA ThrowInv ==
  ASSUME Inv, NEW t \in Task, Throw(t)
  PROVE  Inv'
<1>1. /\ TreeInv /\ PoolTypes /\ CallTypes /\ DiskTypes /\ AnchorTypeOK
      /\ CallsOK /\ FileOK
  BY InvByGroups
<1>2. TreeInv' /\ PoolTypes' /\ DiskTypes' /\ FileOK' /\ AnchorTypeOK'
  BY <1>1, SameTree, SamePool, SameDisk, SameAnchors DEF Throw
<1>3. known \subseteq known' /\ stack' = [stack EXCEPT ![t] = <<>>]
      /\ UNCHANGED orphans /\ unsaved' \subseteq unsaved
  BY DEF Throw, treeVars
<1>4. <<>> \in Seq(Frame) /\ \A i \in 1 .. Len(<<>>) : Starts(<<>>[i], known')
  OBVIOUS
<1>5. stack' \in [Task -> Seq(Frame)] /\ CallsOK'
  BY <1>1, <1>3, <1>4, CallReplaced
<1>6. CallTypes'
  BY <1>1, <1>3, <1>5 DEF CallTypes
<1> QED BY <1>2, <1>5, <1>6 DEF Inv, TypeOK, TreeInv, PoolTypes, CallTypes, DiskTypes

LEMMA ResolveInv ==
  ASSUME Inv, NEW t \in Task, Resolve(t)
  PROVE  Inv'
<1> DEFINE b == Top(t).block
           taken == IF Len(stack[t]) - 1 < MaxResolutionDepth THEN orphans[b] ELSE <<>>
           f == [block |-> b, stage |-> "children", todo |-> taken]
           s == [stack[t] EXCEPT ![Len(stack[t])] = f]
<1>1. /\ TreeInv /\ PoolTypes /\ CallTypes /\ DiskTypes /\ AnchorTypeOK
      /\ CallsOK /\ FileOK
  BY InvByGroups
<1>2. TreeInv' /\ PoolTypes' /\ DiskTypes' /\ FileOK' /\ AnchorTypeOK'
  BY <1>1, SameTree, SamePool, SameDisk, SameAnchors DEF Resolve
<1>3. /\ stack[t] # <<>> /\ UNCHANGED <<known, unsaved>>
      /\ stack' = [stack EXCEPT ![t] = s]
      /\ orphans' = IF taken = <<>> THEN orphans ELSE [orphans EXCEPT ![b] = <<>>]
  BY DEF Resolve, InStage, treeVars
<1>4. b \in Block /\ taken \in Seq(Block)
  <2>1. b \in Block
    BY <1>1, <1>3, TopFrame DEF Frame
  <2>2. orphans[b] \in Seq(Block) /\ <<>> \in Seq(Block)
    BY <2>1, <1>1 DEF CallTypes
  <2> QED BY <2>1, <2>2
<1>5. f \in Frame /\ Starts(f, known)
  <2>1. b \in known
    BY <1>1, <1>3, TopFrame DEF Resolve, InStage, Starts
  <2> QED BY <1>4, <2>1 DEF Frame, Starts
<1>6. orphans' \in [Block -> Seq(Block)]
  BY <1>1, <1>3, <1>4 DEF CallTypes
<1> HIDE DEF f
<1>7. s \in Seq(Frame) /\ \A i \in 1 .. Len(s) : Starts(s[i], known)
  BY <1>1, <1>3, <1>5, TopReplaced
<1> HIDE DEF s
<1>8. stack' \in [Task -> Seq(Frame)] /\ CallsOK'
  BY <1>1, <1>3, <1>7, CallReplaced
<1> QED BY <1>1, <1>2, <1>3, <1>6, <1>8
        DEF Inv, TypeOK, TreeInv, PoolTypes, CallTypes, DiskTypes

LEMMA NextChildInv ==
  ASSUME Inv, NEW t \in Task, NextChild(t)
  PROVE  Inv'
<1> DEFINE f == [Top(t) EXCEPT !.todo = Tail(@)]
           s == Append(Pop(stack[t]), f)
<1>1. /\ TreeInv /\ PoolTypes /\ CallTypes /\ DiskTypes /\ AnchorTypeOK
      /\ CallsOK /\ FileOK
  BY InvByGroups
<1>2. TreeInv' /\ PoolTypes' /\ DiskTypes' /\ FileOK' /\ AnchorTypeOK'
  BY <1>1, SameTree, SamePool, SameDisk, SameAnchors DEF NextChild
<1>3. /\ stack[t] # <<>> /\ Top(t).todo # <<>> /\ Top(t).stage = "children"
      /\ UNCHANGED <<known, unsaved>>
      /\ Enter(t, s, Top(t).todo[1])
  BY DEF NextChild, InStage, treeVars
<1>4. /\ Top(t) \in Frame /\ Pop(stack[t]) \in Seq(Frame)
      /\ \A i \in 1 .. Len(Pop(stack[t])) : Starts(Pop(stack[t])[i], known)
  BY <1>1, <1>3, TopFrame
<1>5. Top(t).todo[1] \in Block /\ f \in Frame /\ Starts(f, known)
  <2>1. Top(t).todo \in Seq(Block) /\ Top(t).todo # <<>>
    BY <1>3, <1>4 DEF Frame
  <2>2. Top(t).todo[1] \in Block /\ Tail(Top(t).todo) \in Seq(Block)
    BY <2>1
  <2>3. f \in Frame /\ f.stage = "children" /\ f.block = Top(t).block
    BY <2>2, <1>3, <1>4 DEF Frame
  <2>4. Top(t).block \in known
    BY <1>1, <1>3, TopFrame DEF Starts
  <2> QED BY <2>2, <2>3, <2>4 DEF Starts
<1> HIDE DEF f
<1>6. s \in Seq(Frame) /\ \A i \in 1 .. Len(s) : Starts(s[i], known)
  <2> DEFINE p == Pop(stack[t])
  <2> HIDE DEF p
  <2>1. p \in Seq(Frame) /\ \A i \in 1 .. Len(p) : Starts(p[i], known)
    BY <1>4 DEF p
  <2>2. /\ Append(p, f) \in Seq(Frame) /\ Len(Append(p, f)) = Len(p) + 1
        /\ \A i \in 1 .. Len(p) + 1 : Append(p, f)[i] = IF i = Len(p) + 1 THEN f ELSE p[i]
    BY <2>1, <1>5
  <2>3. \A i \in 1 .. Len(p) + 1 : i = Len(p) + 1 \/ i \in 1 .. Len(p)
    BY <2>1
  <2>4. \A i \in 1 .. Len(Append(p, f)) : Starts(Append(p, f)[i], known)
    BY <2>1, <2>2, <2>3, <1>5
  <2> QED BY <2>2, <2>4 DEF p
<1> HIDE DEF s
<1>7. CallTypes' /\ CallsOK'
  BY <1>1, <1>3, <1>5, <1>6, EnterKeepsCalls
<1> QED BY <1>2, <1>7 DEF Inv, TypeOK, TreeInv, PoolTypes, CallTypes, DiskTypes

LEMMA ReturnInv ==
  ASSUME Inv, NEW t \in Task, Return(t)
  PROVE  Inv'
<1>1. /\ TreeInv /\ PoolTypes /\ CallTypes /\ DiskTypes /\ AnchorTypeOK
      /\ CallsOK /\ FileOK
  BY InvByGroups
<1>2. TreeInv' /\ PoolTypes' /\ AnchorTypeOK'
  BY <1>1, SameTree, SamePool, SameAnchors DEF Return
<1>3. /\ phase = "running" /\ stack[t] # <<>> /\ known \subseteq known'
      /\ stack' = [stack EXCEPT ![t] = Pop(stack[t])]
      /\ UNCHANGED <<orphans, phase, replay, crashes>> /\ Accepted(t)
  BY DEF Return, InStage, treeVars
<1>4. DiskTypes' /\ FileOK' /\ unsaved' \subseteq Task \ Persisting
  BY <1>1, <1>2, <1>3, AcceptedKeepsFile DEF CallTypes
<1>5. Pop(stack[t]) \in Seq(Frame)
      /\ \A i \in 1 .. Len(Pop(stack[t])) : Starts(Pop(stack[t])[i], known')
  BY <1>1, <1>3, TopFrame DEF Starts
<1>6. stack' \in [Task -> Seq(Frame)] /\ CallsOK'
  BY <1>1, <1>3, <1>5, CallReplaced
<1> QED BY <1>1, <1>2, <1>3, <1>4, <1>6
        DEF Inv, TypeOK, TreeInv, PoolTypes, CallTypes, DiskTypes

LEMMA SaveBatchInv ==
  ASSUME Inv, NEW t \in Task, SaveBatch(t)
  PROVE  Inv'
<1>1. /\ TreeInv /\ PoolTypes /\ CallTypes /\ DiskTypes /\ AnchorTypeOK
      /\ CallsOK /\ FileOK
  BY InvByGroups
<1>2. TreeInv' /\ PoolTypes' /\ AnchorTypeOK'
  BY <1>1, SameTree, SamePool, SameAnchors DEF SaveBatch
<1>3. /\ phase = "running" /\ stored' = File(known', canonical')
      /\ UNCHANGED <<phase, replay, crashes>>
      /\ UNCHANGED <<known, orphans, stack>> /\ unsaved' \subseteq unsaved
  BY DEF SaveBatch, treeVars
<1>4. DiskTypes' /\ FileOK'
  BY <1>1, <1>2, <1>3, WriteKeepsFile
<1>5. CallTypes' /\ CallsOK'
  BY <1>1, <1>3 DEF CallTypes, CallsOK
<1> QED BY <1>2, <1>4, <1>5 DEF Inv, TypeOK, TreeInv, PoolTypes, CallTypes, DiskTypes

LEMMA SubmitRawInv ==
  ASSUME Inv, NEW u \in Tx, SubmitRaw(u)
  PROVE  Inv'
<1>1. /\ TreeInv /\ PoolTypes /\ CallTypes /\ DiskTypes /\ AnchorTypeOK
      /\ CallsOK /\ FileOK
  BY InvByGroups
<1>2. /\ UNCHANGED <<treeVars, txIndex, receipts, callVars, diskVars, anchorVars>>
      /\ mempool' \in Admitted(mempool, u)
  BY DEF SubmitRaw
<1>3. mempool' \subseteq Tx
  BY <1>1, <1>2 DEF PoolTypes, Admitted
<1>4. PoolTypes'
  BY <1>1, <1>2, <1>3 DEF PoolTypes
<1>5. CallTypes' /\ CallsOK'
  BY <1>1, <1>2 DEF CallTypes, CallsOK, callVars, treeVars
<1> QED BY <1>1, <1>2, <1>4, <1>5, SameTree, SameDisk, SameAnchors
        DEF Inv, TypeOK, TreeInv, PoolTypes, CallTypes, DiskTypes

LEMMA CrashInv ==
  ASSUME Inv, Crash
  PROVE  Inv'
<1>1. DiskTypes /\ FileOK /\ crashes \in 0 .. MaxCrashes /\ crashes < MaxCrashes
  BY InvByGroups DEF DiskTypes, Crash
<1>2. Genesis \in Block /\ Genesis \in Valid
  BY BlockTreeAssumption
<1>3. <<Genesis>> \in Seq(Block) \ {<<>>} /\ Len(<<Genesis>>) = 1
  BY <1>2
<1>4. KnownTree'
  BY <1>2, GenesisGrounded, BlockTreeAssumption DEF Crash, KnownTree, Grounded
<1>5. CanonicalChain' /\ HeaviestOrRefused'
  BY <1>2, <1>3, BlockTreeAssumption DEF Crash, CanonicalChain, HeaviestOrRefused, HeadBlock
<1>6. TreeInv'
  BY <1>2, <1>3, <1>4, <1>5, InvByGroups DEF Crash, TreeInv
<1>7. PoolTypes'
  BY DEF Crash, PoolTypes
<1>8. CallTypes' /\ CallsOK'
  BY DEF Crash, CallTypes, CallsOK
<1>9. DiskTypes'
  BY <1>1, ChainAssumption DEF Crash, DiskTypes
<1>10. FileOK'
  BY <1>1 DEF Crash, FileOK, FileIsClosed
<1>11. AnchorTypeOK'
  BY DEF Crash, AnchorTypeOK
<1> QED BY <1>6, <1>7, <1>8, <1>9, <1>10, <1>11
        DEF Inv, TypeOK, TreeInv, PoolTypes, CallTypes, DiskTypes

\* The file is replayed parents first: the next block's parent is in the tree,
\* and the block itself is not.
LEMMA ReplayWeighs ==
  ASSUME Inv, NEW b \in replay, \A c \in replay \ {b} : WrittenBefore(b, c),
         phase = "loading", known' = known \cup {b},
         Adopt(b) \/ KeepLighter(b) \/ KeepRefused(b)
  PROVE  Weighed(b) /\ b \notin known
<1>1. /\ replay \subseteq stored.blocks /\ known = {Genesis} \cup (stored.blocks \ replay)
      /\ stored.blocks \subseteq Valid \ {Genesis} /\ FileIsClosed
  BY DEF Inv, FileOK
<1>2. b \in Valid \ {Genesis} /\ Parent[b] \in stored.blocks \cup {Genesis}
  BY <1>1 DEF FileIsClosed
<1>3. Parent[b] \notin replay
  <2> SUFFICES ASSUME Parent[b] \in replay PROVE FALSE
    OBVIOUS
  <2>1. /\ Height[b] = Height[Parent[b]] + 1
        /\ Height[b] \in Nat /\ Height[Parent[b]] \in Nat
    BY <1>2, BlockTreeAssumption
  <2>2. Parent[b] # b
    BY <2>1
  <2>3. WrittenBefore(b, Parent[b])
    BY <2>2
  <2> QED BY <2>1, <2>3 DEF WrittenBefore
<1> QED BY <1>1, <1>2, <1>3 DEF Weighed

LEMMA ReplayInv ==
  ASSUME Inv, Replay
  PROVE  Inv'
<1>1. /\ TreeInv /\ PoolTypes /\ CallTypes /\ DiskTypes /\ AnchorTypeOK
      /\ CallsOK /\ FileOK
  BY InvByGroups
<1>2. PICK b \in replay :
        /\ \A c \in replay \ {b} : WrittenBefore(b, c)
        /\ replay' = replay \ {b}
        /\ known' = known \cup {b}
        /\ Adopt(b) \/ KeepLighter(b) \/ KeepRefused(b)
  BY DEF Replay
<1>3. phase = "loading" /\ UNCHANGED <<callVars, phase, stored, crashes, anchorVars>>
  BY DEF Replay
<1>4. Weighed(b)
  BY <1>2, <1>3, ReplayWeighs
<1>5. TreeInv' /\ PoolTypes'
  BY <1>1, <1>4, WeighedKeepsTree, WeighedKeepsPool
<1>6. DiskTypes' /\ FileOK'
  BY <1>1, <1>2, <1>3 DEF DiskTypes, FileOK, FileIsClosed
<1>7. CallTypes' /\ CallsOK'
  BY <1>1, <1>2, <1>3 DEF CallTypes, CallsOK, Starts, callVars
<1> QED BY <1>1, <1>3, <1>5, <1>6, <1>7, SameAnchors
        DEF Inv, TypeOK, TreeInv, PoolTypes, CallTypes, DiskTypes

LEMMA ReadyInv ==
  ASSUME Inv, Ready
  PROVE  Inv'
<1>1. /\ TreeInv /\ PoolTypes /\ CallTypes /\ DiskTypes /\ AnchorTypeOK
      /\ CallsOK /\ FileOK
  BY InvByGroups
<1>2. /\ phase = "loading" /\ replay = {} /\ phase' = "running"
      /\ UNCHANGED <<treeVars, poolVars, callVars, replay, stored, crashes, anchorVars>>
  BY DEF Ready
<1>3. DiskTypes' /\ FileOK'
  BY <1>1, <1>2 DEF DiskTypes, FileOK, FileIsClosed, treeVars
<1>4. CallTypes' /\ CallsOK'
  BY <1>1, <1>2 DEF CallTypes, CallsOK, callVars, treeVars
<1> QED BY <1>1, <1>2, <1>3, <1>4, SameTree, SamePool, SameAnchors
        DEF Inv, TypeOK, TreeInv, PoolTypes, CallTypes, DiskTypes

\* The anchor store keeps its types on its own.
LEMMA AnchorNextKeepsTypes == AnchorTypeOK /\ AnchorNext => AnchorTypeOK'
<1> SUFFICES ASSUME AnchorTypeOK, AnchorNext PROVE AnchorTypeOK'
  OBVIOUS
<1>1. CASE \E a \in Anchor : Add(a)
  <2>1. PICK a \in Anchor : Add(a)
    BY <1>1
  <2>2. UNCHANGED ethHead
    BY <2>1 DEF Add
  <2>3. CASE DetectEquivocation(a) \/ Regresses(a)
    BY <2>1, <2>2, <2>3 DEF Add, AnchorTypeOK
  <2>4. CASE ~(DetectEquivocation(a) \/ Regresses(a))
    BY <2>1, <2>2, <2>4 DEF Add, AnchorTypeOK
  <2> QED BY <2>3, <2>4
<1>2. CASE \E n \in EthBlocks : SetEthereumHead(n)
  BY <1>2 DEF SetEthereumHead, AnchorTypeOK
<1> QED BY <1>1, <1>2 DEF AnchorNext

LEMMA PollAnchorsInv ==
  ASSUME Inv, PollAnchors
  PROVE  Inv'
<1>1. /\ TreeInv /\ PoolTypes /\ CallTypes /\ DiskTypes /\ AnchorTypeOK
      /\ CallsOK /\ FileOK
  BY InvByGroups
<1>2. AnchorNext /\ UNCHANGED <<treeVars, poolVars, callVars, diskVars>>
  BY DEF PollAnchors
<1>3. CallTypes' /\ CallsOK'
  BY <1>1, <1>2 DEF CallTypes, CallsOK, callVars, treeVars
<1> QED BY <1>1, <1>2, <1>3, SameTree, SamePool, SameDisk, AnchorNextKeepsTypes
        DEF Inv, TypeOK, TreeInv, PoolTypes, CallTypes, DiskTypes

LEMMA NextInv == Inv /\ [Next]_vars => Inv'
<1> SUFFICES ASSUME Inv, [Next]_vars PROVE Inv'
  OBVIOUS
<1>1. CASE \E t \in Task : Call(t)
  <2>1. PICK t \in Task : Call(t)
    BY <1>1
  <2>2. CASE \E b \in Block : Receive(t, b)
    BY <2>2, ReceiveInv
  <2>3. CASE Verify(t)
    BY <2>3, VerifyInv
  <2>4. CASE Throw(t)
    BY <2>4, ThrowInv
  <2>5. CASE Resolve(t)
    BY <2>5, ResolveInv
  <2>6. CASE NextChild(t)
    BY <2>6, NextChildInv
  <2>7. CASE Return(t)
    BY <2>7, ReturnInv
  <2>8. CASE SaveBatch(t)
    BY <2>8, SaveBatchInv
  <2> QED BY <2>1, <2>2, <2>3, <2>4, <2>5, <2>6, <2>7, <2>8 DEF Call
<1>2. CASE \E u \in Tx : SubmitRaw(u)
  BY <1>2, SubmitRawInv
<1>3. CASE PollAnchors
  BY <1>3, PollAnchorsInv
<1>4. CASE Crash
  BY <1>4, CrashInv
<1>5. CASE Replay
  BY <1>5, ReplayInv
<1>6. CASE Ready
  BY <1>6, ReadyInv
<1>7. CASE UNCHANGED vars
  <2>1. UNCHANGED <<treeVars, poolVars, callVars, diskVars, anchorVars>>
    BY <1>7 DEF vars
  <2>2. CallTypes' /\ CallsOK'
    BY <2>1, InvByGroups DEF CallTypes, CallsOK, callVars, treeVars
  <2> QED BY <2>1, <2>2, InvByGroups, SameTree, SamePool, SameDisk, SameAnchors
          DEF Inv, TypeOK, TreeInv, PoolTypes, CallTypes, DiskTypes
<1> QED BY <1>1, <1>2, <1>3, <1>4, <1>5, <1>6, <1>7 DEF Next

LEMMA Invariance == Spec => []Inv
<1>1. Init => Inv
  BY InitInv
<1>2. Inv /\ [Next]_vars => Inv'
  BY NextInv
<1> QED BY <1>1, <1>2, PTL DEF Spec

-----------------------------------------------------------------------------
(* What a step does to the tree *)

\* A step weighs one block, or leaves the tree alone, or is a restart.
LEMMA StepShape ==
  ASSUME Inv, [Next]_vars
  PROVE  \/ Crash
         \/ UNCHANGED treeVars
         \/ \E b \in Block : Weighed(b) /\ UNCHANGED <<crashes, anchorVars>>
<1>1. CASE \E t \in Task : Verify(t)
  <2>1. PICK t \in Task : Verify(t)
    BY <1>1
  <2>2. Weighed(Top(t).block) /\ Top(t).block \in Block
    BY <2>1, VerifyWeighs
  <2>3. UNCHANGED <<crashes, anchorVars>>
    BY <2>1 DEF Verify
  <2> QED BY <2>2, <2>3
<1>2. CASE Replay
  <2>1. PICK b \in replay :
          /\ \A c \in replay \ {b} : WrittenBefore(b, c)
          /\ known' = known \cup {b}
          /\ Adopt(b) \/ KeepLighter(b) \/ KeepRefused(b)
    BY <1>2 DEF Replay
  <2>2. Weighed(b) /\ UNCHANGED <<crashes, anchorVars>>
    BY <1>2, <2>1, ReplayWeighs DEF Replay
  <2> QED BY <2>2, BlockTreeAssumption DEF Weighed
<1>3. CASE ~Replay /\ ~Crash /\ ~(\E t \in Task : Verify(t))
  BY <1>3 DEF Next, Call, vars, Receive, Throw, Resolve, NextChild, Return,
              SaveBatch, SubmitRaw, PollAnchors, Ready
<1> QED BY <1>1, <1>2, <1>3

\* The heights that bind are heights of the canonical chain.
LEMMA BindingHeights ==
  ASSUME Inv
  PROVE  \A h \in Binding(canonical) :
           h \in Nat /\ h < Len(canonical) /\ canonical[h + 1] = byHeight[h].block
BY AnchorAssumption DEF Inv, TypeOK, AnchorTypeOK, AnchorRecord, Binding, Attested

LEMMA AnchorNumbers ==
  ASSUME AnchorTypeOK
  PROVE  ethHead \in Nat /\ \A h \in DOMAIN byHeight : byHeight[h].ethBlock \in Nat
<1>1. \A h \in DOMAIN byHeight : byHeight[h] \in Anchor
  BY DEF AnchorTypeOK
<1>2. \A a \in Anchor : a.ethBlock \in Nat
  BY AnchorAssumption DEF AnchorRecord
<1> QED BY <1>1, <1>2, AnchorAssumption DEF AnchorTypeOK

LEMMA HeadStep ==
  ASSUME Inv, [Next]_vars, canonical' # canonical, crashes' = crashes
  PROVE  Work[HeadBlock'] > Work[HeadBlock]
<1>1. ~Crash
  BY DEF Inv, TypeOK, Crash
<1>2. ~UNCHANGED treeVars
  BY DEF treeVars
<1>3. PICK b \in Block : Weighed(b)
  BY <1>1, <1>2, StepShape
<1> QED BY <1>3, WeighedKeepsTree, InvByGroups

LEMMA ReorgStep ==
  ASSUME Inv, [Next]_vars, crashes' = crashes, NEW i \in 1 .. Len(canonical)
  PROVE  \/ i <= Len(canonical') /\ canonical'[i] = canonical[i]
         \/ /\ i > Len(canonical) - MaxReorgDepth
            /\ \A h \in Binding(canonical) : i > h + 1
<1>1. CASE canonical' = canonical
  BY <1>1
<1>2. CASE canonical' # canonical
  <2>1. PICK b \in Block : Weighed(b)
    <3>1. ~Crash
      BY DEF Inv, TypeOK, Crash
    <3>2. ~UNCHANGED treeVars
      BY <1>2 DEF treeVars
    <3> QED BY <3>1, <3>2, StepShape
  <2> DEFINE f == Height[ForkPoint(b)]
  <2>2. /\ \A h \in Binding(canonical) : f >= h
        /\ Tip - f <= MaxReorgDepth
        /\ \A j \in 1 .. f + 1 : j <= Len(canonical') /\ canonical'[j] = canonical[j]
    BY <1>2, <2>1, WeighedKeepsTree, InvByGroups
  <2>3. f \in Nat /\ Len(canonical) \in Nat /\ Tip = Len(canonical) - 1
    <3>1. Grounded(b) /\ Height[b] \in Nat
      BY <2>1, TreeGrows, InvByGroups, BlockTreeAssumption DEF Weighed
    <3> QED BY <3>1, ForkPointIsCanonical, InvByGroups DEF TreeInv, Tip
  <2> HIDE DEF f
  <2>4. CASE i <= f + 1
    BY <2>2, <2>3, <2>4
  <2>5. CASE i > f + 1
    BY <2>2, <2>3, <2>5, BindingHeights, ChainAssumption
  <2> QED BY <2>3, <2>4, <2>5
<1> QED BY <1>1, <1>2

\* An attested height is never unbound by a movement of the chain, nor by an
\* anchor that neither contradicts nor re-dates the one kept.
LEMMA FloorStep ==
  ASSUME Inv, [Next]_vars, ~(ethHead' < ethHead), equivocations' = equivocations,
         crashes' = crashes, \A h \in DOMAIN byHeight : ~Redated(h),
         NEW h \in Binding(canonical)
  PROVE  h \in Binding(canonical)'
<1>1. /\ h \in DOMAIN byHeight \ equivocations
      /\ ethHead - byHeight[h].ethBlock >= EthConfirmations
      /\ h < Len(canonical) /\ canonical[h + 1] = byHeight[h].block
      /\ h \in Nat /\ Len(canonical) \in Nat /\ ~Crash
  BY BindingHeights DEF Binding, Attested, Crash, Inv, TypeOK
<1>2. CASE UNCHANGED anchorVars
  <2>1. h + 1 <= Len(canonical') /\ canonical'[h + 1] = canonical[h + 1]
    <3>1. h + 1 \in 1 .. Len(canonical)
      BY <1>1
    <3>2. ~(h + 1 > h + 1)
      BY <1>1
    <3> QED BY <3>1, <3>2, ReorgStep
  <2>2. Len(canonical') \in Nat
    BY NextInv DEF Inv, TypeOK
  <2>3. /\ h < Len(canonical') /\ byHeight' = byHeight /\ ethHead' = ethHead
    BY <1>1, <1>2, <2>1, <2>2 DEF anchorVars
  <2> QED BY <1>1, <2>1, <2>3 DEF Binding, Attested
<1>3. CASE ~UNCHANGED anchorVars
  <2>1. AnchorNext /\ UNCHANGED treeVars
    BY <1>1, <1>3 DEF Next, Call, vars, Receive, Verify, Throw, Resolve, NextChild,
                Return, SaveBatch, SubmitRaw, PollAnchors, Replay, Ready
  <2>2. canonical' = canonical
    BY <2>1 DEF treeVars
  <2>3. h \in DOMAIN byHeight' /\ byHeight'[h].block = byHeight[h].block
        /\ ethHead' - byHeight'[h].ethBlock >= EthConfirmations
    <3>1. CASE \E n \in EthBlocks : SetEthereumHead(n)
      <4>1. byHeight' = byHeight /\ ethHead' \in Nat
        BY <3>1, AnchorAssumption DEF SetEthereumHead
      <4>2. ethHead \in Nat /\ byHeight[h].ethBlock \in Nat
        BY <1>1, AnchorNumbers DEF Inv, TypeOK
      <4>3. /\ ethHead - byHeight[h].ethBlock >= EthConfirmations /\ EthConfirmations \in Nat
            /\ ~(ethHead' < ethHead) /\ h \in DOMAIN byHeight
        BY <1>1, AnchorAssumption
      <4>4. ethHead' - byHeight[h].ethBlock >= EthConfirmations
        BY ONLY <4>1, <4>2, <4>3
      <4> QED BY <4>1, <4>3, <4>4
    <3>2. CASE \E a \in Anchor : Add(a)
      <4>1. PICK a \in Anchor : Add(a)
        BY <3>2
      <4>2. ethHead' = ethHead
        BY <4>1 DEF Add
      <4>3. byHeight' = byHeight
            \/ /\ ~DetectEquivocation(a)
               /\ byHeight' = [g \in DOMAIN byHeight \cup {a.height} |->
                                 IF g = a.height THEN a ELSE byHeight[g]]
        BY <4>1 DEF Add
      <4>4. CASE byHeight' = byHeight \/ a.height # h
        BY <1>1, <4>2, <4>3, <4>4
      <4>5. CASE byHeight' # byHeight /\ a.height = h
        <5>1. h \in DOMAIN byHeight' /\ byHeight'[h] = a /\ SameDigest(byHeight[h], a)
          BY <1>1, <4>3, <4>5 DEF DetectEquivocation
        <5>2. ~(a.ethBlock > byHeight[h].ethBlock)
          BY <1>1, <5>1 DEF Redated
        <5>3. a.ethBlock \in Nat /\ byHeight[h].ethBlock \in Nat /\ ethHead \in Nat
          BY <1>1, AnchorNumbers, AnchorAssumption DEF Inv, TypeOK, AnchorRecord
        <5>4. ethHead - a.ethBlock >= EthConfirmations
          BY <1>1, <5>2, <5>3, AnchorAssumption
        <5> QED BY <4>2, <5>1, <5>4 DEF SameDigest
      <4> QED BY <4>4, <4>5
    <3> QED BY <2>1, <3>1, <3>2 DEF AnchorNext
  <2> QED BY <1>1, <2>2, <2>3 DEF Binding, Attested
<1> QED BY <1>2, <1>3

\* Max of a bounded, nonempty set of heights is its greatest element.
LEMMA TallestIsGreatest ==
  ASSUME NEW B \in SUBSET Nat, B # {}, NEW n \in Nat, \A h \in B : h <= n
  PROVE  Max(B) \in B /\ \A h \in B : h <= Max(B)
<1>1. \E m \in B : \A h \in B : h <= m
  BY Greatest
<1> QED BY <1>1 DEF Max

LEMMA SettledStep ==
  ASSUME Inv, [Next]_vars, ~(ethHead' < ethHead), equivocations' = equivocations,
         crashes' = crashes, \A h \in DOMAIN byHeight : ~Redated(h)
  PROVE  ~(FinalizedHeight(canonical)' < FinalizedHeight(canonical))
<1> DEFINE B == Binding(canonical)
           C == Binding(canonical)'
<1>1. /\ B \in SUBSET Nat /\ Len(canonical) \in Nat
      /\ \A h \in B : h <= Len(canonical)
  BY BindingHeights DEF Inv, TypeOK
<1>2. /\ C \in SUBSET Nat /\ Len(canonical') \in Nat
      /\ \A h \in C : h <= Len(canonical')
  <2>1. /\ canonical' \in Seq(Block)
        /\ DOMAIN byHeight' \subseteq {a.height : a \in Anchor}
    BY NextInv DEF Inv, TypeOK, AnchorTypeOK
  <2>2. \A h \in C : h \in DOMAIN byHeight' /\ h < Len(canonical')
    BY DEF Binding, Attested
  <2>3. \A a \in Anchor : a.height \in Nat
    BY AnchorAssumption DEF AnchorRecord
  <2>4. Len(canonical') \in Nat
    BY <2>1
  <2> HIDE DEF C
  <2>5. \A h \in C : h \in Nat
    BY <2>1, <2>2, <2>3
  <2> QED BY <2>2, <2>4, <2>5
<1>3. B \subseteq C
  BY FloorStep
<1>4. /\ FinalizedHeight(canonical) = IF B = {} THEN -1 ELSE Max(B)
      /\ FinalizedHeight(canonical)' = IF C = {} THEN -1 ELSE Max(C)
  BY DEF FinalizedHeight
<1> HIDE DEF B, C
<1>5. CASE B = {}
  <2>1. C # {} => Max(C) \in Nat
    BY <1>2, TallestIsGreatest
  <2> QED BY <2>1, <1>4, <1>5
<1>6. CASE B # {}
  <2>1. Max(B) \in B /\ Max(B) \in Nat
    BY <1>1, <1>6, TallestIsGreatest
  <2>2. C # {} /\ Max(C) \in Nat /\ \A h \in C : h <= Max(C)
    BY <1>2, <1>3, <1>6, TallestIsGreatest
  <2>3. Max(B) <= Max(C)
    BY <1>3, <2>1, <2>2
  <2> QED BY <2>1, <2>2, <2>3, <1>4, <1>6
<1> QED BY <1>5, <1>6

LEMMA ExtensionStep ==
  ASSUME Inv, [Next]_vars, NEW b \in refused' \ refused
  PROVE  Parent[b] # HeadBlock
<1> SUFFICES ASSUME Parent[b] = HeadBlock PROVE FALSE
  OBVIOUS
<1>1. ~Crash /\ ~UNCHANGED treeVars
  BY DEF Crash, treeVars
<1>2. PICK a \in Block : Weighed(a)
  BY <1>1, StepShape
<1>3. a = b /\ RefusesReorg(b)
  BY <1>2 DEF Weighed, Adopt, KeepLighter, KeepRefused
<1>4. TreeInv /\ Grounded(b) /\ b \in Valid \ {Genesis} /\ b \in Block
  BY <1>2, <1>3, TreeGrows, InvByGroups DEF Weighed
<1>5. HeadBlock \in Ancestors[b] /\ Height[HeadBlock] = Tip /\ IsCanonical(HeadBlock)
  <2>1. Height[HeadBlock] = Tip /\ Len(canonical) \in Nat \ {0}
    BY <1>4, HeadIsKnown
  <2>2. HeadBlock \in Ancestors[b]
    BY <1>4 DEF Grounded
  <2>3. IsCanonical(HeadBlock)
    BY <2>1 DEF IsCanonical, HeadBlock, Tip
  <2> QED BY <2>1, <2>2, <2>3
<1>6. Height[ForkPoint(b)] >= Tip /\ Height[ForkPoint(b)] \in Nat /\ Tip \in Nat
  <2>1. /\ canonical \in Seq(Block) /\ canonical # <<>> /\ CanonicalChain
        /\ Height[b] \in Nat
    BY <1>4, BlockTreeAssumption DEF TreeInv
  <2>2. Height[ForkPoint(b)] \in 0 .. Height[b] /\ Tip <= Height[ForkPoint(b)]
    BY <1>4, <1>5, <2>1, ForkPointIsCanonical
  <2> QED BY <2>1, <2>2 DEF Tip
<1>7. PermitsReorgFrom(canonical, Height[ForkPoint(b)])
  BY <1>6, BindingHeights DEF PermitsReorgFrom, Tip
<1> QED BY <1>3, <1>6, <1>7, ChainAssumption DEF RefusesReorg

LEMMA FileStep ==
  ASSUME Inv, [Next]_vars
  PROVE  stored.blocks \subseteq stored'.blocks
<1>1. CASE stored' = stored
  BY <1>1
<1>2. CASE stored' # stored
  <2>1. /\ phase = "running" /\ stored' = File(known', canonical') /\ known \subseteq known'
    BY <1>2 DEF Next, Call, vars, Receive, Verify, Throw, Resolve, NextChild, Return,
                SaveBatch, SubmitRaw, PollAnchors, Crash, Replay, Ready, InStage,
                diskVars, treeVars, Accepted
  <2> QED BY <2>1 DEF Inv, FileOK, File
<1> QED BY <1>1, <1>2

\* Each step is one of the abstract fork choice, or none.
LEMMA AbstractStep ==
  ASSUME Inv, [Next]_vars
  PROVE  [Abstract!Next]_<<known, HeadBlock>>
<1>1. CASE Crash
  <2>1. known' = {Genesis} /\ HeadBlock' = Genesis
    BY <1>1 DEF Crash, HeadBlock
  <2> QED BY <2>1 DEF Abstract!Next, Abstract!Restart
<1>2. CASE UNCHANGED treeVars
  BY <1>2 DEF treeVars, HeadBlock
<1>3. CASE \E b \in Block : Weighed(b)
  <2>1. PICK b \in Block : Weighed(b)
    BY <1>3
  <2>2. HeadBlock' = HeadBlock \/ (HeadBlock' = b /\ Work[b] > Work[HeadBlock])
    BY <2>1, WeighedKeepsTree, InvByGroups
  <2>3. Abstract!Learn(b) /\ b \in Valid
    BY <2>1, <2>2 DEF Weighed, Abstract!Learn
  <2> QED BY <2>3 DEF Abstract!Next
<1> QED BY <1>1, <1>2, <1>3, StepShape

-----------------------------------------------------------------------------
(* What waits, and what is dropped *)

\* A transaction leaves the index only for the mempool.
LEMMA DroppedStep ==
  ASSUME Inv, [Next]_vars, crashes' = crashes
  PROVE  DOMAIN txIndex \subseteq DOMAIN txIndex' \cup mempool'
<1>1. CASE \E b \in Block : Adopt(b)
  BY <1>1 DEF Adopt, SetHead
<1>2. CASE UNCHANGED txIndex
  BY <1>2
<1>3. ~Crash
  BY DEF Inv, TypeOK, Crash
<1>4. CASE \E t \in Task : Verify(t)
  <2>1. PICK t \in Task : Verify(t)
    BY <1>4
  <2>2. Top(t).block \in Block
    BY <2>1, VerifyWeighs
  <2> QED BY <1>1, <1>2, <2>1, <2>2 DEF Verify, KeepLighter, KeepRefused, poolVars
<1>5. CASE Replay
  <2>1. replay \subseteq Block
    BY DEF Inv, TypeOK
  <2> QED BY <1>1, <1>2, <1>5, <2>1 DEF Replay, KeepLighter, KeepRefused, poolVars
<1>6. CASE ~Replay /\ ~(\E t \in Task : Verify(t))
  <2>1. UNCHANGED txIndex
    BY <1>3, <1>6 DEF Next, Call, vars, poolVars, Receive, Throw, Resolve, NextChild, Return,
                      SaveBatch, SubmitRaw, PollAnchors, Ready
  <2> QED BY <1>2, <2>1
<1> QED BY <1>4, <1>5, <1>6

\* A block waits in a call: for its own turn, or for that of another.
WaitsIn(s, b) == \E i \in 1 .. Len(s) : s[i].block = b \/ b \in Range(s[i].todo)

LEMMA WaitingIff ==
  ASSUME NEW b
  PROVE  Waiting(b) <=> \/ b \in Range(orphans[Parent[b]])
                        \/ \E t \in Task : WaitsIn(stack[t], b)
BY DEF Waiting, WaitsIn

LEMMA WaitingNext ==
  ASSUME NEW b
  PROVE  Waiting(b)' <=> \/ b \in Range(orphans'[Parent[b]])
                         \/ \E t \in Task : WaitsIn(stack'[t], b)
BY DEF Waiting, WaitsIn

\* When the frames of one call are replaced, the others go on waiting.
LEMMA OthersWait ==
  ASSUME CallTypes, NEW t \in Task, NEW s, stack' = [stack EXCEPT ![t] = s],
         NEW b, Waiting(b),
         b \in Range(orphans[Parent[b]]) => Waiting(b)',
         WaitsIn(stack[t], b) => Waiting(b)'
  PROVE  Waiting(b)'
<1>1. \A u \in Task \ {t} : stack'[u] = stack[u]
  BY DEF CallTypes
<1>2. ASSUME NEW u \in Task \ {t}, WaitsIn(stack[u], b) PROVE Waiting(b)'
  BY <1>1, <1>2, WaitingNext
<1> QED BY <1>2, WaitingIff

\* Entering processBlock, a block waits for its turn or for its parent.
LEMMA EnterKeepsWaiting ==
  ASSUME CallTypes, NEW t \in Task, NEW s \in Seq(Frame), NEW c \in Block, Enter(t, s, c),
         NEW b \in Block \ {Genesis}, b \notin known, Waiting(b),
         WaitsIn(stack[t], b) => WaitsIn(s, b) \/ b = c
  PROVE  Waiting(b)'
<1>1. Parent[b] \in Block /\ orphans \in [Block -> Seq(Block)]
  BY BlockTreeAssumption DEF CallTypes
<1>2. CASE c \notin known /\ Parent[c] \in known
  <2> DEFINE f == [block |-> c, stage |-> "verify", todo |-> <<>>]
  <2>1. stack' = [stack EXCEPT ![t] = Append(s, f)] /\ UNCHANGED orphans
    BY <1>2 DEF Enter
  <2>2. stack'[t] = Append(s, f)
    BY <2>1 DEF CallTypes
  <2>3. f \in Frame /\ f.block = c
    BY DEF Frame
  <2> HIDE DEF f
  <2>4. /\ Len(Append(s, f)) = Len(s) + 1 /\ Len(s) \in Nat
        /\ \A i \in 1 .. Len(s) : Append(s, f)[i] = s[i]
        /\ Append(s, f)[Len(s) + 1] = f
    BY <2>3
  <2>5. WaitsIn(Append(s, f), c)
    BY <2>3, <2>4 DEF WaitsIn
  <2>6. WaitsIn(s, b) => WaitsIn(Append(s, f), b)
    BY <2>4 DEF WaitsIn
  <2>7. WaitsIn(stack[t], b) => Waiting(b)'
    BY <2>2, <2>5, <2>6, WaitingNext
  <2>8. b \in Range(orphans[Parent[b]]) => Waiting(b)'
    BY <2>1, WaitingNext
  <2> QED BY <2>1, <2>7, <2>8, OthersWait
<1>3. CASE ~(c \notin known /\ Parent[c] \in known)
  <2>1. stack' = [stack EXCEPT ![t] = s]
    BY <1>3 DEF Enter
  <2>2. stack'[t] = s
    BY <2>1 DEF CallTypes
  <2>3. /\ b \in Range(orphans[Parent[b]]) => b \in Range(orphans'[Parent[b]])
        /\ b = c => b \in Range(orphans'[Parent[b]])
    <3>1. CASE UNCHANGED orphans /\ c \in known
      BY <3>1
    <3>2. CASE orphans' = [orphans EXCEPT ![Parent[c]] = Append(@, c)]
      <4> DEFINE q == orphans[Parent[b]]
      <4>1. CASE Parent[c] = Parent[b]
        <5>1. q \in Seq(Block) /\ orphans'[Parent[b]] = Append(q, c)
          BY <1>1, <3>2, <4>1
        <5> HIDE DEF q
        <5>2. /\ DOMAIN q = 1 .. Len(q) /\ Len(q) \in Nat
              /\ DOMAIN Append(q, c) = 1 .. Len(q) + 1
              /\ Append(q, c)[Len(q) + 1] = c
              /\ \A i \in 1 .. Len(q) : Append(q, c)[i] = q[i]
          BY <5>1
        <5>3. c \in Range(Append(q, c))
          BY <5>2 DEF Range
        <5>4. Range(q) \subseteq Range(Append(q, c))
          BY <5>2 DEF Range
        <5> QED BY <5>1, <5>3, <5>4 DEF q
      <4>2. CASE Parent[c] # Parent[b]
        BY <1>1, <3>2, <4>2
      <4> QED BY <4>1, <4>2
    <3> QED BY <1>3, <3>1, <3>2 DEF Enter
  <2>4. WaitsIn(stack[t], b) => Waiting(b)'
    BY <2>2, <2>3, WaitingNext
  <2>5. b \in Range(orphans[Parent[b]]) => Waiting(b)'
    BY <2>3, WaitingNext
  <2> QED BY <2>1, <2>4, <2>5, OthersWait
<1> QED BY <1>2, <1>3

LEMMA PopLen ==
  ASSUME NEW s \in Seq(Frame), s # <<>>
  PROVE  Len(Pop(s)) = Len(s) - 1 /\ \A i \in 1 .. Len(Pop(s)) : Pop(s)[i] = s[i]
<1> DEFINE n == Len(s) - 1
<1>1. n \in Nat /\ 1 \in Int /\ n \in Int /\ \A i \in 1 .. n : s[i] \in Frame
  OBVIOUS
<1> HIDE DEF n
<1>2. /\ Len(SubSeq(s, 1, n)) = IF 1 <= n THEN n - 1 + 1 ELSE 0
      /\ \A i \in 1 .. n - 1 + 1 : SubSeq(s, 1, n)[i] = s[1 + i - 1]
  BY <1>1, SubSeqProperties
<1>3. Len(SubSeq(s, 1, n)) = n /\ \A i \in 1 .. n : SubSeq(s, 1, n)[i] = s[i]
  BY <1>1, <1>2
<1> QED BY <1>3 DEF Pop, n

\* Verifying, connecting orphans and returning, a call gives up no block that
\* is still to be connected.
LEMMA CallKeepsWaiting ==
  ASSUME Inv, NEW t \in Task, Verify(t) \/ Resolve(t) \/ NextChild(t) \/ Return(t),
         NEW b \in Block \ {Genesis}, b \notin known', Waiting(b)
  PROVE  Waiting(b)'
<1> DEFINE s == stack[t]
           n == Len(s)
           p == Pop(s)
           c == Top(t).block
           f == Top(t)
<1>1. CallTypes /\ CallsOK /\ s # <<>>
  BY InvByGroups DEF Verify, Resolve, NextChild, Return, InStage
<1>2. /\ s \in Seq(Frame) /\ n \in Nat \ {0} /\ f = s[n] /\ f \in Frame
      /\ Starts(f, known) /\ p \in Seq(Frame) /\ Len(p) = n - 1
      /\ \A i \in 1 .. n - 1 : i \in 1 .. n /\ p[i] = s[i]
  <2>1. s \in Seq(Frame) /\ f \in Frame /\ Starts(f, known) /\ p \in Seq(Frame)
    BY <1>1, TopFrame DEF CallTypes
  <2>2. n \in Nat \ {0}
    BY <1>1, <2>1
  <2>3. f = s[n]
    BY DEF Top
  <2> HIDE DEF s, f
  <2>4. Len(p) = n - 1 /\ \A i \in 1 .. Len(p) : p[i] = s[i]
    BY <1>1, <2>1, PopLen
  <2>5. \A i \in 1 .. n - 1 : i \in 1 .. n /\ p[i] = s[i]
    BY <2>2, <2>4
  <2> QED BY <2>1, <2>2, <2>3, <2>4, <2>5
<1>3. stack'[t] = s => (WaitsIn(s, b) => Waiting(b)')
  BY WaitingNext
<1>4. WaitsIn(s, b) => WaitsIn(p, b) \/ f.block = b \/ b \in Range(f.todo)
  <2> HIDE DEF s, p, n, f
  <2>1. ASSUME NEW i \in 1 .. n, s[i].block = b \/ b \in Range(s[i].todo)
        PROVE  WaitsIn(p, b) \/ f.block = b \/ b \in Range(f.todo)
    <3>1. CASE i = n
      BY <1>2, <2>1, <3>1
    <3>2. CASE i # n
      <4>1. i \in 1 .. Len(p) /\ p[i] = s[i]
        BY <1>2, <3>2
      <4> QED BY <2>1, <4>1 DEF WaitsIn
    <3> QED BY <3>1, <3>2
  <2> QED BY <2>1 DEF WaitsIn, n
<1>5. WaitsIn(p, b) => \E i \in 1 .. n - 1 : s[i].block = b \/ b \in Range(s[i].todo)
  BY <1>2 DEF WaitsIn
<1>6. ASSUME NEW r, stack' = [stack EXCEPT ![t] = r], WaitsIn(s, b) => WaitsIn(r, b),
             UNCHANGED orphans
      PROVE  Waiting(b)'
  <2>1. stack'[t] = r
    BY <1>1, <1>6 DEF CallTypes
  <2>2. WaitsIn(s, b) => Waiting(b)'
    BY <1>6, <2>1, WaitingNext
  <2>3. b \in Range(orphans[Parent[b]]) => Waiting(b)'
    BY <1>6, WaitingNext
  <2> QED BY <1>1, <1>6, <2>2, <2>3, OthersWait
\* The frame on top replaced by another.
<1>7. ASSUME NEW g \in Frame, g.block = f.block, Range(f.todo) \subseteq Range(g.todo)
      PROVE  WaitsIn(s, b) => WaitsIn([s EXCEPT ![n] = g], b)
  <2> DEFINE r == [s EXCEPT ![n] = g]
  <2>1. Len(r) = n /\ r[n] = g /\ \A i \in 1 .. n - 1 : r[i] = s[i]
    BY <1>2
  <2> HIDE DEF r, s, p, n, f
  <2>2. ASSUME NEW i \in 1 .. n - 1, s[i].block = b \/ b \in Range(s[i].todo)
        PROVE  WaitsIn(r, b)
    BY <1>2, <2>1, <2>2 DEF WaitsIn
  <2>3. n \in 1 .. n
    BY <1>2
  <2>4. f.block = b \/ b \in Range(f.todo) => WaitsIn(r, b)
    BY <1>7, <2>1, <2>3 DEF WaitsIn
  <2>5. WaitsIn(s, b) => WaitsIn(r, b)
    BY <1>4, <1>5, <2>2, <2>4
  <2> QED BY <2>5 DEF r
<1>8. Range(<<>>) = {}
  BY DEF Range
<1>9. CASE Verify(t)
  <2>1. /\ f.todo = <<>> /\ f.block # b /\ UNCHANGED orphans
    BY <1>2, <1>9 DEF Verify, InStage, Starts
  <2>2. CASE stack' = [stack EXCEPT ![t][n].stage = "resolve"]
    <3> DEFINE g == [f EXCEPT !.stage = "resolve"]
    <3>1. g \in Frame /\ g.block = f.block /\ Range(f.todo) \subseteq Range(g.todo)
      BY <1>2 DEF Frame
    <3>2. stack' = [stack EXCEPT ![t] = [s EXCEPT ![n] = g]]
      BY <2>2 DEF Top
    <3> HIDE DEF g
    <3>3. WaitsIn(s, b) => WaitsIn([s EXCEPT ![n] = g], b)
      BY <1>7, <3>1
    <3> QED BY <1>6, <2>1, <3>2, <3>3
  <2>3. CASE stack' = [stack EXCEPT ![t] = Pop(@)]
    <3>1. stack' = [stack EXCEPT ![t] = p]
      BY <2>3
    <3>2. WaitsIn(s, b) => WaitsIn(p, b)
      BY <1>4, <1>8, <2>1
    <3> HIDE DEF p, s, n
    <3> QED BY <1>6, <2>1, <3>1, <3>2
  <2> QED BY <1>9, <2>2, <2>3 DEF Verify
<1>10. CASE Resolve(t)
  <2> DEFINE taken == IF n - 1 < MaxResolutionDepth THEN orphans[c] ELSE <<>>
             g == [block |-> c, stage |-> "children", todo |-> taken]
             r == [s EXCEPT ![n] = g]
  <2>1. /\ stack' = [stack EXCEPT ![t] = r] /\ f.todo = <<>>
        /\ orphans' = IF taken = <<>> THEN orphans ELSE [orphans EXCEPT ![c] = <<>>]
    BY <1>2, <1>10 DEF Resolve, InStage, Starts
  <2>2. c \in Block /\ taken \in Seq(Block) /\ Parent[b] \in Block
    <3>1. c \in Block /\ Parent[b] \in Block
      BY <1>2, BlockTreeAssumption DEF Frame
    <3>2. orphans[c] \in Seq(Block) /\ <<>> \in Seq(Block)
      BY <1>1, <3>1 DEF CallTypes
    <3> QED BY <3>1, <3>2
  <2>3. g \in Frame /\ g.block = f.block /\ Range(f.todo) \subseteq Range(g.todo)
    BY <1>8, <2>1, <2>2 DEF Frame
  <2>4. g.todo = taken
    OBVIOUS
  <2>5. stack'[t] = r /\ Len(r) = n /\ r[n] = g /\ n \in 1 .. n
    BY <1>1, <1>2, <2>1 DEF CallTypes
  <2>6. taken # <<>> => taken = orphans[c]
    OBVIOUS
  <2> HIDE DEF g, taken
  <2>7. WaitsIn(s, b) => WaitsIn(r, b)
    BY <1>7, <2>3
  <2> HIDE DEF r
  <2>8. WaitsIn(s, b) => Waiting(b)'
    BY <2>5, <2>7, WaitingNext
  <2>9. b \in Range(orphans[Parent[b]]) => Waiting(b)'
    <3>1. CASE taken = <<>> \/ Parent[b] # c
      BY <1>1, <2>1, <2>2, <3>1, WaitingNext DEF CallTypes
    <3>2. CASE taken # <<>> /\ Parent[b] = c
      <4>1. b \in Range(orphans[Parent[b]]) => WaitsIn(r, b)
        BY <2>4, <2>5, <2>6, <3>2 DEF WaitsIn
      <4> QED BY <2>5, <4>1, WaitingNext
    <3> QED BY <3>1, <3>2
  <2> QED BY <1>1, <2>1, <2>8, <2>9, OthersWait
<1>11. CASE NextChild(t)
  <2> DEFINE g == [f EXCEPT !.todo = Tail(@)]
             r == Append(p, g)
             x == f.todo[1]
  <2>1. /\ f.todo # <<>> /\ Enter(t, r, x) /\ f.todo \in Seq(Block) /\ known' = known
    BY <1>2, <1>11 DEF NextChild, InStage, Frame, treeVars
  <2>2. /\ x \in Block /\ Tail(f.todo) \in Seq(Block)
        /\ Range(f.todo) \subseteq {x} \cup Range(Tail(f.todo))
    <3> DEFINE q == f.todo
    <3>1. q \in Seq(Block) /\ q # <<>>
      BY <2>1
    <3> HIDE DEF q
    <3>2. /\ q[1] \in Block /\ Tail(q) \in Seq(Block) /\ Len(q) \in Nat \ {0}
          /\ DOMAIN q = 1 .. Len(q) /\ DOMAIN Tail(q) = 1 .. Len(q) - 1
          /\ \A i \in 1 .. Len(q) - 1 : Tail(q)[i] = q[i + 1]
      BY <3>1
    <3>3. ASSUME NEW i \in 1 .. Len(q) PROVE q[i] \in {q[1]} \cup Range(Tail(q))
      <4>1. CASE i = 1
        BY <4>1
      <4>2. CASE i # 1
        <5>1. i - 1 \in 1 .. Len(q) - 1 /\ Tail(q)[i - 1] = q[i]
          BY <3>2, <4>2
        <5> QED BY <3>2, <5>1 DEF Range
      <4> QED BY <4>1, <4>2
    <3>4. Range(q) \subseteq {q[1]} \cup Range(Tail(q))
      BY <3>2, <3>3 DEF Range
    <3> QED BY <3>2, <3>4 DEF q
  <2>3. g \in Frame /\ g.block = f.block /\ g.todo = Tail(f.todo)
    BY <1>2, <2>2 DEF Frame
  <2> HIDE DEF g, x, f, p, s
  <2>4. /\ r \in Seq(Frame) /\ Len(r) = n /\ r[n] = g /\ n \in 1 .. n
        /\ \A i \in 1 .. n - 1 : r[i] = p[i]
    BY <1>2, <2>3
  <2> HIDE DEF r, n
  <2>5. WaitsIn(p, b) => WaitsIn(r, b)
    BY <1>2, <2>4 DEF WaitsIn
  <2>6. f.block = b \/ b \in Range(f.todo) => WaitsIn(r, b) \/ b = x
    BY <2>2, <2>3, <2>4 DEF WaitsIn
  <2>7. WaitsIn(s, b) => WaitsIn(r, b) \/ b = x
    BY <1>4, <2>5, <2>6
  <2> QED BY <1>1, <2>1, <2>2, <2>4, <2>7, EnterKeepsWaiting DEF s
<1>12. CASE Return(t)
  <2>1. f.todo = <<>> /\ f.block \in known /\ known' = known /\ UNCHANGED orphans
        /\ stack' = [stack EXCEPT ![t] = p]
    BY <1>2, <1>12 DEF Return, InStage, Starts, treeVars
  <2>2. WaitsIn(s, b) => WaitsIn(p, b)
    BY <1>4, <1>8, <2>1
  <2> HIDE DEF p, s, n
  <2> QED BY <1>6, <2>1, <2>2
<1> QED BY <1>9, <1>10, <1>11, <1>12

\* What is given up, is in a crash or by an exception.
LEMMA OrphanStep ==
  ASSUME Inv, [Next]_vars, NEW b \in Valid \ {Genesis}, GivenUp(b)
  PROVE  \/ crashes' # crashes
         \/ \E t \in Task : /\ InStage(t, "verify") /\ Top(t).block \notin Valid
                            /\ stack'[t] = <<>>
<1>1. /\ Waiting(b) /\ ~Waiting(b)' /\ b \notin known' /\ b \in Block \ {Genesis}
      /\ CallTypes
  BY InvByGroups, BlockTreeAssumption DEF GivenUp
<1>2. ~UNCHANGED <<orphans, stack>>
  BY <1>1, WaitingIff, WaitingNext
<1>3. ASSUME NEW t \in Task, NEW c \in Block, Receive(t, c) PROVE FALSE
  <2>1. Enter(t, <<>>, c) /\ stack[t] = <<>> /\ known' = known /\ <<>> \in Seq(Frame)
    BY <1>3 DEF Receive, treeVars
  <2>2. WaitsIn(stack[t], b) => WaitsIn(<<>>, b) \/ b = c
    BY <2>1
  <2> QED BY <1>1, <2>1, <2>2, EnterKeepsWaiting
<1>4. ASSUME NEW t \in Task, Verify(t) \/ Resolve(t) \/ NextChild(t) \/ Return(t) PROVE FALSE
  BY <1>1, <1>4, CallKeepsWaiting
<1>5. CASE \E t \in Task : Throw(t)
  <2>1. PICK t \in Task : Throw(t)
    BY <1>5
  <2>2. stack'[t] = <<>>
    BY <1>1, <2>1 DEF Throw, CallTypes
  <2> QED BY <2>1, <2>2 DEF Throw
<1>6. CASE Crash
  BY <1>6 DEF Crash, Inv, TypeOK
<1>7. CASE ~Crash /\ ~(\E t \in Task : Throw(t))
  <2>1. UNCHANGED <<orphans, stack>>
    BY <1>3, <1>4, <1>7 DEF Next, Call, vars, callVars, SaveBatch, SubmitRaw, PollAnchors,
                            Replay, Ready
  <2> QED BY <1>2, <2>1
<1> QED BY <1>5, <1>6, <1>7

-----------------------------------------------------------------------------
(* What the anchor store remembers *)

\* Of an anchor that was believed, the height is faulted, or what is kept for
\* the height says the same.
StoodBy(a, kept, faulted) ==
  a.height \in faulted \/ (a.height \in DOMAIN kept /\ SameDigest(kept[a.height], a))
Remembered == \A a \in seen : StoodBy(a, byHeight, equivocations)

LEMMA RememberedNext ==
  Remembered' <=> \A a \in seen' : StoodBy(a, byHeight', equivocations')
BY DEF Remembered, StoodBy, SameDigest

LEMMA AnchorsRemembered ==
  ASSUME Remembered, [Next]_vars
  PROVE  Remembered'
<1>1. CASE UNCHANGED anchorVars
  BY <1>1, RememberedNext DEF Remembered, anchorVars
<1>2. CASE Crash
  BY <1>2, RememberedNext DEF Crash
<1>3. ASSUME NEW n \in EthBlocks, SetEthereumHead(n) PROVE Remembered'
  BY <1>3, RememberedNext DEF Remembered, SetEthereumHead
<1>4. ASSUME NEW a \in Anchor, Add(a) PROVE Remembered'
  <2>1. seen' = seen \cup {a}
    BY <1>4 DEF Add
  <2>2. CASE DetectEquivocation(a) \/ Regresses(a)
    <3>1. equivocations' = equivocations \cup {a.height} /\ byHeight' = byHeight
      BY <1>4, <2>2 DEF Add
    <3> QED BY <2>1, <3>1, RememberedNext DEF Remembered, StoodBy
  <2>3. CASE ~(DetectEquivocation(a) \/ Regresses(a))
    <3>1. /\ equivocations' = equivocations
          /\ byHeight' = [h \in DOMAIN byHeight \cup {a.height} |->
                            IF h = a.height THEN a ELSE byHeight[h]]
          /\ a.height \in DOMAIN byHeight => SameDigest(byHeight[a.height], a)
      BY <1>4, <2>3 DEF Add, DetectEquivocation
    <3>2. /\ byHeight'[a.height] = a /\ a.height \in DOMAIN byHeight'
          /\ DOMAIN byHeight \subseteq DOMAIN byHeight'
          /\ \A h \in DOMAIN byHeight \ {a.height} : byHeight'[h] = byHeight[h]
      BY <3>1
    <3>3. StoodBy(a, byHeight', equivocations')
      BY <3>2 DEF StoodBy, SameDigest
    <3>4. ASSUME NEW c \in seen PROVE StoodBy(c, byHeight', equivocations')
      <4>1. StoodBy(c, byHeight, equivocations)
        BY DEF Remembered
      <4>2. CASE c.height # a.height
        BY <3>1, <3>2, <4>1, <4>2 DEF StoodBy
      <4>3. CASE c.height = a.height
        BY <3>1, <3>2, <4>1, <4>3 DEF StoodBy, SameDigest
      <4> QED BY <4>2, <4>3
    <3> QED BY <2>1, <3>3, <3>4, RememberedNext
  <2> QED BY <2>2, <2>3
<1>5. CASE ~Crash /\ ~UNCHANGED anchorVars
  <2>1. AnchorNext
    BY <1>5 DEF Next, Call, vars, Receive, Verify, Throw, Resolve, NextChild, Return,
                SaveBatch, SubmitRaw, PollAnchors, Replay, Ready
  <2> QED BY <1>3, <1>4, <2>1 DEF AnchorNext
<1> QED BY <1>1, <1>2, <1>5

LEMMA ContradictedHeights == Remembered => ContradictedNeverBinds
<1> SUFFICES ASSUME Remembered, NEW a \in seen, NEW b \in seen, a.height = b.height,
                    ~SameDigest(a, b), a.height \in Attested
             PROVE  FALSE
  BY DEF ContradictedNeverBinds
<1>1. a.height \notin equivocations
  BY DEF Attested
<1> QED BY <1>1 DEF Remembered, StoodBy, SameDigest

-----------------------------------------------------------------------------
(* Theorems *)

\* Every variable keeps its type, whatever the callers interleave.
THEOREM TypeCorrect == Spec => []TypeOK
<1>1. Inv => TypeOK
  BY DEF Inv
<1> QED BY <1>1, Invariance, PTL

\* The canonical chain is always one path of verified blocks from genesis,
\* through every splice of setHead (chain.js 647-717).
THEOREM CanonicalChainTheorem == Spec => []CanonicalChain
<1>1. Inv => CanonicalChain
  BY DEF Inv
<1> QED BY <1>1, Invariance, PTL

\* A known block heavier than the head is one whose reorganisation was refused,
\* in every interleaving of the callers of processBlock (chain.js 560-609).
THEOREM HeaviestTheorem == Spec => []HeaviestOrRefused
<1>1. Inv => HeaviestOrRefused
  BY DEF Inv
<1> QED BY <1>1, Invariance, PTL

\* Whenever the process dies, the file it leaves can be replayed parents first
\* (chain.js 736-785).
THEOREM FileTheorem == Spec => []FileIsClosed
<1>1. Inv => FileIsClosed
  BY DEF Inv, FileOK
<1> QED BY <1>1, Invariance, PTL

\* While a node runs, its head only moves to a strictly heavier block
\* (chain.js 564).
THEOREM HeadTheorem == Spec => HeadOnlyGetsHeavier
<1>1. Inv /\ [Next]_vars =>
        [canonical' # canonical /\ crashes' = crashes
           => Work[HeadBlock'] > Work[HeadBlock]]_vars
  BY HeadStep
<1> QED BY <1>1, Invariance, PTL DEF Spec, HeadOnlyGetsHeavier

\* No step unwinds more than MaxReorgDepth blocks or one that binds
\* (chain.js 579-609).
THEOREM ReorgTheorem == Spec => ReorgIsBounded
<1>1. Inv /\ [Next]_vars => [UnwindsInBounds]_vars
  BY ReorgStep DEF UnwindsInBounds
<1> QED BY <1>1, Invariance, PTL DEF Spec, ReorgIsBounded

\* No extension of the head is ever refused (anchor.js 258-273).
THEOREM ExtensionTheorem == Spec => ExtensionNeverRefused
<1>1. Inv /\ [Next]_vars => [RefusesNoExtension]_vars
  BY ExtensionStep DEF RefusesNoExtension
<1> QED BY <1>1, Invariance, PTL DEF Spec, ExtensionNeverRefused

\* The settled height does not fall because the chain moved.
THEOREM FloorTheorem == Spec => AnchoredFloorHolds
<1>1. Inv /\ [Next]_vars => [KeepsFloor]_vars
  BY SettledStep DEF KeepsFloor
<1> QED BY <1>1, Invariance, PTL DEF Spec, AnchoredFloorHolds

\* A reorganisation drops no transaction: what leaves the index is pending
\* again (chain.js 647-717).
THEOREM DroppedTheorem == Spec => DroppedTxIsPending
<1>1. Inv /\ [Next]_vars => [KeepsTxs]_vars
  BY DroppedStep DEF KeepsTxs
<1> QED BY <1>1, Invariance, PTL DEF Spec, DroppedTxIsPending

\* However many callers connect blocks at once and however deep they nest, a
\* valid block in hand is lost only to a crash or to the exception of an
\* invalid one (chain.js 536-623).
THEOREM OrphanTheorem == Spec => OrphanLostOnlyToInvalid
<1>1. Inv /\ [Next]_vars => [LosesOnlyToInvalid]_vars
  BY OrphanStep DEF LosesOnlyToInvalid
<1> QED BY <1>1, Invariance, PTL DEF Spec, OrphanLostOnlyToInvalid

\* Two believed anchors that contradict each other settle nothing, for any
\* order of reading, any Ethereum height and any restarts (anchor.js 169-256).
THEOREM ContradictedTheorem == Spec => []ContradictedNeverBinds
<1>1. Init => Remembered
  BY DEF Init, AnchorInit, Remembered
<1>2. Remembered /\ [Next]_vars => Remembered'
  BY AnchorsRemembered
<1> QED BY <1>1, <1>2, ContradictedHeights, PTL DEF Spec

\* No write shortens the file, in particular none made during a replay
\* (chain.js 764-773).
THEOREM FileGrowthTheorem == Spec => FileOnlyGrows
<1>1. Inv /\ [Next]_vars => [stored.blocks \subseteq stored'.blocks]_vars
  BY FileStep
<1> QED BY <1>1, Invariance, PTL DEF Spec, FileOnlyGrows

\* The node's tree and head implement the abstract fork choice.
THEOREM Refinement == Spec => RefinesHeaviestChain
<1>1. Init => Abstract!Init
  BY DEF Init, Abstract!Init, HeadBlock
<1>2. Inv /\ [Next]_vars => [Abstract!Next]_<<known, HeadBlock>>
  BY AbstractStep
<1> QED BY <1>1, <1>2, Invariance, PTL DEF Spec, RefinesHeaviestChain, Abstract!Spec

-----------------------------------------------------------------------------
(* Accounts: what a list of writes does, a fold, so again induction over data *)

\* The recursion equation of the replay over the subsets of S.
IsReplay(g, w, q, S) ==
  g = [s \in SUBSET S |-> IF s = {} THEN w ELSE Write(g[s \ {Max(s)}], q[Max(s)])]

LEMMA ReplayUnfolded ==
  ASSUME NEW w, NEW q
  PROVE  Replayed(w, q) = (CHOOSE g : IsReplay(g, w, q, DOMAIN q))[DOMAIN q]
BY DEF Replayed, FoldLeft, MapThenFoldSet, IsReplay

\* Replays of two lists agree on the places where the lists do.
LEMMA ReplaysAgree ==
  ASSUME NEW w, NEW q, NEW r, NEW A \in SUBSET Nat, NEW B \in SUBSET A, IsFiniteSet(A),
         \A i \in B : q[i] = r[i],
         NEW g, IsReplay(g, w, q, A), NEW h, IsReplay(h, w, r, B)
  PROVE  g[B] = h[B]
<1> DEFINE W == {s \in SUBSET B : g[s] # h[s]}
<1> SUFFICES ASSUME W # {} PROVE FALSE
  OBVIOUS
<1>1. IsFiniteSet(B)
  BY FS_Subset
<1>2. PICK s \in W : IsFiniteSet(s) /\ \A t \in SUBSET s : t # s => t \notin W
  <2> HIDE DEF W
  <2>1. W \in SUBSET (SUBSET B)
    BY DEF W
  <2> QED BY <1>1, <2>1, MinimalSubset
<1>3. /\ g[s] = IF s = {} THEN w ELSE Write(g[s \ {Max(s)}], q[Max(s)])
      /\ h[s] = IF s = {} THEN w ELSE Write(h[s \ {Max(s)}], r[Max(s)])
  <2>1. s \in SUBSET A /\ s \in SUBSET B
    OBVIOUS
  <2>2. g = [t \in SUBSET A |-> IF t = {} THEN w ELSE Write(g[t \ {Max(t)}], q[Max(t)])]
    BY DEF IsReplay
  <2>3. h = [t \in SUBSET B |-> IF t = {} THEN w ELSE Write(h[t \ {Max(t)}], r[Max(t)])]
    BY DEF IsReplay
  <2>4. g[s] = IF s = {} THEN w ELSE Write(g[s \ {Max(s)}], q[Max(s)])
    BY <2>1, <2>2
  <2>5. h[s] = IF s = {} THEN w ELSE Write(h[s \ {Max(s)}], r[Max(s)])
    BY <2>1, <2>3
  <2> QED BY <2>4, <2>5
<1>4. s # {}
  BY <1>3
<1>5. Max(s) \in s
  <2>1. s \in SUBSET Int
    OBVIOUS
  <2> QED BY <1>2, <1>4, <2>1, MaxIsGreatest
<1>6. q[Max(s)] = r[Max(s)]
  BY <1>5
<1>7. g[s \ {Max(s)}] # h[s \ {Max(s)}]
  BY <1>3, <1>4, <1>6
<1>8. s \ {Max(s)} \in SUBSET s /\ s \ {Max(s)} # s /\ s \ {Max(s)} \in W
  BY <1>5, <1>7
<1> QED BY <1>2, <1>8

\* Every list has its replay.
LEMMA ReplayExists ==
  ASSUME NEW w, NEW q, NEW S \in SUBSET Nat, IsFiniteSet(S)
  PROVE  \E g : IsReplay(g, w, q, S)
<1> DEFINE W == {T \in SUBSET S : ~\E g : IsReplay(g, w, q, T)}
<1> SUFFICES ASSUME W # {} PROVE FALSE
  OBVIOUS
<1>1. PICK T \in W : IsFiniteSet(T) /\ \A t \in SUBSET T : t # T => t \notin W
  <2> HIDE DEF W
  <2>1. W \in SUBSET (SUBSET S)
    BY DEF W
  <2> QED BY <2>1, MinimalSubset
<1> DEFINE Fold(U) == CHOOSE g : IsReplay(g, w, q, U)
           Value(U) == IF U = {} THEN w ELSE Write(Fold(U \ {Max(U)})[U \ {Max(U)}], q[Max(U)])
           g == [s \in SUBSET T |-> Value(s)]
<1>0. ASSUME NEW U \in SUBSET T, U # {} PROVE Max(U) \in U
  <2>1. IsFiniteSet(U)
    BY <1>1, FS_Subset
  <2>2. U \in SUBSET Int
    BY <1>1
  <2> QED BY <1>0, <2>1, <2>2, MaxIsGreatest
<1>2. ASSUME NEW U \in SUBSET T, U # T PROVE IsReplay(Fold(U), w, q, U) /\ IsFiniteSet(U)
  <2>1. \E h : IsReplay(h, w, q, U)
    BY <1>1, <1>2
  <2>2. IsReplay(Fold(U), w, q, U)
    BY <2>1
  <2> QED BY <2>2, <1>1, FS_Subset
<1>3. ASSUME NEW U \in SUBSET T, U # T PROVE Fold(U)[U] = Value(U)
  <2>1. IsReplay(Fold(U), w, q, U) /\ IsFiniteSet(U)
    BY <1>2, <1>3
  <2> HIDE DEF Fold
  <2>2. Fold(U) = [s \in SUBSET U |-> IF s = {} THEN w ELSE Write(Fold(U)[s \ {Max(s)}], q[Max(s)])]
    BY <2>1 DEF IsReplay
  <2>3. Fold(U)[U] = IF U = {} THEN w ELSE Write(Fold(U)[U \ {Max(U)}], q[Max(U)])
    BY <2>2
  <2>4. CASE U # {}
    <3> DEFINE V == U \ {Max(U)}
    <3>1. V \in SUBSET U /\ V \in SUBSET T
      OBVIOUS
    <3>2. V # T
      BY <2>4, <1>0
    <3>3. IsReplay(Fold(V), w, q, V)
      BY <1>2, <3>1, <3>2
    <3>4. V \in SUBSET U /\ U \in SUBSET Nat
      OBVIOUS
    <3>5. Fold(U)[V] = Fold(V)[V]
      <4> HIDE DEF V
      <4> QED BY <2>1, <3>3, <3>4, ReplaysAgree
    <3> QED BY <2>3, <3>5, <2>4
  <2> QED BY <2>3, <2>4
<1>4. ASSUME NEW s \in SUBSET T, s # {}
      PROVE  Fold(s \ {Max(s)})[s \ {Max(s)}] = g[s \ {Max(s)}]
  <2> DEFINE V == s \ {Max(s)}
  <2>1. V \in SUBSET T /\ V # T
    BY <1>4, <1>0
  <2>2. g[V] = Value(V)
    BY <2>1
  <2> HIDE DEF V, g, Value, Fold
  <2>3. Fold(V)[V] = Value(V)
    BY <1>3, <2>1
  <2> QED BY <2>2, <2>3 DEF V
<1>5. g = [s \in SUBSET T |-> IF s = {} THEN w ELSE Write(g[s \ {Max(s)}], q[Max(s)])]
  <2>1. ASSUME NEW s \in SUBSET T
        PROVE  Value(s) = IF s = {} THEN w ELSE Write(g[s \ {Max(s)}], q[Max(s)])
    <3> HIDE DEF g, Fold
    <3> QED BY <1>4
  <2> HIDE DEF Value
  <2> QED BY <2>1
<1>6. IsReplay(g, w, q, T)
  <2> HIDE DEF g
  <2> QED BY <1>5 DEF IsReplay
<1> QED BY <1>1, <1>6

\* No writes leave the state as it is.
LEMMA ReplayEmpty == ASSUME NEW w PROVE Replayed(w, << >>) = w
<1>1. IsFiniteSet({}) /\ {} \in SUBSET Nat /\ DOMAIN << >> = {}
  BY FS_EmptySet
<1>2. IsReplay(CHOOSE g : IsReplay(g, w, << >>, {}), w, << >>, {})
  BY <1>1, ReplayExists
<1>3. (CHOOSE g : IsReplay(g, w, << >>, {}))[{}] = w
  BY <1>2 DEF IsReplay
<1> QED BY <1>1, <1>3, ReplayUnfolded

\* One more is applied to what the others left.
LEMMA ReplayAppend ==
  ASSUME NEW w, NEW S, NEW q \in Seq(S), NEW e \in S
  PROVE  Replayed(w, Append(q, e)) = Write(Replayed(w, q), e)
<1> DEFINE r == Append(q, e)
           n == Len(q) + 1
           A == DOMAIN r
           B == DOMAIN q
           Fold(l, U) == CHOOSE g : IsReplay(g, w, l, U)
<1>1. /\ n \in Nat /\ A = 1 .. n /\ B = 1 .. n - 1 /\ r[n] = e
      /\ \A i \in B : r[i] = q[i]
  OBVIOUS
<1>2. A \in SUBSET Nat /\ B \in SUBSET Nat /\ IsFiniteSet(A) /\ IsFiniteSet(B)
  <2> DEFINE k == n - 1
  <2>1. n \in Int /\ k \in Int /\ 1 \in Int /\ A = 1 .. n /\ B = 1 .. k
    BY <1>1
  <2> HIDE DEF k, n, A, B
  <2>2. IsFiniteSet(1 .. n) /\ IsFiniteSet(1 .. k)
    BY <2>1, FS_Interval
  <2> QED BY <2>1, <2>2
<1>3. Max(A) = n /\ A \ {n} = B /\ A # {} /\ B \in SUBSET A
  <2>1. n \in A /\ A \in SUBSET Int
    BY <1>1
  <2>2. Max(A) \in A /\ \A y \in A : Max(A) >= y
    BY <1>2, <2>1, MaxIsGreatest
  <2> QED BY <1>1, <2>1, <2>2
<1>4. IsReplay(Fold(r, A), w, r, A) /\ IsReplay(Fold(q, B), w, q, B)
  <2> HIDE DEF A, B, r
  <2> QED BY <1>2, ReplayExists
<1>5. Replayed(w, r) = Fold(r, A)[A] /\ Replayed(w, q) = Fold(q, B)[B]
  BY ReplayUnfolded
<1> HIDE DEF Fold, A, B, r, n
<1>6. Fold(r, A) = [s \in SUBSET A |-> IF s = {} THEN w ELSE Write(Fold(r, A)[s \ {Max(s)}], r[Max(s)])]
  BY <1>4 DEF IsReplay
<1>7. Fold(r, A)[A] = Write(Fold(r, A)[B], e)
  BY <1>1, <1>3, <1>6
<1>8. Fold(r, A)[B] = Fold(q, B)[B]
  <2>1. \A i \in B : r[i] = q[i]
    BY <1>1
  <2> DEFINE g == Fold(r, A)
             h == Fold(q, B)
  <2>2. IsReplay(g, w, r, A) /\ IsReplay(h, w, q, B)
    BY <1>4
  <2>3. A \in SUBSET Nat /\ B \in SUBSET A /\ IsFiniteSet(A)
    BY <1>2, <1>3
  <2> HIDE DEF g, h
  <2>4. g[B] = h[B]
    BY <2>1, <2>2, <2>3, ReplaysAgree
  <2> QED BY <2>3, <2>4 DEF g, h
<1> QED BY <1>5, <1>7, <1>8 DEF r

LEMMA ReplayOne == ASSUME NEW w, NEW e PROVE Replayed(w, <<e>>) = Write(w, e)
<1> DEFINE q == << >>
<1>1. q \in Seq({e}) /\ Append(q, e) = <<e>>
  OBVIOUS
<1>2. Replayed(w, q) = w
  BY ReplayEmpty
<1> HIDE DEF q
<1>3. Replayed(w, Append(q, e)) = Write(Replayed(w, q), e)
  BY <1>1, ReplayAppend
<1> QED BY <1>1, <1>2, <1>3

\* A pair is its first element with the second appended.
LEMMA PairAppend ==
  ASSUME NEW e, NEW f
  PROVE  <<e>> \in Seq({e, f}) /\ Append(<<e>>, f) = <<e, f>> /\ <<e>> \o <<f>> = <<e, f>>
<1> DEFINE S == {e, f}
           q == <<e>>
           r == Append(q, f)
           t == <<e, f>>
<1>1. t \in Seq(S) /\ Len(t) = 2 /\ t[1] = e /\ t[2] = f
  OBVIOUS
<1>2. q \in Seq(S) /\ Len(q) = 1 /\ q[1] = e /\ f \in S
  OBVIOUS
<1> HIDE DEF S, t, q
<1>3. /\ r \in Seq(S) /\ Len(r) = Len(q) + 1 /\ r[Len(q) + 1] = f
      /\ \A i \in 1 .. Len(q) : r[i] = q[i]
  <2>1. q \in Seq(S) /\ f \in S
    BY <1>2
  <2> QED BY ONLY <2>1, AppendProperties DEF r
<1>7. r = q \o <<f>>
  BY <1>2, AppendIsConcat
<1> HIDE DEF r
<1>4. Len(r) = 2 /\ r[1] = e /\ r[2] = f
  BY <1>2, <1>3
<1>5. \A i \in 1 .. Len(r) : r[i] = t[i]
  BY <1>1, <1>4
<1>6. r = t
  BY <1>1, <1>3, <1>4, <1>5, SeqEqual
<1> QED BY <1>2, <1>6, <1>7 DEF S, q, r, t

\* Two writes, one after the other.
LEMMA ReplayTwo == ASSUME NEW w, NEW e, NEW f PROVE Replayed(w, <<e, f>>) = Write(Write(w, e), f)
<1> DEFINE q == <<e>>
           S == {e, f}
<1>1. q \in Seq(S) /\ f \in S /\ Append(q, f) = <<e, f>>
  BY PairAppend
<1>2. Replayed(w, q) = Write(w, e)
  BY ReplayOne
<1> HIDE DEF q, S
<1>3. Replayed(w, Append(q, f)) = Write(Replayed(w, q), f)
  BY <1>1, ReplayAppend
<1> QED BY <1>1, <1>2, <1>3

-----------------------------------------------------------------------------
(* The invariant.  Its parts speak of a state, a transaction and the list of *)
(* its writes, so that they also hold of what a checkpoint saved.          *)

\* What can be an account state.
Worlds == UNION {UNION {World(S, R) : R \in SUBSET Address} : S \in SUBSET Address}
IsWorld(w) ==
  /\ w \in World(DOMAIN w.accounts, DOMAIN w.storage)
  /\ DOMAIN w.accounts \subseteq Address /\ DOMAIN w.storage \subseteq Address
Called == [self : Address, creates : BOOLEAN, saved : Worlds, mark : Nat]
Entry ==
  [op : {"move"}, from : Address, to : Address, n : Nat]
    \cup [op : {"store"}, at : Address, n : Nat] \cup [op : {"nonce", "code"}, at : Address]

Total(w) == SumFunctionOnSet([a \in Address |-> BalanceIn(w, a)], Address)
Supply == SumFunctionOnSet(Funds, Person) + issued - outstanding - published

\* The money in w is m, and nobody owes any.
Sound(w, m) ==
  /\ IsWorld(w) /\ Total(w) = m
  /\ \A a \in Address : BalanceIn(w, a) >= 0

\* Where the calls of the transaction t begin.
Start(t) == BumpNonce(t.entry, t.caller)

\* What t may cost is still there, and its sender has sent nothing else.
Affords(w, t) ==
  /\ BalanceIn(w, t.from) >= t.limit * t.price
  /\ NonceIn(w, t.from) = NonceIn(Start(t), t.from)

\* The checkpoint of a call is what the first writes of q made.
Kept(c, t, q, m) ==
  /\ c.creates => c.self \in Created
  /\ c.mark <= Len(q) /\ c.saved = Replayed(Start(t), SubSeq(q, 1, c.mark))
  /\ Sound(c.saved, m) /\ Affords(c.saved, t)

Running(t, calls, q, w, m) ==
  /\ IsWorld(t.entry)
  /\ t \in Transaction(DOMAIN t.entry.accounts, DOMAIN t.entry.storage)
  /\ t.nonce = NonceIn(t.entry, t.caller)
  /\ t.caller \in {t.from, Authority} /\ (~t.native => t.caller = t.from)
  /\ w = Replayed(Start(t), q) /\ Affords(w, t)
  /\ \A i \in 1 .. Len(calls) : Kept(calls[i], t, q, m)
  /\ \A i, j \in 1 .. Len(calls) : i <= j => calls[i].mark <= calls[j].mark
  /\ t.failed => calls = << >> /\ w = Start(t)
  /\ calls # << >> => calls[1].saved = Start(t)

AccountsInv ==
  /\ outstanding \in Int /\ published \in Int /\ issued \in Int
  /\ frames \in Seq(Called) /\ journal \in Seq(Entry)
  /\ Sound(world, Supply)
  /\ IF tx = NoTx THEN frames = << >> /\ journal = << >>
     ELSE Running(tx, frames, journal, world, Supply)

-----------------------------------------------------------------------------
(* What the operators of the state do to it                                *)

Account == [balance : Int, nonce : Nat]

LEMMA AddressFinite == IsFiniteSet(Address)
<1>1. IsFiniteSet({} \cup {Coinbase} \cup {Authority})
  BY FS_EmptySet, FS_AddElement
<1>2. IsFiniteSet(Person \cup Deployed \cup Created)
  BY AccountsAssumption, FS_Union
<1> QED BY <1>1, <1>2, FS_Union DEF Address

LEMMA GetType ==
  ASSUME NEW w, IsWorld(w), NEW a \in Address
  PROVE  /\ Get(w, a) \in Account
         /\ BalanceIn(w, a) \in Int /\ NonceIn(w, a) \in Nat
         /\ Get(w, a) = [balance |-> BalanceIn(w, a), nonce |-> NonceIn(w, a)]
<1>1. w.accounts \in [DOMAIN w.accounts -> Account]
  BY DEF IsWorld, World, Account
<1>2. Get(w, a) \in Account
  BY <1>1 DEF Get, Empty, Account
<1> HIDE DEF Account
<1>3. Get(w, a) = [balance |-> Get(w, a).balance, nonce |-> Get(w, a).nonce]
      /\ Get(w, a).balance \in Int /\ Get(w, a).nonce \in Nat
  BY <1>2 DEF Account
<1> QED BY <1>2, <1>3 DEF BalanceIn, NonceIn

LEMMA AccountSet ==
  ASSUME NEW w, IsWorld(w), NEW a \in Address, NEW c \in Account
  PROVE  /\ IsWorld(SetAccount(w, a, c))
         /\ \A b \in Address : Get(SetAccount(w, a, c), b) = IF b = a THEN c ELSE Get(w, b)
         /\ SetAccount(w, a, c).code = w.code /\ SetAccount(w, a, c).storage = w.storage
<1> DEFINE acc == Put(w.accounts, a, c)
           D == DOMAIN w.accounts \cup {a}
           v == SetAccount(w, a, c)
<1>1. /\ w.accounts \in [DOMAIN w.accounts -> Account]
      /\ w = [accounts |-> w.accounts, code |-> w.code, storage |-> w.storage]
      /\ w.code \in SUBSET (Deployed \cup Created) /\ w.storage \in [DOMAIN w.storage -> Nat]
      /\ DOMAIN w.accounts \subseteq Address /\ DOMAIN w.storage \subseteq Address
  BY DEF IsWorld, World, Account
<1>2. acc = [x \in D |-> IF x = a THEN c ELSE w.accounts[x]]
  BY DEF Put
<1>3. v = [accounts |-> acc, code |-> w.code, storage |-> w.storage]
  <2> HIDE DEF acc
  <2>1. v = [w EXCEPT !.accounts = acc]
    BY DEF acc, SetAccount
  <2> QED BY <1>1, <2>1
<1> HIDE DEF v, acc
<1>4. /\ v.accounts = acc /\ v.code = w.code /\ v.storage = w.storage
      /\ acc \in [D -> Account] /\ DOMAIN acc = D /\ D \subseteq Address
  BY <1>1, <1>2, <1>3
<1>5. v \in World(DOMAIN acc, DOMAIN w.storage)
  <2> HIDE DEF D
  <2> QED BY <1>1, <1>3, <1>4 DEF World, Account
<1>6. IsWorld(v)
  BY <1>1, <1>4, <1>5 DEF IsWorld
<1>7. ASSUME NEW b \in Address PROVE Get(v, b) = IF b = a THEN c ELSE Get(w, b)
  <2> HIDE DEF Empty
  <2> QED BY <1>1, <1>2, <1>4 DEF Get
<1> QED BY <1>4, <1>6, <1>7 DEF v

\* The sum of a state's balances changes with one of them.
LEMMA TotalType ==
  ASSUME NEW w, IsWorld(w), IsFiniteSet(Address)
  PROVE  Total(w) \in Int
<1> DEFINE f == [a \in Address |-> BalanceIn(w, a)]
<1>1. \A a \in Address : f[a] \in Int
  BY GetType
<1> HIDE DEF f
<1> QED BY <1>1, SumType DEF Total, f

LEMMA TotalMoves ==
  ASSUME NEW w, IsWorld(w), NEW v, IsWorld(v), NEW a \in Address, NEW n \in Int,
         \A b \in Address : BalanceIn(v, b) = IF b = a THEN BalanceIn(w, a) + n ELSE BalanceIn(w, b),
         IsFiniteSet(Address)
  PROVE  Total(v) = Total(w) + n
<1> DEFINE f == [b \in Address |-> BalanceIn(w, b)]
           g == [b \in Address |-> BalanceIn(v, b)]
<1>1. \A b \in Address : f[b] \in Int /\ g[b] \in Int
  BY GetType
<1>2. \A b \in Address \ {a} : g[b] = f[b]
  OBVIOUS
<1>3. g[a] = f[a] + n
  OBVIOUS
<1>4. Total(w) = SumFunctionOnSet(f, Address) /\ Total(v) = SumFunctionOnSet(g, Address)
  BY DEF Total
<1>5. f[a] \in Int /\ g[a] \in Int
  BY <1>1
<1> HIDE DEF f, g
<1>6. SumFunctionOnSet(g, Address) = SumFunctionOnSet(f, Address) - f[a] + g[a]
  BY <1>1, <1>2, SumExcept
<1>7. SumFunctionOnSet(f, Address) \in Int
  BY <1>1, SumType
<1> QED BY <1>3, <1>4, <1>5, <1>6, <1>7

\* v is w where n more are at a.
Credited(v, w, a, n) ==
  /\ IsWorld(v)
  /\ \A b \in Address : BalanceIn(v, b) = IF b = a THEN BalanceIn(w, a) + n ELSE BalanceIn(w, b)
  /\ \A b \in Address : NonceIn(v, b) = NonceIn(w, b)
  /\ Total(v) = Total(w) + n
  /\ v.code = w.code /\ v.storage = w.storage

LEMMA CreditEffect ==
  ASSUME NEW w, IsWorld(w), NEW a \in Address, NEW n \in Int
  PROVE  Credited(Credit(w, a, n), w, a, n) /\ Total(w) \in Int
<1> DEFINE c == [Get(w, a) EXCEPT !.balance = @ + n]
           v == Credit(w, a, n)
<1>1. IsFiniteSet(Address)
  BY AddressFinite
<1>2. /\ Get(w, a) = [balance |-> BalanceIn(w, a), nonce |-> NonceIn(w, a)]
      /\ BalanceIn(w, a) \in Int /\ NonceIn(w, a) \in Nat
  BY GetType
<1>3. c = [balance |-> BalanceIn(w, a) + n, nonce |-> NonceIn(w, a)] /\ c \in Account
  BY <1>2 DEF Account
<1>4. v = SetAccount(w, a, c)
  BY DEF Credit
<1> HIDE DEF c, v
<1>5. /\ IsWorld(v) /\ v.code = w.code /\ v.storage = w.storage
      /\ \A b \in Address : Get(v, b) = IF b = a THEN c ELSE Get(w, b)
  BY <1>3, <1>4, AccountSet
<1>6. c.balance = BalanceIn(w, a) + n /\ c.nonce = NonceIn(w, a)
  BY <1>3
<1>7. ASSUME NEW b \in Address
      PROVE  /\ BalanceIn(v, b) = IF b = a THEN BalanceIn(w, a) + n ELSE BalanceIn(w, b)
             /\ NonceIn(v, b) = NonceIn(w, b)
  <2>1. Get(v, b) = IF b = a THEN c ELSE Get(w, b)
    BY <1>5
  <2> QED BY <1>6, <2>1 DEF BalanceIn, NonceIn
<1>8. Total(v) = Total(w) + n
  <2>1. \A b \in Address : BalanceIn(v, b) = IF b = a THEN BalanceIn(w, a) + n ELSE BalanceIn(w, b)
    BY <1>7
  <2> QED BY <1>1, <1>5, <2>1, TotalMoves
<1>9. Total(w) \in Int
  BY <1>1, TotalType
<1>10. Credited(v, w, a, n)
  BY <1>5, <1>7, <1>8 DEF Credited
<1> QED BY <1>9, <1>10 DEF v

\* v is w where the nonce of a is n.
Renumbered(v, w, a, n) ==
  /\ IsWorld(v)
  /\ \A b \in Address : NonceIn(v, b) = IF b = a THEN n ELSE NonceIn(w, b)
  /\ \A b \in Address : BalanceIn(v, b) = BalanceIn(w, b)
  /\ Total(v) = Total(w)
  /\ v.code = w.code /\ v.storage = w.storage

LEMMA SetNonceEffect ==
  ASSUME NEW w, IsWorld(w), NEW a \in Address, NEW n \in Nat
  PROVE  Renumbered(SetNonce(w, a, n), w, a, n)
<1> DEFINE c == [Get(w, a) EXCEPT !.nonce = n]
           v == SetNonce(w, a, n)
<1>2. /\ Get(w, a) = [balance |-> BalanceIn(w, a), nonce |-> NonceIn(w, a)]
      /\ BalanceIn(w, a) \in Int /\ NonceIn(w, a) \in Nat
  BY GetType
<1>3. c = [balance |-> BalanceIn(w, a), nonce |-> n] /\ c \in Account
  BY <1>2 DEF Account
<1>4. v = SetAccount(w, a, c)
  BY DEF SetNonce
<1> HIDE DEF c, v
<1>5. /\ IsWorld(v) /\ v.code = w.code /\ v.storage = w.storage
      /\ \A b \in Address : Get(v, b) = IF b = a THEN c ELSE Get(w, b)
  BY <1>3, <1>4, AccountSet
<1>6. c.balance = BalanceIn(w, a) /\ c.nonce = n
  BY <1>3
<1>7. \A b \in Address : /\ BalanceIn(v, b) = BalanceIn(w, b)
                          /\ NonceIn(v, b) = IF b = a THEN n ELSE NonceIn(w, b)
  BY <1>5, <1>6 DEF BalanceIn, NonceIn
<1>8. Total(v) = Total(w)
  BY <1>7 DEF Total
<1> QED BY <1>5, <1>7, <1>8 DEF Renumbered, v

LEMMA BumpEffect ==
  ASSUME NEW w, IsWorld(w), NEW a \in Address
  PROVE  Renumbered(BumpNonce(w, a), w, a, NonceIn(w, a) + 1)
<1>1. NonceIn(w, a) + 1 \in Nat
  BY GetType
<1> QED BY <1>1, SetNonceEffect DEF BumpNonce

\* Storage and code are no money.
LEMMA StoreEffect ==
  ASSUME NEW w, IsWorld(w), NEW a \in Address, NEW n \in Nat
  PROVE  IsWorld(SetStorage(w, a, n)) /\ SetStorage(w, a, n).accounts = w.accounts
<1> DEFINE sto == IF n = 0 THEN Restrict(w.storage, DOMAIN w.storage \ {a}) ELSE Put(w.storage, a, n)
           v == SetStorage(w, a, n)
           D == IF n = 0 THEN DOMAIN w.storage \ {a} ELSE DOMAIN w.storage \cup {a}
<1>1. /\ w.accounts \in [DOMAIN w.accounts -> Account]
      /\ w = [accounts |-> w.accounts, code |-> w.code, storage |-> w.storage]
      /\ w.code \in SUBSET (Deployed \cup Created) /\ w.storage \in [DOMAIN w.storage -> Nat]
      /\ DOMAIN w.accounts \subseteq Address /\ DOMAIN w.storage \subseteq Address
  BY DEF IsWorld, World, Account
<1>2. sto \in [D -> Nat] /\ D \subseteq Address
  BY <1>1 DEF Restrict, Put
<1>3. v = [accounts |-> w.accounts, code |-> w.code, storage |-> sto]
  <2> HIDE DEF sto
  <2>1. v = [w EXCEPT !.storage = sto]
    BY DEF sto, SetStorage
  <2> QED BY <1>1, <2>1
<1> HIDE DEF v, sto, D
<1>4. v.accounts = w.accounts /\ v.storage = sto /\ DOMAIN sto = D
  BY <1>2, <1>3
<1>5. v \in World(DOMAIN w.accounts, D)
  BY <1>1, <1>2, <1>3 DEF World, Account
<1> QED BY <1>1, <1>2, <1>4, <1>5 DEF IsWorld, v

LEMMA CodeEffect ==
  ASSUME NEW w, IsWorld(w), NEW a \in Deployed \cup Created
  PROVE  IsWorld(Write(w, Code(a))) /\ Write(w, Code(a)).accounts = w.accounts
<1>1. Write(w, Code(a)) = [w EXCEPT !.code = @ \cup {a}]
  BY DEF Write, Code
<1>2. /\ w.accounts \in [DOMAIN w.accounts -> Account]
      /\ w = [accounts |-> w.accounts, code |-> w.code, storage |-> w.storage]
      /\ w.code \in SUBSET (Deployed \cup Created) /\ w.storage \in [DOMAIN w.storage -> Nat]
      /\ DOMAIN w.accounts \subseteq Address /\ DOMAIN w.storage \subseteq Address
  BY DEF IsWorld, World, Account
<1> DEFINE v == Write(w, Code(a))
<1>3. v = [accounts |-> w.accounts, code |-> w.code \cup {a}, storage |-> w.storage]
  BY <1>1, <1>2
<1> HIDE DEF v
<1>4. v \in World(DOMAIN w.accounts, DOMAIN w.storage) /\ v.accounts = w.accounts
      /\ v.storage = w.storage
  BY <1>2, <1>3 DEF World, Account
<1> QED BY <1>2, <1>4 DEF IsWorld, v

\* Money is only in accounts.
LEMMA SameMoney ==
  ASSUME NEW w, NEW v, v.accounts = w.accounts
  PROVE  /\ Total(v) = Total(w)
         /\ \A a \in Address : BalanceIn(v, a) = BalanceIn(w, a) /\ NonceIn(v, a) = NonceIn(w, a)
<1>1. \A a : BalanceIn(v, a) = BalanceIn(w, a) /\ NonceIn(v, a) = NonceIn(w, a)
  BY DEF BalanceIn, NonceIn, Get
<1> QED BY <1>1 DEF Total

\* The state root tells apart only what can be asked of a state.
LEMMA SameRoot ==
  ASSUME NEW w, IsWorld(w), NEW v, IsWorld(v), v.code = w.code, v.storage = w.storage,
         \A a \in Address : BalanceIn(v, a) = BalanceIn(w, a) /\ NonceIn(v, a) = NonceIn(w, a)
  PROVE  RootLines(v) = RootLines(w)
<1> DEFINE Full(u) == {a \in DOMAIN u.accounts : u.accounts[a] # Empty}
           acc(u) == Restrict(u.accounts, Full(u))
<1>1. ASSUME NEW u, IsWorld(u)
      PROVE  /\ u = [accounts |-> u.accounts, code |-> u.code, storage |-> u.storage]
             /\ DOMAIN u.accounts \subseteq Address
  BY <1>1 DEF IsWorld, World
<1>2. \A a \in Address : Get(v, a) = Get(w, a)
  BY GetType
<1>3. ASSUME NEW u, IsWorld(u)
      PROVE  /\ Full(u) = {a \in Address : Get(u, a) # Empty}
             /\ \A a \in Full(u) : u.accounts[a] = Get(u, a)
  <2>1. DOMAIN u.accounts \subseteq Address
    BY <1>1, <1>3
  <2> HIDE DEF Empty
  <2> QED BY <2>1 DEF Get
<1>4. Full(v) = Full(w)
  BY <1>2, <1>3
<1>5. \A a \in Full(w) : v.accounts[a] = w.accounts[a]
  <2>1. ASSUME NEW a \in Full(w) PROVE v.accounts[a] = w.accounts[a]
    <3>1. v.accounts[a] = Get(v, a) /\ w.accounts[a] = Get(w, a)
      BY <1>3, <1>4
    <3>2. a \in Address
      BY <1>1
    <3> QED BY <1>2, <3>1, <3>2
  <2> QED BY <2>1
<1> HIDE DEF Full
<1>6. acc(v) = acc(w)
  BY <1>4, <1>5 DEF Restrict
<1>7. ASSUME NEW u, IsWorld(u)
      PROVE  RootLines(u) = [accounts |-> acc(u), code |-> u.code, storage |-> u.storage]
  <2>1. RootLines(u) = [u EXCEPT !.accounts = acc(u)]
    BY DEF RootLines, Full
  <2> HIDE DEF acc
  <2> QED BY <1>1, <1>7, <2>1
<1> HIDE DEF acc
<1> QED BY <1>6, <1>7

-----------------------------------------------------------------------------
(* What a write does to what holds of a state                              *)

\* v has the money of w, and what p has in w, it has in v.
Serves(v, w, p) == BalanceIn(v, p) >= BalanceIn(w, p) /\ NonceIn(v, p) = NonceIn(w, p)

LEMMA ServesAffords ==
  ASSUME NEW v, NEW w, NEW t, Serves(v, w, t.from), Affords(w, t),
         BalanceIn(v, t.from) \in Int, BalanceIn(w, t.from) \in Int, t.limit * t.price \in Int
  PROVE  Affords(v, t)
BY DEF Serves, Affords

LEMMA MoveWrites ==
  ASSUME NEW w, NEW m \in Int, Sound(w, m), NEW f \in Address, NEW to \in Address, NEW n \in Nat,
         n <= BalanceIn(w, f)
  PROVE  /\ Sound(Write(w, Move(f, to, n)), m)
         /\ \A p \in Address \ {f} : Serves(Write(w, Move(f, to, n)), w, p)
         /\ BalanceIn(Write(w, Move(f, to, n)), f) >= BalanceIn(w, f) - n
         /\ \A p \in Address : NonceIn(Write(w, Move(f, to, n)), p) = NonceIn(w, p)
<1> DEFINE u == Debit(w, f, n)
           v == Credit(u, to, n)
<1>1. Write(w, Move(f, to, n)) = v
  BY DEF Write, Move, ValueMoved
<1>2. Credited(u, w, f, -n) /\ Total(w) \in Int /\ IsWorld(w) /\ Total(w) = m
  <2>1. -n \in Int /\ IsWorld(w)
    BY DEF Sound
  <2> QED BY <2>1, CreditEffect DEF Debit, Sound
<1> HIDE DEF u
<1>3. Credited(v, u, to, n) /\ IsWorld(v) /\ IsWorld(u)
  <2>1. IsWorld(u)
    BY <1>2 DEF Credited
  <2>2. Credited(v, u, to, n)
    BY <2>1, CreditEffect
  <2> QED BY <2>1, <2>2 DEF Credited
<1> HIDE DEF v
<1>4. ASSUME NEW p \in Address
      PROVE  /\ BalanceIn(w, p) \in Int /\ BalanceIn(w, p) >= 0
             /\ BalanceIn(u, p) = IF p = f THEN BalanceIn(w, f) + (-n) ELSE BalanceIn(w, p)
             /\ BalanceIn(v, p) = IF p = to THEN BalanceIn(u, to) + n ELSE BalanceIn(u, p)
             /\ NonceIn(v, p) = NonceIn(w, p)
             /\ BalanceIn(u, p) \in Int
  <2>1. BalanceIn(w, p) \in Int /\ BalanceIn(u, p) \in Int
    BY <1>2, <1>3, GetType
  <2> QED BY <1>2, <1>3, <2>1 DEF Credited, Sound
<1>5. Total(v) = m
  BY <1>2, <1>3 DEF Credited
<1>6. ASSUME NEW p \in Address
      PROVE  /\ BalanceIn(v, p) >= BalanceIn(w, p) - (IF p = f THEN n ELSE 0) /\ BalanceIn(v, p) >= 0
             /\ BalanceIn(v, p) \in Int
  <2>1. CASE p = f
    BY <1>4, <2>1
  <2>2. CASE p # f
    BY <1>4, <2>2
  <2> QED BY <2>1, <2>2
<1>7. Sound(v, m)
  BY <1>3, <1>5, <1>6 DEF Sound
<1>8. ASSUME NEW p \in Address \ {f} PROVE Serves(v, w, p)
  BY <1>4, <1>6 DEF Serves
<1>9. BalanceIn(v, f) >= BalanceIn(w, f) - n
  BY <1>6
<1> QED BY <1>1, <1>4, <1>7, <1>8, <1>9

LEMMA RenumberedSound ==
  ASSUME NEW w, NEW m \in Int, Sound(w, m), NEW a \in Address, NEW n, NEW v, Renumbered(v, w, a, n)
  PROVE  /\ Sound(v, m)
         /\ \A p \in Address \ {a} : Serves(v, w, p)
<1>1. \A p \in Address : BalanceIn(w, p) \in Int
  BY GetType DEF Sound
<1> QED BY <1>1 DEF Sound, Renumbered, Serves

LEMMA NonceWrites ==
  ASSUME NEW w, NEW m \in Int, Sound(w, m), NEW a \in Address
  PROVE  /\ Write(w, NonceMoves(a)) = BumpNonce(w, a)
         /\ Sound(BumpNonce(w, a), m)
         /\ \A p \in Address \ {a} : Serves(BumpNonce(w, a), w, p)
<1>1. Write(w, NonceMoves(a)) = BumpNonce(w, a)
  BY DEF Write, NonceMoves
<1>2. Renumbered(BumpNonce(w, a), w, a, NonceIn(w, a) + 1)
  BY BumpEffect DEF Sound
<1> HIDE DEF BumpNonce
<1> QED BY <1>1, <1>2, RenumberedSound

LEMMA SameMoneySound ==
  ASSUME NEW w, NEW m \in Int, Sound(w, m), NEW v, IsWorld(v), v.accounts = w.accounts
  PROVE  Sound(v, m) /\ \A p \in Address : Serves(v, w, p)
<1>1. \A p \in Address : BalanceIn(w, p) \in Int
  BY GetType DEF Sound
<1>2. /\ Total(v) = Total(w)
      /\ \A a \in Address : BalanceIn(v, a) = BalanceIn(w, a) /\ NonceIn(v, a) = NonceIn(w, a)
  BY SameMoney
<1> QED BY <1>1, <1>2 DEF Sound, Serves

LEMMA StoreWrites ==
  ASSUME NEW w, NEW m \in Int, Sound(w, m), NEW a \in Address, NEW n \in Nat
  PROVE  /\ Write(w, Store(a, n)) = SetStorage(w, a, n)
         /\ Sound(SetStorage(w, a, n), m) /\ \A p \in Address : Serves(SetStorage(w, a, n), w, p)
<1>1. Write(w, Store(a, n)) = SetStorage(w, a, n)
  BY DEF Write, Store
<1>2. IsWorld(SetStorage(w, a, n)) /\ SetStorage(w, a, n).accounts = w.accounts
  BY StoreEffect DEF Sound
<1> HIDE DEF SetStorage
<1> QED BY <1>1, <1>2, SameMoneySound

LEMMA CodeWrites ==
  ASSUME NEW w, NEW m \in Int, Sound(w, m), NEW a \in Deployed \cup Created
  PROVE  /\ Sound(Write(w, Code(a)), m) /\ \A p \in Address : Serves(Write(w, Code(a)), w, p)
<1>1. IsWorld(Write(w, Code(a))) /\ Write(w, Code(a)).accounts = w.accounts
  BY CodeEffect DEF Sound
<1> HIDE DEF Write
<1> QED BY <1>1, SameMoneySound

\* An entry of the journal is one of these.
LEMMA EntryType ==
  ASSUME NEW a \in Address, NEW b \in Address, NEW n \in Nat
  PROVE  Move(a, b, n) \in Entry /\ Store(a, n) \in Entry /\ NonceMoves(a) \in Entry /\ Code(a) \in Entry
BY DEF Move, Store, NonceMoves, Code, Entry

-----------------------------------------------------------------------------
(* A transaction that runs goes on by writes, calls and returns            *)

\* A part of a list that grew, or of a part of it.
LEMMA PrefixAppend ==
  ASSUME NEW S, NEW q \in Seq(S), NEW e \in S, NEW n \in Nat, n <= Len(q)
  PROVE  SubSeq(Append(q, e), 1, n) = SubSeq(q, 1, n)
<1> DEFINE r == Append(q, e)
<1>1. r \in Seq(S) /\ Len(r) = Len(q) + 1 /\ \A i \in 1 .. Len(q) : r[i] = q[i]
  BY AppendProperties
<1> HIDE DEF r
<1>2. \A i \in 1 .. n : r[i] = q[i] /\ i \in 1 .. Len(q) /\ i \in 1 .. Len(r)
  BY <1>1
<1> QED BY <1>1, <1>2 DEF r

LEMMA PrefixPrefix ==
  ASSUME NEW S, NEW q \in Seq(S), NEW k \in Nat, k <= Len(q), NEW n \in Nat, n <= k
  PROVE  /\ SubSeq(q, 1, k) \in Seq(S) /\ Len(SubSeq(q, 1, k)) = k
         /\ SubSeq(SubSeq(q, 1, k), 1, n) = SubSeq(q, 1, n)
<1> DEFINE r == SubSeq(q, 1, k)
<1>1. r \in Seq(S) /\ Len(r) = k /\ \A i \in 1 .. k : r[i] = q[i]
  OBVIOUS
<1> HIDE DEF r
<1>2. \A i \in 1 .. n : r[i] = q[i] /\ i \in 1 .. Len(q) /\ i \in 1 .. Len(r)
  BY <1>1
<1>3. SubSeq(r, 1, n) = SubSeq(q, 1, n)
  BY <1>1, <1>2
<1> QED BY <1>1, <1>3 DEF r

LEMMA KeptLater ==
  ASSUME NEW c, c.mark \in Nat, NEW t, NEW q, NEW r, NEW m, Kept(c, t, q, m), c.mark <= Len(r),
         SubSeq(r, 1, c.mark) = SubSeq(q, 1, c.mark)
  PROVE  Kept(c, t, r, m)
BY DEF Kept

LEMMA StartType ==
  ASSUME NEW t, NEW calls, NEW q, NEW w, NEW m, Running(t, calls, q, w, m)
  PROVE  /\ t.from \in Person /\ t.from \in Address /\ t.caller \in Address /\ t # NoTx
         /\ t.limit \in Nat /\ t.price \in Nat /\ t.limit * t.price \in Nat /\ t.value \in Nat
         /\ t.native \in BOOLEAN /\ t.failed \in BOOLEAN
         /\ IsWorld(t.entry) /\ IsWorld(Start(t)) /\ NonceIn(t.entry, t.caller) \in Nat
         /\ Renumbered(Start(t), t.entry, t.caller, NonceIn(t.entry, t.caller) + 1)
<1>1. /\ t.from \in Person /\ t.caller \in Address /\ t.limit \in Nat /\ t.price \in Nat
      /\ t.value \in Nat /\ t.native \in BOOLEAN /\ t.failed \in BOOLEAN
      /\ IsWorld(t.entry)
  BY DEF Running, Transaction
<1>2. t.from \in Address
  BY <1>1 DEF Address
<1>3. t.limit * t.price \in Nat
  BY <1>1
<1>4. t # NoTx
  <2>1. /\ DOMAIN t.entry.accounts \in SUBSET Address /\ DOMAIN t.entry.storage \in SUBSET Address
        /\ t \in Transaction(DOMAIN t.entry.accounts, DOMAIN t.entry.storage)
    BY DEF Running, IsWorld
  <2> QED BY <2>1, AccountsAssumption
<1>5. Renumbered(Start(t), t.entry, t.caller, NonceIn(t.entry, t.caller) + 1)
  BY <1>1, BumpEffect DEF Start
<1>6. IsWorld(Start(t)) /\ NonceIn(t.entry, t.caller) \in Nat
  BY <1>1, <1>5, GetType DEF Renumbered
<1> QED BY <1>1, <1>2, <1>3, <1>4, <1>5, <1>6

LEMMA RunningWrites ==
  ASSUME NEW t, NEW calls \in Seq(Called), NEW q \in Seq(Entry), NEW w, NEW m \in Int,
         Running(t, calls, q, w, m), calls # << >>, Sound(w, m),
         NEW e \in Entry, Sound(Write(w, e), m), Affords(Write(w, e), t)
  PROVE  Running(t, calls, Append(q, e), Write(w, e), m)
<1> DEFINE r == Append(q, e)
           v == Write(w, e)
<1>1. r \in Seq(Entry) /\ Len(r) = Len(q) + 1 /\ Len(q) \in Nat
  BY AppendProperties
<1>2. v = Replayed(Start(t), r)
  <2>1. w = Replayed(Start(t), q)
    BY DEF Running
  <2>2. Replayed(Start(t), r) = Write(Replayed(Start(t), q), e)
    BY ReplayAppend
  <2> QED BY <2>1, <2>2
<1>3. ASSUME NEW i \in 1 .. Len(calls) PROVE Kept(calls[i], t, r, m)
  <2>0. calls[i] \in Called
    OBVIOUS
  <2>4. Kept(calls[i], t, q, m)
    BY DEF Running
  <2>1. Kept(calls[i], t, q, m) /\ calls[i].mark \in Nat /\ calls[i].mark <= Len(q)
    BY <2>0, <2>4 DEF Called, Kept
  <2>2. SubSeq(r, 1, calls[i].mark) = SubSeq(q, 1, calls[i].mark)
    BY <2>1, PrefixAppend
  <2>3. calls[i].mark <= Len(r)
    BY <1>1, <2>1
  <2> HIDE DEF r
  <2> QED BY <2>1, <2>2, <2>3, KeptLater
<1>4. ~t.failed
  BY DEF Running
<1> HIDE DEF r, v
<1>5. Affords(v, t)
  BY DEF v
<1>6. Running(t, calls, r, v, m)
  BY <1>2, <1>3, <1>4, <1>5 DEF Running
<1> QED BY <1>6 DEF r, v

\* A call begins: what there is now is its checkpoint.
LEMMA RunningCalls ==
  ASSUME NEW t, NEW calls \in Seq(Called), NEW q \in Seq(Entry), NEW w, NEW m \in Int,
         Running(t, calls, q, w, m), Sound(w, m), ~t.failed,
         calls = << >> => w = Start(t),
         NEW a \in Address, NEW creates \in BOOLEAN, creates => a \in Created
  PROVE  LET c == [self |-> a, creates |-> creates, saved |-> w, mark |-> Len(q)]
         IN  Append(calls, c) \in Seq(Called) /\ Running(t, Append(calls, c), q, w, m)
<1> DEFINE c == [self |-> a, creates |-> creates, saved |-> w, mark |-> Len(q)]
           d == Append(calls, c)
           n == Len(calls)
<1>0. Len(q) \in Nat /\ n \in Nat
  OBVIOUS
<1>1. c \in Called /\ c.creates = creates /\ c.self = a /\ c.saved = w /\ c.mark = Len(q)
  <2>1. w \in Worlds
    BY DEF Sound, IsWorld, Worlds
  <2> QED BY <1>0, <2>1 DEF Called
<1> HIDE DEF c
<1>2. d \in Seq(Called) /\ Len(d) = n + 1 /\ d[n + 1] = c /\ \A i \in 1 .. n : d[i] = calls[i]
  BY <1>1, AppendProperties
<1> HIDE DEF d
<1>3. Kept(c, t, q, m)
  <2>1. SubSeq(q, 1, Len(q)) = q
    OBVIOUS
  <2>2. w = Replayed(Start(t), q) /\ Affords(w, t)
    BY DEF Running
  <2>3. c.saved = Replayed(Start(t), SubSeq(q, 1, c.mark)) /\ c.mark <= Len(q)
    <3>1. SubSeq(q, 1, c.mark) = q
      BY <1>1, <2>1
    <3>2. c.mark <= Len(q)
      BY <1>0, <1>1
    <3> HIDE DEF Start
    <3> QED BY <1>1, <2>2, <3>1, <3>2
  <2>4. Sound(c.saved, m) /\ Affords(c.saved, t) /\ (c.creates => c.self \in Created)
    BY <1>1, <2>2
  <2> QED BY <2>3, <2>4 DEF Kept
<1>4. ASSUME NEW i \in 1 .. Len(d) PROVE Kept(d[i], t, q, m)
  <2>1. CASE i = n + 1
    BY <1>2, <1>3, <2>1
  <2>2. CASE i # n + 1
    <3>1. i \in 1 .. n
      BY <1>0, <1>2, <2>2
    <3> QED BY <1>2, <3>1 DEF Running
  <2> QED BY <2>1, <2>2
<1>5. ASSUME NEW i \in 1 .. Len(d), NEW j \in 1 .. Len(d), i <= j PROVE d[i].mark <= d[j].mark
  <2>1. d[i].mark <= Len(q) /\ d[i].mark \in Nat
    <3>1. d[i] \in Called /\ Kept(d[i], t, q, m)
      BY <1>2, <1>4
    <3> QED BY <3>1 DEF Kept, Called
  <2>2. CASE j = n + 1
    BY <1>1, <1>2, <2>1, <2>2
  <2>3. CASE j # n + 1
    <3>1. i \in 1 .. n /\ j \in 1 .. n
      BY <1>0, <1>2, <1>5, <2>3
    <3> QED BY <1>2, <1>5, <3>1 DEF Running
  <2> QED BY <2>2, <2>3
<1>6. d[1].saved = Start(t)
  <2>1. CASE calls = << >>
    BY <1>1, <1>2, <2>1
  <2>2. CASE calls # << >>
    <3>1. 1 \in 1 .. n
      BY <2>2
    <3> QED BY <1>2, <2>2, <3>1 DEF Running
  <2> QED BY <2>1, <2>2
<1>7. Running(t, d, q, w, m)
  BY <1>4, <1>5, <1>6 DEF Running
<1> QED BY <1>2, <1>7 DEF c, d

\* A call ends, and its writes stay.
LEMMA RunningReturns ==
  ASSUME NEW t, NEW calls \in Seq(Called), NEW q \in Seq(Entry), NEW w, NEW m \in Int,
         Running(t, calls, q, w, m), calls # << >>
  PROVE  Front(calls) \in Seq(Called) /\ Running(t, Front(calls), q, w, m)
<1> DEFINE d == Front(calls)
           n == Len(calls)
           k == n - 1
<1>1. n \in Nat /\ n >= 1 /\ k \in Nat /\ k <= n
  BY EmptySeq
<1>2. d \in Seq(Called) /\ Len(d) = k /\ \A i \in 1 .. k : d[i] = calls[i] /\ i \in 1 .. n
  <2>1. d = SubSeq(calls, 1, k)
    BY DEF Front
  <2>0. k <= Len(calls)
    BY <1>1
  <2> HIDE DEF d, k
  <2>2. /\ SubSeq(calls, 1, k) \in Seq(Called) /\ Len(SubSeq(calls, 1, k)) = k
        /\ \A i \in 1 .. k : SubSeq(calls, 1, k)[i] = calls[i]
    BY <1>1, <2>0
  <2>3. \A i \in 1 .. k : i \in 1 .. n
    BY <1>1
  <2> QED BY <2>1, <2>2, <2>3
<1> HIDE DEF d, n, k
<1>3. \A i \in 1 .. Len(d) : Kept(d[i], t, q, m)
  BY <1>2 DEF Running, n
<1>4. \A i, j \in 1 .. Len(d) : i <= j => d[i].mark <= d[j].mark
  BY <1>2 DEF Running, n
<1>5. d # << >> => d[1].saved = Start(t)
  <2>1. d # << >> => 1 \in 1 .. k
    BY <1>1, <1>2
  <2> QED BY <1>2, <2>1 DEF Running
<1>6. ~t.failed
  BY DEF Running
<1>7. Running(t, d, q, w, m)
  BY <1>3, <1>4, <1>5, <1>6 DEF Running
<1> QED BY <1>2, <1>7 DEF d

\* A call is reverted, and its writes are gone.
LEMMA RunningReverts ==
  ASSUME NEW t, NEW calls \in Seq(Called), NEW q \in Seq(Entry), NEW w, NEW m \in Int,
         Running(t, calls, q, w, m), calls # << >>,
         NEW k, k = Last(calls).mark
  PROVE  /\ SubSeq(q, 1, k) \in Seq(Entry) /\ Sound(Last(calls).saved, m)
         /\ Running(t, Front(calls), SubSeq(q, 1, k), Last(calls).saved, m)
         /\ Len(calls) = 1 => Last(calls).saved = Start(t) /\ Front(calls) = << >>
<1> DEFINE d == Front(calls)
           n == Len(calls)
           c == Last(calls)
           r == SubSeq(q, 1, k)
<1>1. n \in Nat /\ n \in 1 .. n /\ c = calls[n] /\ c \in Called
  <2>1. n \in Nat /\ n >= 1
    BY EmptySeq
  <2>2. calls[n] \in Called
    BY <2>1
  <2> QED BY <2>1, <2>2 DEF Last
<1>2. d \in Seq(Called) /\ Running(t, d, q, w, m)
  BY RunningReturns
<1>3. Len(d) = n - 1 /\ \A i \in 1 .. Len(d) : d[i] = calls[i] /\ i \in 1 .. n /\ i <= n
  <2> DEFINE h == n - 1
  <2>1. h \in Nat /\ h <= n
    BY <1>1
  <2>2. d = SubSeq(calls, 1, h)
    BY DEF Front
  <2>3. Len(d) = h /\ \A i \in 1 .. h : d[i] = calls[i]
    <3> HIDE DEF h
    <3>1. /\ Len(SubSeq(calls, 1, h)) = h
          /\ \A i \in 1 .. h : SubSeq(calls, 1, h)[i] = calls[i]
      BY <2>1
    <3> HIDE DEF d
    <3> QED BY <2>2, <3>1
  <2> HIDE DEF d, c, r
  <2> QED BY <1>1, <2>1, <2>3
<1>4. Kept(c, t, q, m) /\ c.mark = k /\ k \in Nat /\ k <= Len(q)
  <2>1. Kept(c, t, q, m)
    BY <1>1 DEF Running
  <2>2. c.mark \in Nat
    BY <1>1 DEF Called
  <2>3. c.mark <= Len(q)
    BY <2>1 DEF Kept
  <2> QED BY <2>1, <2>2, <2>3
<1> HIDE DEF d, c, n
<1>5. r \in Seq(Entry) /\ Len(r) = k
  BY <1>4, PrefixPrefix
<1>6. ASSUME NEW i \in 1 .. Len(d) PROVE Kept(d[i], t, r, m)
  <2>0. d[i] \in Called
    BY <1>2
  <2>1. d[i].mark \in Nat /\ Kept(d[i], t, q, m)
    BY <1>2, <2>0 DEF Called, Running
  <2>2. d[i].mark <= k
    BY <1>1, <1>3, <1>4 DEF Running, n
  <2>3. SubSeq(r, 1, d[i].mark) = SubSeq(q, 1, d[i].mark)
    BY <1>4, <2>1, <2>2, PrefixPrefix
  <2> QED BY <1>5, <2>1, <2>2, <2>3, KeptLater
<1>7. c.saved = Replayed(Start(t), r) /\ Affords(c.saved, t) /\ Sound(c.saved, m)
  BY <1>4 DEF Kept
<1>8. ~t.failed
  BY DEF Running
<1> HIDE DEF r
<1>9. Running(t, d, r, c.saved, m)
  BY <1>2, <1>6, <1>7, <1>8 DEF Running
<1>10. n = 1 => c.saved = Start(t) /\ d = << >>
  <2> SUFFICES ASSUME n = 1 PROVE c.saved = Start(t) /\ d = << >>
    OBVIOUS
  <2>1. c.saved = Start(t)
    BY <1>1 DEF Running
  <2>2. d = << >>
    BY <1>2, <1>3, EmptySeq
  <2> QED BY <2>1, <2>2
<1> QED BY <1>5, <1>7, <1>9, <1>10 DEF d, n, c, r

\* The call is made: the value moves, and a contract that begins has a nonce.
LEMMA RunningEnters ==
  ASSUME NEW t, NEW calls \in Seq(Called), NEW q \in Seq(Entry), NEW w, NEW m \in Int,
         Running(t, calls, q, w, m), Sound(w, m), ~t.failed, calls = << >> => w = Start(t),
         NEW f \in Address, NEW a \in Address, NEW n \in Nat, n <= BalanceIn(w, f),
         NEW creates \in BOOLEAN, creates => a \in Created,
         f = t.from => BalanceIn(w, f) - n >= t.limit * t.price
  PROVE  LET first == <<Move(f, a, n)>> \o (IF creates THEN <<NonceMoves(a)>> ELSE << >>)
             c == [self |-> a, creates |-> creates, saved |-> w, mark |-> Len(q)]
         IN  /\ Sound(Replayed(w, first), m) /\ q \o first \in Seq(Entry)
             /\ Append(calls, c) \in Seq(Called)
             /\ Running(t, Append(calls, c), q \o first, Replayed(w, first), m)
<1> DEFINE c == [self |-> a, creates |-> creates, saved |-> w, mark |-> Len(q)]
           d == Append(calls, c)
           e == Move(f, a, n)
           g == NonceMoves(a)
           first == <<e>> \o (IF creates THEN <<g>> ELSE << >>)
           u == Write(w, e)
           v == Write(u, g)
<1>1. d \in Seq(Called) /\ Running(t, d, q, w, m) /\ d # << >>
  <2>1. d \in Seq(Called) /\ Running(t, d, q, w, m)
    BY RunningCalls
  <2>2. d # << >>
    <3> HIDE DEF c
    <3> QED OBVIOUS
  <2> QED BY <2>1, <2>2
<1>2. e \in Entry /\ g \in Entry
  BY EntryType
<1>3. /\ t.from \in Address /\ t.from \in Person /\ t.limit * t.price \in Nat
      /\ Affords(w, t)
  BY StartType DEF Running
<1>4. /\ Sound(u, m) /\ BalanceIn(u, f) >= BalanceIn(w, f) - n
      /\ \A p \in Address \ {f} : Serves(u, w, p)
      /\ \A p \in Address : NonceIn(u, p) = NonceIn(w, p)
  BY MoveWrites
<1> HIDE DEF c, d, e, g, u, v
<1>5. \A p \in Address : BalanceIn(w, p) \in Int /\ BalanceIn(u, p) \in Int
  BY <1>4, GetType DEF Sound
<1>6. Affords(u, t)
  <2>1. CASE f = t.from
    <3>1. BalanceIn(u, f) >= t.limit * t.price
      BY <1>3, <1>4, <1>5, <2>1
    <3>2. NonceIn(u, t.from) = NonceIn(w, t.from)
      BY <1>3, <1>4
    <3> QED BY <1>3, <2>1, <3>1, <3>2 DEF Affords
  <2>2. CASE f # t.from
    <3>1. Serves(u, w, t.from)
      BY <1>3, <1>4, <2>2
    <3>2. BalanceIn(u, t.from) \in Int /\ BalanceIn(w, t.from) \in Int /\ t.limit * t.price \in Int
      BY <1>3, <1>5
    <3> QED BY <1>3, <3>1, <3>2, ServesAffords
  <2> QED BY <2>1, <2>2
<1>7. Append(q, e) \in Seq(Entry) /\ Running(t, d, Append(q, e), u, m)
  <2>1. Running(t, d, Append(q, e), Write(w, e), m)
    BY <1>1, <1>2, <1>4, <1>6, RunningWrites DEF u
  <2> QED BY <1>2, <2>1, AppendProperties DEF u
<1>8. CASE ~creates
  <2>1. first = <<e>>
    BY <1>8
  <2>2. Replayed(w, first) = u /\ q \o first = Append(q, e)
    BY <1>2, <2>1, ReplayOne, AppendIsConcat DEF u
  <2> QED BY <1>1, <1>4, <1>7, <2>2 DEF d, c, e, g
<1>9. CASE creates
  <2>1. first = <<e, g>>
    <3>1. <<e>> \o <<g>> = <<e, g>>
      BY PairAppend
    <3> QED BY <1>9, <3>1
  <2>2. Replayed(w, first) = v
    <3>1. Replayed(w, <<e, g>>) = v
      BY ReplayTwo DEF u, v
    <3> HIDE DEF first
    <3> QED BY <2>1, <3>1
  <2>3. q \o first = Append(Append(q, e), g)
    <3>1. <<e>> \in Seq(Entry) /\ <<g>> \in Seq(Entry)
      BY <1>2
    <3>2. q \o (<<e>> \o <<g>>) = (q \o <<e>>) \o <<g>>
      BY <3>1, ConcatAssociative
    <3>3. q \o <<e>> = Append(q, e) /\ Append(q, e) \o <<g>> = Append(Append(q, e), g)
      <4>1. q \o <<e>> = Append(q, e)
        BY <1>2, AppendIsConcat
      <4>2. Append(q, e) \o <<g>> = Append(Append(q, e), g)
        BY <1>2, <1>7, AppendIsConcat
      <4> QED BY <4>1, <4>2
    <3> QED BY <1>9, <3>2, <3>3
  <2>4. v = BumpNonce(u, a) /\ Sound(v, m) /\ \A p \in Address \ {a} : Serves(v, u, p)
    BY <1>4, NonceWrites DEF v, g
  <2>5. Affords(v, t)
    <3>1. a # t.from
      BY <1>3, <1>9, AccountsAssumption
    <3>2. Serves(v, u, t.from)
      BY <1>3, <2>4, <3>1
    <3>3. BalanceIn(v, t.from) \in Int /\ BalanceIn(u, t.from) \in Int /\ t.limit * t.price \in Int
      <4>1. BalanceIn(v, t.from) \in Int
        BY <1>3, <2>4, GetType DEF Sound
      <4> QED BY <1>3, <1>5, <4>1
    <3> QED BY <1>6, <3>2, <3>3, ServesAffords
  <2>6. Append(Append(q, e), g) \in Seq(Entry)
    BY <1>2, <1>7, AppendProperties
  <2>7. Running(t, d, Append(Append(q, e), g), v, m)
    <3>1. Sound(Write(u, g), m) /\ Affords(Write(u, g), t)
      BY <2>4, <2>5 DEF v
    <3> DEFINE l == Append(q, e)
    <3>2. l \in Seq(Entry) /\ Running(t, d, l, u, m)
      BY <1>7
    <3> HIDE DEF l
    <3>3. Running(t, d, Append(l, g), Write(u, g), m)
      BY <1>1, <1>2, <1>4, <3>1, <3>2, RunningWrites
    <3> QED BY <3>3 DEF v, l
  <2> QED BY <1>1, <2>2, <2>3, <2>4, <2>6, <2>7 DEF d, c, e, g
<1> QED BY <1>8, <1>9

-----------------------------------------------------------------------------
(* Money that is paid                                                      *)

LEMMA DebitSound ==
  ASSUME NEW w, NEW m \in Int, Sound(w, m), NEW f \in Address, NEW n \in Nat, n <= BalanceIn(w, f)
  PROVE  Sound(Debit(w, f, n), m - n) /\ BalanceIn(Debit(w, f, n), f) = BalanceIn(w, f) - n
<1> DEFINE u == Debit(w, f, n)
<1>1. Credited(u, w, f, -n) /\ Total(w) = m
  <2>1. -n \in Int /\ IsWorld(w)
    BY DEF Sound
  <2> QED BY <2>1, CreditEffect DEF Debit, Sound
<1> HIDE DEF u
<1>2. \A p \in Address : BalanceIn(w, p) \in Int /\ BalanceIn(w, p) >= 0
  BY GetType DEF Sound
<1>3. \A p \in Address : BalanceIn(u, p) = IF p = f THEN BalanceIn(w, f) + (-n) ELSE BalanceIn(w, p)
  BY <1>1 DEF Credited
<1>4. BalanceIn(u, f) = BalanceIn(w, f) - n
  BY <1>2, <1>3
<1>5. \A p \in Address : BalanceIn(u, p) >= 0
  BY <1>2, <1>3
<1>6. Total(u) = m - n /\ IsWorld(u)
  BY <1>1 DEF Credited
<1> QED BY <1>4, <1>5, <1>6 DEF Sound, u

LEMMA CreditSound ==
  ASSUME NEW w, NEW m \in Int, Sound(w, m), NEW a \in Address, NEW n \in Nat
  PROVE  Sound(Credit(w, a, n), m + n)
         /\ \A p \in Address : BalanceIn(Credit(w, a, n), p) >= BalanceIn(w, p)
<1> DEFINE u == Credit(w, a, n)
<1>1. Credited(u, w, a, n) /\ Total(w) = m
  <2>1. n \in Int /\ IsWorld(w)
    BY DEF Sound
  <2> QED BY <2>1, CreditEffect DEF Sound
<1> HIDE DEF u
<1>2. \A p \in Address : BalanceIn(w, p) \in Int /\ BalanceIn(w, p) >= 0
  BY GetType DEF Sound
<1>3. \A p \in Address : BalanceIn(u, p) = IF p = a THEN BalanceIn(w, a) + n ELSE BalanceIn(w, p)
  BY <1>1 DEF Credited
<1>5. \A p \in Address : BalanceIn(u, p) >= 0 /\ BalanceIn(u, p) >= BalanceIn(w, p)
  BY <1>2, <1>3
<1>6. Total(u) = m + n /\ IsWorld(u)
  BY <1>1 DEF Credited
<1> QED BY <1>5, <1>6 DEF Sound, u

LEMMA BumpSound ==
  ASSUME NEW w, NEW m \in Int, Sound(w, m), NEW a \in Address
  PROVE  Sound(BumpNonce(w, a), m) /\ \A p \in Address : BalanceIn(BumpNonce(w, a), p) = BalanceIn(w, p)
<1>1. Renumbered(BumpNonce(w, a), w, a, NonceIn(w, a) + 1)
  BY BumpEffect DEF Sound
<1> HIDE DEF BumpNonce
<1>2. Sound(BumpNonce(w, a), m)
  BY <1>1, RenumberedSound
<1> QED BY <1>1, <1>2 DEF Renumbered

LEMMA FeeType == ASSUME NEW price \in Nat PROVE Fee(price) \in Nat
BY AccountsAssumption DEF Fee

LEMMA PaidSound ==
  ASSUME NEW m \in Int, Sound(world, m), NEW f \in Address, NEW to \in Address, NEW n \in Nat,
         NEW price \in Nat, BalanceIn(world, f) >= Fee(price) + n
  PROVE  /\ Sound(Paid(f, to, n, price), m)
         /\ BalanceIn(Paid(f, to, n, price), f) >= BalanceIn(world, f) - (Fee(price) + n)
<1> DEFINE fee == Fee(price)
           k == fee + n
           w1 == Debit(world, f, k)
           w2 == Credit(w1, to, n)
           w3 == Credit(w2, Coinbase, fee)
           w4 == BumpNonce(w3, f)
<1>1. fee \in Nat /\ k \in Nat /\ k <= BalanceIn(world, f) /\ Coinbase \in Address
      /\ BalanceIn(world, f) \in Int
  BY FeeType, GetType DEF Address, Sound
<1> HIDE DEF fee
<1>2. Sound(w1, m - k) /\ BalanceIn(w1, f) = BalanceIn(world, f) - k
  <2> HIDE DEF k
  <2> QED BY <1>1, DebitSound
<1>3. m - k \in Int /\ m - k + n \in Int /\ m - k + n + fee = m
  BY <1>1
<1> DEFINE a1 == m - k
           a2 == a1 + n
<1> HIDE DEF w1, k, a1
<1>4. Sound(w2, a2) /\ BalanceIn(w2, f) >= BalanceIn(w1, f)
  BY <1>2, <1>3, CreditSound DEF a1
<1> HIDE DEF w2, a2
<1>5. Sound(w3, a2 + fee) /\ BalanceIn(w3, f) >= BalanceIn(w2, f)
  BY <1>1, <1>3, <1>4, CreditSound DEF a1, a2
<1>6. a2 + fee = m
  BY <1>3 DEF a1, a2
<1> HIDE DEF w3
<1>7. Sound(w4, m) /\ BalanceIn(w4, f) = BalanceIn(w3, f)
  BY <1>5, <1>6, BumpSound
<1>8. BalanceIn(w1, f) \in Int /\ BalanceIn(w2, f) \in Int /\ BalanceIn(w3, f) \in Int
  BY <1>2, <1>4, <1>5, GetType DEF Sound
<1> HIDE DEF w4
<1>9. BalanceIn(w4, f) >= BalanceIn(world, f) - k
  BY <1>1, <1>2, <1>4, <1>5, <1>7, <1>8
<1> QED BY <1>7, <1>9 DEF w4, w3, w2, w1, k, fee, Paid

-----------------------------------------------------------------------------
(* Every step keeps the invariant                                          *)

LEMMA FundsType == SumFunctionOnSet(Funds, Person) \in Int
<1>1. \A p \in Person : Funds[p] \in Int
  BY AccountsAssumption
<1> QED BY <1>1, AccountsAssumption, SumType

LEMMA SupplyType == AccountsInv => Supply \in Int
BY FundsType DEF AccountsInv, Supply

LEMMA AccountsInitInv == AccountsInit => AccountsInv
<1> SUFFICES ASSUME AccountsInit PROVE AccountsInv
  OBVIOUS
<1> DEFINE acc == [p \in Person |-> [balance |-> Funds[p], nonce |-> 0]]
           f == [a \in Address |-> BalanceIn(world, a)]
<1>1. Person \subseteq Address /\ Funds \in [Person -> Nat] /\ IsFiniteSet(Person)
  BY AccountsAssumption DEF Address
<1>2. /\ world = [accounts |-> acc, code |-> Deployed, storage |-> << >>]
      /\ outstanding = 0 /\ published = 0 /\ issued = 0 /\ tx = NoTx /\ frames = << >>
      /\ journal = << >>
  BY DEF AccountsInit
<1>3. IsWorld(world)
  <2>1. acc \in [Person -> [balance : Int, nonce : Nat]] /\ DOMAIN acc = Person
    BY <1>1
  <2>2. << >> \in [{} -> Nat] /\ DOMAIN << >> = {}
    OBVIOUS
  <2> DEFINE sto == << >>
  <2> HIDE DEF acc, sto
  <2>3. world = [accounts |-> acc, code |-> Deployed, storage |-> sto]
    BY <1>2 DEF sto
  <2>4. world.accounts = acc /\ world.storage = sto
    BY <2>3
  <2>5. world \in World(Person, {})
    BY <2>1, <2>2, <2>3 DEF World, sto
  <2> QED BY <1>1, <2>1, <2>2, <2>4, <2>5 DEF IsWorld, sto
<1>4. ASSUME NEW a \in Address
      PROVE  BalanceIn(world, a) = IF a \in Person THEN Funds[a] ELSE 0
  BY <1>2 DEF BalanceIn, Get, Empty
<1>5. \A a \in Address : BalanceIn(world, a) >= 0 /\ BalanceIn(world, a) \in Int
  BY <1>1, <1>4
<1>6. Total(world) = SumFunctionOnSet(Funds, Person)
  <2> DEFINE R == Address \ Person
  <2>1. IsFiniteSet(Address) /\ IsFiniteSet(R) /\ Person \cap R = {} /\ Person \cup R = Address
    BY AddressFinite, <1>1, FS_Difference
  <2>2. (\A a \in Address : f[a] \in Int) /\ (\A a \in R : f[a] = 0)
        /\ (\A p \in Person : f[p] = Funds[p] /\ Funds[p] \in Int)
    BY <1>1, <1>4, <1>5
  <2>3. Total(world) = SumFunctionOnSet(f, Address)
    BY DEF Total
  <2> HIDE DEF f, R
  <2>4. SumFunctionOnSet(f, Address) = SumFunctionOnSet(f, Person) + SumFunctionOnSet(f, R)
    BY <1>1, <2>1, <2>2, SumUnion
  <2>5. SumFunctionOnSet(f, R) = 0
    BY <2>1, <2>2, SumZero
  <2>6. SumFunctionOnSet(f, Person) = SumFunctionOnSet(Funds, Person)
    BY <1>1, <2>2, SumSame
  <2> QED BY <2>3, <2>4, <2>5, <2>6, FundsType
<1>7. Supply = SumFunctionOnSet(Funds, Person)
  BY <1>2, FundsType DEF Supply
<1>8. Sound(world, Supply)
  BY <1>3, <1>5, <1>6, <1>7 DEF Sound
<1>9. << >> \in Seq(Called) /\ << >> \in Seq(Entry)
  OBVIOUS
<1> QED BY <1>2, <1>8, <1>9 DEF AccountsInv

\* Nothing runs, and money moves or is made.
LEMMA PaysInv ==
  ASSUME AccountsInv, tx = NoTx, UNCHANGED vmVars,
         outstanding' \in Int, published' \in Int, issued' \in Int,
         NEW m \in Int, Supply' = m, Sound(world', m)
  PROVE  AccountsInv'
<1>1. tx' = tx /\ frames' = frames /\ journal' = journal
  BY DEF vmVars
<1>2. frames = << >> /\ journal = << >> /\ frames \in Seq(Called) /\ journal \in Seq(Entry)
  BY DEF AccountsInv
<1>3. Sound(world', Supply')
  OBVIOUS
<1> HIDE DEF Supply
<1> QED BY <1>1, <1>2, <1>3 DEF AccountsInv

LEMMA PayInv ==
  ASSUME AccountsInv, NEW f \in Person, NEW price \in GasPrices,
         NEW t \in Address, NEW v \in 0 .. MaxValue, Pay(f, t, v, price)
  PROVE  AccountsInv'
<1>1. f \in Address /\ price \in Nat /\ v \in Nat
  BY AccountsAssumption DEF Address
<1>2. /\ tx = NoTx /\ UNCHANGED vmVars /\ BalanceIn(world, f) >= Fee(price) + v
      /\ world' = Paid(f, t, v, price) /\ UNCHANGED supplyVars
  BY DEF Pay, Native
<1>3. /\ outstanding \in Int /\ published \in Int /\ issued \in Int /\ Sound(world, Supply)
      /\ Supply \in Int
  BY SupplyType DEF AccountsInv
<1>4. /\ Supply' = Supply /\ outstanding' \in Int /\ published' \in Int /\ issued' \in Int
  BY <1>2, <1>3 DEF supplyVars, Supply
<1> DEFINE m == Supply
<1> HIDE DEF m
<1>5. m \in Int /\ Sound(world, m) /\ Supply' = m
  BY <1>3, <1>4 DEF m
<1>6. Sound(world', m)
  BY <1>1, <1>2, <1>5, PaidSound
<1> QED BY <1>2, <1>4, <1>5, <1>6, PaysInv

\* Money that is destroyed, beside the fee.
LEMMA SpentSound ==
  ASSUME NEW m \in Int, Sound(world, m), NEW f \in Address, NEW n \in Nat, NEW price \in Nat,
         BalanceIn(world, f) >= Fee(price) + n
  PROVE  Sound(Debit(Paid(f, f, 0, price), f, n), m - n)
<1> DEFINE w == Paid(f, f, 0, price)
<1>1. Fee(price) \in Nat /\ BalanceIn(world, f) \in Int
  BY FeeType, GetType DEF Sound
<1>2. BalanceIn(world, f) >= Fee(price) + 0
  BY <1>1
<1>3. Sound(w, m) /\ BalanceIn(w, f) >= BalanceIn(world, f) - (Fee(price) + 0)
  BY <1>2, PaidSound
<1> HIDE DEF w
<1>4. BalanceIn(w, f) \in Int
  BY <1>3, GetType DEF Sound
<1>5. n <= BalanceIn(w, f)
  BY <1>1, <1>3, <1>4
<1> QED BY <1>3, <1>5, DebitSound DEF w

LEMMA PublishInv ==
  ASSUME AccountsInv, NEW f \in Person, NEW price \in GasPrices, Publish(f, price)
  PROVE  AccountsInv'
<1>1. f \in Address /\ price \in Nat /\ PublishBurn \in Nat
  BY AccountsAssumption DEF Address
<1>2. /\ tx = NoTx /\ UNCHANGED vmVars /\ BalanceIn(world, f) >= Fee(price) + PublishBurn
      /\ world' = Debit(Paid(f, f, 0, price), f, PublishBurn)
      /\ published' = published + PublishBurn /\ outstanding' = outstanding /\ issued' = issued
  BY DEF Publish, Native
<1>3. /\ outstanding \in Int /\ published \in Int /\ issued \in Int /\ Sound(world, Supply)
      /\ Supply \in Int
  BY SupplyType DEF AccountsInv
<1> DEFINE m == Supply
<1>4. /\ Supply' = m - PublishBurn /\ outstanding' \in Int /\ published' \in Int /\ issued' \in Int
  BY <1>1, <1>2, <1>3, FundsType DEF Supply
<1>5. m \in Int /\ Sound(world, m)
  BY <1>3
<1> HIDE DEF m
<1>6. Sound(world', m - PublishBurn) /\ m - PublishBurn \in Int
  BY <1>1, <1>2, <1>5, SpentSound
<1> QED BY <1>2, <1>4, <1>6, PaysInv

LEMMA BurnMoliInv ==
  ASSUME AccountsInv, NEW f \in Person, NEW price \in GasPrices, NEW n \in 1 .. MaxValue,
         BurnMoli(f, n, price)
  PROVE  AccountsInv'
<1>1. f \in Address /\ price \in Nat /\ n \in Nat
  BY AccountsAssumption DEF Address
<1>2. /\ tx = NoTx /\ UNCHANGED vmVars /\ BalanceIn(world, f) >= Fee(price) + n
      /\ world' = Debit(Paid(f, f, 0, price), f, n)
      /\ outstanding' = outstanding + n /\ published' = published /\ issued' = issued
  BY DEF BurnMoli, Native
<1>3. /\ outstanding \in Int /\ published \in Int /\ issued \in Int /\ Sound(world, Supply)
      /\ Supply \in Int
  BY SupplyType DEF AccountsInv
<1> DEFINE m == Supply
<1>4. /\ Supply' = m - n /\ outstanding' \in Int /\ published' \in Int /\ issued' \in Int
  BY <1>1, <1>2, <1>3, FundsType DEF Supply
<1>5. m \in Int /\ Sound(world, m)
  BY <1>3
<1> HIDE DEF m
<1>6. Sound(world', m - n) /\ m - n \in Int
  BY <1>1, <1>2, <1>5, SpentSound
<1> QED BY <1>2, <1>4, <1>6, PaysInv

LEMMA ReturnMoliInv ==
  ASSUME AccountsInv, NEW f \in Person, NEW price \in GasPrices, NEW n \in 1 .. MaxValue,
         NEW t \in Address, ReturnMoli(f, t, n, price)
  PROVE  AccountsInv'
<1>1. f \in Address /\ price \in Nat /\ n \in Nat
  BY AccountsAssumption DEF Address
<1>2. /\ tx = NoTx /\ UNCHANGED vmVars /\ BalanceIn(world, f) >= Fee(price) + 0
      /\ world' = Credit(Paid(f, f, 0, price), t, n)
      /\ outstanding' = outstanding - n /\ published' = published /\ issued' = issued
  BY DEF ReturnMoli, Native
<1>3. /\ outstanding \in Int /\ published \in Int /\ issued \in Int /\ Sound(world, Supply)
      /\ Supply \in Int
  BY SupplyType DEF AccountsInv
<1> DEFINE m == Supply
<1>4. /\ Supply' = m + n /\ outstanding' \in Int /\ published' \in Int /\ issued' \in Int
  BY <1>1, <1>2, <1>3, FundsType DEF Supply
<1>5. m \in Int /\ Sound(world, m)
  BY <1>3
<1> DEFINE w == Paid(f, f, 0, price)
<1> HIDE DEF m
<1>6. Sound(w, m)
  BY <1>1, <1>2, <1>5, PaidSound
<1> HIDE DEF w
<1>7. Sound(Credit(w, t, n), m + n) /\ m + n \in Int
  BY <1>1, <1>5, <1>6, CreditSound
<1>8. Sound(world', m + n)
  BY <1>2, <1>7 DEF w
<1> QED BY <1>2, <1>4, <1>7, <1>8, PaysInv

LEMMA MineBlockInv == AccountsInv /\ MineBlock => AccountsInv'
<1> SUFFICES ASSUME AccountsInv, MineBlock PROVE AccountsInv'
  OBVIOUS
<1>1. Coinbase \in Address /\ BlockReward \in Nat
  BY AccountsAssumption DEF Address
<1>2. /\ tx = NoTx /\ UNCHANGED vmVars /\ world' = Credit(world, Coinbase, BlockReward)
      /\ issued' = issued + BlockReward /\ outstanding' = outstanding /\ published' = published
  BY DEF MineBlock
<1>3. /\ outstanding \in Int /\ published \in Int /\ issued \in Int /\ Sound(world, Supply)
      /\ Supply \in Int
  BY SupplyType DEF AccountsInv
<1> DEFINE m == Supply
<1>4. /\ Supply' = m + BlockReward /\ outstanding' \in Int /\ published' \in Int /\ issued' \in Int
  BY <1>1, <1>2, <1>3, FundsType DEF Supply
<1>5. m \in Int /\ Sound(world, m)
  BY <1>3
<1> HIDE DEF m
<1>6. Sound(world', m + BlockReward) /\ m + BlockReward \in Int
  BY <1>1, <1>2, <1>5, CreditSound
<1> QED BY <1>2, <1>4, <1>6, PaysInv

\* A transaction runs on.
LEMMA RunsInv ==
  ASSUME AccountsInv, UNCHANGED supplyVars, NEW m \in Int, m = Supply,
         tx' # NoTx, frames' \in Seq(Called), journal' \in Seq(Entry),
         Sound(world', m), Running(tx', frames', journal', world', m)
  PROVE  AccountsInv'
<1>1. outstanding' \in Int /\ published' \in Int /\ issued' \in Int
  BY DEF AccountsInv, supplyVars
<1>2. Supply' = m
  BY DEF supplyVars, Supply
<1> HIDE DEF Supply
<1>3. Sound(world', Supply') /\ Running(tx', frames', journal', world', Supply')
  BY <1>2
<1> QED BY <1>1, <1>3 DEF AccountsInv

LEMMA RunEvmInv ==
  ASSUME AccountsInv, NEW f \in Person, NEW caller \in {f, Authority}, NEW t \in Address,
         NEW v \in Nat, NEW limit \in Nat, NEW price \in Nat, NEW native \in BOOLEAN,
         NEW creates \in BOOLEAN, creates => t \in Created,
         ~native => caller = f, caller # f => v = 0,
         RunEvm(f, caller, t, v, limit, price, native, creates)
  PROVE  AccountsInv'
<1> DEFINE m == Supply
           r == [from |-> f, caller |-> caller, limit |-> limit, price |-> price, native |-> native,
                 value |-> v, nonce |-> NonceIn(world, caller), entry |-> world, failed |-> FALSE]
           w == BumpNonce(world, caller)
           first == <<Move(caller, t, v)>> \o (IF creates THEN <<NonceMoves(t)>> ELSE << >>)
           c == [self |-> t, creates |-> creates, saved |-> w, mark |-> Len(journal)]
<1>1. /\ tx = NoTx /\ limit >= IntrinsicGas /\ BalanceIn(world, f) >= limit * price + v
      /\ tx' = r /\ UNCHANGED supplyVars
      /\ world' = Replayed(w, first) /\ frames' = Append(frames, c) /\ journal' = journal \o first
  BY DEF RunEvm, Covers, EnterCall
<1>2. /\ frames = << >> /\ journal = << >> /\ frames \in Seq(Called) /\ journal \in Seq(Entry)
      /\ Sound(world, m) /\ m \in Int
  BY <1>1, SupplyType DEF AccountsInv
<1>3. f \in Address /\ caller \in Address
  BY DEF Address
<1>4. IsWorld(world) /\ NonceIn(world, caller) \in Nat /\ BalanceIn(world, f) \in Int
      /\ BalanceIn(world, caller) \in Int /\ BalanceIn(world, caller) >= 0
  BY <1>2, <1>3, GetType DEF Sound
<1>5. Sound(w, m) /\ \A p \in Address : BalanceIn(w, p) = BalanceIn(world, p)
  BY <1>2, <1>3, BumpSound
<1>6. /\ r.from = f /\ r.caller = caller /\ r.limit = limit /\ r.price = price /\ r.entry = world
      /\ r.nonce = NonceIn(world, caller) /\ r.native = native /\ r.failed = FALSE
  OBVIOUS
<1>7. r \in Transaction(DOMAIN world.accounts, DOMAIN world.storage)
  <2>1. world \in World(DOMAIN world.accounts, DOMAIN world.storage)
    BY <1>4 DEF IsWorld
  <2> DEFINE W == World(DOMAIN world.accounts, DOMAIN world.storage)
  <2> HIDE DEF W
  <2>2. r \in [from : Person, caller : Address, limit : Nat, price : Nat, native : BOOLEAN,
               value : Nat, nonce : Nat, entry : W, failed : BOOLEAN]
    BY <1>3, <1>4, <2>1 DEF W
  <2> QED BY <2>2 DEF Transaction, W
<1>8. limit * price \in Nat
  OBVIOUS
<1> HIDE DEF m, r, w, c, first
<1>9. Start(r) = w
  BY <1>6 DEF Start, w
<1>10. Affords(w, r)
  <2>1. BalanceIn(w, f) >= limit * price
    BY <1>1, <1>3, <1>4, <1>5, <1>8
  <2> QED BY <1>6, <1>9, <2>1 DEF Affords
<1>11. Running(r, << >>, << >>, w, m)
  <2>1. w = Replayed(Start(r), << >>)
    BY <1>9, ReplayEmpty
  <2>2. /\ IsWorld(r.entry) /\ r \in Transaction(DOMAIN r.entry.accounts, DOMAIN r.entry.storage)
        /\ r.nonce = NonceIn(r.entry, r.caller)
        /\ r.caller \in {r.from, Authority} /\ (~r.native => r.caller = r.from) /\ ~r.failed
    BY <1>4, <1>6, <1>7
  <2> QED BY <1>10, <2>1, <2>2 DEF Running
<1>12. v <= BalanceIn(w, caller) /\ (caller = f => BalanceIn(w, caller) - v >= limit * price)
  <2>1. BalanceIn(w, caller) = BalanceIn(world, caller)
    BY <1>3, <1>5
  <2>2. CASE caller = f
    <3> DEFINE cost == limit * price
    <3>1. cost \in Nat /\ BalanceIn(world, f) >= cost + v /\ BalanceIn(world, f) \in Int
      BY <1>1, <1>4, <1>8
    <3> HIDE DEF cost
    <3>2. v <= BalanceIn(world, f) /\ BalanceIn(world, f) - v >= cost
      BY <3>1
    <3> QED BY <2>1, <2>2, <3>2 DEF cost
  <2>3. CASE caller # f
    BY <1>4, <2>1, <2>3
  <2> QED BY <2>2, <2>3
<1>13. /\ Sound(Replayed(w, first), m) /\ journal \o first \in Seq(Entry)
       /\ Append(frames, c) \in Seq(Called)
       /\ Running(r, Append(frames, c), journal \o first, Replayed(w, first), m)
  <2>1. Running(r, frames, journal, w, m) /\ ~r.failed /\ w = Start(r)
    BY <1>2, <1>6, <1>9, <1>11
  <2>2. caller = r.from => BalanceIn(w, caller) - v >= r.limit * r.price
    BY <1>6, <1>12
  <2>3. /\ frames \in Seq(Called) /\ journal \in Seq(Entry) /\ m \in Int /\ Sound(w, m)
        /\ caller \in Address /\ v <= BalanceIn(w, caller)
    BY <1>2, <1>3, <1>5, <1>12
  <2> HIDE DEF Running, Sound
  <2> QED BY <2>1, <2>2, <2>3, RunningEnters DEF first, c
<1>14. r # NoTx
  BY <1>11, StartType
<1>15. m = Supply /\ m \in Int
  BY <1>2 DEF m
<1> HIDE DEF Supply
<1> QED BY <1>1, <1>13, <1>14, <1>15, RunsInv

LEMMA BeginsInv ==
  ASSUME AccountsInv, NEW f \in Person, NEW price \in GasPrices, NEW limit \in GasLimit,
         NEW t \in Deployed \cup Created, NEW v \in 0 .. MaxValue,
         \/ CallContract(f, t, v, limit, price) \/ Deploy(f, t, v, limit, price)
         \/ Claim(f, limit, price) \/ Release(f, limit, price)
  PROVE  AccountsInv'
<1>1. /\ price \in Nat /\ limit \in Nat /\ v \in Nat /\ t \in Address /\ AssetContract \in Address
      /\ f # Authority
  BY AccountsAssumption DEF Address
<1>2. CASE CallContract(f, t, v, limit, price)
  <2>1. RunEvm(f, f, t, v, limit, price, FALSE, FALSE)
    BY <1>2 DEF CallContract
  <2> QED BY <1>1, <2>1, RunEvmInv
<1>3. CASE Deploy(f, t, v, limit, price)
  <2>1. t \in Created /\ RunEvm(f, f, t, v, limit, price, FALSE, TRUE)
    BY <1>3 DEF Deploy
  <2> QED BY <1>1, <2>1, RunEvmInv
<1>4. CASE Claim(f, limit, price)
  <2>1. RunEvm(f, Authority, AssetContract, 0, limit, price, TRUE, FALSE)
    BY <1>4 DEF Claim
  <2> QED BY <1>1, <2>1, RunEvmInv
<1>5. CASE Release(f, limit, price)
  <2>1. RunEvm(f, f, AssetContract, 0, limit, price, TRUE, FALSE)
    BY <1>5 DEF Release
  <2> QED BY <1>1, <2>1, RunEvmInv
<1> QED BY <1>2, <1>3, <1>4, <1>5

\* In a call: what it is of, and that it is of no person when its code runs.
LEMMA InCall ==
  ASSUME AccountsInv, frames # << >>
  PROVE  /\ frames \in Seq(Called) /\ journal \in Seq(Entry) /\ Sound(world, Supply) /\ Supply \in Int
         /\ Running(tx, frames, journal, world, Supply) /\ tx # NoTx /\ ~tx.failed
         /\ Self \in Address /\ Last(frames) \in Called /\ Kept(Last(frames), tx, journal, Supply)
         /\ (Last(frames).creates => Self \in Created)
         /\ (Runs => Self \notin Person)
         /\ tx.from \in Person /\ tx.from \in Address /\ tx.limit * tx.price \in Nat
<1>1. /\ frames \in Seq(Called) /\ journal \in Seq(Entry) /\ Sound(world, Supply) /\ Supply \in Int
      /\ Running(tx, frames, journal, world, Supply) /\ tx # NoTx
  BY SupplyType DEF AccountsInv
<1> DEFINE n == Len(frames)
<1>2. n \in 1 .. n /\ Last(frames) = frames[n] /\ frames[n] \in Called
  <2>1. n \in Nat /\ n >= 1
    BY <1>1, EmptySeq
  <2> QED BY <1>1, <2>1 DEF Last
<1>3. ~tx.failed /\ Kept(frames[n], tx, journal, Supply)
  BY <1>1, <1>2 DEF Running
<1> HIDE DEF n
<1>4. Self \in Address /\ (Last(frames).creates => Self \in Created)
  BY <1>2, <1>3 DEF Called, Kept, Self
<1>5. Runs => Self \notin Person
  <2>1. world.code \in SUBSET (Deployed \cup Created)
    BY <1>1 DEF Sound, IsWorld, World
  <2> QED BY <1>4, <2>1, AccountsAssumption DEF Runs
<1>6. tx.from \in Person /\ tx.from \in Address /\ tx.limit * tx.price \in Nat
  BY <1>1, StartType
<1> QED BY <1>1, <1>2, <1>3, <1>4, <1>5, <1>6

LEMMA StoreStepInv ==
  ASSUME AccountsInv, NEW n \in {0, 1}, StoreStep(n)
  PROVE  AccountsInv'
<1> DEFINE m == Supply
           e == Store(Self, n)
           v == SetStorage(world, Self, n)
<1>1. /\ frames # << >> /\ Runs /\ tx' = tx /\ UNCHANGED supplyVars /\ frames' = frames
      /\ world' = v /\ journal' = Append(journal, e)
  BY DEF StoreStep, Step
<1>2. /\ frames \in Seq(Called) /\ journal \in Seq(Entry) /\ Sound(world, m) /\ m \in Int
      /\ Running(tx, frames, journal, world, m) /\ tx # NoTx /\ Self \in Address
      /\ tx.from \in Address /\ tx.limit * tx.price \in Nat /\ m = Supply
  BY <1>1, InCall
<1> HIDE DEF m
<1>3. n \in Nat /\ e \in Entry
  BY <1>2, EntryType
<1>4. Write(world, e) = v /\ Sound(v, m) /\ Serves(v, world, tx.from)
  BY <1>2, <1>3, StoreWrites
<1> HIDE DEF e, v
<1>5. Affords(v, tx)
  <2>1. BalanceIn(v, tx.from) \in Int /\ BalanceIn(world, tx.from) \in Int /\ tx.limit * tx.price \in Int
    <3>1. BalanceIn(v, tx.from) \in Int
      BY <1>2, <1>4, GetType DEF Sound
    <3>2. BalanceIn(world, tx.from) \in Int
      BY <1>2, GetType DEF Sound
    <3> QED BY <1>2, <3>1, <3>2
  <2>2. Affords(world, tx)
    BY <1>2 DEF Running
  <2> QED BY <1>4, <2>1, <2>2, ServesAffords
<1>6. Running(tx, frames, Append(journal, e), v, m)
  BY <1>1, <1>2, <1>3, <1>4, <1>5, RunningWrites
<1>7. Append(journal, e) \in Seq(Entry)
  BY <1>2, <1>3, AppendProperties
<1> HIDE DEF Supply
<1> QED BY <1>1, <1>2, <1>4, <1>6, <1>7, RunsInv

LEMMA CallStepInv ==
  ASSUME AccountsInv, NEW t \in Address, NEW n \in 0 .. MaxValue, CallStep(t, n)
  PROVE  AccountsInv'
<1> DEFINE m == Supply
           first == <<Move(Self, t, n)>> \o (IF FALSE THEN <<NonceMoves(t)>> ELSE << >>)
           c == [self |-> t, creates |-> FALSE, saved |-> world, mark |-> Len(journal)]
<1>1. /\ frames # << >> /\ Runs /\ tx' = tx /\ UNCHANGED supplyVars
      /\ n <= BalanceIn(world, Self)
      /\ world' = Replayed(world, first) /\ frames' = Append(frames, c) /\ journal' = journal \o first
  BY DEF CallStep, Step, EnterCall
<1>2. /\ frames \in Seq(Called) /\ journal \in Seq(Entry) /\ Sound(world, m) /\ m \in Int
      /\ Running(tx, frames, journal, world, m) /\ tx # NoTx /\ Self \in Address /\ ~tx.failed
      /\ tx.from \in Person /\ Self \notin Person /\ m = Supply
  BY <1>1, InCall
<1> HIDE DEF m
<1>3. /\ Sound(Replayed(world, first), m) /\ journal \o first \in Seq(Entry)
      /\ Append(frames, c) \in Seq(Called)
      /\ Running(tx, Append(frames, c), journal \o first, Replayed(world, first), m)
  <2>1. n \in Nat /\ Self # tx.from /\ FALSE \in BOOLEAN
    BY <1>2
  <2> HIDE DEF Self
  <2> QED BY <1>1, <1>2, <2>1, RunningEnters
<1> HIDE DEF Supply, first, c
<1> QED BY <1>1, <1>2, <1>3, RunsInv

LEMMA CreateStepInv ==
  ASSUME AccountsInv, NEW a \in Address, NEW n \in 0 .. MaxValue, CreateStep(a, n)
  PROVE  AccountsInv'
<1> DEFINE m == Supply
           self == Self
           g == NonceMoves(self)
           w == BumpNonce(world, self)
           q == Append(journal, g)
           first == <<Move(self, a, n)>> \o (IF TRUE THEN <<NonceMoves(a)>> ELSE << >>)
           c == [self |-> a, creates |-> TRUE, saved |-> w, mark |-> Len(q)]
<1>1. /\ frames # << >> /\ Runs /\ tx' = tx /\ UNCHANGED supplyVars
      /\ n <= BalanceIn(world, self) /\ a \in Created
      /\ world' = Replayed(w, first) /\ frames' = Append(frames, c) /\ journal' = q \o first
  BY DEF CreateStep, Step, EnterCall
<1>2. /\ frames \in Seq(Called) /\ journal \in Seq(Entry) /\ Sound(world, m) /\ m \in Int
      /\ Running(tx, frames, journal, world, m) /\ tx # NoTx /\ self \in Address /\ ~tx.failed
      /\ tx.from \in Person /\ tx.from \in Address /\ self \notin Person /\ m = Supply
      /\ tx.limit * tx.price \in Nat
  BY <1>1, InCall
<1> HIDE DEF m, self
<1>3. /\ Write(world, g) = w /\ Sound(w, m) /\ Serves(w, world, tx.from)
      /\ BalanceIn(w, self) = BalanceIn(world, self)
  <2>1. tx.from \in Address \ {self}
    BY <1>2
  <2>2. \A p \in Address : BalanceIn(w, p) = BalanceIn(world, p)
    BY <1>2, BumpSound
  <2>3. /\ Write(world, g) = w /\ Sound(w, m)
        /\ \A p \in Address \ {self} : Serves(w, world, p)
    BY <1>2, NonceWrites
  <2> HIDE DEF w, g
  <2> QED BY <1>2, <2>1, <2>2, <2>3
<1>4. g \in Entry
  BY <1>2, EntryType
<1> HIDE DEF w, g
<1>5. Affords(w, tx)
  <2>1. BalanceIn(w, tx.from) \in Int /\ BalanceIn(world, tx.from) \in Int /\ tx.limit * tx.price \in Int
    <3>1. BalanceIn(w, tx.from) \in Int
      BY <1>2, <1>3, GetType DEF Sound
    <3>2. BalanceIn(world, tx.from) \in Int
      BY <1>2, GetType DEF Sound
    <3> QED BY <1>2, <3>1, <3>2
  <2>2. Affords(world, tx)
    BY <1>2 DEF Running
  <2> QED BY <1>3, <2>1, <2>2, ServesAffords
<1>6. q \in Seq(Entry) /\ Running(tx, frames, q, w, m)
  <2>1. Running(tx, frames, q, w, m)
    BY <1>1, <1>2, <1>3, <1>4, <1>5, RunningWrites
  <2> QED BY <1>2, <1>4, <2>1, AppendProperties
<1> HIDE DEF q
<1>7. /\ Sound(Replayed(w, first), m) /\ q \o first \in Seq(Entry)
      /\ Append(frames, c) \in Seq(Called)
      /\ Running(tx, Append(frames, c), q \o first, Replayed(w, first), m)
  <2>1. n \in Nat /\ self # tx.from /\ TRUE \in BOOLEAN /\ n <= BalanceIn(w, self)
    BY <1>1, <1>2, <1>3
  <2> QED BY <1>1, <1>2, <1>3, <1>6, <2>1, RunningEnters
<1> HIDE DEF Supply, first, c
<1> QED BY <1>1, <1>2, <1>7, RunsInv

LEMMA CommitInv == AccountsInv /\ Commit => AccountsInv'
<1> SUFFICES ASSUME AccountsInv, Commit PROVE AccountsInv'
  OBVIOUS
<1> DEFINE m == Supply
           self == Self
           e == Code(self)
           code == IF Last(frames).creates THEN <<e>> ELSE << >>
           d == Front(frames)
<1>1. /\ frames # << >> /\ tx' = tx /\ UNCHANGED supplyVars
      /\ world' = Replayed(world, code) /\ frames' = d /\ journal' = journal \o code
  BY DEF Commit, Closed
<1>2. /\ frames \in Seq(Called) /\ journal \in Seq(Entry) /\ Sound(world, m) /\ m \in Int
      /\ Running(tx, frames, journal, world, m) /\ tx # NoTx /\ self \in Address
      /\ tx.from \in Address /\ m = Supply /\ tx.limit * tx.price \in Nat
      /\ (Last(frames).creates => self \in Created)
  BY <1>1, InCall
<1> HIDE DEF m, self
<1>3. CASE ~Last(frames).creates
  <2>1. world' = world /\ journal' = journal
    <3>1. code = << >> /\ journal \o << >> = journal /\ Replayed(world, << >>) = world
      BY <1>2, <1>3, ReplayEmpty
    <3> HIDE DEF code
    <3> QED BY <1>1, <3>1
  <2>2. d \in Seq(Called) /\ Running(tx, d, journal, world, m)
    BY <1>1, <1>2, RunningReturns
  <2> HIDE DEF Supply, d
  <2> QED BY <1>1, <1>2, <2>1, <2>2, RunsInv
<1>4. CASE Last(frames).creates
  <2> DEFINE v == Write(world, e)
             q == Append(journal, e)
  <2>1. e \in Entry
    BY <1>2, EntryType
  <2>2. Sound(v, m) /\ Serves(v, world, tx.from)
    <3>1. self \in Deployed \cup Created
      BY <1>2, <1>4
    <3> QED BY <1>2, <3>1, CodeWrites
  <2>3. world' = v /\ journal' = q
    <3>1. code = <<e>>
      BY <1>4
    <3>2. Replayed(world, <<e>>) = v /\ journal \o <<e>> = q
      BY <1>2, <2>1, ReplayOne, AppendIsConcat
    <3> HIDE DEF code, v, q
    <3> QED BY <1>1, <3>1, <3>2
  <2> HIDE DEF v, e
  <2>4. Affords(v, tx)
    <3>1. BalanceIn(v, tx.from) \in Int
      BY <1>2, <2>2, GetType DEF Sound
    <3>2. BalanceIn(world, tx.from) \in Int
      BY <1>2, GetType DEF Sound
    <3>3. Affords(world, tx) /\ tx.limit * tx.price \in Int
      BY <1>2 DEF Running
    <3> QED BY <2>2, <3>1, <3>2, <3>3, ServesAffords
  <2>5. q \in Seq(Entry) /\ Running(tx, frames, q, v, m)
    <3>1. Running(tx, frames, q, v, m)
      BY <1>1, <1>2, <2>1, <2>2, <2>4, RunningWrites DEF v
    <3> QED BY <1>2, <2>1, <3>1, AppendProperties
  <2> HIDE DEF q
  <2>6. d \in Seq(Called) /\ Running(tx, d, q, v, m)
    BY <1>1, <1>2, <2>5, RunningReturns
  <2> HIDE DEF Supply, d
  <2> QED BY <1>1, <1>2, <2>2, <2>3, <2>5, <2>6, RunsInv
<1> QED BY <1>3, <1>4

\* The outermost call fails: nothing of it is left.
LEMMA FailedRuns ==
  ASSUME NEW t, NEW q, NEW w, NEW m, Running(t, << >>, q, w, m), w = Start(t)
  PROVE  LET s == [t EXCEPT !.failed = TRUE]
         IN  Running(s, << >>, q, w, m) /\ s # NoTx
<1> DEFINE s == [t EXCEPT !.failed = TRUE]
           W == World(DOMAIN t.entry.accounts, DOMAIN t.entry.storage)
<1>1. /\ t.from \in Person /\ t.caller \in Address /\ t.limit \in Nat /\ t.price \in Nat
      /\ t.native \in BOOLEAN /\ t.value \in Nat /\ t.nonce \in Nat /\ t.entry \in W
      /\ t = [from |-> t.from, caller |-> t.caller, limit |-> t.limit, price |-> t.price,
              native |-> t.native, value |-> t.value, nonce |-> t.nonce, entry |-> t.entry,
              failed |-> t.failed]
  <2> HIDE DEF W
  <2>1. t \in [from : Person, caller : Address, limit : Nat, price : Nat, native : BOOLEAN,
               value : Nat, nonce : Nat, entry : W, failed : BOOLEAN]
    BY DEF Running, Transaction, W
  <2> QED BY <2>1
<1> HIDE DEF W
<1>2. /\ s.from = t.from /\ s.caller = t.caller /\ s.limit = t.limit /\ s.price = t.price
      /\ s.native = t.native /\ s.value = t.value /\ s.nonce = t.nonce /\ s.entry = t.entry
      /\ s \in [from : Person, caller : Address, limit : Nat, price : Nat, native : BOOLEAN,
                value : Nat, nonce : Nat, entry : W, failed : BOOLEAN]
  BY <1>1
<1>3. s \in Transaction(DOMAIN t.entry.accounts, DOMAIN t.entry.storage)
  BY <1>2 DEF Transaction, W
<1> HIDE DEF s
<1>4. Start(s) = Start(t)
  BY <1>2 DEF Start
<1>5. /\ IsWorld(t.entry) /\ t.nonce = NonceIn(t.entry, t.caller)
      /\ t.caller \in {t.from, Authority} /\ (~t.native => t.caller = t.from)
      /\ w = Replayed(Start(t), q) /\ Affords(w, t)
  BY DEF Running
<1>6. Affords(w, s)
  BY <1>2, <1>4, <1>5 DEF Affords
<1>7. Running(s, << >>, q, w, m)
  <2>1. \A i \in 1 .. Len(<< >>) : FALSE
    OBVIOUS
  <2>2. /\ IsWorld(s.entry) /\ s \in Transaction(DOMAIN s.entry.accounts, DOMAIN s.entry.storage)
        /\ s.nonce = NonceIn(s.entry, s.caller)
        /\ s.caller \in {s.from, Authority} /\ (~s.native => s.caller = s.from)
        /\ w = Replayed(Start(s), q) /\ w = Start(s)
    BY <1>2, <1>3, <1>4, <1>5
  <2> QED BY <1>6, <2>1, <2>2 DEF Running
<1>8. s # NoTx
  BY <1>7, StartType
<1> QED BY <1>7, <1>8 DEF s

LEMMA RevertInv == AccountsInv /\ Revert => AccountsInv'
<1> SUFFICES ASSUME AccountsInv, Revert PROVE AccountsInv'
  OBVIOUS
<1> DEFINE m == Supply
           k == Last(frames).mark
           d == Front(frames)
           q == SubSeq(journal, 1, k)
           v == Last(frames).saved
           s == [tx EXCEPT !.failed = TRUE]
<1>1. /\ frames # << >> /\ UNCHANGED supplyVars
      /\ world' = v /\ frames' = d /\ journal' = q
      /\ tx' = IF Len(frames) = 1 THEN s ELSE tx
  BY DEF Revert, Closed
<1>2. /\ frames \in Seq(Called) /\ journal \in Seq(Entry) /\ Sound(world, m) /\ m \in Int
      /\ Running(tx, frames, journal, world, m) /\ tx # NoTx /\ m = Supply
  BY <1>1, InCall
<1> HIDE DEF m
<1>3. /\ q \in Seq(Entry) /\ Sound(v, m) /\ Running(tx, d, q, v, m)
      /\ (Len(frames) = 1 => v = Start(tx) /\ d = << >>)
  BY <1>1, <1>2, RunningReverts
<1>4. d \in Seq(Called)
  BY <1>1, <1>2, RunningReturns
<1> HIDE DEF d, q, v, s, k
<1>5. tx' # NoTx /\ Running(tx', d, q, v, m)
  <2>1. CASE Len(frames) = 1
    <3>1. Running(tx, << >>, q, v, m) /\ v = Start(tx) /\ d = << >>
      BY <1>3, <2>1
    <3>2. Running(s, << >>, q, v, m) /\ s # NoTx
      BY <3>1, FailedRuns DEF s
    <3> QED BY <1>1, <2>1, <3>1, <3>2
  <2>2. CASE Len(frames) # 1
    BY <1>1, <1>2, <1>3, <2>2
  <2> QED BY <2>1, <2>2
<1> HIDE DEF Supply
<1> QED BY <1>1, <1>2, <1>3, <1>4, <1>5, RunsInv

LEMMA CostMonotone ==
  ASSUME NEW a \in Nat, NEW b \in Nat, NEW c \in Nat, a <= b
  PROVE  a * c <= b * c /\ a * c \in Nat
<1> DEFINE d == b - a
<1>1. d \in Nat /\ b = a + d
  OBVIOUS
<1> HIDE DEF d
<1>2. b * c = a * c + d * c /\ d * c \in Nat /\ a * c \in Nat
  BY <1>1
<1> QED BY <1>2

\* What a transaction is charged in the end was always there, so that it is
\* charged whenever it is mined.
LEMMA FinishCharges ==
  ASSUME AccountsInv, tx # NoTx, NEW used \in 0 .. tx.limit - IntrinsicGas, Finish(used)
  PROVE  LET spent == (IntrinsicGas + used) * tx.price
         IN  /\ spent \in Nat /\ spent <= tx.limit * tx.price /\ tx.limit * tx.price \in Nat
             /\ spent <= BalanceIn(Restored, tx.from)
             /\ Renumbered(Restored, world, tx.caller, tx.nonce) /\ Sound(Restored, Supply)
             /\ world' = IF Refuses THEN Restored ELSE BumpNonce(Charged(spent), tx.from)
<1> DEFINE gas == IntrinsicGas + used
           spent == gas * tx.price
           w == Restored
<1>1. /\ Sound(world, Supply) /\ Supply \in Int /\ Running(tx, frames, journal, world, Supply)
  BY SupplyType DEF AccountsInv
<1>2. /\ tx.from \in Address /\ tx.caller \in Address /\ tx.limit \in Nat /\ tx.price \in Nat
      /\ NonceIn(tx.entry, tx.caller) \in Nat
  BY <1>1, StartType
<1>3. tx.nonce \in Nat
  BY <1>1, <1>2 DEF Running
<1>4. Renumbered(w, world, tx.caller, tx.nonce)
  BY <1>1, <1>2, <1>3, SetNonceEffect DEF Restored, Sound
<1> HIDE DEF w
<1>5. Sound(w, Supply)
  <2> HIDE DEF Supply
  <2> QED BY <1>1, <1>2, <1>4, RenumberedSound
<1>6. gas \in Nat /\ gas <= tx.limit
  BY <1>2, AccountsAssumption
<1> HIDE DEF gas
<1>7. spent \in Nat /\ spent <= tx.limit * tx.price /\ tx.limit * tx.price \in Nat
  BY <1>2, <1>6, CostMonotone
<1>8. BalanceIn(w, tx.from) >= tx.limit * tx.price /\ BalanceIn(w, tx.from) \in Int
  <2>1. BalanceIn(w, tx.from) = BalanceIn(world, tx.from)
    BY <1>2, <1>4 DEF Renumbered
  <2>2. BalanceIn(world, tx.from) >= tx.limit * tx.price
    BY <1>1 DEF Running, Affords
  <2> QED BY <1>2, <1>5, <2>1, <2>2, GetType DEF Sound
<1>9. world' = IF Refuses \/ BalanceIn(w, tx.from) < spent THEN w
               ELSE BumpNonce(Charged(spent), tx.from)
  BY DEF Finish, w, gas
<1>10. spent <= BalanceIn(w, tx.from) /\ ~ (BalanceIn(w, tx.from) < spent)
  <2> DEFINE cost == tx.limit * tx.price
  <2>1. cost \in Nat /\ spent \in Nat /\ spent <= cost /\ BalanceIn(w, tx.from) >= cost
        /\ BalanceIn(w, tx.from) \in Int
    BY <1>7, <1>8
  <2> HIDE DEF cost, spent
  <2> QED BY <2>1
<1> HIDE DEF spent
<1>11. world' = IF Refuses THEN w ELSE BumpNonce(Charged(spent), tx.from)
  BY <1>9, <1>10
<1> QED BY <1>4, <1>5, <1>7, <1>10, <1>11 DEF w, spent, gas

\* The charge, and the nonce.
Charge(w, f, n) == BumpNonce(Credit(Debit(w, f, n), Coinbase, n), f)

LEMMA ChargeEffect ==
  ASSUME NEW w, NEW m \in Int, Sound(w, m), NEW f \in Address, NEW n \in Nat, n <= BalanceIn(w, f)
  PROVE  /\ Sound(Charge(w, f, n), m) /\ Charge(w, f, n).code = w.code
         /\ Charge(w, f, n).storage = w.storage
         /\ \A p \in Address :
              /\ BalanceIn(Charge(w, f, n), p) = BalanceIn(w, p) - (IF p = f THEN n ELSE 0)
                                                   + (IF p = Coinbase THEN n ELSE 0)
              /\ NonceIn(Charge(w, f, n), p) = NonceIn(w, p) + (IF p = f THEN 1 ELSE 0)
<1> DEFINE u == Debit(w, f, n)
           v == Credit(u, Coinbase, n)
           z == BumpNonce(v, f)
<1>1. Credited(u, w, f, -n) /\ Sound(u, m - n) /\ IsWorld(w) /\ IsWorld(u)
  <2>1. -n \in Int /\ IsWorld(w)
    BY DEF Sound
  <2>2. Credited(u, w, f, -n) /\ Sound(u, m - n)
    BY <2>1, CreditEffect, DebitSound DEF Debit
  <2> QED BY <2>1, <2>2 DEF Sound
<1> HIDE DEF u
<1>2. Coinbase \in Address /\ n \in Int /\ m - n \in Int
  BY DEF Address
<1>3. Credited(v, u, Coinbase, n) /\ Sound(v, m) /\ IsWorld(v)
  <2>1. Credited(v, u, Coinbase, n)
    BY <1>1, <1>2, CreditEffect
  <2> DEFINE k == m - n
  <2>2. k \in Int /\ k + n = m /\ Sound(u, k)
    BY <1>1, <1>2
  <2> HIDE DEF k
  <2>3. Sound(v, k + n)
    BY <1>2, <2>2, CreditSound
  <2> HIDE DEF v
  <2> QED BY <2>1, <2>2, <2>3 DEF Sound
<1> HIDE DEF v
<1>4. Renumbered(z, v, f, NonceIn(v, f) + 1) /\ Sound(z, m)
  BY <1>3, BumpEffect, BumpSound
<1> HIDE DEF z
<1>5. ASSUME NEW p \in Address
      PROVE  /\ BalanceIn(z, p) = BalanceIn(w, p) - (IF p = f THEN n ELSE 0)
                                    + (IF p = Coinbase THEN n ELSE 0)
             /\ NonceIn(z, p) = NonceIn(w, p) + (IF p = f THEN 1 ELSE 0)
  <2>1. BalanceIn(w, p) \in Int /\ BalanceIn(u, p) \in Int /\ NonceIn(w, p) \in Nat
    BY <1>1, GetType
  <2>2. BalanceIn(u, p) = IF p = f THEN BalanceIn(w, p) + (-n) ELSE BalanceIn(w, p)
    BY <1>1 DEF Credited
  <2>3. BalanceIn(v, p) = IF p = Coinbase THEN BalanceIn(u, p) + n ELSE BalanceIn(u, p)
    BY <1>3 DEF Credited
  <2>4. BalanceIn(z, p) = BalanceIn(v, p)
    BY <1>4 DEF Renumbered
  <2>5. NonceIn(u, p) = NonceIn(w, p) /\ NonceIn(v, p) = NonceIn(u, p)
    BY <1>1, <1>3 DEF Credited
  <2>6. NonceIn(z, p) = IF p = f THEN NonceIn(v, p) + 1 ELSE NonceIn(v, p)
    BY <1>4 DEF Renumbered
  <2>7. BalanceIn(z, p) = BalanceIn(w, p) - (IF p = f THEN n ELSE 0)
                            + (IF p = Coinbase THEN n ELSE 0)
    BY <2>1, <2>2, <2>3, <2>4
  <2>8. NonceIn(z, p) = NonceIn(w, p) + (IF p = f THEN 1 ELSE 0)
    BY <2>1, <2>5, <2>6
  <2> QED BY <2>7, <2>8
<1>6. z.code = w.code /\ z.storage = w.storage
  BY <1>1, <1>3, <1>4 DEF Credited, Renumbered
<1> QED BY <1>4, <1>5, <1>6 DEF Charge, z, v, u

LEMMA FinishInv ==
  ASSUME AccountsInv, tx # NoTx, NEW used \in 0 .. tx.limit - IntrinsicGas, Finish(used)
  PROVE  AccountsInv'
<1> DEFINE spent == (IntrinsicGas + used) * tx.price
           m == Supply
<1>1. /\ spent \in Nat /\ spent <= BalanceIn(Restored, tx.from)
      /\ Sound(Restored, m) /\ m \in Int /\ tx.from \in Address
      /\ world' = IF Refuses THEN Restored ELSE BumpNonce(Charged(spent), tx.from)
  <2>1. Running(tx, frames, journal, world, Supply) /\ Supply \in Int
    BY SupplyType DEF AccountsInv
  <2>2. tx.from \in Address
    BY <2>1, StartType
  <2> QED BY <2>1, <2>2, FinishCharges
<1>2. /\ tx' = NoTx /\ frames' = << >> /\ journal' = << >> /\ UNCHANGED supplyVars
  BY DEF Finish
<1>3. /\ Supply' = m /\ outstanding' \in Int /\ published' \in Int /\ issued' \in Int
  BY <1>2 DEF AccountsInv, supplyVars, Supply
<1> HIDE DEF spent, m
<1>4. Sound(world', m)
  <2>1. CASE Refuses
    BY <1>1, <2>1
  <2>2. CASE ~Refuses
    <3>1. world' = Charge(Restored, tx.from, spent)
      BY <1>1, <2>2 DEF Charged, Charge
    <3> QED BY <1>1, <3>1, ChargeEffect
  <2> QED BY <2>1, <2>2
<1>5. Sound(world', Supply')
  BY <1>3, <1>4
<1>6. << >> \in Seq(Called) /\ << >> \in Seq(Entry)
  OBVIOUS
<1> HIDE DEF Supply
<1> QED BY <1>2, <1>3, <1>5, <1>6 DEF AccountsInv

LEMMA AccountsNextInv == AccountsInv /\ [AccountsNext]_accountsVars => AccountsInv'
<1> SUFFICES ASSUME AccountsInv, [AccountsNext]_accountsVars PROVE AccountsInv'
  OBVIOUS
<1>1. CASE UNCHANGED accountsVars
  <2>1. /\ world' = world /\ outstanding' = outstanding /\ published' = published /\ issued' = issued
        /\ tx' = tx /\ frames' = frames /\ journal' = journal
    BY <1>1 DEF accountsVars, supplyVars, vmVars
  <2>2. Supply' = Supply
    BY <2>1 DEF Supply
  <2> HIDE DEF Supply
  <2> QED BY <2>1, <2>2 DEF AccountsInv
<1>2. ASSUME NEW f \in Person, NEW price \in GasPrices, Publish(f, price) PROVE AccountsInv'
  BY <1>2, PublishInv
<1>3. ASSUME NEW f \in Person, NEW price \in GasPrices, NEW t \in Address, NEW v \in 0 .. MaxValue,
             Pay(f, t, v, price)
      PROVE  AccountsInv'
  BY <1>3, PayInv
<1>4. ASSUME NEW f \in Person, NEW price \in GasPrices, NEW n \in 1 .. MaxValue,
             \/ BurnMoli(f, n, price)
             \/ \E t \in Address : ReturnMoli(f, t, n, price)
      PROVE  AccountsInv'
  BY <1>4, BurnMoliInv, ReturnMoliInv
<1>5. ASSUME NEW f \in Person, NEW price \in GasPrices, NEW limit \in GasLimit,
             NEW t \in Deployed \cup Created, NEW v \in 0 .. MaxValue,
             CallContract(f, t, v, limit, price) \/ Deploy(f, t, v, limit, price)
      PROVE  AccountsInv'
  BY <1>5, BeginsInv
<1>6. ASSUME NEW f \in Person, NEW price \in GasPrices, NEW limit \in GasLimit,
             Claim(f, limit, price) \/ Release(f, limit, price)
      PROVE  AccountsInv'
  <2>1. price \in Nat /\ limit \in Nat /\ AssetContract \in Address /\ f # Authority
    BY AccountsAssumption DEF Address
  <2>2. CASE Claim(f, limit, price)
    <3>1. RunEvm(f, Authority, AssetContract, 0, limit, price, TRUE, FALSE)
      BY <2>2 DEF Claim
    <3> QED BY <2>1, <3>1, RunEvmInv
  <2>3. CASE Release(f, limit, price)
    <3>1. RunEvm(f, f, AssetContract, 0, limit, price, TRUE, FALSE)
      BY <2>3 DEF Release
    <3> QED BY <2>1, <3>1, RunEvmInv
  <2> QED BY <1>6, <2>2, <2>3
<1>7. ASSUME NEW n \in {0, 1}, StoreStep(n) PROVE AccountsInv'
  BY <1>7, StoreStepInv
<1>8. ASSUME NEW t \in Address, NEW n \in 0 .. MaxValue, CallStep(t, n) \/ CreateStep(t, n)
      PROVE  AccountsInv'
  BY <1>8, CallStepInv, CreateStepInv
<1>9. CASE Commit
  BY <1>9, CommitInv
<1>10. CASE Revert
  BY <1>10, RevertInv
<1>11. CASE MineBlock
  BY <1>11, MineBlockInv
<1>12. ASSUME tx # NoTx, NEW used \in 0 .. tx.limit - IntrinsicGas, Finish(used) PROVE AccountsInv'
  BY <1>12, FinishInv
<1> QED BY <1>1, <1>2, <1>3, <1>4, <1>5, <1>6, <1>7, <1>8, <1>9, <1>10, <1>11, <1>12 DEF AccountsNext

LEMMA AccountsInvariance == AccountsSpec => []AccountsInv
<1>1. AccountsInit => AccountsInv
  BY AccountsInitInv
<1>2. AccountsInv /\ [AccountsNext]_accountsVars => AccountsInv'
  BY AccountsNextInv
<1> QED BY <1>1, <1>2, PTL DEF AccountsSpec

-----------------------------------------------------------------------------
(* How a transaction ends                                                  *)

\* In the end the state is that before the transaction, but for what the calls
\* wrote; the nonces that runCall moved are as they were.
LEMMA EndsStep ==
  ASSUME AccountsInv, AccountsNext, tx # NoTx, frames = << >>, tx' = NoTx
  PROVE  LET f == tx.from
             before == tx.entry
             fee == BalanceIn(world', Coinbase) - BalanceIn(world, Coinbase)
             charged == Credit(Debit(BumpNonce(before, f), f, fee), Coinbase, fee)
         IN  \/ RootLines(world') = RootLines(before) /\ (tx.failed => tx.native)
             \/ /\ tx.failed => ~tx.native /\ RootLines(world') = RootLines(charged)
                /\ NonceIn(world', f) = NonceIn(before, f) + 1
                /\ fee <= tx.limit * tx.price
<1> DEFINE f == tx.from
           before == tx.entry
           m == Supply
           w == Restored
           fee == BalanceIn(world', Coinbase) - BalanceIn(world, Coinbase)
           charged == Credit(Debit(BumpNonce(before, f), f, fee), Coinbase, fee)
<1>1. PICK used \in 0 .. tx.limit - IntrinsicGas : Finish(used)
  <2>1. ASSUME NEW t \in Address, NEW n \in 0 .. MaxValue, CallStep(t, n) \/ CreateStep(t, n) PROVE FALSE
    BY <2>1 DEF CallStep, CreateStep, Step
  <2>2. ASSUME NEW n \in {0, 1}, StoreStep(n) PROVE FALSE
    BY <2>2 DEF StoreStep, Step
  <2>3. ~Commit /\ ~Revert /\ ~MineBlock
    BY DEF Commit, Revert, MineBlock
  <2>4. ASSUME NEW g \in Person, NEW price \in GasPrices PROVE ~Publish(g, price)
    BY DEF Publish, Native
  <2>5. ASSUME NEW g \in Person, NEW price \in GasPrices, NEW t, NEW n
        PROVE  ~Pay(g, t, n, price) /\ ~BurnMoli(g, n, price) /\ ~ReturnMoli(g, t, n, price)
    BY DEF Pay, BurnMoli, ReturnMoli, Native
  <2>6. ASSUME NEW g \in Person, NEW price \in GasPrices, NEW t, NEW n, NEW limit
        PROVE  /\ ~CallContract(g, t, n, limit, price) /\ ~Deploy(g, t, n, limit, price)
               /\ ~Claim(g, limit, price) /\ ~Release(g, limit, price)
    BY DEF CallContract, Deploy, Claim, Release, RunEvm
  <2> QED BY <2>1, <2>2, <2>3, <2>4, <2>5, <2>6 DEF AccountsNext
<1> DEFINE spent == (IntrinsicGas + used) * tx.price
<1>2. /\ Sound(world, m) /\ m \in Int /\ Running(tx, frames, journal, world, m)
  BY SupplyType DEF AccountsInv
<1>3. /\ f \in Address /\ tx.caller \in Address /\ IsWorld(before) /\ Coinbase \in Address
      /\ NonceIn(before, tx.caller) \in Nat /\ tx.failed \in BOOLEAN /\ tx.native \in BOOLEAN
      /\ Renumbered(Start(tx), before, tx.caller, NonceIn(before, tx.caller) + 1)
  BY <1>2, StartType DEF Address
<1>4. /\ spent \in Nat /\ spent <= tx.limit * tx.price /\ tx.limit * tx.price \in Nat
      /\ spent <= BalanceIn(w, f)
      /\ Renumbered(w, world, tx.caller, tx.nonce) /\ Sound(w, m)
      /\ world' = IF Refuses THEN w ELSE BumpNonce(Charged(spent), f)
  BY <1>1, FinishCharges
<1>5. tx.nonce = NonceIn(before, tx.caller)
  BY <1>2 DEF Running
<1> HIDE DEF m, spent
\* A failed call left what was before it.
<1>6. ASSUME tx.failed
      PROVE  /\ w.code = before.code /\ w.storage = before.storage /\ IsWorld(w)
             /\ \A a \in Address : /\ BalanceIn(w, a) = BalanceIn(before, a)
                                   /\ NonceIn(w, a) = NonceIn(before, a)
  <2>1. world = Start(tx)
    BY <1>2, <1>6 DEF Running
  <2> HIDE DEF w
  <2>2. w.code = before.code /\ w.storage = before.storage /\ IsWorld(w)
    BY <1>3, <1>4, <2>1 DEF Renumbered
  <2>3. ASSUME NEW a \in Address
        PROVE  BalanceIn(w, a) = BalanceIn(before, a) /\ NonceIn(w, a) = NonceIn(before, a)
    BY <1>3, <1>4, <1>5, <2>1 DEF Renumbered
  <2> QED BY <2>2, <2>3
<1>7. CASE Refuses
  <2>1. tx.failed /\ tx.native /\ world' = w
    BY <1>4, <1>7 DEF Refuses
  <2> HIDE DEF w
  <2>2. RootLines(w) = RootLines(before)
    BY <1>3, <1>6, <2>1, SameRoot
  <2> QED BY <2>1, <2>2
<1>8. CASE ~Refuses
  <2> DEFINE v == Charge(w, f, spent)
  <2>1. world' = v
    BY <1>4, <1>8 DEF Charged, Charge
  <2> HIDE DEF w
  <2>2. /\ Sound(v, m) /\ v.code = w.code /\ v.storage = w.storage
        /\ \A p \in Address :
              /\ BalanceIn(v, p) = BalanceIn(w, p) - (IF p = f THEN spent ELSE 0)
                                     + (IF p = Coinbase THEN spent ELSE 0)
              /\ NonceIn(v, p) = NonceIn(w, p) + (IF p = f THEN 1 ELSE 0)
    BY <1>2, <1>3, <1>4, ChargeEffect
  <2> HIDE DEF v
  <2>3. fee = IF f = Coinbase THEN 0 ELSE spent
    <3>1. BalanceIn(w, Coinbase) = BalanceIn(world, Coinbase) /\ BalanceIn(world, Coinbase) \in Int
      BY <1>2, <1>3, <1>4, GetType DEF Renumbered, Sound
    <3>2. BalanceIn(v, Coinbase) = BalanceIn(w, Coinbase) - (IF Coinbase = f THEN spent ELSE 0) + spent
      BY <1>3, <2>2
    <3> QED BY <1>4, <2>1, <3>1, <3>2
  <2>4. fee <= tx.limit * tx.price /\ fee \in Nat
    <3> DEFINE cost == tx.limit * tx.price
    <3>1. cost \in Nat /\ spent \in Nat /\ spent <= cost
      BY <1>4
    <3> HIDE DEF cost, fee
    <3>2. fee <= cost /\ fee \in Nat
      BY <2>3, <3>1
    <3> QED BY <3>2 DEF cost
  <2>5. NonceIn(world', f) = NonceIn(before, f) + 1
    <3>1. NonceIn(w, f) = NonceIn(before, f)
      <4>1. NonceIn(world, f) = NonceIn(Start(tx), f)
        BY <1>2 DEF Running, Affords
      <4>2. CASE f = tx.caller
        BY <1>3, <1>4, <1>5, <4>2 DEF Renumbered
      <4>3. CASE f # tx.caller
        BY <1>3, <1>4, <4>1, <4>3 DEF Renumbered
      <4> QED BY <4>2, <4>3
    <3> QED BY <1>3, <2>1, <2>2, <3>1
  <2>6. ASSUME tx.failed PROVE ~tx.native /\ RootLines(world') = RootLines(charged)
    <3>1. ~tx.native
      BY <1>8, <2>6 DEF Refuses
    <3> DEFINE b == BumpNonce(before, f)
               u == Debit(b, f, fee)
               c == Credit(u, Coinbase, fee)
    <3>2. Renumbered(b, before, f, NonceIn(before, f) + 1) /\ IsWorld(b)
      BY <1>3, BumpEffect DEF Renumbered
    <3> HIDE DEF b, fee
    <3>3. Credited(u, b, f, -fee) /\ IsWorld(u)
      <4>1. -fee \in Int
        BY <2>4
      <4>2. Credited(u, b, f, -fee)
        BY <1>3, <3>2, <4>1, CreditEffect DEF Debit
      <4> QED BY <4>2 DEF Credited
    <3> HIDE DEF u
    <3>4. Credited(c, u, Coinbase, fee) /\ IsWorld(c)
      <4>1. fee \in Int
        BY <2>4
      <4>2. Credited(c, u, Coinbase, fee)
        BY <1>3, <3>3, <4>1, CreditEffect
      <4> QED BY <4>2 DEF Credited
    <3> HIDE DEF c
    <3>5. /\ w.code = before.code /\ w.storage = before.storage
          /\ \A a \in Address : /\ BalanceIn(w, a) = BalanceIn(before, a)
                                /\ NonceIn(w, a) = NonceIn(before, a)
      BY <1>6, <2>6
    <3>6. v.code = c.code /\ v.storage = c.storage
      BY <2>2, <3>2, <3>3, <3>4, <3>5 DEF Credited, Renumbered
    <3>7. ASSUME NEW a \in Address
          PROVE  BalanceIn(v, a) = BalanceIn(c, a) /\ NonceIn(v, a) = NonceIn(c, a)
      <4>1. BalanceIn(before, a) \in Int /\ NonceIn(before, a) \in Nat
        BY <1>3, GetType
      <4>2. /\ BalanceIn(v, a) = BalanceIn(before, a) - (IF a = f THEN spent ELSE 0)
                                   + (IF a = Coinbase THEN spent ELSE 0)
            /\ NonceIn(v, a) = NonceIn(before, a) + (IF a = f THEN 1 ELSE 0)
        BY <2>2, <3>5
      <4>3. /\ BalanceIn(b, a) = BalanceIn(before, a)
            /\ NonceIn(b, a) = IF a = f THEN NonceIn(before, a) + 1 ELSE NonceIn(before, a)
        BY <3>2 DEF Renumbered
      <4>4. /\ BalanceIn(u, a) = IF a = f THEN BalanceIn(b, a) + (-fee) ELSE BalanceIn(b, a)
            /\ NonceIn(u, a) = NonceIn(b, a)
        BY <3>3 DEF Credited
      <4>5. /\ BalanceIn(c, a) = IF a = Coinbase THEN BalanceIn(u, a) + fee ELSE BalanceIn(u, a)
            /\ NonceIn(c, a) = NonceIn(u, a)
        BY <3>4 DEF Credited
      <4>6. NonceIn(v, a) = NonceIn(c, a)
        BY <4>1, <4>2, <4>3, <4>4, <4>5
      <4>7. BalanceIn(v, a) = BalanceIn(c, a)
        <5>1. CASE f = Coinbase
          BY <1>4, <2>3, <4>1, <4>2, <4>3, <4>4, <4>5, <5>1
        <5>2. CASE f # Coinbase
          BY <1>4, <2>3, <4>1, <4>2, <4>3, <4>4, <4>5, <5>2
        <5> QED BY <5>1, <5>2
      <4> QED BY <4>6, <4>7
    <3>8. RootLines(v) = RootLines(c)
      BY <2>2, <3>4, <3>6, <3>7, SameRoot DEF Sound
    <3> QED BY <2>1, <3>1, <3>8 DEF c, u, b, fee
  <2>7. tx.failed => ~tx.native /\ RootLines(world') = RootLines(charged)
    BY <2>6
  <2> QED BY <2>4, <2>5, <2>7
<1> QED BY <1>7, <1>8

\* Nothing is lost and nothing made: what is in accounts and what was burned and
\* not returned or destroyed by publishing are what there was and what was mined,
\* at every step of every call (state.js, evm.js).
THEOREM MoliTheorem == AccountsSpec => []MoliAccountedFor
<1>1. AccountsInv => MoliAccountedFor
  <2> SUFFICES ASSUME AccountsInv PROVE MoliAccountedFor
    OBVIOUS
  <2>1. Sound(world, Supply) /\ outstanding \in Int /\ published \in Int /\ issued \in Int
    BY DEF AccountsInv
  <2>2. Total(world) = SumFunctionOnSet(Funds, Person) + issued - outstanding - published
        /\ \A a \in Address : BalanceIn(world, a) >= 0
    BY <2>1 DEF Sound, Supply
  <2>3. Total(world) + outstanding + published = SumFunctionOnSet(Funds, Person) + issued
    BY <2>1, <2>2, FundsType
  <2> QED BY <2>2, <2>3 DEF MoliAccountedFor, Total
<1> QED BY <1>1, AccountsInvariance, PTL

\* Whatever calls nest in whatever calls, and whichever of them are reverted, the
\* state is what the others wrote (evmstate.js checkpoint, commit and revert).
THEOREM KeptCallsTheorem == AccountsSpec => []OnlyKeptCallsCount
<1>1. AccountsInv => OnlyKeptCallsCount
  BY DEF AccountsInv, Running, Start, OnlyKeptCallsCount
<1> QED BY <1>1, AccountsInvariance, PTL

\* A transaction is refused without a trace, or charged, or applied; and what it is
\* charged was there since it began (state.js applyTransaction, evm.js).
THEOREM AppliedTheorem == AccountsSpec => AppliedOrUntouched
<1>1. ASSUME AccountsInv, [AccountsNext]_accountsVars, tx # NoTx, frames = << >>, tx' = NoTx
      PROVE  AccountsNext
  BY <1>1 DEF accountsVars, vmVars
<1>2. AccountsInv /\ [AccountsNext]_accountsVars
        => [tx # NoTx /\ frames = << >> /\ tx' = NoTx =>
              LET f == tx.from
                  before == tx.entry
                  fee == BalanceIn(world', Coinbase) - BalanceIn(world, Coinbase)
                  charged == Credit(Debit(BumpNonce(before, f), f, fee), Coinbase, fee)
              IN  \/ RootLines(world') = RootLines(before) /\ (tx.failed => tx.native)
                  \/ /\ tx.failed => ~tx.native /\ RootLines(world') = RootLines(charged)
                     /\ NonceIn(world', f) = NonceIn(before, f) + 1
                     /\ fee <= tx.limit * tx.price]_accountsVars
  BY <1>1, EndsStep
<1> QED BY <1>2, AccountsInvariance, PTL DEF AccountsSpec, AppliedOrUntouched
=============================================================================
