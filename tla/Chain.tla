------------------------------- MODULE Chain -------------------------------
(***************************************************************************)
(* src/chain.js: the block tree of one node, its fork choice, its orphan   *)
(* pool, its transaction index and mempool, and the file it restarts from. *)
(*                                                                         *)
(* processBlock is asynchronous: it awaits verifyAgainstParent, setHead    *)
(* and the processing of each orphan it connects, and the mining loop, the *)
(* RPC handlers and the sync loop call it on the same Chain object.  A     *)
(* Task is one such caller.  Its stack holds one frame per nested call of  *)
(* processBlock, and each action below is one stretch of code between two  *)
(* awaits (or part of one: more interleavings than the event loop has,     *)
(* never fewer).                                                           *)
(***************************************************************************)
EXTENDS BlockTree, AnchorStore, Mempool

CONSTANTS
  Task,                \* concurrent callers of processBlock
  Persisting,          \* the callers that pass persist: true
  MaxReorgDepth,
  MaxOrphans,
  MaxResolutionDepth,  \* MAX_ORPHAN_RESOLUTION_DEPTH
  MaxCrashes           \* bound: how often the process may die

ASSUME ChainAssumption ==
  /\ Persisting \subseteq Task
  /\ MaxReorgDepth \in Nat
  /\ MaxCrashes \in Nat

VARIABLES
  known,      \* byHash: the verified blocks
  canonical,  \* canonical[h + 1] is the canonical block of height h
  orphans,    \* orphans[p]: blocks waiting for p, in order of arrival
  txIndex,    \* transaction -> height of the canonical block that has it
  receipts,   \* transaction -> that block
  mempool,    \* pending transactions
  stack,      \* stack[t]: the nested processBlock calls of t, the last on top
  unsaved,    \* sync callers that have accepted blocks and not written them
  phase,      \* "running", or "loading" while load() replays the file
  replay,     \* blocks of the file that load() has still to replay
  stored,     \* the file: its blocks and its head
  refused,    \* history: blocks whose reorganisation was refused
  crashes     \* bound: restarts so far

treeVars == <<known, canonical, refused>>
poolVars == <<txIndex, receipts, mempool>>
callVars == <<orphans, stack, unsaved>>
diskVars == <<phase, replay, stored, crashes>>
vars == <<treeVars, poolVars, callVars, diskVars, anchorVars>>

Frame == [block : Block, stage : {"verify", "resolve", "children"},
          todo : Seq(Block)]

HeadBlock == canonical[Len(canonical)]
Tip == Len(canonical) - 1  \* the height of the head

\* The file as persist() writes it for a tree k and a canonical chain c.
File(k, c) == [blocks |-> k \ {Genesis}, head |-> c[Len(c)]]

TypeOK ==
  /\ known \subseteq Block
  /\ canonical \in Seq(Block) \ {<<>>}
  /\ orphans \in [Block -> Seq(Block)]
  /\ DOMAIN txIndex \subseteq Tx
  /\ \A tx \in DOMAIN txIndex : txIndex[tx] \in Nat
  /\ DOMAIN receipts \subseteq Tx
  /\ \A tx \in DOMAIN receipts : receipts[tx] \in Block
  /\ mempool \subseteq Tx
  /\ stack \in [Task -> Seq(Frame)]
  /\ unsaved \subseteq Task \ Persisting
  /\ phase \in {"running", "loading"}
  /\ replay \subseteq Block
  /\ stored \in [blocks : SUBSET Block, head : Block]
  /\ refused \subseteq Block
  /\ crashes \in 0 .. MaxCrashes
  /\ AnchorTypeOK

Init ==
  /\ known = {Genesis}
  /\ canonical = <<Genesis>>
  /\ orphans = [b \in Block |-> <<>>]
  /\ txIndex = [tx \in {} |-> 0]
  /\ receipts = [tx \in {} |-> Genesis]
  /\ mempool = {}
  /\ stack = [t \in Task |-> <<>>]
  /\ unsaved = {}
  /\ phase = "running"
  /\ replay = {}
  /\ stored = [blocks |-> {}, head |-> Genesis]
  /\ refused = {}
  /\ crashes = 0
  /\ AnchorInit

-----------------------------------------------------------------------------
(* Fork choice *)

IsCanonical(b) == Height[b] <= Tip /\ canonical[Height[b] + 1] = b

\* pathToCanonical: where the walk back from b first meets the canonical
\* chain, and the blocks it passed on the way.
ForkPoint(b) ==
  CHOOSE a \in Ancestors[b] :
    /\ IsCanonical(a)
    /\ \A c \in Ancestors[b] : IsCanonical(c) => Height[c] <= Height[a]

Branch(b) == {a \in Ancestors[b] : Height[a] > Height[ForkPoint(b)]}

\* Mutants: the longest chain wins; the latest wins a tie.
Longer(b) == Height[b] > Tip
HeavierOrTied(b) == Work[b] >= Work[HeadBlock]

\* On a tie the incumbent stays.
Heavier(b) == Work[b] > Work[HeadBlock]

\* Mutant: the anchored floor is not asked.
RefusesDeep(b) == Tip - Height[ForkPoint(b)] > MaxReorgDepth

\* The anchored floor first, then the depth bound.
RefusesReorg(b) ==
  \/ ~PermitsReorgFrom(canonical, Height[ForkPoint(b)])
  \/ Tip - Height[ForkPoint(b)] > MaxReorgDepth

\* The canonical chain once b is its head: the old one up to the fork, then
\* the branch.
ChainTo(b) ==
  [i \in 1 .. Height[b] + 1 |->
     IF i <= Height[ForkPoint(b)] + 1
       THEN canonical[i]
       ELSE CHOOSE a \in Branch(b) : Height[a] = i - 1]

\* Blocks unwound when b becomes the head.
Reverted(b) == {canonical[i] : i \in Height[ForkPoint(b)] + 2 .. Len(canonical)}

TxsOf(B) == UNION {Txs[b] : b \in B}

Reindexed(b, pool) ==
  LET applied == TxsOf(Branch(b))
      all == (DOMAIN txIndex \ TxsOf(Reverted(b))) \cup applied
      carrier(tx) == CHOOSE a \in Branch(b) : tx \in Txs[a]
  IN  /\ canonical' = ChainTo(b)
      /\ txIndex' = [tx \in all |->
                       IF tx \in applied THEN Height[carrier(tx)] ELSE txIndex[tx]]
      /\ receipts' = [tx \in all |->
                        IF tx \in applied THEN carrier(tx) ELSE receipts[tx]]
      /\ mempool' = pool

\* Mutant: what was unwound is forgotten.
SetHeadForgetting(b) == Reindexed(b, mempool \ TxsOf(Branch(b)))

\* setHead: unwind the abandoned suffix, apply the branch (its transactions
\* leave the mempool), return to the mempool what the branch does not carry.
SetHead(b) ==
  LET applied == TxsOf(Branch(b))
      dropped == TxsOf(Reverted(b))
      kept    == DOMAIN txIndex \ dropped
      carrier(tx) == CHOOSE a \in Branch(b) : tx \in Txs[a]
  IN  /\ canonical' = ChainTo(b)
      /\ txIndex' = [tx \in kept \cup applied |->
                       IF tx \in applied THEN Height[carrier(tx)] ELSE txIndex[tx]]
      /\ receipts' = [tx \in (DOMAIN receipts \ dropped) \cup applied |->
                        IF tx \in applied THEN carrier(tx) ELSE receipts[tx]]
      /\ mempool' = (mempool \cup dropped) \ applied

\* Fork choice for a block that has just entered the tree.
Adopt(b) == Heavier(b) /\ ~RefusesReorg(b) /\ SetHead(b) /\ UNCHANGED refused

KeepLighter(b) == ~Heavier(b) /\ UNCHANGED <<canonical, poolVars, refused>>

KeepRefused(b) ==
  /\ Heavier(b) /\ RefusesReorg(b)
  /\ refused' = refused \cup {b}
  /\ UNCHANGED <<canonical, poolVars>>

-----------------------------------------------------------------------------
(* processBlock *)

Pop(s) == SubSeq(s, 1, Len(s) - 1)
Top(t) == stack[t][Len(stack[t])]
InStage(t, stage) == phase = "running" /\ stack[t] # <<>> /\ Top(t).stage = stage

OrphanCount == MapThenSumSet(LAMBDA p : Len(orphans[p]), Block)

\* A call for b on top of the calls s of t: verification starts if the parent
\* is known, else b waits for it if there is room.  A known block, and an
\* orphan for which there is no room, leave nothing behind.
Enter(t, s, b) ==
  \/ /\ b \notin known /\ Parent[b] \in known
     /\ stack' = [stack EXCEPT
                    ![t] = Append(s, [block |-> b, stage |-> "verify", todo |-> <<>>])]
     /\ UNCHANGED orphans
  \/ /\ b \notin known /\ Parent[b] \notin known /\ OrphanCount < MaxOrphans
     /\ orphans' = [orphans EXCEPT ![Parent[b]] = Append(@, b)]
     /\ stack' = [stack EXCEPT ![t] = s]
  \/ /\ b \in known
     /\ stack' = [stack EXCEPT ![t] = s]
     /\ UNCHANGED orphans

\* The outermost call returns having accepted its block: it writes the file,
\* unless its caller is the sync loop, which writes once per batch.
Accepted(t) ==
  IF Len(stack[t]) > 1 THEN UNCHANGED <<stored, unsaved>>
  ELSE IF t \in Persisting
    THEN stored' = File(known', canonical') /\ UNCHANGED unsaved
    ELSE unsaved' = unsaved \cup {t} /\ UNCHANGED stored

\* A block arrives: mined here, pushed by a peer or fetched by the sync loop.
Receive(t, b) ==
  /\ phase = "running" /\ stack[t] = <<>> /\ b # Genesis
  /\ Enter(t, <<>>, b)
  /\ UNCHANGED <<treeVars, poolVars, unsaved, diskVars, anchorVars>>

\* Verification succeeded: the block enters the tree and fork choice runs.  A
\* refused reorganisation returns here, before any orphan is looked at.
Verify(t) ==
  /\ InStage(t, "verify")
  /\ LET b == Top(t).block IN
     /\ b \in Valid
     /\ known' = known \cup {b}
     /\ \/ /\ Adopt(b) \/ KeepLighter(b)
           /\ stack' = [stack EXCEPT ![t][Len(stack[t])].stage = "resolve"]
           /\ UNCHANGED <<stored, unsaved>>
        \/ /\ KeepRefused(b)
           /\ stack' = [stack EXCEPT ![t] = Pop(@)]
           /\ Accepted(t)
  /\ UNCHANGED <<orphans, phase, replay, crashes, anchorVars>>

\* Verification failed: the exception leaves every nested call, so orphans
\* still to be processed are dropped and nothing is written; a sync loop
\* gives up its page.
Throw(t) ==
  /\ InStage(t, "verify") /\ Top(t).block \notin Valid
  /\ stack' = [stack EXCEPT ![t] = <<>>]
  /\ unsaved' = unsaved \ {t}
  /\ UNCHANGED <<treeVars, poolVars, orphans, diskVars, anchorVars>>

\* Mutant: the whole list is dropped and its first block processed.
ResolveFirst(t) ==
  /\ InStage(t, "resolve")
  /\ LET b == Top(t).block
     IN  /\ stack' = [stack EXCEPT ![t][Len(stack[t])] =
                        [block |-> b, stage |-> "children",
                         todo |-> IF orphans[b] = <<>> THEN <<>> ELSE <<orphans[b][1]>>]]
         /\ orphans' = [orphans EXCEPT ![b] = <<>>]
  /\ UNCHANGED <<treeVars, poolVars, unsaved, diskVars, anchorVars>>

\* Take the orphans that waited for this block, unless nested too deep.
Resolve(t) ==
  /\ InStage(t, "resolve")
  /\ LET b == Top(t).block
         taken == IF Len(stack[t]) - 1 < MaxResolutionDepth THEN orphans[b] ELSE <<>>
     IN  /\ stack' = [stack EXCEPT ![t][Len(stack[t])] =
                        [block |-> b, stage |-> "children", todo |-> taken]]
         /\ orphans' = IF taken = <<>> THEN orphans ELSE [orphans EXCEPT ![b] = <<>>]
  /\ UNCHANGED <<treeVars, poolVars, unsaved, diskVars, anchorVars>>

NextChild(t) ==
  /\ InStage(t, "children") /\ Top(t).todo # <<>>
  /\ Enter(t, Append(Pop(stack[t]), [Top(t) EXCEPT !.todo = Tail(@)]),
           Top(t).todo[1])
  /\ UNCHANGED <<treeVars, poolVars, unsaved, diskVars, anchorVars>>

Return(t) ==
  /\ InStage(t, "children") /\ Top(t).todo = <<>>
  /\ stack' = [stack EXCEPT ![t] = Pop(@)]
  /\ UNCHANGED <<treeVars, poolVars, orphans, phase, replay, crashes, anchorVars>>
  /\ Accepted(t)

\* The sync loop writes the blocks of a batch.
SaveBatch(t) ==
  /\ phase = "running" /\ t \in unsaved /\ stack[t] = <<>>
  /\ stored' = File(known, canonical)
  /\ unsaved' = unsaved \ {t}
  /\ UNCHANGED <<treeVars, poolVars, orphans, stack, phase, replay, crashes, anchorVars>>

-----------------------------------------------------------------------------
(* Mempool *)

\* The account nonce in the head state.
NonceOf(s) == Cardinality(FromSender(TxsOf(Ancestors[HeadBlock]), s))

SubmitRaw(tx) ==
  /\ phase = "running"
  /\ tx \notin DOMAIN txIndex
  /\ Admissible(mempool, tx, NonceOf(Sender[tx]))
  /\ mempool' \in Admitted(mempool, tx)
  /\ UNCHANGED <<treeVars, txIndex, receipts, callVars, diskVars, anchorVars>>

-----------------------------------------------------------------------------
(* Restart *)

\* The process dies, wherever it was; init() starts again from genesis, and
\* everything but the file is gone.
Crash ==
  /\ crashes < MaxCrashes
  /\ crashes' = crashes + 1
  /\ known' = {Genesis}
  /\ canonical' = <<Genesis>>
  /\ orphans' = [b \in Block |-> <<>>]
  /\ txIndex' = [tx \in {} |-> 0]
  /\ receipts' = [tx \in {} |-> Genesis]
  /\ mempool' = {}
  /\ stack' = [t \in Task |-> <<>>]
  /\ unsaved' = {}
  /\ phase' = "loading"
  /\ replay' = stored.blocks
  /\ ethHead' = 0 /\ byHeight' = [h \in {} |-> {}]
  /\ equivocations' = {} /\ seen' = {}
  /\ UNCHANGED <<stored, refused>>

\* load() replays one block, in the order of the file and without writing.
\* The file is closed under parents, so no block waits for one.
Replay ==
  /\ phase = "loading"
  /\ \E b \in replay :
       /\ \A c \in replay \ {b} : WrittenBefore(b, c)
       /\ replay' = replay \ {b}
       /\ known' = known \cup {b}
       /\ Adopt(b) \/ KeepLighter(b) \/ KeepRefused(b)
  /\ UNCHANGED <<callVars, phase, stored, crashes, anchorVars>>

\* load() has returned; the anchor feed, RPC, sync and mining start.
Ready ==
  /\ phase = "loading" /\ replay = {}
  /\ phase' = "running"
  /\ UNCHANGED <<treeVars, poolVars, callVars, replay, stored, crashes, anchorVars>>

\* A poll of the anchor feed, one anchor at a time.
PollAnchors ==
  /\ phase = "running"
  /\ AnchorNext
  /\ UNCHANGED <<treeVars, poolVars, callVars, diskVars>>

Call(t) ==
  \/ \E b \in Block : Receive(t, b)
  \/ Verify(t) \/ Throw(t) \/ Resolve(t) \/ NextChild(t) \/ Return(t)
  \/ SaveBatch(t)

Next ==
  \/ \E t \in Task : Call(t)
  \/ \E tx \in Tx : SubmitRaw(tx)
  \/ PollAnchors
  \/ Crash \/ Replay \/ Ready

Spec == Init /\ [][Next]_vars

\* Promises settle, so a call in progress goes on; and the sync loop walks the
\* peer's blocks again on every tick, so it delivers each again and again.
FairSpec ==
  /\ Spec
  /\ \A t \in Task :
       WF_vars(Verify(t) \/ Throw(t) \/ Resolve(t) \/ NextChild(t) \/ Return(t))
  /\ \A t \in Task \ Persisting : \A b \in Block : SF_vars(Receive(t, b))
  /\ WF_vars(Replay) /\ WF_vars(Ready)

-----------------------------------------------------------------------------
(* Properties *)

\* The canonical chain is a path of verified blocks from genesis, each at its
\* own height: what setHead splices together is one history (chain.js 647-717).
CanonicalChain ==
  /\ canonical[1] = Genesis
  /\ \A i \in 1 .. Len(canonical) :
       /\ canonical[i] \in known
       /\ Height[canonical[i]] = i - 1
       /\ i > 1 => Parent[canonical[i]] = canonical[i - 1]

\* Whatever the order in which concurrent callers verify and connect blocks,
\* a known block heavier than the head is one whose reorganisation was refused
\* (README "the canonical chain is the heaviest path", chain.js 560-609).
HeaviestOrRefused ==
  \A b \in known : Work[b] <= Work[HeadBlock] \/ b \in refused

\* The file never names a block without its parent, so load() meets no orphan
\* (chain.js 736-750): what a crash leaves behind can always be replayed.
FileIsClosed ==
  \A b \in stored.blocks : Parent[b] \in stored.blocks \cup {Genesis}

\* While the node runs, and while it loads, the head only ever moves to a
\* strictly heavier block; only a restart may lower it (chain.js 564).
HeadOnlyGetsHeavier ==
  [][canonical' # canonical /\ crashes' = crashes
       => Work[HeadBlock'] > Work[HeadBlock]]_vars

UnwindsInBounds ==
  crashes' = crashes =>
    \A i \in 1 .. Len(canonical) :
      \/ i <= Len(canonical') /\ canonical'[i] = canonical[i]
      \/ /\ i > Len(canonical) - MaxReorgDepth
         /\ \A h \in Binding(canonical) : i > h + 1
\* One step never unwinds more than MaxReorgDepth canonical blocks, and never
\* one at or below the anchored height (chain.js 579-609, anchor.js 320-333).
ReorgIsBounded == [][UnwindsInBounds]_vars

RefusesNoExtension == \A b \in refused' \ refused : Parent[b] # HeadBlock
\* An anchor never stands in the way of a block that extends the head: a floor
\* above the head would halt the node (anchor.js 258-273).
ExtensionNeverRefused == [][RefusesNoExtension]_vars

Redated(h) == h \in DOMAIN byHeight' /\ byHeight'[h].ethBlock > byHeight[h].ethBlock
KeepsFloor ==
  FinalizedHeight(canonical)' < FinalizedHeight(canonical)
    => \/ ethHead' < ethHead
       \/ equivocations' # equivocations
       \/ crashes' # crashes
       \/ \E h \in DOMAIN byHeight : Redated(h)
\* The settled height never falls because the chain moved or a new anchor came:
\* only Ethereum going backwards, a publisher's fault, or the same anchor
\* recorded again in a later Ethereum block can lower it (README "at any depth
\* and against any amount of work", anchor.js 193-231, anchorfeed.js 57-64).
AnchoredFloorHolds == [][KeepsFloor]_vars

KeepsTxs == crashes' = crashes => DOMAIN txIndex \subseteq DOMAIN txIndex' \cup mempool'
\* A transaction a reorganisation drops is pending again, or carried by the
\* new branch; none disappears (README "go back to the mempool").
DroppedTxIsPending == [][KeepsTxs]_vars

\* A block once written is written for good: no write, least of all one made
\* while the file is being replayed, shortens it (chain.js 764-773).
FileOnlyGrows == [][stored.blocks \subseteq stored'.blocks]_vars

\* No orphan is left waiting for a block the node has: once no call is in
\* progress, whatever waited for a known block has been connected (README "held
\* as an orphan and connected when the parent arrives", chain.js 615-619).
Quiet == phase = "running" /\ \A t \in Task : stack[t] = <<>>

Waiting(b) ==
  \/ b \in Range(orphans[Parent[b]])
  \/ \E t \in Task : \E i \in 1 .. Len(stack[t]) :
       stack[t][i].block = b \/ b \in Range(stack[t][i].todo)
GivenUp(b) == Waiting(b) /\ ~Waiting(b)' /\ b \notin known'
LosesOnlyToInvalid ==
  \A b \in Valid \ {Genesis} : GivenUp(b) =>
    \/ crashes' # crashes
    \/ \E t \in Task : /\ InStage(t, "verify") /\ Top(t).block \notin Valid
                       /\ stack'[t] = <<>>
\* A valid block waiting for its parent, or for its turn behind it, is given up
\* only by entering the tree, by a crash, or when an invalid block on the same
\* call throws (README "held as an orphan and connected when the parent
\* arrives", chain.js 536-623).
OrphanLostOnlyToInvalid == [][LosesOnlyToInvalid]_vars

OnHeaviest == \A b \in Valid : Work[b] <= Work[HeadBlock]
\* While the peer goes on serving its blocks, the node ends up for good on the
\* heaviest valid chain, whatever arrived early, twice or invalid, and after
\* any restart (node.js 570-707, README "at which point they converge").
EndsOnHeaviest == <>[]OnHeaviest

\* The node's tree and head behave as the abstract fork choice.
Abstract == INSTANCE HeaviestChain WITH tree <- known, tip <- HeadBlock
RefinesHeaviestChain == Abstract!Spec
=============================================================================
