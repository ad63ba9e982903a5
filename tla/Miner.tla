-------------------------------- MODULE Miner --------------------------------
(***************************************************************************)
(* The mining loop (node.js startMining) over composeBlock and the node's  *)
(* own verification of what it mined (chain.js).                           *)
(*                                                                         *)
(* The chain is seen through the transactions included in it; a movement   *)
(* of the head made by somebody else may include some and drop others.     *)
(* Proof of work is a step that may or may not find a seal in its slice.   *)
(***************************************************************************)
EXTENDS Mempool, SequencesExt

CONSTANTS
  Transaction,
  Intrinsic,    \* Intrinsic[tx]: intrinsicGas(tx), known before it runs
  GasUsed,         \* GasUsed[tx]: the receipt's gasUsed, which adds what the EVM used
  GasLimit,     \* genesis.blockGasLimit
  MaxMoves      \* bound: movements of the head by other nodes

ASSUME MinerAssumption ==
  /\ IsFiniteSet(Transaction)
  /\ \A tx \in Transaction :
       /\ Sender[tx] \in Nat /\ Nonce[tx] \in Nat /\ GasPrice[tx] \in Nat
       /\ Intrinsic[tx] \in Nat \ {0} /\ GasUsed[tx] \in Nat /\ Intrinsic[tx] <= GasUsed[tx]
  /\ GasLimit \in Nat /\ MaxMoves \in Nat

VARIABLES
  included,   \* transactions of the canonical chain
  mempool,
  candidate,  \* the block being ground, as a sequence of one or none
  stale,      \* the head is no longer the candidate's parent
  pc,         \* "top" of the loop, or "grind"
  rejected,   \* the last block this node sealed, if it rejected it itself
  moves

minerVars == <<included, mempool, candidate, stale, pc, rejected, moves>>

MinerTypeOK ==
  /\ included \subseteq Transaction
  /\ mempool \subseteq Transaction
  /\ Len(candidate) <= 1
  /\ Len(rejected) <= 1
  /\ \A c \in Range(candidate) \cup Range(rejected) :
       c.parent \subseteq Transaction /\ c.txs \in Seq(Transaction) /\ c.gas \in Nat
  /\ stale \in BOOLEAN
  /\ pc \in {"top", "grind"}
  /\ moves \in 0 .. MaxMoves

MinerInit ==
  /\ included = {} /\ mempool = {}
  /\ candidate = <<>> /\ stale = FALSE /\ pc = "top"
  /\ rejected = <<>> /\ moves = 0

NextNonce(txs, s) == Cardinality(FromSender(txs, s))

-----------------------------------------------------------------------------
(* composeBlock *)

\* Highest price first, then by sender, then by nonce.
TriedBefore(a, b) ==
  \/ GasPrice[a] > GasPrice[b]
  \/ GasPrice[a] = GasPrice[b] /\ Sender[a] # Sender[b] /\ Sender[a] < Sender[b]
  \/ GasPrice[a] = GasPrice[b] /\ Sender[a] = Sender[b] /\ Nonce[a] < Nonce[b]

\* The block with tx run after the transactions it has.
With(block, tx) == [block EXCEPT !.txs = Append(@, tx), !.gas = @ + GasUsed[tx]]

\* tx applies on the first n transactions of the block.
AppliesAfter(block, n, tx) ==
  Nonce[tx] = NextNonce(block.parent \cup {block.txs[i] : i \in 1..n}, Sender[tx])

\* Mutant: a transaction that does not apply is taken with the others.
TakeUnapplied(block, tx) == IF block.gas + Intrinsic[tx] <= GasLimit THEN With(block, tx) ELSE block

\* One candidate transaction: passed over when its intrinsic gas does not fit,
\* or when it does not apply on what is included so far.
Take(block, tx) ==
  IF block.gas + Intrinsic[tx] <= GasLimit /\ AppliesAfter(block, Len(block.txs), tx)
    THEN With(block, tx)
    ELSE block

\* The loop over s, in that order: what is tried last is taken on the others.
LastTried(s) == CHOOSE x \in s : \A y \in s : ~TriedBefore(x, y)
EmptyBlock == [parent |-> included, txs |-> <<>>, gas |-> 0]
Filled(s) ==
  MapThenFoldSet(LAMBDA tx, block : Take(block, tx), EmptyBlock, LAMBDA tx : tx, LastTried, s)

\* Mutant: the loop stops, instead of going on, at what does not fit.
ComposedUntilFull ==
  Filled({tx \in mempool : \A t \in mempool : Intrinsic[t] > GasLimit => TriedBefore(tx, t)})

Composed == Filled(mempool)

-----------------------------------------------------------------------------
(* The loop *)

\* The candidate is rebuilt when there is none or the head has moved.
Rebuild ==
  /\ pc = "top" /\ pc' = "grind"
  /\ IF candidate = <<>> \/ stale
       THEN candidate' = <<Composed>> /\ stale' = FALSE
       ELSE UNCHANGED <<candidate, stale>>
  /\ UNCHANGED <<included, mempool, rejected, moves>>

\* The slice ends without a seal; the candidate survives it.
SliceEnds ==
  /\ pc = "grind" /\ pc' = "top"
  /\ UNCHANGED <<included, mempool, candidate, stale, rejected, moves>>

\* Gas used by the first n transactions of the block.
GasAfter(block, n) == SumFunctionOnSet([i \in 1..n |-> GasUsed[block.txs[i]]], 1..n)

\* verifyAgainstParent runs them again, in their order, on the parent's state.
RunsAgain(block) ==
  /\ \A i \in DOMAIN block.txs :
       /\ GasAfter(block, i - 1) + Intrinsic[block.txs[i]] <= GasLimit
       /\ AppliesAfter(block, i - 1, block.txs[i])
  /\ block.gas = GasAfter(block, Len(block.txs))

\* What the header says was used, it checks first.
Accepts(block) == block.gas <= GasLimit /\ RunsAgain(block)

\* A seal is found: the block is processed like any other.  On a stale parent
\* it lands on a side branch.  A rejected one is logged, and the loop goes on.
Seal ==
  /\ pc = "grind" /\ pc' = "top"
  /\ candidate' = <<>> /\ stale' = FALSE
  /\ LET c == candidate[1] IN
     /\ rejected' = IF Accepts(c) THEN <<>> ELSE candidate
     /\ IF Accepts(c) /\ ~stale
          THEN included' = included \cup Range(c.txs) /\ mempool' = mempool \ Range(c.txs)
          ELSE UNCHANGED <<included, mempool>>
  /\ UNCHANGED moves

-----------------------------------------------------------------------------
(* The rest of the node *)

SubmitTx(tx) ==
  /\ tx \notin included
  /\ Admissible(mempool, tx, NextNonce(included, Sender[tx]))
  /\ mempool' \in Admitted(mempool, tx)
  /\ UNCHANGED <<included, candidate, stale, pc, rejected, moves>>

\* Transactions that can be in a chain: they fit a block, and the nonces of
\* each sender are used once, in order.
CanBeIncluded(txs) ==
  /\ \A tx \in txs : GasUsed[tx] <= GasLimit
  /\ \A tx \in txs : Nonce[tx] < NextNonce(txs, Sender[tx])
  /\ \A a, b \in txs : Sender[a] = Sender[b] /\ Nonce[a] = Nonce[b] => a = b

\* setHead on a block of another node, which may unwind part of the chain.
HeadMoves(txs) ==
  /\ moves < MaxMoves /\ moves' = moves + 1
  /\ CanBeIncluded(txs)
  /\ included' = txs
  /\ mempool' = (mempool \cup (included \ txs)) \ txs
  /\ stale' = (candidate # <<>>)
  /\ UNCHANGED <<candidate, pc, rejected>>

MinerNext ==
  \/ Rebuild \/ SliceEnds \/ Seal
  \/ \E tx \in Transaction : SubmitTx(tx)
  \/ \E txs \in SUBSET Transaction : HeadMoves(txs)

MinerSpec == MinerInit /\ [][MinerNext]_minerVars

\* The loop reschedules itself for ever (setImmediate), and the difficulty
\* follows the hash power, so a seal is found again and again.
MinerFairness == WF_minerVars(Rebuild) /\ SF_minerVars(Seal)

-----------------------------------------------------------------------------
(* Properties *)

\* What the node composes, its own validator runs again without an error,
\* whatever was submitted and however the head moved meanwhile: if it rejects
\* the block, it is for the gas that the last transaction used beyond what was
\* weighed (chain.js 371-428 against 447-527).
OwnBlockRunsAgain == \A c \in Range(rejected) : RunsAgain(c) /\ c.gas > GasLimit

\* The miner would compose a block that holds more gas than a block may.
Overfull == Composed.gas > GasLimit

\* Unless the miner is left to compose an over-full block for ever, no
\* transaction is starved: one that fits a block and is next for its sender is
\* mined, loses its place to another of its nonce, or is displaced, even behind
\* one that never fits (chain.js 395-404).
Usable(tx) == tx \in mempool /\ Nonce[tx] = NextNonce(included, Sender[tx])
EveryUsableTxServed ==
  <>[]Overfull \/ \A tx \in Transaction : Intrinsic[tx] <= GasLimit => (Usable(tx) ~> ~Usable(tx))
=============================================================================
