----------------------------- MODULE BlockTree -----------------------------
(***************************************************************************)
(* The blocks a Molibra node can be sent, and the transactions in them.    *)
(*                                                                         *)
(* A block is an opaque value: its hash commits to its header, its         *)
(* transactions and, through parentHash, to its whole history, so a block  *)
(* fixes its parent, its height and its cumulative difficulty.  The blocks *)
(* are constants; which of them a node has seen is state (module Chain).   *)
(***************************************************************************)
EXTENDS Naturals, FiniteSets

CONSTANTS
  Block,      \* every block that may ever be delivered
  Genesis,    \* the block every node is built with
  Parent,     \* Parent[b]: the block b.header.parentHash names
  Height,     \* Height[b]: b.header.number
  Work,       \* Work[b]: cumulative difficulty, entry.totalDifficulty
  Ancestors,  \* Ancestors[b]: b and all its ancestors, as parentHash leads
  Valid,      \* blocks that pass verifyAgainstParent over their parent
  HashRank,   \* the order of the block hashes, as persist() sorts them
  Tx,         \* transactions
  Txs         \* Txs[b]: the transactions of block b

\* What a block commits to, and what verifyAgainstParent demands of a block
\* that passes: the next height, and a positive difficulty of its own.
ASSUME BlockTreeAssumption ==
  /\ Genesis \in Valid
  /\ Valid \subseteq Block
  /\ Parent \in [Block \ {Genesis} -> Block]
  /\ Height \in [Block -> Nat]
  /\ Work \in [Block -> Nat]
  /\ Ancestors \in [Block -> SUBSET Block]
  /\ Ancestors[Genesis] = {Genesis}
  /\ Height[Genesis] = 0
  /\ \A b \in Block \ {Genesis} : Ancestors[b] = {b} \cup Ancestors[Parent[b]]
  /\ \A b \in Valid \ {Genesis} : /\ Height[b] = Height[Parent[b]] + 1
                                  /\ Work[b] > Work[Parent[b]]

\* Block hashes are distinct, so sorting by hash is a total order.
ASSUME HashRankAssumption ==
  /\ HashRank \in [Block -> Nat]
  /\ \A a, b \in Block : HashRank[a] = HashRank[b] => a = b

\* Re-execution checks nonces, so no transaction is twice in one history, and
\* genesis carries none.
ASSUME TxsAssumption ==
  /\ Txs \in [Block -> SUBSET Tx]
  /\ Txs[Genesis] = {}
  /\ \A b \in Valid : \A a \in Ancestors[b] : a # b => Txs[a] \cap Txs[b] = {}

\* The order in which persist() writes the blocks: by height, then by hash.
WrittenBefore(a, b) ==
  Height[a] < Height[b] \/ (Height[a] = Height[b] /\ HashRank[a] < HashRank[b])
=============================================================================
