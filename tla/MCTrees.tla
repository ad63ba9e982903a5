------------------------------ MODULE MCTrees ------------------------------
(***************************************************************************)
(* Chain over a tree of two parts, in behaviours of three kinds.           *)
(*                                                                         *)
(*   orphans   one chain delivered in any order, with a heavier sibling    *)
(*             and a block that fails verification                         *)
(*                                                                         *)
(*      g --- c1 --- c2 --- c3                                             *)
(*             \---- d2              d2 has difficulty 4, x is invalid     *)
(*             \---- x                                                     *)
(*                                                                         *)
(*   anchored  a branch attested on Ethereum against a heavier one.        *)
(*             Publisher p anchors a1, and a3 before the node may have     *)
(*             it; it contradicts itself at height 1, claims too little    *)
(*             work at height 2, and a reorganisation of Ethereum may      *)
(*             record its anchor of a1 again a block later.  q, who is     *)
(*             not on the allowlist, contradicts it about a3.              *)
(*   dropped   nothing is anchored, and transactions are submitted.        *)
(*             Sender s signed t0, t1 (nonces 0 and 1) and v0, a second    *)
(*             transaction with nonce 0; r signed u0, an expression that   *)
(*             pays nothing.                                               *)
(*                                                                         *)
(*      g --- a1{t0} --- a2{t1} --- a3                                     *)
(*        \-- b1{u0} --- b2{v0}      b2 has difficulty 3                   *)
(***************************************************************************)
EXTENDS Chain, MCTree

MCParent == [a1 |-> "g", a2 |-> "a1", a3 |-> "a2", b1 |-> "g", b2 |-> "b1",
             c1 |-> "g", c2 |-> "c1", c3 |-> "c2", d2 |-> "c1", x |-> "c1"]
MCDifficulty == [a1 |-> 1, a2 |-> 1, a3 |-> 1, b1 |-> 1, b2 |-> 3,
                 c1 |-> 1, c2 |-> 1, c3 |-> 1, d2 |-> 4, x |-> 1]
MCBlock == TreeBlocks(MCParent, "g")
MCHeight == TreeHeight(MCParent, "g")
MCWork == TreeWork(MCParent, MCDifficulty, "g")
MCAncestors == TreeAncestors(MCParent, "g")
MCValid == MCBlock \ {"x"}
MCHashRank == [g |-> 0, a1 |-> 1, a2 |-> 2, a3 |-> 3, b1 |-> 4, b2 |-> 5,
               c1 |-> 6, c2 |-> 7, c3 |-> 8, d2 |-> 9, x |-> 10]

MCSender == [t0 |-> "s", t1 |-> "s", v0 |-> "s", u0 |-> "r"]
MCNonce == [t0 |-> 0, t1 |-> 1, v0 |-> 0, u0 |-> 0]
MCGasPrice == [t0 |-> 1, t1 |-> 2, v0 |-> 3, u0 |-> 0]
MCTx == DOMAIN MCSender
Carried == [a1 |-> {"t0"}, a2 |-> {"t1"}, b1 |-> {"u0"}, b2 |-> {"v0"}]
MCTxs == [b \in MCBlock |-> IF b \in DOMAIN Carried THEN Carried[b] ELSE {}]

AnchorOf(b, publisher, ethBlock) ==
  [height |-> MCHeight[b], block |-> b, work |-> MCWork[b], ethBlock |-> ethBlock,
   publisher |-> publisher]
MCAnchor ==
  {AnchorOf(b, "p", 1) : b \in {"a1", "a3", "b1"}}
    \cup {AnchorOf("a1", "p", 2), [AnchorOf("a2", "p", 1) EXCEPT !.work = 1],
          [AnchorOf("a3", "q", 1) EXCEPT !.block = "b2"]}

VARIABLE part

treesVars == <<part, vars>>

TreesInit == Init /\ part \in {"orphans", "anchored", "dropped"}

\* What is delivered, and by whom.
OrphanBlock == {"c1", "c2", "c3", "d2", "x"}
ForkBlock == {"a1", "a2", "a3", "b1", "b2"}
Delivered == IF part = "orphans" THEN OrphanBlock ELSE ForkBlock
Callers == IF part = "orphans" THEN Task ELSE Persisting

TreesNext ==
  /\ \/ \E t \in Callers, b \in Delivered : Receive(t, b)
     \/ \E t \in Callers :
          Verify(t) \/ Throw(t) \/ Resolve(t) \/ NextChild(t) \/ Return(t) \/ SaveBatch(t)
     \/ part = "anchored" /\ PollAnchors
     \/ part = "dropped" /\ \E tx \in Tx : SubmitRaw(tx)
     \/ part = "orphans" /\ (Crash \/ Replay \/ Ready)
  /\ UNCHANGED part

\* The fairness of FairSpec, for the part that is checked for liveness.
Works(t) ==
  /\ part = "orphans"
  /\ Verify(t) \/ Throw(t) \/ Resolve(t) \/ NextChild(t) \/ Return(t)
Fairness ==
  /\ \A t \in Task : WF_vars(Works(t))
  /\ \A t \in Task \ Persisting : \A b \in OrphanBlock :
       SF_vars(part = "orphans" /\ Receive(t, b))
  /\ WF_vars(part = "orphans" /\ Replay) /\ WF_vars(part = "orphans" /\ Ready)

TreesSpec == TreesInit /\ [][TreesNext]_treesVars /\ Fairness

-----------------------------------------------------------------------------
\* While the peer goes on serving the chain and its siblings, the node ends up
\* for good on the heaviest valid one (node.js 570-707).
OrphansEndOnHeaviest == part = "orphans" => EndsOnHeaviest
=============================================================================
