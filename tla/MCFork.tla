------------------------------ MODULE MCFork ------------------------------
(***************************************************************************)
(* Two callers race over a tree with a lighter chain that is the longer    *)
(* one for a while, and a block that fails verification:                   *)
(*                                                                         *)
(*      g --- a1 --- a2          a2 and b3 have difficulty 2, the others 1 *)
(*        \-- b1 --- b2 --- b3   x is invalid and waits, like b2, for b1   *)
(*              \--- x                                                     *)
(*                                                                         *)
(* b3 outweighs a2 but forks two blocks below it.                          *)
(*                                                                         *)
(* Beside it, in behaviours of their own, transactions are applied to the  *)
(* accounts of a block: `part` says which of the two a behaviour has.      *)
(* There is one wallet with little money, a contract that is also that of  *)
(* a bridged asset, and one address a contract may be created at.          *)
(***************************************************************************)
EXTENDS Chain, Accounts, MCTree

MCParent == [a1 |-> "g", a2 |-> "a1", b1 |-> "g", b2 |-> "b1", b3 |-> "b2", x |-> "b1"]
MCDifficulty == [a1 |-> 1, a2 |-> 2, b1 |-> 1, b2 |-> 1, b3 |-> 2, x |-> 1]
MCBlock == TreeBlocks(MCParent, "g")
MCHeight == TreeHeight(MCParent, "g")
MCWork == TreeWork(MCParent, MCDifficulty, "g")
MCAncestors == TreeAncestors(MCParent, "g")
MCValid == MCBlock \ {"x"}
MCHashRank == [g |-> 0, a1 |-> 1, a2 |-> 2, b1 |-> 3, b2 |-> 4, b3 |-> 5, x |-> 6]
NoTxs == [b \in MCBlock |-> {}]
None == << >>

MCFunds == [p \in Person |-> 3]

VARIABLE part

ForkInit == Init /\ AccountsInit /\ part \in {"chain", "accounts"}

ForkNext ==
  /\ \/ part = "chain" /\ Next /\ UNCHANGED accountsVars
     \/ part = "accounts" /\ AccountsNext /\ UNCHANGED vars
  /\ UNCHANGED part

ForkSpec == ForkInit /\ [][ForkNext]_<<vars, accountsVars, part>>
=============================================================================
