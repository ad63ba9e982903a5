------------------------------- MODULE MCRelay -------------------------------
(***************************************************************************)
(* A slow branch, which the retarget makes light, against a fast one:      *)
(*                                                                         *)
(*      c --- a1 --- a2 --- a3 --- a4      difficulties 1, 1, 2, 3         *)
(*        |             \-- d3                                1            *)
(*        |-- b1 --- b2 --- b3                          3, 4, 5            *)
(*        \-- x                            declares 9                     *)
(*                                                                         *)
(* b1, alone, outweighs a2, and a3 outweighs b1 again; d3 weighs as much   *)
(* as b1, and a4 as b2.  t is in b1, u in a1.                              *)
(***************************************************************************)
EXTENDS Relay, MCTree

MCParent == [a1 |-> "c", a2 |-> "a1", a3 |-> "a2", a4 |-> "a3", b1 |-> "c", b2 |-> "b1",
             b3 |-> "b2", d3 |-> "a2", x |-> "c"]
MCDifficulty == [c |-> 2, a1 |-> 1, a2 |-> 1, a3 |-> 2, a4 |-> 3, b1 |-> 3, b2 |-> 4,
                 b3 |-> 5, d3 |-> 1, x |-> 9]
MCHeader == TreeBlocks(MCParent, "c")
MCNumber == TreeHeight(MCParent, "c")
MCTime == [c |-> 0, a1 |-> 2, a2 |-> 4, a3 |-> 5, a4 |-> 6, b1 |-> 1, b2 |-> 2, b3 |-> 3, d3 |-> 6, x |-> 2]
MCAncestors == TreeAncestors(MCParent, "c")
MCWork == [h \in MCHeader |-> TreeWork(MCParent, MCDifficulty, "c")[h] + MCDifficulty["c"] - 1]
MCTxs == [h \in MCHeader |-> CASE h = "b1" -> {"t"} [] h = "a1" -> {"u"} [] OTHER -> {}]
MCAmount == [t |-> 1, u |-> 1]
=============================================================================
