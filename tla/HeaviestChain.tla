--------------------------- MODULE HeaviestChain ---------------------------
(***************************************************************************)
(* What the fork choice promises, with none of how it is done: a node      *)
(* learns valid blocks one at a time (and may weigh one again), each after *)
(* its parent, and its tip stays or moves to that block, never to one that *)
(* is not strictly heavier.  A restart forgets everything.                 *)
(***************************************************************************)
EXTENDS BlockTree

VARIABLES
  tree,  \* the blocks learned
  tip    \* the head of the canonical chain

Init == tree = {Genesis} /\ tip = Genesis

Learn(b) ==
  /\ b # Genesis /\ Parent[b] \in tree
  /\ tree' = tree \cup {b}
  /\ tip' = tip \/ (tip' = b /\ Work[b] > Work[tip])

Restart == tree' = {Genesis} /\ tip' = Genesis

Next == Restart \/ \E b \in Valid : Learn(b)

Spec == Init /\ [][Next]_<<tree, tip>>
=============================================================================
