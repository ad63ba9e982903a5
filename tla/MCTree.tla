------------------------------- MODULE MCTree -------------------------------
(***************************************************************************)
(* From a parent function and each block's own difficulty, the heights,    *)
(* cumulative work and ancestors that module BlockTree takes as constants. *)
(***************************************************************************)
EXTENDS Naturals

TreeBlocks(parent, g) == DOMAIN parent \cup {g}

TreeHeight(parent, g) ==
  LET height[b \in TreeBlocks(parent, g)] ==
        IF b = g THEN 0 ELSE height[parent[b]] + 1
  IN  height

TreeWork(parent, difficulty, g) ==
  LET work[b \in TreeBlocks(parent, g)] ==
        IF b = g THEN 1 ELSE work[parent[b]] + difficulty[b]
  IN  work

TreeAncestors(parent, g) ==
  LET ancestors[b \in TreeBlocks(parent, g)] ==
        IF b = g THEN {g} ELSE ancestors[parent[b]] \cup {b}
  IN  ancestors
=============================================================================
