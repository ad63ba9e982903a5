----------------------------- MODULE MCLedgers -----------------------------
(***************************************************************************)
(* Two ledgers that share no state, each explored on its own: `part` says  *)
(* which of them runs, the bridge of MCBridge or the pool of MCPool.       *)
(***************************************************************************)
EXTENDS MCBridge, MCPool

VARIABLE part

Stories == OneStory /\ FewBlocks

LedgersInit == Init /\ PoolInit /\ part \in {"bridge", "pool"}

LedgersNext ==
  /\ \/ part = "bridge" /\ Next /\ UNCHANGED poolVars
     \/ part = "pool" /\ PoolNext /\ UNCHANGED vars
  /\ UNCHANGED part

LedgersSpec == LedgersInit /\ [][LedgersNext]_<<vars, poolVars, part>>
=============================================================================
