------------------------------- MODULE MCPool -------------------------------
(***************************************************************************)
(* Blocks of the mining pool race, are reorganised away, given up and      *)
(* credited, while balances are paid: two of them, or one and the pool     *)
(* dies, a payment is forgotten, or an answer of the node is lost.         *)
(***************************************************************************)
EXTENDS Pool, TLC

Alike == Permutations(Miner)

FewBlocks == Cardinality({b \in PoolBlock : foundAt[b] # 0}) + poolFaults <= MaxBlocks
=============================================================================
