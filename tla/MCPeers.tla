------------------------------- MODULE MCPeers -------------------------------
(***************************************************************************)
(* The seed s knows nobody; the others are started with s as their peer.   *)
(*   Two    x mines as s does, a block behind, and either may stop         *)
(*   Three  x mines, y only follows; x and s may be dialled                *)
(*   Hidden x mines behind a router, where nobody can dial it              *)
(*                                                                         *)
(*      g --- p1 --- p2 --- a3 --- a4      work 1, 2, 3, 4, 6              *)
(*                     \--- b3 --- b4               5, 7                   *)
(***************************************************************************)
EXTENDS Peers, MCTree

MCParent == [p1 |-> "g", p2 |-> "p1", a3 |-> "p2", a4 |-> "a3", b3 |-> "p2", b4 |-> "b3"]
MCDifficulty == [p1 |-> 1, p2 |-> 1, a3 |-> 1, a4 |-> 2, b3 |-> 2, b4 |-> 2]
MCBlock == TreeBlocks(MCParent, "g")
MCHeight == TreeHeight(MCParent, "g")
MCWork == TreeWork(MCParent, MCDifficulty, "g")
MCAncestors == TreeAncestors(MCParent, "g")
MCHashRank == [g |-> 0, p1 |-> 1, p2 |-> 2, a3 |-> 3, a4 |-> 4, b3 |-> 5, b4 |-> 6]
NoTxs == [b \in MCBlock |-> {}]

MCNode == {"s", "x", "y"}
Two == [nodes |-> {"s", "x"}, public |-> {"s", "x"}, outages |-> 2,
        configured |-> [s |-> {}, x |-> {"s"}],
        mined |-> [s |-> {"a3", "a4"}, x |-> {"b3", "b4"}],
        stored |-> [s |-> "p2", x |-> "p1"]]
Three == [nodes |-> MCNode, public |-> {"s", "x"}, outages |-> 0,
          configured |-> [s |-> {}, x |-> {"s"}, y |-> {"s"}],
          mined |-> [s |-> {"a3"}, x |-> {"b3"}, y |-> {}],
          stored |-> [s |-> "p2", x |-> "p2", y |-> "p1"]]
Hidden == [Two EXCEPT !.public = {"s"}, !.outages = 0]
Reachable == {Two, Three}
BehindRouter == {Hidden}
=============================================================================
