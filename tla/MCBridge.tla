------------------------------ MODULE MCBridge ------------------------------
(***************************************************************************)
(* Three foreign blocks of two places, e1 and e2 of Ethereum, o1 of        *)
(* another chain; wsro comes from Ethereum, far and junk from the other    *)
(* chain; bot and mallory lie.  A behaviour tells one of two stories: MOLI *)
(* that leaves and returns, over four heights, or assets that are claimed, *)
(* at the first height at which the bot commits, wsro with the high cap,   *)
(* junk, which only lends its registrar a say, with the low one.           *)
(***************************************************************************)
EXTENDS Bridge

MCChainOf == [b \in ForeignBlock |-> IF b = "o1" THEN "other" ELSE "eth"]
MCOriginChain == [a \in Asset |-> IF a = "wsro" THEN "eth" ELSE "other"]

Receipts(back, gone) == [back |-> back, burns |-> [a \in Asset |-> IF a \in gone THEN 1 ELSE 0]]
Backs(m, n) == <<Receipts(m, {}), Receipts(n, {})>>
Burns(S, T) == <<Receipts(0, S), Receipts(0, T)>>

ReturnRoots == {Backs(1, 1), Backs(2, 0), Backs(1, 0)}
ClaimRoots == {Burns({"wsro", "far"}, {}), Burns({"far"}, {"wsro", "far"})}
MCRoots == ReturnRoots \cup ClaimRoots
MCHistorical == {<<"e1", 1>>}

Seen(b) == {mined[b]} \cup (IF header[b] = None THEN {} ELSE {header[b].root, header[b].botRoot})
Only(roots, blocks) == \A b \in ForeignBlock : Seen(b) \subseteq IF b \in blocks THEN roots \cup {None} ELSE {None}

CapOf(a) == CASE a = "wsro" -> {2} [] a = "junk" -> {1} [] a = "far" -> Cap

OneStory ==
  \/ Only(ReturnRoots, {"e1", "e2"}) /\ \A a \in Asset : asset[a] = None
  \/ Only(ClaimRoots, {"e1", "o1"}) /\ burned = 0 /\ height = BotActivation
     /\ \A a \in Asset : asset[a] # None => asset[a].cap \in CapOf(a)
=============================================================================
