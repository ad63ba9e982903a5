------------------------------ MODULE MCAround ------------------------------
(***************************************************************************)
(* Programs around the node that share no state, each explored on its own: *)
(* `part` says which of them runs, the others stay as they began.          *)
(*   relay    the light client on Ethereum, over the tree of MCRelay       *)
(*   returns  the bridge bot: two returns of one Ethereum block, each as   *)
(*            large as the cap, and one fault                              *)
(*   miner    the loop, over two senders; x2 uses more than its intrinsic  *)
(*            gas                                                          *)
(***************************************************************************)
EXTENDS MCRelay, ReturnBot, Miner

MCReturn == {1, 2}
MCEthBlock == {11}
MCBlockOf == [r \in MCReturn |-> 11]
MCReturned == [r \in MCReturn |-> 1]

MCSender == [x1 |-> 1, x1b |-> 1, x2 |-> 1, y1 |-> 2]
MCNonce == [x1 |-> 0, x1b |-> 0, x2 |-> 1, y1 |-> 0]
MCPrice == [x1 |-> 2, x1b |-> 1, x2 |-> 2, y1 |-> 4]
MCIntrinsic == [x1 |-> 1, x1b |-> 1, x2 |-> 1, y1 |-> 3]
MCGasUsed == [x1 |-> 1, x1b |-> 1, x2 |-> 2, y1 |-> 3]

VARIABLE part

vars == <<relayVars, returnBotVars, minerVars, part>>

Init ==
  /\ RelayInit /\ ReturnBotInit /\ MinerInit
  /\ part \in {"relay", "returns", "miner"}
  /\ part # "relay" => requiredWork = Min(RequiredWork)

Next ==
  /\ \/ part = "relay" /\ RelayNext /\ UNCHANGED <<returnBotVars, minerVars>>
     \/ part = "returns" /\ ReturnBotNext /\ UNCHANGED <<relayVars, minerVars>>
     \/ part = "miner" /\ MinerNext /\ UNCHANGED <<relayVars, returnBotVars>>
  /\ UNCHANGED part

\* RelayFairness, ReturnBotFairness and MinerFairness, each where its program runs.
Fairness ==
  /\ \A h \in Header : WF_relayVars(part = "relay" /\ Submit(<<h>>))
  /\ WF_returnBotVars(part = "returns" /\ BotStep)
  /\ WF_returnBotVars(part = "returns" /\ MineSome)
  /\ WF_returnBotVars(part = "returns" /\ WindowMoves)
  /\ \A r \in Return : WF_returnBotVars(part = "returns" /\ Elapse(r))
  /\ WF_minerVars(part = "miner" /\ Rebuild)
  /\ SF_minerVars(part = "miner" /\ Seal)

Spec == Init /\ [][Next]_vars /\ Fairness

\* The properties of one part, for the behaviours of that part.
RelayEndsOnHeaviest == part = "relay" => EndsOnHeaviest
BotEveryReturnLands == part = "returns" => EveryReturnLands
MinerServesEveryTx == part = "miner" => EveryUsableTxServed
=============================================================================
