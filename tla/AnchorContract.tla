--------------------------- MODULE AnchorContract ---------------------------
(***************************************************************************)
(* MolibraAnchor, the contract on Ethereum in which bonded publishers      *)
(* write down Molibra's history (bridge/MolibraAnchor.sol).                *)
(*                                                                         *)
(* A Molibra block is <<height, true>>: of the chain the nodes agree on,   *)
(* or of a history nobody else saw.  A call that reverts is no step.       *)
(***************************************************************************)
EXTENDS Naturals

CONSTANTS
  Publisher,
  Equivocator,      \* publishers who signed two attestations for one height
  MinimumBond, WithdrawDelay,
  MaxTip, MaxEth, MaxBond,   \* bounds: Molibra and Ethereum heights, bonds
  None

Height == 1 .. MaxTip
MolibraBlock == Height \X BOOLEAN
AnchorEntry == [block : MolibraBlock, ethBlock : Nat, publisher : Publisher]

ASSUME AnchorAssumption ==
  /\ Equivocator \subseteq Publisher
  /\ MinimumBond \in Nat /\ WithdrawDelay \in Nat
  /\ MaxTip \in Nat /\ MaxEth \in Nat /\ MaxBond \in Nat
  /\ None \notin AnchorEntry

VARIABLES
  eth,        \* block.number
  anchors,    \* height -> what was attested there, or None
  tipHeight, tipWork,
  bondOf, slashed, lastAnchorBlock

contractVars == <<eth, anchors, tipHeight, tipWork, bondOf, slashed, lastAnchorBlock>>

ContractInit ==
  /\ eth = 1
  /\ anchors = [h \in Height |-> None]
  /\ tipHeight = 0 /\ tipWork = 0
  /\ bondOf = [p \in Publisher |-> 0]
  /\ slashed = {}
  /\ lastAnchorBlock = [p \in Publisher |-> 0]

EthereumMoves ==
  /\ eth < MaxEth /\ eth' = eth + 1
  /\ UNCHANGED <<anchors, tipHeight, tipWork, bondOf, slashed, lastAnchorBlock>>

Bond(p, amount) ==
  /\ bondOf[p] + amount <= MaxBond
  /\ bondOf' = [bondOf EXCEPT ![p] = @ + amount]
  /\ UNCHANGED <<eth, anchors, tipHeight, tipWork, slashed, lastAnchorBlock>>

\* Mutant: a bond may leave at once.
WithdrawAtOnce(p, amount) ==
  /\ p \notin slashed
  /\ 0 < amount /\ amount <= bondOf[p]
  /\ bondOf' = [bondOf EXCEPT ![p] = @ - amount]
  /\ UNCHANGED <<eth, anchors, tipHeight, tipWork, slashed, lastAnchorBlock>>

Withdraw(p, amount) ==
  /\ p \notin slashed
  /\ eth >= lastAnchorBlock[p] + WithdrawDelay
  /\ 0 < amount /\ amount <= bondOf[p]
  /\ bondOf' = [bondOf EXCEPT ![p] = @ - amount]
  /\ UNCHANGED <<eth, anchors, tipHeight, tipWork, slashed, lastAnchorBlock>>

MayAnchor(p, b, work) ==
  /\ bondOf[p] >= MinimumBond /\ p \notin slashed
  /\ b[1] > tipHeight /\ work > tipWork

Anchor(p, b, work) ==
  /\ MayAnchor(p, b, work)
  /\ anchors' = [anchors EXCEPT ![b[1]] = [block |-> b, ethBlock |-> eth, publisher |-> p]]
  /\ tipHeight' = b[1] /\ tipWork' = work
  /\ lastAnchorBlock' = [lastAnchorBlock EXCEPT ![p] = eth]
  /\ UNCHANGED <<eth, bondOf, slashed>>

\* Two signatures of one key over two attestations for one height.
ProveEquivocation(p) ==
  /\ p \in Equivocator \ slashed
  /\ slashed' = slashed \cup {p}
  /\ bondOf' = [bondOf EXCEPT ![p] = 0]
  /\ UNCHANGED <<eth, anchors, tipHeight, tipWork, lastAnchorBlock>>

ContractTypeOK ==
  /\ eth \in Nat
  /\ anchors \in [Height -> AnchorEntry \cup {None}]
  /\ tipHeight \in 0 .. MaxTip /\ tipWork \in Nat
  /\ bondOf \in [Publisher -> Nat] /\ slashed \subseteq Publisher
  /\ lastAnchorBlock \in [Publisher -> Nat]
=============================================================================
