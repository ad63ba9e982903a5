----------------------------- MODULE Settlement -----------------------------
(***************************************************************************)
(* From a burn on Molibra to bMOLI on Ethereum: the chain, the publisher   *)
(* that anchors it (anchor-publisher.mjs), the contract it anchors in, and *)
(* the two contracts that pay against an anchor, BridgedMoli, which mints  *)
(* for a burn, and MolibraSettlement, which pays out of a pot for a        *)
(* bridge-out (BridgedMoli.sol, MolibraSettlement.sol).                    *)
(*                                                                         *)
(* A transaction is abstracted to what it says; Merkle paths and header    *)
(* bytes to whether the transaction is in the block and the block in the   *)
(* history of another.  The pot is left out: a release that finds too      *)
(* little in it reverts, and so is no step.                                *)
(***************************************************************************)
EXTENDS AnchorContract, Sequences, FiniteSets, FiniteSetsExt

CONSTANTS
  Scripted,          \* publishers who run anchor-publisher.mjs
  Liar,              \* publishers who may attest a history of their own
  Burn, BridgeOut,   \* transactions Molibra may carry
  Invented,          \* burns and bridge-outs that such a history holds
  MaxReorgDepth, Depth,   \* MAX_REORG_DEPTH and --depth
  ChallengeBlocks,   \* BridgedMoli.challengeBlocks
  Window,            \* the values of MolibraSettlement.challengeBlocks
  Word,              \* 2^256, which `unchecked` sums wrap at
  MaxPending         \* bound

Tx == Burn \cup BridgeOut

ASSUME SettlementAssumption ==
  /\ Scripted \subseteq Publisher /\ Liar \subseteq Publisher \ Scripted
  /\ Invented \subseteq Tx
  /\ MaxReorgDepth \in Nat /\ Depth \in Nat /\ Depth > MaxReorgDepth
  /\ ChallengeBlocks \in Nat /\ Window \subseteq Nat /\ Word \in Nat \ {0}
  /\ MaxPending \in Nat

VARIABLES
  tip,       \* the height of Molibra
  mined,     \* transaction -> the height it was mined at, or 0
  pending,   \* the script's transactions not mined yet, by nonce: <<publisher, height>>
  claimed,   \* burns BridgedMoli minted for
  released, window   \* MolibraSettlement

molibraVars == <<tip, mined>>
payVars == <<claimed, released, window>>
settlementVars == <<contractVars, molibraVars, pending, payVars>>

SettlementInit ==
  /\ ContractInit
  /\ tip = 0 /\ mined = [tx \in Tx |-> 0]
  /\ pending = <<>>
  /\ claimed = {} /\ released = {} /\ window \in Window

-----------------------------------------------------------------------------
(* Molibra.                                                                *)

\* Final to every node: a reorganisation is no deeper than this.
Final(h) == h + MaxReorgDepth <= tip

NewBlock(txs) ==
  /\ tip < MaxTip
  /\ tip' = tip + 1
  /\ mined' = [tx \in Tx |-> IF tx \in txs THEN tip + 1 ELSE mined[tx]]
  /\ UNCHANGED <<contractVars, pending, payVars>>

\* A reorganisation moves a transaction to another block, or out of the chain.
Reorganise(tx, h) ==
  /\ mined[tx] # 0 /\ ~Final(mined[tx])
  /\ h # 0 => h <= tip /\ ~Final(h)
  /\ mined' = [mined EXCEPT ![tx] = h]
  /\ UNCHANGED <<contractVars, tip, pending, payVars>>

-----------------------------------------------------------------------------
(* The publisher.                                                          *)

\* The burns the scan finds: unanchored, and too deep to be reorganised away.
Found == {h \in Height : /\ tipHeight < h /\ h + MaxReorgDepth + 1 <= tip
                         /\ \E tx \in Burn : mined[tx] = h}
Routine == tip - Depth

\* Mutant: a burn that waits does not come before the routine height.
RoutineOnly(ifBurn) == Routine

\* The lowest of the oldest burn and the routine height; with --if-burn, only
\* the former.
Chosen(ifBurn) ==
  IF Found # {} /\ Min(Found) < Routine THEN Min(Found)
  ELSE IF ifBurn THEN 0 ELSE Routine

PublisherRun(p, ifBurn) ==
  /\ tip > Depth
  /\ LET h == Chosen(ifBurn) IN
       /\ h > 0 /\ MayAnchor(p, <<h, TRUE>>, h)
       /\ pending' = Append(pending, <<p, h>>)
  /\ Len(pending) < MaxPending
  /\ UNCHANGED <<contractVars, molibraVars, payVars>>

\* The next of them is mined, or reverts.
MinePending ==
  /\ pending # <<>>
  /\ LET p == Head(pending)[1]  h == Head(pending)[2] IN
       \/ Anchor(p, <<h, TRUE>>, h)
       \/ ~MayAnchor(p, <<h, TRUE>>, h) /\ UNCHANGED contractVars
  /\ pending' = Tail(pending)
  /\ UNCHANGED <<molibraVars, payVars>>

\* The mempools forget them all.
DropPending ==
  /\ pending # <<>> /\ pending' = <<>>
  /\ UNCHANGED <<contractVars, molibraVars, payVars>>

\* Anybody else who is bonded: a block that is final, or one of their own, and
\* for that any amount of work.
OtherAnchors(p, b, work) ==
  /\ p \notin Scripted
  /\ b[2] => Final(b[1]) /\ work = b[1]
  /\ ~b[2] => p \in Liar /\ work \in b[1] .. b[1] + 1
  /\ Anchor(p, b, work)
  /\ UNCHANGED <<molibraVars, pending, payVars>>

Ethereum ==
  /\ \/ EthereumMoves
     \/ \E p \in Publisher : Bond(p, 1) \/ Withdraw(p, 1) \/ ProveEquivocation(p)
  /\ UNCHANGED <<molibraVars, pending, payVars>>

-----------------------------------------------------------------------------
(* Claims.                                                                 *)

\* An anchor that pays: not of a caught liar, and old enough.
Usable(h, w) ==
  /\ anchors[h] # None /\ anchors[h].publisher \notin slashed
  /\ eth >= (anchors[h].ethBlock + w) % Word

\* The proof that tx is in the block.
InBlock(tx, b) == IF b[2] THEN mined[tx] = b[1] ELSE tx \in Invented

\* Mutant: the headers need not be linked.
AnyBelow(b, c) == b[1] < c[1]

\* The headers between prove that b is in the history of c; an invented
\* history may leave the chain anywhere.
AncestorOf(b, c) == b[1] < c[1] /\ (c[2] => b[2])

MintFor(tx, b) ==
  /\ tx \in Burn \ claimed /\ InBlock(tx, b)
  /\ claimed' = claimed \cup {tx}
  /\ UNCHANGED <<contractVars, molibraVars, pending, released, window>>

Claim(tx, h) == Usable(h, ChallengeBlocks) /\ MintFor(tx, anchors[h].block)

ClaimVia(tx, b, h) ==
  /\ Usable(h, ChallengeBlocks)
  /\ AncestorOf(b, anchors[h].block)
  /\ MintFor(tx, b)

ReleaseFromPot(tx, h) ==
  /\ Usable(h, window)
  /\ tx \in BridgeOut \ released /\ InBlock(tx, anchors[h].block)
  /\ released' = released \cup {tx}
  /\ UNCHANGED <<contractVars, molibraVars, pending, claimed, window>>

SetChallengeBlocks ==
  /\ window' \in Window
  /\ UNCHANGED <<contractVars, molibraVars, pending, claimed, released>>

SettlementNext ==
  \/ \E txs \in SUBSET {tx \in Tx : mined[tx] = 0} : NewBlock(txs)
  \/ \E tx \in Tx, h \in Height \cup {0} : Reorganise(tx, h)
  \/ \E p \in Scripted, ifBurn \in BOOLEAN : PublisherRun(p, ifBurn)
  \/ MinePending \/ DropPending
  \/ \E p \in Publisher, b \in MolibraBlock, work \in 1 .. MaxTip + 1 : OtherAnchors(p, b, work)
  \/ Ethereum
  \/ \E tx \in Tx, h \in Height : Claim(tx, h) \/ ReleaseFromPot(tx, h)
  \/ \E tx \in Tx, b \in MolibraBlock, h \in Height : ClaimVia(tx, b, h)
  \/ SetChallengeBlocks

SettlementSpec == SettlementInit /\ [][SettlementNext]_settlementVars

-----------------------------------------------------------------------------
SettlementTypeOK ==
  /\ ContractTypeOK
  /\ tip \in 0 .. MaxTip /\ mined \in [Tx -> 0 .. MaxTip]
  /\ pending \in Seq(Scripted \X Height)
  /\ claimed \subseteq Burn /\ released \subseteq BridgeOut
  /\ window \in Window

\* What was minted or paid out is on Molibra, and stays there, unless a
\* publisher attested a history of its own (BridgedMoli.sol 6-35,
\* anchor-publisher.mjs 29-37).
PaidForIsMined ==
  \/ \A tx \in claimed \cup released : mined[tx] # 0 /\ Final(mined[tx])
  \/ \E h \in Height : anchors[h] # None /\ ~anchors[h].block[2]

\* The bond is still there when a Molibra node starts to believe an anchor, or
\* its publisher was caught (MolibraAnchor.sol 132-136).
BondOutlivesBinding ==
  \A h \in Height :
    anchors[h] # None /\ eth < anchors[h].ethBlock + WithdrawDelay
      => bondOf[anchors[h].publisher] >= MinimumBond \/ anchors[h].publisher \in slashed

\* The script never anchors past a burn and strands it: where a burn's own
\* block is below the tip and was not anchored, the next anchor above it is
\* somebody else's (anchor-publisher.mjs 264-283).
ScriptStrandsNoBurn ==
  \A tx \in Burn :
    LET above == {h \in Height : h >= mined[tx] /\ anchors[h] # None}
    IN  mined[tx] # 0 /\ mined[tx] <= tipHeight /\ above # {}
          => Min(above) = mined[tx] \/ anchors[Min(above)].publisher \notin Scripted
=============================================================================
