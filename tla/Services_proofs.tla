--------------------------- MODULE Services_proofs ---------------------------
(***************************************************************************)
(* What runs beside a node: burns settled through the anchors and their    *)
(* script, the supervisor of the miner, and the services that give.        *)
(*                                                                         *)
(* Each part has its inductive invariant, a lemma for each step or each    *)
(* conjunct, and the theorems.                                             *)
(***************************************************************************)
EXTENDS Settlement, Launcher, Grants, SetLemmas, SequenceTheorems, TLAPS

-----------------------------------------------------------------------------
(* The settlement of burns.                                                *)

\* Anchors are written upwards, and the one at the top is there.
AnchorsRise ==
  /\ \A h \in Height : anchors[h] # None =>
       /\ h <= tipHeight /\ anchors[h].block[1] = h
       /\ anchors[h].ethBlock <= eth
       /\ anchors[h].ethBlock <= lastAnchorBlock[anchors[h].publisher]
  /\ tipHeight > 0 => anchors[tipHeight] # None

\* An anchor that says the truth is of a block that stays, and the script's do.
AnchorsFinal ==
  \A h \in Height : anchors[h] # None =>
    /\ anchors[h].block[2] => Final(h)
    /\ anchors[h].publisher \in Scripted => anchors[h].block[2]

\* What the script sent is of a block that stays, and leaves out no burn that
\* waits below it.
MaySend(h) ==
  /\ Final(h)
  /\ \A x \in Burn : mined[x] # 0 /\ mined[x] < h => mined[x] <= tipHeight

PendingIsFinal == \A i \in 1 .. Len(pending) : MaySend(pending[i][2])

SettlementInv ==
  /\ SettlementTypeOK
  /\ AnchorsRise /\ AnchorsFinal /\ PendingIsFinal
  /\ PaidForIsMined /\ BondOutlivesBinding /\ ScriptStrandsNoBurn

\* Nothing is anchored, burned or paid at the start.
LEMMA SettlementInit0 == SettlementInit => SettlementInv
BY SettlementAssumption, AnchorAssumption
   DEF SettlementInit, ContractInit, SettlementInv, SettlementTypeOK, ContractTypeOK, AnchorsRise,
       AnchorsFinal, PendingIsFinal, MaySend, PaidForIsMined, BondOutlivesBinding,
       ScriptStrandsNoBurn

\* The script chooses a block that stays, at most as high as any burn that waits.
LEMMA ChosenIsFinal ==
  ASSUME SettlementTypeOK, NEW ifBurn \in BOOLEAN, tip > Depth, Chosen(ifBurn) > 0
  PROVE  Chosen(ifBurn) \in Height /\ MaySend(Chosen(ifBurn))
<1> USE SettlementAssumption, AnchorAssumption DEF SettlementTypeOK, ContractTypeOK, MaySend
<1>1. Found \in SUBSET Nat /\ Found \subseteq Height /\ \A h \in Found : Final(h)
  BY DEF Found, Height, Final
<1>2. Found # {} => Min(Found) \in Found /\ \A y \in Found : Min(Found) <= y
  BY <1>1, MinIsLeast
<1>3. Routine \in Height /\ Final(Routine)
  BY DEF Routine, Height, Final
<1>4. ASSUME NEW x \in Burn, mined[x] # 0, mined[x] < Routine, mined[x] > tipHeight
      PROVE  mined[x] \in Found
  <2>1. mined[x] \in 0 .. MaxTip
    BY DEF Tx
  <2>2. mined[x] \in Height /\ mined[x] + MaxReorgDepth + 1 <= tip
    BY <1>4, <2>1 DEF Height, Routine
  <2> QED BY <1>4, <2>2 DEF Found
<1>5. CASE Found # {} /\ Min(Found) < Routine
  <2>1. Chosen(ifBurn) = Min(Found)
    BY <1>5 DEF Chosen
  <2>2. ASSUME NEW x \in Burn, mined[x] # 0, mined[x] < Min(Found), ~(mined[x] <= tipHeight)
        PROVE  FALSE
    <3>1. Min(Found) \in Nat
      BY <1>1, <1>2, <1>5
    <3>2. mined[x] \in Nat
      BY DEF Tx
    <3>3. Routine \in Nat
      BY <1>3 DEF Height
    <3>4. mined[x] < Routine /\ mined[x] > tipHeight
      BY <1>5, <2>2, <3>1, <3>2, <3>3
    <3>5. mined[x] \in Found
      BY <1>4, <2>2, <3>4
    <3> QED BY <1>2, <1>5, <2>2, <3>1, <3>2, <3>5
  <2> QED BY <1>1, <1>2, <1>5, <2>1, <2>2
<1>6. CASE ~(Found # {} /\ Min(Found) < Routine)
  <2>1. Chosen(ifBurn) = Routine
    BY <1>6 DEF Chosen
  <2>2. ASSUME NEW x \in Burn, mined[x] # 0, mined[x] < Routine, ~(mined[x] <= tipHeight)
        PROVE  FALSE
    <3>1. mined[x] \in Nat /\ Routine \in Nat
      BY <1>3 DEF Tx, Height
    <3>2. mined[x] \in Found
      BY <1>4, <2>2, <3>1
    <3>3. Min(Found) \in Nat /\ Min(Found) <= mined[x]
      BY <1>1, <1>2, <3>2
    <3> QED BY <1>6, <2>2, <3>1, <3>2, <3>3
  <2> QED BY <1>3, <2>1, <2>2
<1> QED BY <1>5, <1>6

\* The script's first pending anchor is of a block of the Molibra chain.
LEMMA NextPending ==
  ASSUME SettlementTypeOK, pending # <<>>
  PROVE  /\ Head(pending)[1] \in Publisher /\ Head(pending)[2] \in Nat
         /\ <<Head(pending)[2], TRUE>> \in MolibraBlock
         /\ Tail(pending) \in Seq(Scripted \X Height)
<1> DEFINE S == Scripted \X Height
           p == Head(pending)[1]
           h == Head(pending)[2]
<1>1. pending \in Seq(S)
  BY DEF SettlementTypeOK
<1> HIDE DEF S
<1>2. Head(pending) \in S /\ Tail(pending) \in Seq(S)
  BY <1>1, HeadTailProperties
<1>3. p \in Scripted /\ h \in Height
  BY <1>2 DEF S
<1> HIDE DEF p, h
<1>4. p \in Publisher
  BY <1>3, SettlementAssumption
<1>5. h \in Nat
  BY <1>3 DEF Height
<1>6. <<h, TRUE>> \in MolibraBlock
  BY <1>3 DEF MolibraBlock
<1> QED BY <1>2, <1>4, <1>5, <1>6 DEF S, p, h

\* Every step keeps the types.
LEMMA SettlementNextType ==
  SettlementTypeOK /\ [SettlementNext]_settlementVars => SettlementTypeOK'
<1> SUFFICES ASSUME SettlementTypeOK, [SettlementNext]_settlementVars PROVE SettlementTypeOK'
  OBVIOUS
<1> USE SettlementAssumption, AnchorAssumption
    DEF SettlementTypeOK, ContractTypeOK, contractVars, molibraVars, payVars
<1>1. ASSUME NEW txs \in SUBSET {x \in Tx : mined[x] = 0}, NewBlock(txs) PROVE SettlementTypeOK'
  BY <1>1 DEF NewBlock
<1>2. ASSUME NEW x \in Tx, NEW h \in Height \cup {0}, Reorganise(x, h) PROVE SettlementTypeOK'
  BY <1>2 DEF Reorganise, Height
<1>3. ASSUME NEW p \in Scripted, NEW ifBurn \in BOOLEAN, PublisherRun(p, ifBurn)
      PROVE  SettlementTypeOK'
  <2>1. Chosen(ifBurn) \in Height /\ pending' = Append(pending, <<p, Chosen(ifBurn)>>)
    BY <1>3, ChosenIsFinal DEF PublisherRun
  <2>2. pending' \in Seq(Scripted \X Height)
    BY <2>1
  <2> QED BY <1>3, <2>2 DEF PublisherRun
<1>4. ASSUME NEW p \in Publisher, NEW b \in MolibraBlock, NEW work \in Nat, Anchor(p, b, work)
      PROVE  ContractTypeOK'
  <2>1. [block |-> b, ethBlock |-> eth, publisher |-> p] \in AnchorEntry
    BY DEF AnchorEntry
  <2>2. anchors' \in [Height -> AnchorEntry \cup {None}] /\ tipHeight' \in 0 .. MaxTip
    BY <1>4, <2>1 DEF Anchor, MolibraBlock, Height
  <2> QED BY <1>4, <2>2 DEF Anchor
<1>5. CASE MinePending
  <2> DEFINE p == Head(pending)[1]
             h == Head(pending)[2]
  <2>1. p \in Publisher /\ h \in Nat /\ <<h, TRUE>> \in MolibraBlock
        /\ pending' \in Seq(Scripted \X Height)
    BY <1>5, NextPending DEF MinePending
  <2>2. Anchor(p, <<h, TRUE>>, h) \/ UNCHANGED contractVars
    BY <1>5 DEF MinePending
  <2>3. UNCHANGED <<molibraVars, payVars>>
    BY <1>5 DEF MinePending
  <2> HIDE DEF p, h
  <2>4. ContractTypeOK'
    BY <1>4, <2>1, <2>2
  <2> QED BY <2>1, <2>3, <2>4
<1>6. ASSUME NEW p \in Publisher, NEW b \in MolibraBlock, NEW work \in 1 .. MaxTip + 1,
             OtherAnchors(p, b, work)
      PROVE  SettlementTypeOK'
  BY <1>4, <1>6 DEF OtherAnchors
<1>7. CASE Ethereum
  <2>1. UNCHANGED <<molibraVars, pending, payVars>>
    BY <1>7 DEF Ethereum
  <2>2. ContractTypeOK'
    <3>1. CASE EthereumMoves
      BY <3>1 DEF EthereumMoves
    <3>2. ASSUME NEW p \in Publisher, Bond(p, 1) PROVE ContractTypeOK'
      BY <3>2 DEF Bond
    <3>3. ASSUME NEW p \in Publisher, Withdraw(p, 1) PROVE ContractTypeOK'
      BY <3>3 DEF Withdraw
    <3>4. ASSUME NEW p \in Publisher, ProveEquivocation(p) PROVE ContractTypeOK'
      BY <3>4 DEF ProveEquivocation
    <3> QED BY <1>7, <3>1, <3>2, <3>3, <3>4 DEF Ethereum
  <2> QED BY <2>1, <2>2
<1>8. CASE DropPending
  BY <1>8 DEF DropPending
<1>9. ASSUME NEW x \in Tx, NEW b \in MolibraBlock, MintFor(x, b) PROVE SettlementTypeOK'
  BY <1>9 DEF MintFor
<1>10. ASSUME NEW x \in Tx, NEW h \in Height, Claim(x, h) PROVE SettlementTypeOK'
  BY <1>10 DEF Claim, Usable, MintFor
<1>11. ASSUME NEW x \in Tx, NEW h \in Height, ReleaseFromPot(x, h) PROVE SettlementTypeOK'
  BY <1>11 DEF ReleaseFromPot
<1>12. ASSUME NEW x \in Tx, NEW b \in MolibraBlock, NEW h \in Height, ClaimVia(x, b, h)
       PROVE  SettlementTypeOK'
  BY <1>9, <1>12 DEF ClaimVia
<1>13. CASE SetChallengeBlocks
  BY <1>13 DEF SetChallengeBlocks
<1>14. CASE UNCHANGED settlementVars
  BY <1>14 DEF settlementVars
<1> QED BY <1>1, <1>2, <1>3, <1>5, <1>6, <1>7, <1>8, <1>10, <1>11, <1>12, <1>13, <1>14
        DEF SettlementNext

\* An anchor is one of a final block or of a liar, and the script's is the next
\* of its transactions.
Anchors(p, b, work) ==
  /\ Anchor(p, b, work) /\ UNCHANGED <<molibraVars, payVars>>
  /\ b[2] => Final(b[1])
  /\ \/ p \notin Scripted /\ UNCHANGED pending
     \/ b[2] /\ pending # <<>> /\ b[1] = Head(pending)[2] /\ pending' = Tail(pending)

\* What a step may do to the anchors, and when.
LEMMA ContractSteps ==
  ASSUME SettlementTypeOK, PendingIsFinal, [SettlementNext]_settlementVars
  PROVE  \/ UNCHANGED contractVars
         \/ Ethereum
         \/ \E p \in Publisher, b \in MolibraBlock, work \in Nat : Anchors(p, b, work)
<1> USE SettlementAssumption, AnchorAssumption DEF SettlementTypeOK, ContractTypeOK
<1>1. CASE MinePending
  <2> DEFINE p == Head(pending)[1]
             h == Head(pending)[2]
  <2>1. p \in Publisher /\ h \in Nat /\ <<h, TRUE>> \in MolibraBlock
    BY <1>1, NextPending DEF MinePending
  <2>2. Final(h)
    <3>1. 1 \in 1 .. Len(pending) /\ Head(pending) = pending[1]
      <4> DEFINE S == Scripted \X Height
      <4>1. pending \in Seq(S) /\ pending # << >>
        BY <1>1 DEF MinePending
      <4> HIDE DEF S
      <4> QED BY <4>1
    <3> QED BY <3>1 DEF PendingIsFinal, MaySend
  <2>3. CASE Anchor(p, <<h, TRUE>>, h)
    <3>1. Anchors(p, <<h, TRUE>>, h)
      BY <1>1, <2>2, <2>3 DEF Anchors, MinePending
    <3> QED BY <2>1, <3>1
  <2> QED BY <1>1, <2>3 DEF MinePending
<1>2. ASSUME NEW p \in Publisher, NEW b \in MolibraBlock, NEW work \in 1 .. MaxTip + 1,
             OtherAnchors(p, b, work)
      PROVE  Anchors(p, b, work) /\ work \in Nat
  BY <1>2 DEF OtherAnchors, Anchors
<1>3. ASSUME NEW txs \in SUBSET {x \in Tx : mined[x] = 0}, NewBlock(txs) PROVE UNCHANGED contractVars
  BY <1>3 DEF NewBlock
<1>4. ASSUME NEW x \in Tx, NEW h \in Height \cup {0}, Reorganise(x, h) PROVE UNCHANGED contractVars
  BY <1>4 DEF Reorganise
<1>5. ASSUME NEW p \in Scripted, NEW ifBurn \in BOOLEAN, PublisherRun(p, ifBurn)
      PROVE  UNCHANGED contractVars
  BY <1>5 DEF PublisherRun
<1>6. CASE DropPending
  BY <1>6 DEF DropPending
<1>7. ASSUME NEW x \in Tx, NEW b \in MolibraBlock, MintFor(x, b) PROVE UNCHANGED contractVars
  BY <1>7 DEF MintFor
<1>8. ASSUME NEW x \in Tx, NEW h \in Height, Claim(x, h) PROVE UNCHANGED contractVars
  BY <1>8 DEF Claim, MintFor
<1>9. ASSUME NEW x \in Tx, NEW h \in Height, ReleaseFromPot(x, h) PROVE UNCHANGED contractVars
  BY <1>9 DEF ReleaseFromPot
<1>10. ASSUME NEW x \in Tx, NEW b \in MolibraBlock, NEW h \in Height, ClaimVia(x, b, h)
       PROVE  UNCHANGED contractVars
  BY <1>7, <1>10 DEF ClaimVia
<1>11. CASE SetChallengeBlocks
  BY <1>11 DEF SetChallengeBlocks
<1>12. CASE UNCHANGED settlementVars
  BY <1>12 DEF settlementVars
<1> QED BY <1>1, <1>2, <1>3, <1>4, <1>5, <1>6, <1>8, <1>9, <1>10, <1>11, <1>12
        DEF SettlementNext

\* Molibra grows, and no transaction that is final moves.
LEMMA MolibraSteps ==
  ASSUME SettlementTypeOK, [SettlementNext]_settlementVars
  PROVE  /\ tip' \in Nat /\ tip <= tip'
         /\ \A x \in Tx : mined'[x] # mined[x] =>
              /\ mined[x] # 0 => ~Final(mined[x])
              /\ mined'[x] # 0 => ~Final(mined'[x])
              /\ UNCHANGED <<contractVars, pending, payVars>>
<1> USE SettlementAssumption, AnchorAssumption DEF SettlementTypeOK, ContractTypeOK
<1>1. ASSUME NEW txs \in SUBSET {x \in Tx : mined[x] = 0}, NewBlock(txs)
      PROVE  /\ tip' = tip + 1 /\ UNCHANGED <<contractVars, pending, payVars>>
             /\ \A x \in Tx : mined'[x] # mined[x] => mined[x] = 0 /\ mined'[x] = tip + 1
  BY <1>1 DEF NewBlock
<1>2. ASSUME NEW y \in Tx, NEW h \in Height \cup {0}, Reorganise(y, h)
      PROVE  /\ tip' = tip /\ UNCHANGED <<contractVars, pending, payVars>>
             /\ \A x \in Tx : mined'[x] # mined[x] =>
                  ~Final(mined[x]) /\ (mined'[x] # 0 => ~Final(mined'[x]))
  BY <1>2 DEF Reorganise
<1>3. (\E txs \in SUBSET {x \in Tx : mined[x] = 0} : NewBlock(txs))
      \/ (\E x \in Tx, h \in Height \cup {0} : Reorganise(x, h)) \/ UNCHANGED molibraVars
  <2>1. Ethereum \/ SetChallengeBlocks \/ MinePending \/ DropPending => UNCHANGED molibraVars
    BY DEF Ethereum, SetChallengeBlocks, MinePending, DropPending
  <2>2. \A p \in Scripted, ifBurn \in BOOLEAN : PublisherRun(p, ifBurn) => UNCHANGED molibraVars
    BY DEF PublisherRun
  <2>3. \A p \in Publisher, b \in MolibraBlock, work \in 1 .. MaxTip + 1 :
          OtherAnchors(p, b, work) => UNCHANGED molibraVars
    BY DEF OtherAnchors
  <2>4. \A x \in Tx, h \in Height : Claim(x, h) \/ ReleaseFromPot(x, h) => UNCHANGED molibraVars
    BY DEF Claim, MintFor, ReleaseFromPot
  <2>5. \A x \in Tx, b \in MolibraBlock, h \in Height : ClaimVia(x, b, h) => UNCHANGED molibraVars
    BY DEF ClaimVia, MintFor
  <2> QED BY <2>1, <2>2, <2>3, <2>4, <2>5 DEF SettlementNext, settlementVars
<1>4. CASE \E txs \in SUBSET {x \in Tx : mined[x] = 0} : NewBlock(txs)
  BY <1>1, <1>4 DEF Final
<1>5. CASE \E x \in Tx, h \in Height \cup {0} : Reorganise(x, h)
  BY <1>2, <1>5
<1>6. CASE UNCHANGED molibraVars
  BY <1>6 DEF molibraVars
<1> QED BY <1>3, <1>4, <1>5, <1>6

-----------------------------------------------------------------------------
(* Each part of the invariant is kept.                                     *)

\* Who writes what.
LEMMA SettlementWrites ==
  ASSUME [SettlementNext]_settlementVars
  PROVE  /\ \/ UNCHANGED pending
            \/ MinePending \/ DropPending
            \/ \E p \in Scripted, ifBurn \in BOOLEAN : PublisherRun(p, ifBurn)
         /\ \/ UNCHANGED <<claimed, released>>
            \/ \E x \in Tx, h \in Height : Claim(x, h) \/ ReleaseFromPot(x, h)
            \/ \E x \in Tx, b \in MolibraBlock, h \in Height : ClaimVia(x, b, h)
<1> DEFINE Pend == \/ UNCHANGED pending
                   \/ MinePending \/ DropPending
                   \/ \E p \in Scripted, ifBurn \in BOOLEAN : PublisherRun(p, ifBurn)
           Paid == \/ UNCHANGED <<claimed, released>>
                   \/ \E x \in Tx, h \in Height : Claim(x, h) \/ ReleaseFromPot(x, h)
                   \/ \E x \in Tx, b \in MolibraBlock, h \in Height : ClaimVia(x, b, h)
<1>1. ASSUME NEW txs \in SUBSET {x \in Tx : mined[x] = 0}, NewBlock(txs) PROVE Pend /\ Paid
  BY <1>1 DEF NewBlock, payVars
<1>2. ASSUME NEW x \in Tx, NEW h \in Height \cup {0}, Reorganise(x, h) PROVE Pend /\ Paid
  BY <1>2 DEF Reorganise, payVars
<1>3. ASSUME NEW p \in Scripted, NEW ifBurn \in BOOLEAN, PublisherRun(p, ifBurn) PROVE Pend /\ Paid
  BY <1>3 DEF PublisherRun, payVars
<1>4. CASE MinePending \/ DropPending
  BY <1>4 DEF MinePending, DropPending, payVars
<1>5. ASSUME NEW p \in Publisher, NEW b \in MolibraBlock, NEW work \in 1 .. MaxTip + 1,
             OtherAnchors(p, b, work)
      PROVE  Pend /\ Paid
  BY <1>5 DEF OtherAnchors, payVars
<1>6. CASE Ethereum
  BY <1>6 DEF Ethereum, payVars
<1>7. ASSUME NEW x \in Tx, NEW h \in Height, Claim(x, h) \/ ReleaseFromPot(x, h) PROVE Pend /\ Paid
  <2>1. Paid
    BY <1>7
  <2>2. UNCHANGED pending
    BY <1>7 DEF Claim, MintFor, ReleaseFromPot
  <2> QED BY <2>1, <2>2
<1>8. ASSUME NEW x \in Tx, NEW b \in MolibraBlock, NEW h \in Height, ClaimVia(x, b, h)
      PROVE  Pend /\ Paid
  BY <1>8 DEF ClaimVia, MintFor
<1>9. CASE SetChallengeBlocks
  BY <1>9 DEF SetChallengeBlocks
<1>10. CASE UNCHANGED settlementVars
  BY <1>10 DEF settlementVars, payVars
<1> DEFINE Both == Pend /\ Paid
<1>11. Both
  <2>1. /\ \A txs \in SUBSET {x \in Tx : mined[x] = 0} : NewBlock(txs) => Both
        /\ \A x \in Tx, h \in Height \cup {0} : Reorganise(x, h) => Both
        /\ \A p \in Scripted, ifBurn \in BOOLEAN : PublisherRun(p, ifBurn) => Both
        /\ MinePending \/ DropPending => Both
        /\ \A p \in Publisher, b \in MolibraBlock, work \in 1 .. MaxTip + 1 :
             OtherAnchors(p, b, work) => Both
        /\ Ethereum => Both
        /\ \A x \in Tx, h \in Height : Claim(x, h) \/ ReleaseFromPot(x, h) => Both
        /\ \A x \in Tx, b \in MolibraBlock, h \in Height : ClaimVia(x, b, h) => Both
        /\ SetChallengeBlocks => Both
    BY <1>1, <1>2, <1>3, <1>4, <1>5, <1>6, <1>7, <1>8, <1>9
  <2> HIDE DEF Both
  <2> QED BY <2>1, <1>10 DEF SettlementNext, Both
<1> QED BY <1>11

\* Every step keeps the anchors rising, and those of the script final.
LEMMA NextAnchorsRise ==
  ASSUME SettlementInv, [SettlementNext]_settlementVars
  PROVE  AnchorsRise' /\ AnchorsFinal'
         /\ \A h \in Height : anchors[h] # None => anchors'[h] = anchors[h]
<1> USE SettlementAssumption, AnchorAssumption
    DEF SettlementInv, SettlementTypeOK, ContractTypeOK, AnchorsRise, AnchorsFinal
<1>1. \A h \in Height : Final(h) => Final(h)'
  <2>1. tip' \in Nat /\ tip <= tip'
    BY MolibraSteps
  <2> QED BY <2>1 DEF Final, Height
<1>2. CASE UNCHANGED contractVars
  BY <1>1, <1>2 DEF contractVars
<1>3. CASE Ethereum
  <2>1. CASE EthereumMoves
    BY <1>1, <2>1 DEF EthereumMoves, AnchorEntry
  <2>2. ASSUME NEW p \in Publisher, Bond(p, 1) \/ Withdraw(p, 1) \/ ProveEquivocation(p)
        PROVE  UNCHANGED <<eth, anchors, tipHeight, lastAnchorBlock>>
    BY <2>2 DEF Bond, Withdraw, ProveEquivocation
  <2> QED BY <1>1, <1>3, <2>1, <2>2 DEF Ethereum
<1>4. ASSUME NEW p \in Publisher, NEW b \in MolibraBlock, NEW work \in Nat, Anchors(p, b, work)
      PROVE  AnchorsRise' /\ AnchorsFinal'
             /\ \A h \in Height : anchors[h] # None => anchors'[h] = anchors[h]
  <2> DEFINE entry == [block |-> b, ethBlock |-> eth, publisher |-> p]
  <2>1. entry \in AnchorEntry /\ b[1] \in Height
    BY DEF AnchorEntry, MolibraBlock
  <2>2. /\ anchors' = [anchors EXCEPT ![b[1]] = entry]
        /\ tipHeight < b[1] /\ tipHeight' = b[1] /\ eth' = eth
        /\ lastAnchorBlock' = [lastAnchorBlock EXCEPT ![p] = eth]
    BY <1>4 DEF Anchors, Anchor, MayAnchor
  <2>3. entry # None /\ entry.block = b /\ entry.ethBlock = eth /\ entry.publisher = p
    BY <2>1
  <2>4. b[2] => Final(b[1])'
    BY <1>1, <1>4, <2>1 DEF Anchors
  <2>5. p \in Scripted => b[2]
    BY <1>4 DEF Anchors
  <2> HIDE DEF entry
  <2>6. anchors'[b[1]] = entry /\ \A h \in Height \ {b[1]} : anchors'[h] = anchors[h]
    BY <2>1, <2>2
  <2>7. \A h \in Height : anchors[h] # None => h # b[1] /\ h <= b[1] /\ anchors'[h] = anchors[h]
    BY <2>1, <2>2, <2>6 DEF Height
  <2>8. lastAnchorBlock'[p] = eth
    BY <2>2
  <2> QED
    <3>1. ASSUME NEW h \in Height, anchors[h] # None
          PROVE  anchors[h].ethBlock <= lastAnchorBlock'[anchors[h].publisher]
      <4>1. anchors[h].publisher \in Publisher /\ anchors[h].ethBlock \in Nat
        BY <3>1 DEF AnchorEntry
      <4>2. anchors[h].ethBlock <= eth /\ anchors[h].ethBlock <= lastAnchorBlock[anchors[h].publisher]
        BY <3>1
      <4>3. CASE anchors[h].publisher = p
        BY <2>8, <4>1, <4>2, <4>3
      <4>4. CASE anchors[h].publisher # p
        <5>1. lastAnchorBlock'[anchors[h].publisher] = lastAnchorBlock[anchors[h].publisher]
          BY <2>2, <4>1, <4>4
        <5> QED BY <4>2, <5>1
      <4> QED BY <4>3, <4>4
    <3>2. AnchorsRise'
      <4>1. ASSUME NEW h \in Height, anchors'[h] # None
            PROVE  /\ h <= tipHeight' /\ anchors'[h].block[1] = h
                   /\ anchors'[h].ethBlock <= eth'
                   /\ anchors'[h].ethBlock <= lastAnchorBlock'[anchors'[h].publisher]
        <5>1. CASE h = b[1]
          BY <2>1, <2>2, <2>3, <2>6, <2>8, <5>1 DEF Height
        <5>2. CASE h # b[1]
          BY <2>2, <2>6, <2>7, <3>1, <4>1, <5>2
        <5> QED BY <5>1, <5>2
      <4>2. anchors'[tipHeight'] # None
        BY <2>2, <2>3, <2>6
      <4> QED BY <4>1, <4>2
    <3>3. AnchorsFinal'
      BY <1>1, <2>1, <2>3, <2>4, <2>5, <2>6, <2>7
    <3> QED BY <2>7, <3>2, <3>3
<1> QED BY <1>2, <1>3, <1>4, ContractSteps

\* Every step keeps what is pending of blocks that stay.
LEMMA NextPendingIsFinal ==
  ASSUME SettlementInv, [SettlementNext]_settlementVars
  PROVE  PendingIsFinal'
<1> USE SettlementAssumption, AnchorAssumption
    DEF SettlementInv, SettlementTypeOK, ContractTypeOK
<1>1. tip' \in Nat /\ tip <= tip' /\ tipHeight \in Nat /\ tipHeight' \in Nat
      /\ mined \in [Tx -> Nat] /\ mined' \in [Tx -> Nat] /\ Burn \subseteq Tx
  <2>1. SettlementTypeOK'
    BY SettlementNextType
  <2> QED BY <2>1, MolibraSteps DEF Tx
<1>2. tipHeight <= tipHeight'
  <2>1. \A p \in Publisher, b \in MolibraBlock, work \in Nat :
          Anchors(p, b, work) => tipHeight < tipHeight'
    BY <1>1 DEF Anchors, Anchor, MayAnchor
  <2>2. Ethereum => tipHeight' = tipHeight
    BY DEF Ethereum, EthereumMoves, Bond, Withdraw, ProveEquivocation
  <2> QED BY <1>1, <2>1, <2>2, ContractSteps DEF contractVars
<1> DEFINE Kept(h) ==
             /\ h + MaxReorgDepth <= tip'
             /\ \A x \in Burn : mined'[x] # 0 /\ mined'[x] < h => mined'[x] <= tipHeight'
<1>3. ASSUME NEW h \in Height, MaySend(h)
      PROVE  Kept(h)
  <2>1. h + MaxReorgDepth <= tip'
    BY <1>1, <1>3 DEF MaySend, Final, Height
  <2>2. ASSUME NEW x \in Burn, mined'[x] # 0, mined'[x] < h PROVE mined'[x] <= tipHeight'
    <3>1. x \in Tx
      BY DEF Tx
    <3>2. CASE mined'[x] = mined[x]
      BY <1>1, <1>2, <1>3, <2>2, <3>1, <3>2 DEF Height, MaySend
    <3>3. CASE mined'[x] # mined[x]
      <4>1. ~Final(mined'[x])
        BY <2>2, <3>1, <3>3, MolibraSteps
      <4> QED BY <1>1, <1>3, <2>2, <3>1, <4>1 DEF Final, Height, MaySend
    <3> QED BY <3>2, <3>3
  <2> QED BY <2>1, <2>2
<1>4. PendingIsFinal' <=> \A i \in 1 .. Len(pending') : Kept(pending'[i][2])
  BY DEF PendingIsFinal, MaySend, Final
<1> DEFINE S == Scripted \X Height
<1>5. pending \in Seq(S) /\ \A x \in S : x[2] \in Height
  OBVIOUS
<1> HIDE DEF Kept, S
<1>6. \A i \in 1 .. Len(pending) : Kept(pending[i][2])
  <2>1. \A i \in 1 .. Len(pending) : pending[i] \in S
    BY <1>5
  <2> QED BY <1>3, <1>5, <2>1 DEF PendingIsFinal
<1>7. CASE pending' = pending
  BY <1>4, <1>6, <1>7
<1>8. CASE pending # <<>> /\ pending' = Tail(pending)
  <2>1. /\ Len(Tail(pending)) = Len(pending) - 1
        /\ \A i \in 1 .. Len(Tail(pending)) : Tail(pending)[i] = pending[i + 1]
    BY <1>5, <1>8, HeadTailProperties
  <2>2. Len(pending) \in Nat
    BY <1>5
  <2>3. ASSUME NEW i \in 1 .. Len(pending') PROVE Kept(pending'[i][2])
    <3>1. i + 1 \in 1 .. Len(pending) /\ pending'[i] = pending[i + 1]
      BY <1>8, <2>1, <2>2
    <3> QED BY <1>6, <3>1
  <2> QED BY <1>4, <2>3
<1>9. CASE pending' = <<>>
  BY <1>4, <1>9
<1>10. ASSUME NEW p \in Scripted, NEW ifBurn \in BOOLEAN, PublisherRun(p, ifBurn)
       PROVE  PendingIsFinal'
  <2> DEFINE h == Chosen(ifBurn)
             sent == <<p, h>>
  <2>1. pending' = Append(pending, sent) /\ tip > Depth /\ h > 0
    BY <1>10 DEF PublisherRun
  <2>2. h \in Height /\ MaySend(h)
    BY <2>1, ChosenIsFinal
  <2>3. sent \in S /\ Kept(sent[2])
    BY <1>3, <2>2 DEF S
  <2> HIDE DEF h, sent
  <2>4. /\ Len(pending') = Len(pending) + 1 /\ pending'[Len(pending) + 1] = sent
        /\ \A i \in 1 .. Len(pending) : pending'[i] = pending[i]
    BY <1>5, <2>1, <2>3, AppendProperties
  <2>5. Len(pending) \in Nat
    BY <1>5
  <2>6. ASSUME NEW i \in 1 .. Len(pending') PROVE Kept(pending'[i][2])
    <3>1. CASE i \in 1 .. Len(pending)
      BY <1>6, <2>4, <3>1
    <3>2. CASE i = Len(pending) + 1
      BY <2>3, <2>4, <3>2
    <3> QED BY <2>4, <2>5, <3>1, <3>2
  <2> QED BY <1>4, <2>6
<1>11. \/ UNCHANGED pending
       \/ pending # <<>> /\ pending' = Tail(pending)
       \/ pending' = <<>>
       \/ \E p \in Scripted, ifBurn \in BOOLEAN : PublisherRun(p, ifBurn)
  <2>1. UNCHANGED pending \/ MinePending \/ DropPending
        \/ \E p \in Scripted, ifBurn \in BOOLEAN : PublisherRun(p, ifBurn)
    BY SettlementWrites
  <2>2. MinePending => pending # <<>> /\ pending' = Tail(pending)
    BY DEF MinePending
  <2>3. DropPending => pending' = <<>>
    BY DEF DropPending
  <2> QED BY <2>1, <2>2, <2>3
<1> QED BY <1>7, <1>8, <1>9, <1>10, <1>11

\* Every step pays only for what is mined to stay.
LEMMA NextPaidForIsMined ==
  ASSUME SettlementInv, [SettlementNext]_settlementVars
  PROVE  PaidForIsMined'
<1> USE SettlementAssumption, AnchorAssumption
    DEF SettlementInv, SettlementTypeOK, ContractTypeOK
<1> DEFINE Lied == \E h \in Height : anchors[h] # None /\ ~anchors[h].block[2]
           Settled(x) == mined[x] # 0 /\ Final(mined[x])
           StillSettled(x) == mined'[x] # 0 /\ mined'[x] + MaxReorgDepth <= tip'
<1>1. CASE Lied
  BY <1>1, NextAnchorsRise DEF PaidForIsMined
<1>2. CASE ~Lied
  <2>1. \A x \in Tx : Settled(x) => StillSettled(x)
    BY MolibraSteps DEF Final
  <2>2. claimed \cup released \subseteq Tx /\ \A x \in claimed \cup released : Settled(x)
    BY <1>2 DEF PaidForIsMined, Tx
  <2>3. ASSUME NEW x \in Tx, NEW b \in MolibraBlock, NEW h \in Height, anchors[h] # None,
               b = anchors[h].block \/ AncestorOf(b, anchors[h].block), InBlock(x, b)
        PROVE  Settled(x)
    <3>1. anchors[h].block[2] /\ anchors[h].block[1] = h /\ Final(h)
      BY <1>2, <2>3 DEF AnchorsRise, AnchorsFinal
    <3>2. b[2] /\ b[1] \in Height /\ b[1] <= h
      BY <2>3, <3>1 DEF AncestorOf, MolibraBlock, Height
    <3> QED BY <2>3, <3>1, <3>2 DEF InBlock, Final, Height
  <2>4. ASSUME NEW x \in Tx, NEW h \in Height, Claim(x, h) PROVE Settled(x) /\ claimed' \cup released' = claimed \cup released \cup {x}
    <3>1. anchors[h] # None /\ InBlock(x, anchors[h].block) /\ anchors[h].block \in MolibraBlock
      BY <2>4 DEF Claim, Usable, MintFor, AnchorEntry
    <3>2. Settled(x)
      BY <2>3, <3>1
    <3> QED BY <2>4, <3>2 DEF Claim, MintFor
  <2>5. ASSUME NEW x \in Tx, NEW h \in Height, ReleaseFromPot(x, h) PROVE Settled(x) /\ claimed' \cup released' = claimed \cup released \cup {x}
    <3>1. anchors[h] # None /\ InBlock(x, anchors[h].block) /\ anchors[h].block \in MolibraBlock
      BY <2>5 DEF ReleaseFromPot, Usable, AnchorEntry
    <3>2. Settled(x)
      BY <2>3, <3>1
    <3> QED BY <2>5, <3>2 DEF ReleaseFromPot
  <2>6. ASSUME NEW x \in Tx, NEW b \in MolibraBlock, NEW h \in Height, ClaimVia(x, b, h)
        PROVE  Settled(x) /\ claimed' \cup released' = claimed \cup released \cup {x}
    <3>1. Settled(x)
      BY <2>3, <2>6 DEF ClaimVia, Usable, MintFor
    <3> QED BY <2>6, <3>1 DEF ClaimVia, MintFor
  <2>7. \/ claimed' \cup released' = claimed \cup released
        \/ \E x \in Tx : Settled(x) /\ claimed' \cup released' = claimed \cup released \cup {x}
    <3>1. CASE UNCHANGED <<claimed, released>>
      BY <3>1
    <3>2. CASE ~UNCHANGED <<claimed, released>>
      <4>1. \/ \E x \in Tx, h \in Height : Claim(x, h) \/ ReleaseFromPot(x, h)
            \/ \E x \in Tx, b \in MolibraBlock, h \in Height : ClaimVia(x, b, h)
        BY <3>2, SettlementWrites
      <4> HIDE DEF Settled
      <4> QED BY <2>4, <2>5, <2>6, <4>1
    <3> QED BY <3>1, <3>2
  <2>8. \A x \in claimed' \cup released' : StillSettled(x)
    <3> HIDE DEF Settled, StillSettled
    <3>1. ASSUME NEW x \in claimed' \cup released' PROVE x \in Tx /\ Settled(x)
      <4>1. CASE x \in claimed \cup released
        BY <2>2, <4>1
      <4>2. CASE x \notin claimed \cup released
        BY <2>7, <4>2
      <4> QED BY <4>1, <4>2
    <3> QED BY <2>1, <3>1
  <2> QED BY <2>8 DEF PaidForIsMined, Final
<1> QED BY <1>1, <1>2

\* Every step keeps the bond until the anchor binds.
LEMMA NextBondOutlivesBinding ==
  ASSUME SettlementInv, [SettlementNext]_settlementVars
  PROVE  BondOutlivesBinding'
<1> USE SettlementAssumption, AnchorAssumption
    DEF SettlementInv, SettlementTypeOK, ContractTypeOK, BondOutlivesBinding
<1>1. \A h \in Height : anchors[h] # None =>
        /\ anchors[h].publisher \in Publisher /\ anchors[h].ethBlock \in Nat
        /\ anchors[h].ethBlock <= lastAnchorBlock[anchors[h].publisher]
  BY DEF AnchorsRise, AnchorEntry
<1>2. CASE UNCHANGED contractVars
  BY <1>2 DEF contractVars
<1>3. CASE EthereumMoves
  BY <1>1, <1>3 DEF EthereumMoves
<1>4. ASSUME NEW p \in Publisher, Bond(p, 1) PROVE BondOutlivesBinding'
  BY <1>1, <1>4 DEF Bond
<1>5. ASSUME NEW p \in Publisher, Withdraw(p, 1) PROVE BondOutlivesBinding'
  <2>1. ASSUME NEW h \in Height, anchors[h] # None, eth < anchors[h].ethBlock + WithdrawDelay
        PROVE  anchors[h].publisher # p
    BY <1>1, <1>5, <2>1 DEF Withdraw
  <2> QED BY <1>1, <1>5, <2>1 DEF Withdraw
<1>6. ASSUME NEW p \in Publisher, ProveEquivocation(p) PROVE BondOutlivesBinding'
  BY <1>1, <1>6 DEF ProveEquivocation
<1>7. ASSUME NEW p \in Publisher, NEW b \in MolibraBlock, NEW work \in Nat, Anchors(p, b, work)
      PROVE  BondOutlivesBinding'
  <2> DEFINE entry == [block |-> b, ethBlock |-> eth, publisher |-> p]
  <2>1. /\ anchors' = [anchors EXCEPT ![b[1]] = entry] /\ b[1] \in Height
        /\ bondOf[p] >= MinimumBond /\ UNCHANGED <<eth, bondOf, slashed>>
    BY <1>7 DEF Anchors, Anchor, MayAnchor, MolibraBlock
  <2>2. entry.publisher = p
    OBVIOUS
  <2> HIDE DEF entry
  <2>3. \A h \in Height : anchors'[h] = entry \/ anchors'[h] = anchors[h]
    BY <2>1
  <2> QED BY <2>1, <2>2, <2>3
<1> QED BY <1>2, <1>3, <1>4, <1>5, <1>6, <1>7, ContractSteps DEF Ethereum

\* ScriptStrandsNoBurn, of the least anchor above the burn and without Min.
FirstAbove(x, h) ==
  /\ h \in Height /\ h >= mined[x] /\ anchors[h] # None
  /\ \A g \in Height : g >= mined[x] /\ anchors[g] # None => h <= g

StrandsNone ==
  \A x \in Burn, h \in Height :
    mined[x] # 0 /\ mined[x] <= tipHeight /\ FirstAbove(x, h)
      => h = mined[x] \/ anchors[h].publisher \notin Scripted

\* The property, with its sets spelled out.
LEMMA StrandsNoneEquivalent == SettlementTypeOK => (ScriptStrandsNoBurn <=> StrandsNone)
<1> SUFFICES ASSUME SettlementTypeOK PROVE ScriptStrandsNoBurn <=> StrandsNone
  OBVIOUS
<1> DEFINE Above(x) == {h \in Height : h >= mined[x] /\ anchors[h] # None}
<1>1. ASSUME NEW x \in Burn, Above(x) # {}
      PROVE  FirstAbove(x, Min(Above(x))) /\ Min(Above(x)) \in Height
  <2>1. Above(x) \in SUBSET Nat
    BY AnchorAssumption DEF Height
  <2>2. Min(Above(x)) \in Above(x) /\ \A y \in Above(x) : Min(Above(x)) <= y
    BY <1>1, <2>1, MinIsLeast
  <2> QED BY <2>2 DEF FirstAbove
<1>2. ASSUME NEW x \in Burn, NEW h \in Height, FirstAbove(x, h)
      PROVE  h = Min(Above(x)) /\ Above(x) # {}
  <2>1. h \in Above(x) /\ \A y \in Above(x) : h <= y
    BY <1>2 DEF FirstAbove
  <2>2. Min(Above(x)) \in Above(x) /\ Min(Above(x)) <= h
    <3>1. Above(x) \in SUBSET Nat
      BY AnchorAssumption DEF Height
    <3> QED BY <2>1, <3>1, MinIsLeast
  <2>3. h <= Min(Above(x))
    BY <2>1, <2>2
  <2>4. h \in Nat /\ Min(Above(x)) \in Nat
    BY <2>2, AnchorAssumption DEF Height
  <2> HIDE DEF Above
  <2> QED BY <2>1, <2>2, <2>3, <2>4
<1>3. ScriptStrandsNoBurn <=>
        \A x \in Burn : mined[x] # 0 /\ mined[x] <= tipHeight /\ Above(x) # {}
          => Min(Above(x)) = mined[x] \/ anchors[Min(Above(x))].publisher \notin Scripted
  BY DEF ScriptStrandsNoBurn
<1> HIDE DEF Above
<1> QED BY <1>1, <1>2, <1>3 DEF StrandsNone

\* Every step leaves no burn below an anchor of the script.
LEMMA NextStrandsNone ==
  ASSUME SettlementInv, StrandsNone, [SettlementNext]_settlementVars
  PROVE  StrandsNone'
<1> USE SettlementAssumption, AnchorAssumption
<1>1. /\ tip \in Nat /\ tipHeight \in Nat /\ mined \in [Tx -> Nat] /\ mined' \in [Tx -> Nat]
      /\ \A h \in Height : h \in Nat /\ h # 0
  BY SettlementNextType DEF SettlementInv, SettlementTypeOK, ContractTypeOK, Height
<1> SUFFICES ASSUME NEW x \in Burn, NEW h \in Height,
                    mined'[x] # 0, mined'[x] <= tipHeight', FirstAbove(x, h)',
                    anchors'[h].publisher \in Scripted
             PROVE  h = mined'[x]
  BY DEF StrandsNone
<1>2. /\ h >= mined'[x] /\ anchors'[h] # None
      /\ \A g \in Height : g >= mined'[x] /\ anchors'[g] # None => h <= g
  BY DEF FirstAbove
<1>3. x \in Tx
  BY DEF Tx
<1>4. CASE mined'[x] # mined[x]
  <2>1. ~Final(mined'[x]) /\ anchors' = anchors
    BY <1>3, <1>4, MolibraSteps DEF SettlementInv, contractVars
  <2>2. Final(h)
    BY <1>2, <2>1 DEF SettlementInv, AnchorsFinal
  <2> QED BY <1>1, <1>2, <1>3, <2>1, <2>2 DEF Final
<1>5. CASE mined'[x] = mined[x] /\ anchors' = anchors /\ tipHeight' = tipHeight
  <2>1. FirstAbove(x, h)
    BY <1>2, <1>5 DEF FirstAbove
  <2> QED BY <1>5, <2>1 DEF StrandsNone
<1>6. ASSUME NEW p \in Publisher, NEW b \in MolibraBlock, NEW work \in Nat, Anchors(p, b, work),
             mined'[x] = mined[x]
      PROVE  h = mined'[x]
  <2> DEFINE entry == [block |-> b, ethBlock |-> eth, publisher |-> p]
  <2>1. /\ anchors' = [anchors EXCEPT ![b[1]] = entry] /\ b[1] \in Height
        /\ tipHeight < b[1] /\ tipHeight' = b[1]
    BY <1>6 DEF Anchors, Anchor, MayAnchor, MolibraBlock
  <2>2. /\ anchors'[b[1]].publisher = p /\ anchors'[b[1]] # None
        /\ \A g \in Height \ {b[1]} : anchors'[g] = anchors[g]
    <3>1. anchors \in [Height -> AnchorEntry \cup {None}] /\ entry \in AnchorEntry
      BY DEF SettlementInv, SettlementTypeOK, ContractTypeOK, AnchorEntry
    <3> QED BY <2>1, <3>1
  <2>3. \A g \in Height : anchors[g] # None => g <= tipHeight
    BY DEF SettlementInv, AnchorsRise
  <2>4. CASE mined[x] <= tipHeight
    <3>1. tipHeight \in Height /\ anchors[tipHeight] # None
      BY <1>1, <1>3, <1>6, <2>4 DEF SettlementInv, SettlementTypeOK, ContractTypeOK, AnchorsRise, Height
    <3>2. h <= tipHeight
      BY <1>1, <1>2, <1>3, <1>6, <2>1, <2>2, <2>4, <3>1
    <3>3. h # b[1]
      BY <1>1, <2>1, <3>2
    <3>4. FirstAbove(x, h)
      <4>1. ASSUME NEW g \in Height, g >= mined[x], anchors[g] # None PROVE h <= g
        <5>1. g # b[1]
          BY <1>1, <2>1, <2>3, <4>1
        <5> QED BY <1>2, <1>6, <2>2, <4>1, <5>1
      <4> QED BY <1>2, <1>6, <2>2, <3>3, <4>1 DEF FirstAbove
    <3>5. anchors[h].publisher \in Scripted
      BY <2>2, <3>3
    <3> QED BY <1>6, <2>4, <3>4, <3>5 DEF StrandsNone
  <2>5. CASE ~(mined[x] <= tipHeight)
    <3>1. h = b[1]
      <4>1. h > tipHeight
        BY <1>1, <1>2, <1>3, <1>6, <2>5
      <4> QED BY <1>1, <1>2, <2>2, <2>3, <4>1
    <3>2. pending # <<>> /\ b[1] = Head(pending)[2]
      BY <1>6, <2>2, <3>1 DEF Anchors
    <3>3. MaySend(b[1])
      <4>1. 1 \in 1 .. Len(pending) /\ Head(pending) = pending[1]
        <5> DEFINE S == Scripted \X Height
        <5>1. pending \in Seq(S) /\ pending # << >>
          BY <3>2 DEF SettlementInv, SettlementTypeOK
        <5> HIDE DEF S
        <5> QED BY <5>1
      <4> QED BY <3>2, <4>1 DEF SettlementInv, PendingIsFinal
    <3>4. ~(mined[x] < b[1])
      BY <1>6, <2>5, <3>3 DEF MaySend
    <3> QED BY <1>1, <1>2, <1>3, <1>6, <3>1, <3>4
  <2> QED BY <2>4, <2>5
<1>7. CASE mined'[x] = mined[x]
  <2>1. CASE UNCHANGED contractVars
    BY <1>5, <1>7, <2>1 DEF contractVars
  <2>2. CASE Ethereum
    <3>1. UNCHANGED <<anchors, tipHeight>>
      BY <2>2 DEF Ethereum, EthereumMoves, Bond, Withdraw, ProveEquivocation
    <3> QED BY <1>5, <1>7, <3>1
  <2> QED BY <1>6, <1>7, <2>1, <2>2, ContractSteps DEF SettlementInv
<1> QED BY <1>4, <1>7

-----------------------------------------------------------------------------
\* The invariant of the settlement holds throughout.
LEMMA SettlementInvariance == SettlementSpec => []SettlementInv
<1>1. SettlementInv /\ [SettlementNext]_settlementVars => SettlementInv'
  <2> SUFFICES ASSUME SettlementInv, [SettlementNext]_settlementVars PROVE SettlementInv'
    OBVIOUS
  <2>1. SettlementTypeOK'
    BY SettlementNextType DEF SettlementInv
  <2>2. AnchorsRise' /\ AnchorsFinal'
    BY NextAnchorsRise
  <2>3. PendingIsFinal' /\ PaidForIsMined' /\ BondOutlivesBinding'
    BY NextPendingIsFinal, NextPaidForIsMined, NextBondOutlivesBinding
  <2>4. StrandsNone'
    BY NextStrandsNone, StrandsNoneEquivalent DEF SettlementInv
  <2>5. ScriptStrandsNoBurn'
    <3>1. (ScriptStrandsNoBurn <=> StrandsNone)'
      BY <2>1, StrandsNoneEquivalent, PTL
    <3> QED BY <2>4, <3>1
  <2> QED BY <2>1, <2>2, <2>3, <2>5 DEF SettlementInv
<1> QED BY <1>1, SettlementInit0, PTL DEF SettlementSpec

\* What either contract paid for a transaction is on Molibra to stay, unless a
\* bonded publisher attested a history of its own.
THEOREM PaidForTheorem == SettlementSpec => []PaidForIsMined
BY SettlementInvariance, PTL DEF SettlementInv

\* A publisher's bond cannot leave before the anchor it vouches for binds nodes.
THEOREM BondTheorem == SettlementSpec => []BondOutlivesBinding
BY SettlementInvariance, PTL DEF SettlementInv

\* The script anchors no height above a burn that waits below it.
THEOREM StrandsTheorem == SettlementSpec => []ScriptStrandsNoBurn
BY SettlementInvariance, PTL DEF SettlementInv

-----------------------------------------------------------------------------
(* The supervisor of the miner.                                            *)

LauncherInv ==
  /\ IsFiniteSet(nodes) /\ timers \in Nat
  /\ watch \in [Watch -> {"off", "poll", "stopping"}]
  /\ NeverIdle

\* Fewer processes than numbers leave a number free for the next one.
LEMMA StartedChild ==
  ASSUME NEW others, IsFiniteSet(others), NEW release, NEW mines,
         Started(others, release, mines)
  PROVE  child' # NoNode /\ IsFiniteSet(nodes')
<1> DEFINE Used == {n.id : n \in others}
           Free == (1 .. MaxNode) \ Used
           Good(i) == /\ i \in 1 .. MaxNode
                      /\ \A n \in others : n.id # i
                      /\ \A j \in 1 .. i - 1 : \E n \in others : n.id = j
<1>1. IsFiniteSet(Used) /\ Cardinality(Used) <= Cardinality(others)
  <2> DEFINE idOf == [n \in others |-> n.id]
  <2>1. Used = {idOf[n] : n \in others}
    OBVIOUS
  <2> HIDE DEF idOf, Used
  <2> QED BY <2>1, ImageFinite
<1>2. Cardinality(others) < MaxNode /\ MaxNode \in Nat /\ Cardinality(others) \in Nat
      /\ Cardinality(Used) \in Nat
  BY <1>1, FS_CardinalityType, LauncherAssumption DEF Started
<1>3. Free # {}
  <2> SUFFICES ASSUME Free = {} PROVE FALSE
    OBVIOUS
  <2>1. 1 .. MaxNode \subseteq Used
    OBVIOUS
  <2>2. Cardinality(1 .. MaxNode) = MaxNode
    BY <1>2, FS_Interval
  <2>3. Cardinality(1 .. MaxNode) <= Cardinality(Used)
    BY <1>1, <2>1, FS_Subset
  <2> HIDE DEF Used
  <2> QED BY <1>1, <1>2, <2>2, <2>3
<1>4. Free \in SUBSET Nat
  OBVIOUS
<1>5. Min(Free) \in Free /\ \A y \in Free : Min(Free) <= y
  <2> HIDE DEF Free
  <2> QED BY <1>3, <1>4, MinIsLeast
<1> DEFINE least == Min(Free)
<1>6. Good(least)
  <2>1. least \in 1 .. MaxNode /\ least \in Free /\ \A y \in Free : least <= y
    BY <1>5
  <2> HIDE DEF least
  <2>2. ASSUME NEW j \in 1 .. least - 1 PROVE \E n \in others : n.id = j
    <3>1. j \in 1 .. MaxNode /\ ~(least <= j)
      BY <1>2, <2>1
    <3> QED BY <2>1, <3>1
  <2> QED BY <2>1, <2>2
<1> DEFINE id == CHOOSE i \in 1 .. MaxNode :
                   /\ \A n \in others : n.id # i
                   /\ \A j \in 1 .. i - 1 : \E n \in others : n.id = j
<1>7. id \in 1 .. MaxNode
  BY <1>6
<1>8. child' = id /\ nodes' = others \cup {[id |-> id, release |-> release, mines |-> mines,
                                          serving |-> FALSE, told |-> FALSE]}
  BY DEF Started
<1> HIDE DEF id
<1>9. IsFiniteSet(nodes')
  BY <1>8, FS_AddElement
<1> QED BY <1>7, <1>8, <1>9 DEF NoNode

\* Finitely many processes are told anything.
LEMMA ToldFinite == IsFiniteSet(nodes) => IsFiniteSet(Told)
<1> DEFINE told == [n \in nodes |-> IF n.id = child THEN [n EXCEPT !.told = TRUE] ELSE n]
<1>1. Told = {told[n] : n \in nodes}
  BY DEF Told
<1> HIDE DEF told
<1> QED BY <1>1, ImageFinite

\* Every step of the supervisor keeps its invariant.
LEMMA LauncherStep ==
  ASSUME LauncherInv, [LauncherNext]_launcherVars
  PROVE  LauncherInv'
<1> USE DEF LauncherInv, NeverIdle, nodeVars, selfVars, diskVars, healthVars, updateVars, worldVars
<1>1. CASE TimerFires
  BY <1>1, StartedChild DEF TimerFires
<1>2. CASE Ask
  BY <1>2 DEF Ask
<1>3. ASSUME NEW at \in Heights, Decide(at) PROVE LauncherInv'
  <2>1. UNCHANGED <<timers, watch, supervisor>>
    BY <1>3 DEF Decide
  <2>2. step = "asked"
    BY <1>3 DEF Decide
  <2>3. CASE UNCHANGED nodeVars
    BY <2>1, <2>2, <2>3
  <2>4. CASE \E mines : Started(nodes, app, mines)
    BY <2>1, <2>4, StartedChild
  <2>5. CASE ChildTold /\ step' = "guard"
    BY <2>1, <2>5, ToldFinite DEF ChildTold
  <2> QED BY <1>3, <2>3, <2>4, <2>5 DEF Decide
<1>4. CASE GuardRestarts
  BY <1>4, StartedChild DEF GuardRestarts
<1>5. CASE BuildFails
  <2>1. UNCHANGED <<timers, watch, supervisor>>
    BY <1>5 DEF BuildFails
  <2>2. CASE child = NoNode
    BY <1>5, <2>1, <2>2, StartedChild DEF BuildFails
  <2>3. CASE child # NoNode
    BY <1>5, <2>1, <2>3 DEF BuildFails
  <2> QED BY <2>2, <2>3
<1>6. CASE BuildDone
  BY <1>6, ToldFinite DEF BuildDone, ChildTold
<1>7. CASE Swap
  <2>1. CASE Refreshes(found, running)
    BY <1>7, <2>1, ToldFinite DEF Swap
  <2>2. CASE ~Refreshes(found, running)
    <3>1. Started(nodes, found, mineAllowed) /\ UNCHANGED <<timers, supervisor>>
          /\ watch' = [watch EXCEPT ![IF watch[1] = "off" THEN 1 ELSE 2] = "poll"]
      BY <1>7, <2>2 DEF Swap
    <3>2. watch' \in [Watch -> {"off", "poll", "stopping"}]
      BY <3>1
    <3> QED BY <3>1, <3>2, StartedChild
  <2> QED BY <2>1, <2>2
<1>8. CASE SwapFails
  <2>1. CASE Forgotten /\ UNCHANGED nodes
    BY <2>1 DEF Forgotten
  <2>2. CASE ~(Forgotten /\ UNCHANGED nodes)
    <3>1. UNCHANGED <<timers, watch, supervisor>>
          /\ IF child = NoNode THEN Started(nodes, app', mineAllowed) ELSE UNCHANGED nodeVars
      BY <1>8, <2>2 DEF SwapFails
    <3>2. CASE child = NoNode
      BY <3>1, <3>2, StartedChild
    <3>3. CASE child # NoNode
      BY <3>1, <3>3
    <3> QED BY <3>2, <3>3
  <2> QED BY <2>1, <2>2
<1>9. CASE RestartSelf
  BY <1>9 DEF RestartSelf, Forgotten
<1>10. ASSUME NEW n \in nodes, Serve(n) PROVE LauncherInv'
  <2>1. nodes' = (nodes \ {n}) \cup {[n EXCEPT !.serving = TRUE]}
        /\ UNCHANGED <<timers, watch, supervisor, child, step>>
    BY <1>10 DEF Serve
  <2>2. IsFiniteSet(nodes')
    BY <2>1, FS_RemoveElement, FS_AddElement
  <2> QED BY <2>1, <2>2
<1>11. ASSUME NEW n \in nodes, Prove(n) PROVE LauncherInv'
  BY <1>11 DEF Prove
<1>12. ASSUME NEW n \in nodes, Exit(n) PROVE LauncherInv'
  <2>1. IsFiniteSet(nodes') /\ UNCHANGED <<watch, supervisor, step>>
    BY <1>12, FS_RemoveElement DEF Exit
  <2>2. CASE n.id = child
    BY <1>12, <2>1, <2>2 DEF Exit
  <2>3. CASE n.id # child
    BY <1>12, <2>1, <2>3 DEF Exit
  <2> QED BY <2>2, <2>3
<1>13. ASSUME NEW w \in Watch, PollHealth(w) PROVE LauncherInv'
  <2>1. UNCHANGED <<timers, supervisor, step>>
    BY <1>13 DEF PollHealth
  <2>2. CASE watch[w] = "poll" /\ watch' = [watch EXCEPT ![w] = "off"] /\ UNCHANGED nodeVars
    BY <2>1, <2>2
  <2>3. CASE watch' = [watch EXCEPT ![w] = "stopping"] /\ ChildTold
    BY <2>1, <2>3, ToldFinite DEF ChildTold
  <2>4. CASE RollBack(w)
    <3>1. watch' = [watch EXCEPT ![w] = "off"] /\ \E release : Started(nodes, release, mineAllowed)
      BY <2>4 DEF RollBack
    <3> QED BY <2>1, <3>1, StartedChild
  <2> QED BY <1>13, <2>2, <2>3, <2>4 DEF PollHealth
<1>14. CASE BeginEmpty
  BY <1>14 DEF BeginEmpty, Install
<1>15. CASE Begin
  <2>1. UNCHANGED <<nodes, timers, watch>> /\ supervisor' # "up"
    BY <1>15 DEF Begin, Install
  <2> QED BY <2>1
<1>16. CASE Launch
  <2>1. Started(nodes, app, mineAllowed) /\ UNCHANGED timers
        /\ watch' = IF justUpdated THEN [watch EXCEPT ![1] = "poll"] ELSE watch
    BY <1>16 DEF Launch
  <2>2. watch' \in [Watch -> {"off", "poll", "stopping"}]
    BY <2>1
  <2> QED BY <2>1, <2>2, StartedChild
<1>17. CASE Breaks
  BY <1>17 DEF Breaks, Forgotten
<1>18. CASE Reboot
  BY <1>18, FS_EmptySet DEF Reboot, Forgotten
<1>19. CASE Publish \/ RollOut \/ Grow
  BY <1>19 DEF Publish, RollOut, Grow
<1>20. CASE UNCHANGED launcherVars
  BY <1>20 DEF launcherVars
<1> QED BY <1>1, <1>2, <1>3, <1>4, <1>5, <1>6, <1>7, <1>8, <1>9, <1>10, <1>11, <1>12, <1>13,
           <1>14, <1>15, <1>16, <1>17, <1>18, <1>19, <1>20 DEF LauncherNext

\* A supervisor that runs has a node, or something under way that starts one.
THEOREM NeverIdleTheorem == LauncherSpec => []NeverIdle
<1>1. LauncherInit => LauncherInv
  BY FS_EmptySet DEF LauncherInit, LauncherInv, NeverIdle
<1> QED BY <1>1, LauncherStep, PTL DEF LauncherSpec, LauncherInv

-----------------------------------------------------------------------------
(* Chalk and airdrops.                                                      *)

GrantsTypeOK ==
  /\ IsFiniteSet(onChain)
  /\ spent \in [Person -> Int]
  /\ grants \in [Person -> {"none", "fresh", "old"}]
  /\ grantsFile \in [Person -> {"none", "fresh", "old"}]

\* A sender's transactions on the chain have the nonces below its own, one each,
\* and the tip's has the highest.
Nonces ==
  /\ \A t, u \in onChain : t.by = u.by =>
       /\ t.nonce \in Nat /\ t.nonce < NonceOf(t.by)
       /\ t.nonce = u.nonce => t = u
  /\ last # NoTransaction => last \in onChain /\ last.nonce + 1 = NonceOf(last.by)

\* Nobody has spent more than was issued, and of the tip's issue nothing yet.
Balances ==
  \A p \in Person :
    /\ TokenBalanceOf(p) >= 0
    /\ last # NoTransaction /\ last.by = "issuer" /\ last.to = p => TokenBalanceOf(p) >= Grant

\* What is not on file is known to be unsaved.
Remembered ==
  /\ \A p \in Person : <<"issuer", p>> \notin unsaved => grantsFile[p] = grants[p]
  /\ \A p \in claims \ claimsFile : <<"treasury", p>> \in unsaved

\* At most one issue to a person may yet be mined, and then the person holds
\* little and is under its cool-down.
Issued ==
  \A p \in Person : p \notin late /\ <<"issuer", p>> \notin forgotten =>
    \/ Waiting(p) = {} /\ TokenBalanceOf(p) < Grant + Cost
    \/ /\ grants[p] = "fresh" /\ TokenBalanceOf(p) < Cost
       /\ \A t, u \in Waiting(p) : t = u

\* At most one airdrop to a person is anywhere, and then it is claimed.
Airdropped ==
  \A p \in Person : <<"treasury", p>> \notin forgotten =>
    \A t, u \in For("treasury", p, onChain \cup mempool \cup network) : t = u /\ p \in claims

GrantsInv == GrantsTypeOK /\ Nonces /\ Balances /\ Remembered /\ Issued /\ Airdropped

\* A product grows by its factor.
LEMMA OneMore == ASSUME NEW g \in Int, NEW n \in Int PROVE g * (n + 1) = g * n + g
OBVIOUS

\* A positive multiple is not less.
LEMMA AtLeastOne == ASSUME NEW c \in Nat \ {0}, NEW n \in Nat \ {0} PROVE c * n \in Nat /\ c * n >= c
OBVIOUS

\* A grant buys at least one expression.
LEMMA GrantAmount == Cost \in Nat \ {0} /\ Grant \in Nat /\ Grant >= Cost
BY GrantsAssumption, AtLeastOne DEF Grant

\* What is read from the chain is a number.
LEMMA GrantsTypes ==
  ASSUME GrantsTypeOK
  PROVE  /\ \A s : IsFiniteSet(Of(s, onChain)) /\ NonceOf(s) \in Nat
         /\ \A s, p : IsFiniteSet(For(s, p, onChain)) /\ Cardinality(For(s, p, onChain)) \in Nat
         /\ \A p \in Person : TokenBalanceOf(p) \in Int
<1>1. ASSUME NEW s PROVE IsFiniteSet(Of(s, onChain)) /\ NonceOf(s) \in Nat
  <2>1. Of(s, onChain) \in SUBSET onChain
    BY DEF Of
  <2> QED BY <2>1, FS_Subset, FS_CardinalityType DEF NonceOf, GrantsTypeOK
<1>2. ASSUME NEW s, NEW p
      PROVE  IsFiniteSet(For(s, p, onChain)) /\ Cardinality(For(s, p, onChain)) \in Nat
  <2>1. For(s, p, onChain) \in SUBSET Of(s, onChain)
    BY DEF For
  <2> QED BY <1>1, <2>1, FS_Subset, FS_CardinalityType
<1>3. ASSUME NEW p \in Person PROVE TokenBalanceOf(p) \in Int
  <2>1. Cardinality(For("issuer", p, onChain)) \in Int /\ Grant \in Int
    BY <1>2, GrantAmount
  <2>2. Grant * Cardinality(For("issuer", p, onChain)) \in Int
    BY <2>1
  <2> QED BY <2>2 DEF TokenBalanceOf, GrantsTypeOK
<1> QED BY <1>1, <1>2, <1>3

\* What a transaction adds to a chain without it.
LEMMA OneOnChain ==
  ASSUME NEW C, IsFiniteSet(C), NEW t, t \notin C
  PROVE  /\ \A s : Cardinality(Of(s, C \cup {t}))
                     = Cardinality(Of(s, C)) + (IF t.by = s THEN 1 ELSE 0)
         /\ \A s, p : Cardinality(For(s, p, C \cup {t}))
                     = Cardinality(For(s, p, C)) + (IF t.by = s /\ t.to = p THEN 1 ELSE 0)
<1>1. ASSUME NEW s
      PROVE  Cardinality(Of(s, C \cup {t})) = Cardinality(Of(s, C)) + (IF t.by = s THEN 1 ELSE 0)
  <2>1. IsFiniteSet(Of(s, C)) /\ t \notin Of(s, C)
    <3>1. Of(s, C) \in SUBSET C
      BY DEF Of
    <3> QED BY <3>1, FS_Subset
  <2>2. CASE t.by = s
    <3>1. Of(s, C \cup {t}) = Of(s, C) \cup {t}
      BY <2>2 DEF Of
    <3>2. Cardinality(Of(s, C) \cup {t}) = Cardinality(Of(s, C)) + 1
      BY <2>1, FS_AddElement
    <3> QED BY <2>2, <3>1, <3>2
  <2>3. CASE t.by # s
    <3>1. Of(s, C \cup {t}) = Of(s, C)
      BY <2>3 DEF Of
    <3> QED BY <2>1, <2>3, <3>1, FS_CardinalityType
  <2> QED BY <2>2, <2>3
<1>2. ASSUME NEW s, NEW p
      PROVE  Cardinality(For(s, p, C \cup {t}))
               = Cardinality(For(s, p, C)) + (IF t.by = s /\ t.to = p THEN 1 ELSE 0)
  <2>1. IsFiniteSet(For(s, p, C)) /\ t \notin For(s, p, C)
    <3>1. For(s, p, C) \in SUBSET C
      BY DEF For, Of
    <3> QED BY <3>1, FS_Subset
  <2>2. CASE t.by = s /\ t.to = p
    <3>1. For(s, p, C \cup {t}) = For(s, p, C) \cup {t}
      BY <2>2 DEF For, Of
    <3>2. Cardinality(For(s, p, C) \cup {t}) = Cardinality(For(s, p, C)) + 1
      BY <2>1, FS_AddElement
    <3> QED BY <2>2, <3>1, <3>2
  <2>3. CASE ~(t.by = s /\ t.to = p)
    <3>1. For(s, p, C \cup {t}) = For(s, p, C)
      BY <2>3 DEF For, Of
    <3> QED BY <2>1, <2>3, <3>1, FS_CardinalityType
  <2> QED BY <2>2, <2>3
<1> QED BY <1>1, <1>2

\* Nothing is given at the start.
LEMMA GrantsInit0 == GrantsInit => GrantsInv
<1> SUFFICES ASSUME GrantsInit PROVE GrantsInv
  OBVIOUS
<1> USE DEF GrantsInit
<1>1. GrantsTypeOK
  BY FS_EmptySet DEF GrantsTypeOK
<1>2. Nonces
  BY DEF Nonces
<1>3. ASSUME NEW p \in Person PROVE TokenBalanceOf(p) = 0
  <2>1. For("issuer", p, onChain) = {}
    BY DEF For, Of
  <2>2. Grant * 0 = 0
    BY GrantAmount
  <2> QED BY <2>1, <2>2, FS_EmptySet DEF TokenBalanceOf
<1>4. Balances
  BY <1>3, GrantAmount DEF Balances
<1>5. Remembered
  BY DEF Remembered
<1>6. Issued
  BY <1>3, GrantAmount DEF Issued, Waiting, For, Of
<1>7. Airdropped
  BY DEF Airdropped, For, Of
<1> QED BY <1>1, <1>2, <1>4, <1>5, <1>6, <1>7 DEF GrantsInv

\* A step that leaves the chain alone leaves what is read from it alone.
LEMMA ChainStays ==
  ASSUME UNCHANGED <<onChain, spent, last>>
  PROVE  /\ \A s : NonceOf(s)' = NonceOf(s)
         /\ \A p : TokenBalanceOf(p)' = TokenBalanceOf(p)
         /\ Nonces => Nonces'
         /\ Balances => Balances'
BY DEF NonceOf, TokenBalanceOf, Nonces, Balances, For, Of

\* What was sent after a step is what is read from the sets after it.
LEMMA AllPrimed ==
  \A s, p : For(s, p, onChain \cup mempool \cup network)' = For(s, p, (onChain \cup mempool \cup network)')
BY DEF For, Of

\* An issue goes to an address that holds little and waits for none.
LEMMA IssueStep ==
  ASSUME GrantsInv, NEW p \in Person, IssueTo(p)
  PROVE  GrantsInv'
<1> USE DEF GrantsInv
<1> DEFINE t == [by |-> "issuer", to |-> p, nonce |-> PendingNonce("issuer")]
<1>0. /\ TokenBalanceOf(p) < Cost /\ grants[p] # "fresh"
      /\ mempool' = mempool \cup {t} /\ network' \in {network, network \cup {t}}
      /\ UNCHANGED <<onChain, spent, last, claims, claimsFile, late, forgotten>>
      /\ grants' = [grants EXCEPT ![p] = "fresh"]
      /\ SavedGrants(grants')
  BY DEF IssueTo, MayReceive, Sends
<1>t. t.by = "issuer" /\ t.to = p
  OBVIOUS
<1> HIDE DEF t
<1>1. GrantsTypeOK'
  BY <1>0 DEF GrantsTypeOK, SavedGrants
<1>2. Nonces' /\ Balances'
  BY <1>0, ChainStays
<1>3. Remembered'
  <2>1. CASE grantsFile' = grants' /\ unsaved' = unsaved \ ({"issuer"} \X Person)
    <3>1. \A q : <<"treasury", q>> \notin {"issuer"} \X Person
      OBVIOUS
    <3> QED BY <1>0, <2>1, <3>1 DEF Remembered
  <2>2. CASE /\ UNCHANGED grantsFile
             /\ unsaved' = unsaved \cup {<<"issuer", q>> : q \in {r \in Person : grants'[r] # grants[r]}}
    BY <1>0, <2>2 DEF Remembered
  <2> QED BY <1>0, <2>1, <2>2 DEF SavedGrants
<1>4. Issued'
  <2> SUFFICES ASSUME NEW q \in Person, q \notin late, <<"issuer", q>> \notin forgotten
               PROVE  \/ Waiting(q)' = {} /\ TokenBalanceOf(q)' < Grant + Cost
                      \/ /\ grants'[q] = "fresh" /\ TokenBalanceOf(q)' < Cost
                         /\ \A u, v \in Waiting(q)' : u = v
    BY <1>0 DEF Issued
  <2>1. TokenBalanceOf(q)' = TokenBalanceOf(q)
    BY <1>0, ChainStays
  <2>2. CASE q = p
    <3>1. Waiting(p) = {}
      BY <1>0, <2>2 DEF Issued
    <3>2. Waiting(p)' \subseteq Waiting(p) \cup {t}
      BY <1>0 DEF Waiting, For, Of
    <3>3. grants'[p] = "fresh"
      BY <1>0 DEF GrantsTypeOK
    <3> QED BY <1>0, <2>1, <2>2, <3>1, <3>2, <3>3
  <2>3. CASE q # p
    <3>1. Waiting(q)' = Waiting(q)
      BY <1>0, <1>t, <2>3 DEF Waiting, For, Of
    <3>2. grants'[q] = grants[q]
      BY <1>0, <2>3 DEF GrantsTypeOK
    <3> QED BY <2>1, <3>1, <3>2 DEF Issued
  <2> QED BY <2>2, <2>3
<1>5. Airdropped'
  <2>1. \A S, q : For("treasury", q, S \cup {t}) = For("treasury", q, S)
    BY <1>t DEF For, Of
  <2>2. (onChain \cup mempool \cup network)' = onChain \cup mempool \cup network
        \/ (onChain \cup mempool \cup network)' = (onChain \cup mempool \cup network) \cup {t}
    BY <1>0
  <2> DEFINE All == onChain \cup mempool \cup network
  <2>3. \A q : For("treasury", q, All') = For("treasury", q, All)
    <3> HIDE DEF All
    <3>1. All' = All \/ All' = All \cup {t}
      BY <2>2 DEF All
    <3> QED BY <2>1, <3>1
  <2>4. \A q : For("treasury", q, All)' = For("treasury", q, All')
    BY AllPrimed
  <2>5. \A q : For("treasury", q, All)' = For("treasury", q, All)
    <3> HIDE DEF All
    <3> QED BY <2>3, <2>4
  <2>6. UNCHANGED <<claims, forgotten>> /\ Airdropped
    BY <1>0
  <2> QED BY <2>5, <2>6 DEF Airdropped
<1> QED BY <1>1, <1>2, <1>3, <1>4, <1>5

\* A claim is the first of its address.
LEMMA ClaimStep ==
  ASSUME GrantsInv, NEW p \in Person, ClaimAirdrop(p)
  PROVE  GrantsInv'
<1> USE DEF GrantsInv
<1> DEFINE t == [by |-> "treasury", to |-> p, nonce |-> PendingNonce("treasury")]
<1>0. /\ p \notin claims /\ claims' = claims \cup {p}
      /\ mempool' = mempool \cup {t} /\ network' \in {network, network \cup {t}}
      /\ UNCHANGED <<onChain, spent, last, grants, grantsFile, late, forgotten>>
      /\ SavedClaims(claims')
  BY DEF ClaimAirdrop, Sends
<1> HIDE DEF t
<1>1. GrantsTypeOK'
  BY <1>0 DEF GrantsTypeOK
<1>2. Nonces' /\ Balances'
  BY <1>0, ChainStays
<1>3. Remembered'
  <2>1. CASE claimsFile' = claims' /\ unsaved' = unsaved \ ({"treasury"} \X Person)
    BY <1>0, <2>1 DEF Remembered
  <2>2. CASE /\ UNCHANGED claimsFile
             /\ unsaved' = unsaved \cup {<<"treasury", q>> : q \in claims' \ claims}
    BY <1>0, <2>2 DEF Remembered
  <2> QED BY <1>0, <2>1, <2>2 DEF SavedClaims
<1>4. Issued'
  <2>1. \A q \in Person : Waiting(q)' = Waiting(q) /\ TokenBalanceOf(q)' = TokenBalanceOf(q)
    BY <1>0, ChainStays DEF Waiting, For, Of, t
  <2> QED BY <1>0, <2>1 DEF Issued
<1>5. Airdropped'
  <2> SUFFICES ASSUME NEW q \in Person, <<"treasury", q>> \notin forgotten,
                      NEW u \in For("treasury", q, onChain \cup mempool \cup network)',
                      NEW v \in For("treasury", q, onChain \cup mempool \cup network)'
               PROVE  u = v /\ q \in claims'
    BY <1>0 DEF Airdropped
  <2>1. CASE q = p
    <3>1. For("treasury", p, onChain \cup mempool \cup network) = {}
      BY <1>0, <2>1 DEF Airdropped
    <3>2. u = t /\ v = t
      BY <1>0, <2>1, <3>1 DEF For, Of
    <3> QED BY <1>0, <2>1, <3>2
  <2>2. CASE q # p
    <3>1. For("treasury", q, onChain \cup mempool \cup network)'
          = For("treasury", q, onChain \cup mempool \cup network)
      BY <1>0, <2>2 DEF For, Of, t
    <3> QED BY <1>0, <3>1 DEF Airdropped
  <2> QED BY <2>1, <2>2
<1> QED BY <1>1, <1>2, <1>3, <1>4, <1>5

\* A transaction is mined once, in the order of its nonces.
LEMMA MineStep ==
  ASSUME GrantsInv, NEW t \in mempool \cup network, MineTransaction(t)
  PROVE  GrantsInv'
<1> USE DEF GrantsInv
<1>0. /\ t.nonce = NonceOf(t.by)
      /\ onChain' = onChain \cup {t} /\ last' = t
      /\ mempool' \subseteq mempool
      /\ UNCHANGED <<network, spent, claims, claimsFile, grants, grantsFile, unsaved, late, forgotten>>
  BY DEF MineTransaction, records
<1>1. t \notin onChain
  BY <1>0, GrantsTypes DEF Nonces
<1>2. IsFiniteSet(onChain)
  BY DEF GrantsTypeOK
<1>3. \A s : NonceOf(s)' = NonceOf(s) + (IF t.by = s THEN 1 ELSE 0)
  BY <1>0, <1>1, <1>2, OneOnChain DEF NonceOf
<1>4. ASSUME NEW p \in Person
      PROVE  TokenBalanceOf(p)' = TokenBalanceOf(p) + (IF t.by = "issuer" /\ t.to = p THEN Grant ELSE 0)
  <2> DEFINE n == Cardinality(For("issuer", p, onChain))
  <2>1. n \in Int /\ Grant \in Int /\ spent[p] \in Int
    BY GrantsTypes, GrantAmount DEF GrantsTypeOK
  <2>2. Cardinality(For("issuer", p, onChain')) = n + (IF t.by = "issuer" /\ t.to = p THEN 1 ELSE 0)
    BY <1>0, <1>1, <1>2, OneOnChain
  <2>3. TokenBalanceOf(p) = Grant * n - spent[p]
    BY DEF TokenBalanceOf
  <2>4. TokenBalanceOf(p)' = Grant * Cardinality(For("issuer", p, onChain')) - spent[p]
    BY <1>0 DEF TokenBalanceOf, For, Of
  <2>5. Grant * (n + 1) = Grant * n + Grant /\ Grant * n \in Int
    BY <2>1, OneMore
  <2> HIDE DEF n
  <2>6. CASE t.by = "issuer" /\ t.to = p
    BY <2>1, <2>2, <2>3, <2>4, <2>5, <2>6
  <2>7. CASE ~(t.by = "issuer" /\ t.to = p)
    <3>1. Cardinality(For("issuer", p, onChain')) = n
      BY <2>1, <2>2, <2>7
    <3> QED BY <2>1, <2>3, <2>4, <2>5, <2>7, <3>1
  <2> QED BY <2>6, <2>7
<1>5. GrantsTypeOK'
  BY <1>0, FS_AddElement DEF GrantsTypeOK
<1>6. Nonces'
  <2>1. \A s : NonceOf(s) \in Nat
    BY GrantsTypes
  <2>2. ASSUME NEW u \in onChain', NEW v \in onChain', u.by = v.by
        PROVE  /\ u.nonce \in Nat /\ u.nonce < NonceOf(u.by)'
               /\ u.nonce = v.nonce => u = v
    <3>1. ASSUME NEW w \in onChain'
          PROVE w.nonce \in Nat /\ w.nonce < NonceOf(w.by)' /\ (w # t => w \in onChain /\ w.nonce < NonceOf(w.by))
      <4>1. CASE w = t
        BY <1>0, <1>3, <2>1, <4>1
      <4>2. CASE w # t
        <5>1. w \in onChain
          BY <1>0, <4>2
        <5>2. w.nonce \in Nat /\ w.nonce < NonceOf(w.by)
          BY <5>1 DEF Nonces
        <5> QED BY <1>3, <2>1, <5>1, <5>2
      <4> QED BY <4>1, <4>2
    <3>2. CASE u # t /\ v # t
      <4>1. u \in onChain /\ v \in onChain
        BY <3>1, <3>2
      <4>2. u.nonce = v.nonce => u = v
        BY <2>2, <4>1 DEF Nonces
      <4> QED BY <3>1, <4>2
    <3>3. CASE u = t /\ v # t
      <4>1. v.nonce < NonceOf(v.by) /\ v.nonce \in Nat
        BY <3>1, <3>3
      <4>2. u.nonce = NonceOf(v.by) /\ NonceOf(v.by) \in Nat
        BY <1>0, <2>1, <2>2, <3>3
      <4> QED BY <3>1, <4>1, <4>2
    <3>4. CASE u # t /\ v = t
      <4>1. u.nonce < NonceOf(u.by) /\ u.nonce \in Nat
        BY <3>1, <3>4
      <4>2. v.nonce = NonceOf(u.by) /\ NonceOf(u.by) \in Nat
        BY <1>0, <2>1, <2>2, <3>4
      <4> QED BY <3>1, <4>1, <4>2
    <3>5. CASE u = t /\ v = t
      BY <3>1, <3>5
    <3> QED BY <3>2, <3>3, <3>4, <3>5
  <2>3. t \in onChain' /\ t.nonce + 1 = NonceOf(t.by)'
    BY <1>0, <1>3, <2>1
  <2>4. \A u, v \in onChain' : u.by = v.by =>
          /\ u.nonce \in Nat /\ u.nonce < NonceOf(u.by)'
          /\ u.nonce = v.nonce => u = v
    BY <2>2
  <2> QED BY <1>0, <2>3, <2>4 DEF Nonces, NonceOf
<1>7. Balances'
  <2> SUFFICES ASSUME NEW p \in Person
               PROVE  /\ TokenBalanceOf(p)' >= 0
                      /\ t.by = "issuer" /\ t.to = p => TokenBalanceOf(p)' >= Grant
    BY <1>0 DEF Balances
  <2>1. TokenBalanceOf(p) \in Int /\ TokenBalanceOf(p) >= 0 /\ Grant \in Nat
    BY GrantsTypes, GrantAmount DEF Balances
  <2> QED BY <1>4, <2>1
<1>8. Remembered'
  BY <1>0 DEF Remembered
<1>9. Issued'
  <2> SUFFICES ASSUME NEW p \in Person, p \notin late, <<"issuer", p>> \notin forgotten
               PROVE  \/ Waiting(p)' = {} /\ TokenBalanceOf(p)' < Grant + Cost
                      \/ /\ grants[p] = "fresh" /\ TokenBalanceOf(p)' < Cost
                         /\ \A u, v \in Waiting(p)' : u = v
    BY <1>0 DEF Issued
  <2>1. Waiting(p)' \subseteq Waiting(p) \ {t}
    BY <1>0 DEF Waiting, For, Of
  <2>2. TokenBalanceOf(p) \in Int /\ Grant \in Nat /\ Cost \in Nat
    BY GrantsTypes, GrantAmount
  <2>3. CASE t.by = "issuer" /\ t.to = p
    <3>1. t \in Waiting(p)
      BY <1>1, <2>3 DEF Waiting, For, Of
    <3>2. TokenBalanceOf(p) < Cost /\ \A u, v \in Waiting(p) : u = v
      BY <3>1 DEF Issued
    <3>3. Waiting(p)' = {}
      BY <2>1, <3>1, <3>2
    <3> QED BY <1>4, <2>2, <2>3, <3>2, <3>3
  <2>4. CASE ~(t.by = "issuer" /\ t.to = p)
    <3>1. TokenBalanceOf(p)' = TokenBalanceOf(p)
      BY <1>4, <2>2, <2>4
    <3> QED BY <2>1, <3>1 DEF Issued
  <2> QED BY <2>3, <2>4
<1>10. Airdropped'
  <2>1. \A q : For("treasury", q, onChain \cup mempool \cup network)'
               \subseteq For("treasury", q, onChain \cup mempool \cup network)
    BY <1>0 DEF For, Of
  <2> QED BY <1>0, <2>1 DEF Airdropped
<1> QED BY <1>5, <1>6, <1>7, <1>8, <1>9, <1>10

\* An abandoned issue had not been spent, and waits again.
LEMMA AbandonStep ==
  ASSUME GrantsInv, Abandon
  PROVE  GrantsInv'
<1> USE DEF GrantsInv
<1> DEFINE C == onChain \ {last}
<1>0. /\ last # NoTransaction /\ last' = NoTransaction
      /\ onChain' = C /\ mempool' = mempool \cup {last}
      /\ late' = IF last.by = "issuer" /\ grants[last.to] # "fresh" THEN late \cup {last.to} ELSE late
      /\ UNCHANGED <<network, spent, claims, claimsFile, grants, grantsFile, unsaved, forgotten>>
  BY DEF Abandon, records
<1>1. last \in onChain /\ last.nonce + 1 = NonceOf(last.by)
  BY <1>0 DEF Nonces
<1>2. IsFiniteSet(C) /\ last \notin C /\ onChain = C \cup {last}
  BY <1>1, FS_RemoveElement DEF GrantsTypeOK
<1> HIDE DEF C
<1>3. GrantsTypeOK'
  BY <1>0, <1>2 DEF GrantsTypeOK
<1>4. \A s : NonceOf(s)' \in Nat /\ NonceOf(s) = NonceOf(s)' + (IF last.by = s THEN 1 ELSE 0)
  <2>1. \A s : NonceOf(s)' \in Nat
    <3>1. \A s : Of(s, C) \in SUBSET C
      BY DEF Of
    <3>2. \A s : Cardinality(Of(s, C)) \in Nat
      BY <1>2, <3>1, FS_Subset, FS_CardinalityType
    <3> QED BY <1>0, <3>2 DEF NonceOf
  <2>2. \A s : Cardinality(Of(s, C \cup {last})) = Cardinality(Of(s, C)) + (IF last.by = s THEN 1 ELSE 0)
    BY <1>2, OneOnChain
  <2> QED BY <1>0, <1>2, <2>1, <2>2 DEF NonceOf
<1>5. ASSUME NEW p \in Person
      PROVE  /\ TokenBalanceOf(p)' \in Int
             /\ TokenBalanceOf(p) = TokenBalanceOf(p)' + (IF last.by = "issuer" /\ last.to = p THEN Grant ELSE 0)
  <2> DEFINE n == Cardinality(For("issuer", p, C))
  <2>0. n \in Nat
    <3>1. For("issuer", p, C) \in SUBSET C
      BY DEF For, Of
    <3> QED BY <1>2, <3>1, FS_Subset, FS_CardinalityType
  <2>1. n \in Int /\ Grant \in Int /\ spent[p] \in Int
    BY <2>0, GrantAmount DEF GrantsTypeOK
  <2>2. Cardinality(For("issuer", p, onChain)) = n + (IF last.by = "issuer" /\ last.to = p THEN 1 ELSE 0)
    BY <1>2, OneOnChain
  <2>3. TokenBalanceOf(p)' = Grant * n - spent[p]
    BY <1>0 DEF TokenBalanceOf
  <2>4. TokenBalanceOf(p) = Grant * Cardinality(For("issuer", p, onChain)) - spent[p]
    BY DEF TokenBalanceOf
  <2>5. Grant * (n + 1) = Grant * n + Grant /\ Grant * n \in Int
    BY <2>1, OneMore
  <2> HIDE DEF n
  <2>6. CASE last.by = "issuer" /\ last.to = p
    BY <2>1, <2>2, <2>3, <2>4, <2>5, <2>6
  <2>7. CASE ~(last.by = "issuer" /\ last.to = p)
    <3>1. Cardinality(For("issuer", p, onChain)) = n
      BY <2>1, <2>2, <2>7
    <3> QED BY <2>1, <2>3, <2>4, <2>5, <2>7, <3>1
  <2> QED BY <2>6, <2>7
<1>6. Nonces'
  <2>1. ASSUME NEW u \in C, NEW v \in C, u.by = v.by
        PROVE  /\ u.nonce \in Nat /\ u.nonce < NonceOf(u.by)'
               /\ u.nonce = v.nonce => u = v
    <3>1. /\ u.nonce \in Nat /\ u.nonce < NonceOf(u.by)
          /\ u.nonce = v.nonce => u = v
      BY <1>2, <2>1 DEF Nonces
    <3>2. CASE u.by = last.by
      <4>1. u.nonce # last.nonce
        BY <1>2, <3>2 DEF Nonces
      <4>2. last.nonce \in Nat
        BY <1>1 DEF Nonces
      <4> QED BY <1>1, <1>4, <3>1, <3>2, <4>1, <4>2
    <3>3. CASE u.by # last.by
      BY <1>4, <3>1, <3>3
    <3> QED BY <3>2, <3>3
  <2>2. \A u, v \in C : u.by = v.by =>
          /\ u.nonce \in Nat /\ u.nonce < NonceOf(u.by)'
          /\ u.nonce = v.nonce => u = v
    BY <2>1
  <2> QED BY <1>0, <2>2 DEF Nonces, NonceOf
<1>7. Balances'
  <2> SUFFICES ASSUME NEW p \in Person PROVE TokenBalanceOf(p)' >= 0
    BY <1>0 DEF Balances
  <2>1. TokenBalanceOf(p) >= 0 /\ (last.by = "issuer" /\ last.to = p => TokenBalanceOf(p) >= Grant)
    BY <1>0 DEF Balances
  <2> QED BY <1>5, <2>1, GrantAmount
<1>8. Remembered'
  BY <1>0 DEF Remembered
<1>9. Issued'
  <2> SUFFICES ASSUME NEW p \in Person, p \notin late', <<"issuer", p>> \notin forgotten
               PROVE  \/ Waiting(p)' = {} /\ TokenBalanceOf(p)' < Grant + Cost
                      \/ /\ grants[p] = "fresh" /\ TokenBalanceOf(p)' < Cost
                         /\ \A u, v \in Waiting(p)' : u = v
    BY <1>0 DEF Issued
  <2>0. p \notin late
    BY <1>0
  <2>1. Waiting(p)' \subseteq Waiting(p) \cup {last}
    BY <1>0, <1>2 DEF Waiting, For, Of
  <2>2. Grant \in Nat /\ Cost \in Nat /\ Grant >= Cost /\ TokenBalanceOf(p)' \in Int
    BY <1>5, GrantAmount
  <2>3. CASE last.by = "issuer" /\ last.to = p
    <3>1. grants[p] = "fresh"
      BY <1>0, <2>3
    <3>2. TokenBalanceOf(p) = TokenBalanceOf(p)' + Grant
      BY <1>5, <2>3
    <3>3. TokenBalanceOf(p) >= Grant
      BY <1>0, <2>3 DEF Balances
    <3>4. ~(TokenBalanceOf(p) < Cost)
      BY <2>2, <3>2, <3>3
    <3>5. Waiting(p) = {} /\ TokenBalanceOf(p) < Grant + Cost
      BY <2>0, <3>4 DEF Issued
    <3> QED BY <2>1, <2>2, <3>1, <3>2, <3>5
  <2>4. CASE ~(last.by = "issuer" /\ last.to = p)
    <3>1. TokenBalanceOf(p)' = TokenBalanceOf(p)
      BY <1>5, <2>2, <2>4
    <3>2. Waiting(p)' = Waiting(p)
      BY <1>0, <1>2, <2>4 DEF Waiting, For, Of
    <3> QED BY <2>0, <3>1, <3>2 DEF Issued
  <2> QED BY <2>3, <2>4
<1>10. Airdropped'
  <2>1. \A q : For("treasury", q, onChain \cup mempool \cup network)'
               = For("treasury", q, onChain \cup mempool \cup network)
    BY <1>0, <1>2 DEF For, Of
  <2> QED BY <1>0, <2>1 DEF Airdropped
<1> QED BY <1>3, <1>6, <1>7, <1>8, <1>9, <1>10

\* Who speaks holds less.
LEMMA SpeakStep ==
  ASSUME GrantsInv, NEW p \in Person, NEW n \in Cost .. Cost + 1, SpeakWith(p, n)
  PROVE  GrantsInv'
<1> USE DEF GrantsInv
<1>0. /\ n <= TokenBalanceOf(p) /\ n \in Nat
      /\ spent' = [spent EXCEPT ![p] = @ + n] /\ last' = NoTransaction
      /\ UNCHANGED <<mempool, network, onChain, claims, claimsFile, grants, grantsFile, unsaved, late, forgotten>>
  BY GrantAmount DEF SpeakWith, records
<1>1. GrantsTypeOK'
  BY <1>0 DEF GrantsTypeOK
<1>2. Nonces'
  BY <1>0 DEF Nonces, NonceOf
<1>3. ASSUME NEW q \in Person
      PROVE  /\ TokenBalanceOf(q)' = TokenBalanceOf(q) - (IF q = p THEN n ELSE 0)
             /\ TokenBalanceOf(q) \in Int
  <2>1. TokenBalanceOf(q) \in Int /\ spent[q] \in Int /\ Cardinality(For("issuer", q, onChain)) \in Int
        /\ Grant \in Int
    BY GrantsTypes, GrantAmount DEF GrantsTypeOK
  <2>2. Grant * Cardinality(For("issuer", q, onChain)) \in Int
    BY <2>1
  <2>3. spent'[q] = IF q = p THEN spent[q] + n ELSE spent[q]
    BY <1>0 DEF GrantsTypeOK
  <2>4. TokenBalanceOf(q)' = Grant * Cardinality(For("issuer", q, onChain)) - spent'[q]
    BY <1>0 DEF TokenBalanceOf, For, Of
  <2> QED BY <1>0, <2>1, <2>2, <2>3, <2>4 DEF TokenBalanceOf
<1>4. Balances'
  <2> SUFFICES ASSUME NEW q \in Person PROVE TokenBalanceOf(q)' >= 0
    BY <1>0 DEF Balances
  <2> QED BY <1>0, <1>3 DEF Balances
<1>5. Remembered'
  BY <1>0 DEF Remembered
<1>6. Issued'
  <2> SUFFICES ASSUME NEW q \in Person, q \notin late, <<"issuer", q>> \notin forgotten
               PROVE  \/ Waiting(q)' = {} /\ TokenBalanceOf(q)' < Grant + Cost
                      \/ /\ grants[q] = "fresh" /\ TokenBalanceOf(q)' < Cost
                         /\ \A u, v \in Waiting(q)' : u = v
    BY <1>0 DEF Issued
  <2>1. Waiting(q)' = Waiting(q)
    BY <1>0 DEF Waiting, For, Of
  <2>2. TokenBalanceOf(q)' \in Int /\ TokenBalanceOf(q)' <= TokenBalanceOf(q) /\ TokenBalanceOf(q) \in Int
    BY <1>0, <1>3
  <2>3. Grant \in Nat /\ Cost \in Nat
    BY GrantAmount
  <2> QED BY <2>1, <2>2, <2>3 DEF Issued
<1>7. Airdropped'
  <2>1. \A q : For("treasury", q, onChain \cup mempool \cup network)'
               = For("treasury", q, onChain \cup mempool \cup network)
    BY <1>0 DEF For, Of
  <2> QED BY <1>0, <2>1 DEF Airdropped
<1> QED BY <1>1, <1>2, <1>4, <1>5, <1>6, <1>7

\* Time, a full mempool and a restart give nothing.
LEMMA TimeStep ==
  ASSUME GrantsInv,
         \/ \E p \in Person : Elapse(p)
         \/ \E t \in mempool \cup network : Displace(t)
         \/ Restart
  PROVE  GrantsInv'
<1> USE DEF GrantsInv
<1>0. UNCHANGED <<network, onChain, spent, last>> /\ mempool' \subseteq mempool
  BY DEF Elapse, Displace, Restart, chain
<1>1. Nonces' /\ Balances' /\ \A p : TokenBalanceOf(p)' = TokenBalanceOf(p)
  BY <1>0, ChainStays
<1>2. \A p : Waiting(p)' \subseteq Waiting(p)
  BY <1>0 DEF Waiting, For, Of
<1>3. \A q : For("treasury", q, onChain \cup mempool \cup network)'
             \subseteq For("treasury", q, onChain \cup mempool \cup network)
  BY <1>0 DEF For, Of
<1>4. ASSUME NEW p \in Person, Elapse(p) PROVE GrantsInv'
  <2> DEFINE aged(book) == IF book[p] = "fresh" THEN [book EXCEPT ![p] = "old"] ELSE book
  <2>0. /\ grants[p] = "fresh"
        /\ grants' = aged(grants) /\ grantsFile' = aged(grantsFile)
        /\ late' = IF Waiting(p) # {} THEN late \cup {p} ELSE late
        /\ UNCHANGED <<claims, claimsFile, unsaved, forgotten>>
    BY <1>4 DEF Elapse
  <2>1. /\ GrantsTypeOK'
        /\ \A q \in Person \ {p} : grants'[q] = grants[q] /\ grantsFile'[q] = grantsFile[q]
        /\ grants[p] = grantsFile[p] => grants'[p] = grantsFile'[p]
    BY <1>0, <2>0 DEF GrantsTypeOK
  <2>2. Remembered'
    BY <2>0, <2>1 DEF Remembered
  <2>3. Issued'
    <3> SUFFICES ASSUME NEW q \in Person, q \notin late', <<"issuer", q>> \notin forgotten
                 PROVE  \/ Waiting(q)' = {} /\ TokenBalanceOf(q)' < Grant + Cost
                        \/ /\ grants'[q] = "fresh" /\ TokenBalanceOf(q)' < Cost
                           /\ \A u, v \in Waiting(q)' : u = v
      BY <2>0 DEF Issued
    <3>1. q \notin late
      BY <2>0
    <3>2. CASE q = p
      <4>1. Waiting(p) = {}
        BY <2>0, <3>2
      <4>2. TokenBalanceOf(p) < Grant + Cost
        BY <3>1, <3>2, GrantAmount, GrantsTypes DEF Issued
      <4> QED BY <1>1, <1>2, <3>2, <4>1, <4>2
    <3>3. CASE q # p
      BY <1>1, <1>2, <2>1, <3>1, <3>3 DEF Issued
    <3> QED BY <3>2, <3>3
  <2>4. Airdropped'
    BY <1>3, <2>0 DEF Airdropped
  <2> QED BY <1>1, <2>1, <2>2, <2>3, <2>4
<1>5. ASSUME NEW t \in mempool \cup network, Displace(t) PROVE GrantsInv'
  <2>0. UNCHANGED <<claims, claimsFile, grants, grantsFile, unsaved, late, forgotten>>
    BY <1>5 DEF Displace, records
  <2>1. GrantsTypeOK' /\ Remembered'
    BY <1>0, <2>0 DEF GrantsTypeOK, Remembered
  <2>2. Issued'
    BY <1>1, <1>2, <2>0 DEF Issued
  <2>3. Airdropped'
    BY <1>3, <2>0 DEF Airdropped
  <2> QED BY <1>1, <2>1, <2>2, <2>3
<1>6. CASE Restart
  <2>0. /\ grants' = grantsFile /\ claims' = claimsFile
        /\ forgotten' = forgotten \cup unsaved /\ unsaved' = {}
        /\ UNCHANGED <<grantsFile, claimsFile, late>>
    BY <1>6 DEF Restart
  <2>1. GrantsTypeOK' /\ Remembered'
    BY <1>0, <2>0 DEF GrantsTypeOK, Remembered
  <2>2. Issued'
    <3>1. \A q \in Person : <<"issuer", q>> \notin forgotten' => grants'[q] = grants[q]
      BY <2>0 DEF Remembered
    <3> QED BY <1>1, <1>2, <2>0, <3>1 DEF Issued
  <2>3. Airdropped'
    <3>1. \A q \in Person : <<"treasury", q>> \notin forgotten' /\ q \in claims => q \in claims'
      BY <2>0 DEF Remembered
    <3> QED BY <1>3, <2>0, <3>1 DEF Airdropped
  <2> QED BY <1>1, <2>1, <2>2, <2>3
<1> QED BY <1>4, <1>5, <1>6

\* Every step keeps the invariant.
LEMMA GrantsInvariance == GrantsInv /\ [GrantsNext]_grantsVars => GrantsInv'
<1> SUFFICES ASSUME GrantsInv, [GrantsNext]_grantsVars PROVE GrantsInv'
  OBVIOUS
<1>1. ASSUME UNCHANGED <<records, chain, late, forgotten>> PROVE GrantsInv'
  <2>1. /\ GrantsTypeOK' /\ Remembered'
        /\ UNCHANGED <<onChain, spent, last>> /\ \A p : Waiting(p)' = Waiting(p)
    BY <1>1 DEF records, chain, GrantsInv, GrantsTypeOK, Remembered, Waiting, For, Of
  <2>2. Nonces' /\ Balances' /\ \A p : TokenBalanceOf(p)' = TokenBalanceOf(p)
    BY <2>1, ChainStays DEF GrantsInv
  <2>3. Issued'
    BY <1>1, <2>1, <2>2 DEF records, GrantsInv, Issued
  <2>4. Airdropped'
    BY <1>1 DEF records, chain, GrantsInv, Airdropped, For, Of
  <2> QED BY <2>1, <2>2, <2>3, <2>4 DEF GrantsInv
<1>2. ASSUME NEW p \in Person, ChallengeFor(p) PROVE GrantsInv'
  BY <1>1, <1>2 DEF ChallengeFor
<1>3. CASE LinkChallenge \/ Waste
  BY <1>1, <1>3 DEF LinkChallenge, Waste
<1>4. CASE UNCHANGED grantsVars
  BY <1>1, <1>4 DEF grantsVars
<1>5. ASSUME NEW p \in Person, Redeem(p) \/ GrantForProof(p) PROVE GrantsInv'
  BY <1>5, IssueStep DEF Redeem, GrantForProof
<1> QED BY <1>2, <1>3, <1>4, <1>5, ClaimStep, MineStep, AbandonStep, SpeakStep, TimeStep DEF GrantsNext

\* Chalk does not pile up with one address and an airdrop is claimed once, unless
\* the cool-down ended, a block was abandoned or a record was lost in between.
THEOREM GivenOnceTheorem == GrantsSpec => []GivenOnce
<1>1. GrantsInv => GivenOnce
  <2> SUFFICES ASSUME GrantsInv PROVE GivenOnce
    OBVIOUS
  <2> USE DEF GrantsInv
  <2>1. HoardsOnlyIf
    BY GrantsTypes, GrantAmount DEF HoardsOnlyIf, Issued
  <2>2. ClaimedOnce
    <3> SUFFICES ASSUME NEW p \in Person, <<"treasury", p>> \notin forgotten
                 PROVE  Cardinality(For("treasury", p, onChain)) <= 1
      BY GrantsTypes DEF ClaimedOnce
    <3> DEFINE S == For("treasury", p, onChain)
    <3>1. \A t, u \in S : t = u
      BY DEF Airdropped, For, Of
    <3>2. CASE S = {}
      BY <3>2, FS_EmptySet
    <3>3. CASE S # {}
      <4>1. PICK t : S = {t}
        BY <3>1, <3>3
      <4> QED BY <4>1, FS_Singleton
    <3> QED BY <3>2, <3>3
  <2> QED BY <2>1, <2>2 DEF GivenOnce
<1>2. GrantsInv /\ [][GrantsNext]_grantsVars => []GrantsInv
  BY GrantsInvariance, PTL
<1> QED BY <1>1, <1>2, GrantsInit0, PTL DEF GrantsSpec
=============================================================================
