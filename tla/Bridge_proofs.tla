---------------------------- MODULE Bridge_proofs ----------------------------
(***************************************************************************)
(* Theorems about the bridge ledgers, for every set of assets, chains,     *)
(* roots and liars: first each payout by itself, then what the payouts     *)
(* amount to together.                                                     *)
(***************************************************************************)
EXTENDS Bridge, SetLemmas, TLAPS

\* The record of an asset agrees with its cap, its history and the units of
\* its contract.
RecordAgrees(a) ==
  IF asset[a] = None THEN units[a] = 0 /\ stray[a] = 0
  ELSE /\ asset[a].minted = asset[a].burnedIn - asset[a].returned
       /\ asset[a].minted = units[a] + stray[a]
       /\ asset[a].minted <= asset[a].cap

\* MOLI comes back only as MOLI that went out.
LedgersAgree == returned <= burned /\ \A a \in Asset : RecordAgrees(a)

\* What was paid has its key kept.
KeysKept ==
  \A p \in payouts :
    IF p.asset = None THEN p.pos \in returnKeys
    ELSE p.pos \in claimedPositions /\ p.pos \notin HistoricalPositions

\* The word of an honest committer is a block that exists, and stays so.
HonestRoots ==
  \A b \in ForeignBlock :
    header[b] # None /\ header[b].by \in Honest => mined[b] = header[b].root

\* Only a registered asset was claimed, and an honest operator's returns are
\* what the receipts say.
PayoutsRest ==
  \A p \in payouts :
    /\ p.asset # None => asset[p.asset] # None
    /\ p.asset = None /\ ~p.byBot /\ Operator \in Honest => ~Forged(p)

Inv ==
  /\ BridgeTypeOK /\ LedgersAgree /\ KeysKept /\ PaidOnce
  /\ HonestRoots /\ PayoutsRest /\ HonestAssetIsBacked

\* Both ledgers start empty.
LEMMA InitInv == Init => Inv
BY BridgeAssumption
DEF Init, Inv, BridgeTypeOK, LedgersAgree, KeysKept, PaidOnce, HonestRoots, PayoutsRest,
    HonestAssetIsBacked, Committer, RecordAgrees

\* A committed root gives every place of its block a receipt.
LEMMA RootOfPosition ==
  ASSUME BridgeTypeOK, NEW pos \in Position, header[pos[1]] # None
  PROVE  /\ header[pos[1]] \in Commitment
         /\ header[pos[1]].root[pos[2]].back \in Nat
         /\ \A a \in Asset : header[pos[1]].root[pos[2]].burns[a] \in Nat
<1>1. pos[1] \in ForeignBlock /\ pos[2] \in Index
  BY DEF Position
<1>2. header[pos[1]] \in Commitment
  BY <1>1 DEF BridgeTypeOK
<1>3. header[pos[1]].root \in [Index -> Receipt]
  BY <1>2, BridgeAssumption DEF Commitment
<1> QED BY <1>1, <1>2, <1>3 DEF Receipt

\* Every step keeps the types.
LEMMA NextType == BridgeTypeOK /\ LedgersAgree /\ [Next]_vars => BridgeTypeOK'
<1> SUFFICES ASSUME BridgeTypeOK, LedgersAgree, [Next]_vars
             PROVE  BridgeTypeOK'
  OBVIOUS
<1> USE BridgeAssumption DEF BridgeTypeOK
<1>1. ASSUME NEW n \in Amount, BurnMoli(n) PROVE BridgeTypeOK'
  BY <1>1 DEF BurnMoli
<1>2. ASSUME NEW n \in Amount, MintBmoli(n) PROVE BridgeTypeOK'
  BY <1>2 DEF MintBmoli, ledgers, outbound
<1>3. ASSUME NEW pos \in Position, ReturnMoli(pos) PROVE BridgeTypeOK'
  <2> DEFINE n == header[pos[1]].root[pos[2]].back
             byBot == header[pos[1]].by = Bot
             entry == [height |-> height, key |-> pos, amount |-> n]
             paid == [pos |-> pos, asset |-> None, amount |-> n, height |-> height, byBot |-> byBot]
  <2>1. n \in Nat /\ byBot \in BOOLEAN
    BY <1>3, RootOfPosition DEF ReturnMoli
  <2>2. entry \in [height : Nat, key : Position, amount : Nat] /\ paid \in Payout
    BY <2>1 DEF Payout
  <2>3. InBotWindow \subseteq botReturns
    BY DEF InBotWindow
  <2>4. supply' \in Nat /\ returned' \in Nat /\ returnKeys' \subseteq Position
    <3>1. supply' = supply + n /\ returned' = returned + n /\ returnKeys' = returnKeys \cup {pos}
      BY ONLY <1>3 DEF ReturnMoli
    <3> HIDE DEF n
    <3> QED BY <2>1, <3>1
  <2>5. botReturns' \subseteq botReturns \cup {entry}
    BY ONLY <1>3, <2>3 DEF ReturnMoli
  <2>6. botReturns' \subseteq [height : Nat, key : Position, amount : Nat]
    BY <2>2, <2>5
  <2>7. payouts' \subseteq Payout
    BY <1>3, <2>2 DEF ReturnMoli
  <2> QED BY <1>3, <2>4, <2>6, <2>7 DEF ReturnMoli, foreign, outbound
<1>4. ASSUME NEW a \in Asset, NEW who \in Committer, NEW cap \in Cap, Register(a, who, cap)
      PROVE  BridgeTypeOK'
  BY <1>4 DEF Register, Record, foreign, outbound
<1>5. ASSUME NEW by \in Committer, NEW b \in ForeignBlock, NEW root \in Root, CommitHeader(by, b, root)
      PROVE  BridgeTypeOK'
  BY <1>5 DEF CommitHeader, Commitment, foreign, outbound
<1>6. ASSUME NEW a \in Asset, NEW pos \in Position, NEW hash \in Hash, ClaimBurn(a, pos, hash)
      PROVE  BridgeTypeOK'
  <2> DEFINE n == header[pos[1]].root[pos[2]].burns[a]
             paid == [pos |-> pos, asset |-> a, amount |-> n, height |-> height, byBot |-> FALSE]
  <2>1. n \in Nat
    BY <1>6, RootOfPosition DEF ClaimBurn
  <2>2. paid \in Payout
    BY <2>1 DEF Payout
  <2>3. payouts' \subseteq Payout
    BY <1>6, <2>2 DEF ClaimBurn
  <2>4. asset' = [asset EXCEPT ![a] = Moved(a, n, 0)] /\ asset[a] \in Record
        /\ units' = [units EXCEPT ![a] = @ + n]
    <3>1. asset[a] # None /\ asset \in [Asset -> Record \cup {None}]
      BY <1>6 DEF ClaimBurn
    <3>2. asset' = [asset EXCEPT ![a] = Moved(a, n, 0)] /\ units' = [units EXCEPT ![a] = @ + n]
      BY ONLY <1>6 DEF ClaimBurn
    <3> QED BY ONLY <3>1, <3>2
  <2> HIDE DEF n
  <2>5. Moved(a, n, 0) \in Record
    BY ONLY <2>1, <2>4 DEF Moved, Record
  <2>6. asset' \in [Asset -> Record \cup {None}] /\ units' \in [Asset -> Nat]
    <3>1. asset \in [Asset -> Record \cup {None}] /\ units \in [Asset -> Nat]
      OBVIOUS
    <3>2. asset' \in [Asset -> Record \cup {None}]
      BY ONLY <2>4, <2>5, <3>1
    <3>3. units' \in [Asset -> Nat]
      BY ONLY <2>1, <2>4, <3>1
    <3> QED BY <3>2, <3>3
  <2> USE DEF n
  <2>7. claimedHashes' \subseteq {OriginChain[x] : x \in Asset} \X Hash
        /\ claimedPositions' \subseteq Position
    <3>1. <<OriginChain[a], hash>> \in {OriginChain[x] : x \in Asset} \X Hash
      OBVIOUS
    <3> QED BY <1>6, <3>1 DEF ClaimBurn
  <2> QED BY <1>6, <2>3, <2>6, <2>7 DEF ClaimBurn, foreign, outbound
<1>7. ASSUME NEW a \in Asset, NEW n \in Amount, Release(a, n) PROVE BridgeTypeOK'
  <2>1. asset[a] \in Record /\ n \in Nat /\ n <= asset[a].minted /\ n <= units[a]
    BY <1>7 DEF Release
  <2>2. Moved(a, 0, n) \in Record
    BY <2>1 DEF Moved, Record
  <2>3. asset' \in [Asset -> Record \cup {None}] /\ units' \in [Asset -> Nat]
    BY <1>7, <2>1, <2>2 DEF Release
  <2> QED BY <1>7, <2>3 DEF Release, foreign, outbound
<1>8. ASSUME NEW a \in Asset, NEW n \in Amount, BurnByContract(a, n) PROVE BridgeTypeOK'
  BY <1>8 DEF BurnByContract, foreign, outbound
<1>9. ASSUME NEW b \in ForeignBlock, NEW root \in Root, MineForeign(b, root) PROVE BridgeTypeOK'
  BY <1>9 DEF MineForeign, ledgers, outbound
<1>10. CASE NextBlock
  BY <1>10 DEF NextBlock, ledgers, foreign, outbound
<1>11. CASE UNCHANGED vars
  BY <1>11 DEF vars, ledgers, foreign, outbound
<1> QED BY <1>1, <1>2, <1>3, <1>4, <1>5, <1>6, <1>7, <1>8, <1>9, <1>10, <1>11 DEF Next

\* A step that changes neither what was mined nor what was paid leaves a
\* payout as true as it was; and what is mined stays mined.
LEMMA ForgedStays ==
  ASSUME BridgeTypeOK, [Next]_vars, NEW p \in payouts, ~Forged(p)
  PROVE  ~Forged(p)'
<1> USE DEF BridgeTypeOK
<1>1. p.pos[1] \in ForeignBlock /\ mined[p.pos[1]] # None
  BY DEF Forged, Payout, Position
<1>2. mined'[p.pos[1]] = mined[p.pos[1]]
  <2>1. ASSUME NEW b \in ForeignBlock, NEW root \in Root, MineForeign(b, root)
        PROVE  mined'[p.pos[1]] = mined[p.pos[1]]
    BY <1>1, <2>1 DEF MineForeign
  <2>2. ASSUME Next, ~ \E b \in ForeignBlock, root \in Root : MineForeign(b, root)
        PROVE  UNCHANGED mined
    <3>1. CASE \E n \in Amount : BurnMoli(n) \/ MintBmoli(n)
      BY <3>1 DEF BurnMoli, MintBmoli
    <3>2. CASE \E pos \in Position : ReturnMoli(pos)
      BY <3>2 DEF ReturnMoli, foreign
    <3>3. CASE \E a \in Asset, who \in Committer, cap \in Cap : Register(a, who, cap)
      BY <3>3 DEF Register, foreign
    <3>4. CASE \E by \in Committer, b \in ForeignBlock, root \in Root : CommitHeader(by, b, root)
      BY <3>4 DEF CommitHeader, foreign
    <3>5. CASE \E a \in Asset, pos \in Position, hash \in Hash : ClaimBurn(a, pos, hash)
      BY <3>5 DEF ClaimBurn, foreign
    <3>6. CASE \E a \in Asset, n \in Amount : Release(a, n) \/ BurnByContract(a, n)
      BY <3>6 DEF Release, BurnByContract, foreign
    <3>7. CASE NextBlock
      BY <3>7 DEF NextBlock, foreign
    <3> QED BY <2>2, <3>1, <3>2, <3>3, <3>4, <3>5, <3>6, <3>7 DEF Next
  <2>3. CASE UNCHANGED mined
    BY <2>3
  <2> QED BY <2>1, <2>2, <2>3 DEF vars, foreign
<1> QED BY <1>1, <1>2 DEF Forged

\* Every step keeps the ledgers in agreement.
LEMMA NextLedgers == Inv /\ [Next]_vars => LedgersAgree'
<1> SUFFICES ASSUME Inv, [Next]_vars
             PROVE  LedgersAgree'
  OBVIOUS
<1> USE BridgeAssumption DEF Inv, BridgeTypeOK, LedgersAgree
<1>1. ASSUME NEW n \in Amount, BurnMoli(n) PROVE LedgersAgree'
  <2>1. returned' <= burned'
    <3>1. n \in Nat /\ burned' = burned + n /\ returned' = returned
      BY <1>1 DEF BurnMoli
    <3>2. burned \in Nat /\ returned \in Nat /\ returned <= burned
      OBVIOUS
    <3> QED BY ONLY <3>1, <3>2
  <2>2. \A a \in Asset : RecordAgrees(a)'
    BY <1>1 DEF BurnMoli, RecordAgrees
  <2> QED BY <2>1, <2>2
<1>2. ASSUME NEW pos \in Position, ReturnMoli(pos) PROVE LedgersAgree'
  <2> DEFINE n == header[pos[1]].root[pos[2]].back
  <2>1. n \in Nat
    BY <1>2, RootOfPosition DEF ReturnMoli
  <2>2. returned' = returned + n /\ n <= burned - returned /\ UNCHANGED <<burned, asset, units, stray>>
    BY <1>2 DEF ReturnMoli, Returnable, Outstanding
  <2>3. \A a \in Asset : RecordAgrees(a)'
    BY <2>2 DEF RecordAgrees
  <2> HIDE DEF n
  <2> QED BY <2>1, <2>2, <2>3
<1>3. ASSUME NEW a \in Asset, NEW who \in Committer, NEW cap \in Cap, Register(a, who, cap)
      PROVE  LedgersAgree'
  <2>1. [cap |-> cap, minted |-> 0, burnedIn |-> 0, returned |-> 0, registrar |-> who] \in Record
    BY DEF Record
  <2>2. \A x \in Asset : RecordAgrees(x)'
    BY <1>3, <2>1 DEF Register, RecordAgrees, Record
  <2> QED BY <1>3, <2>2 DEF Register, outbound
<1>4. ASSUME NEW a \in Asset, NEW pos \in Position, NEW hash \in Hash, ClaimBurn(a, pos, hash)
      PROVE  LedgersAgree'
  <2> DEFINE n == header[pos[1]].root[pos[2]].burns[a]
  <2>1. n \in Nat /\ asset[a] \in Record
    BY <1>4, RootOfPosition DEF ClaimBurn
  <2>2. /\ asset' = [asset EXCEPT ![a] = Moved(a, n, 0)] /\ units' = [units EXCEPT ![a] = @ + n]
        /\ asset[a].minted + n <= asset[a].cap /\ UNCHANGED <<outbound, stray>>
    BY <1>4 DEF ClaimBurn, UnderCap
  <2> HIDE DEF n
  <2>3. Moved(a, n, 0) \in Record
    BY ONLY <2>1 DEF Moved, Record
  <2>4. ASSUME NEW x \in Asset PROVE RecordAgrees(x)'
    <3>1. CASE x = a
      BY <3>1, <2>1, <2>2, <2>3 DEF Moved, Record, RecordAgrees
    <3>2. CASE x # a
      BY <3>2, <2>2 DEF RecordAgrees
    <3> QED BY <3>1, <3>2
  <2> QED BY <2>2, <2>4 DEF outbound
<1>5. ASSUME NEW a \in Asset, NEW n \in Amount, Release(a, n) PROVE LedgersAgree'
  <2>1. /\ asset[a] \in Record /\ n \in Nat /\ n <= asset[a].minted /\ n <= units[a]
        /\ asset' = [asset EXCEPT ![a] = Moved(a, 0, n)] /\ units' = [units EXCEPT ![a] = @ - n]
        /\ UNCHANGED <<outbound, stray>>
    BY <1>5 DEF Release
  <2>2. Moved(a, 0, n) \in Record
    BY <2>1 DEF Moved, Record
  <2>3. ASSUME NEW x \in Asset PROVE RecordAgrees(x)'
    <3>1. CASE x = a
      BY <3>1, <2>1, <2>2 DEF Moved, Record, RecordAgrees
    <3>2. CASE x # a
      BY <3>2, <2>1 DEF RecordAgrees
    <3> QED BY <3>1, <3>2
  <2> QED BY <2>1, <2>3 DEF outbound
<1>6. ASSUME NEW a \in Asset, NEW n \in Amount, BurnByContract(a, n) PROVE LedgersAgree'
  <2>1. ASSUME NEW x \in Asset PROVE RecordAgrees(x)'
    BY <1>6 DEF BurnByContract, RecordAgrees, Record
  <2> QED BY <1>6, <2>1 DEF BurnByContract, outbound
<1>7. CASE UNCHANGED <<outbound, asset, units, stray>>
  BY <1>7 DEF outbound, RecordAgrees
<1>8. ASSUME \/ \E n \in Amount : MintBmoli(n)
             \/ \E by \in Committer, b \in ForeignBlock, root \in Root : CommitHeader(by, b, root)
             \/ \E b \in ForeignBlock, root \in Root : MineForeign(b, root)
             \/ NextBlock \/ UNCHANGED vars
      PROVE  LedgersAgree'
  BY <1>7, <1>8 DEF vars, ledgers, MintBmoli, CommitHeader, MineForeign, NextBlock
<1> QED BY <1>1, <1>2, <1>3, <1>4, <1>5, <1>6, <1>8 DEF Next

\* Every step keeps the keys of what it pays.
LEMMA NextPaid == Inv /\ [Next]_vars => KeysKept' /\ PaidOnce'
<1> SUFFICES ASSUME Inv, [Next]_vars
             PROVE  KeysKept' /\ PaidOnce'
  OBVIOUS
<1> USE DEF Inv, KeysKept, PaidOnce
<1>1. ASSUME NEW pos \in Position, ReturnMoli(pos) PROVE KeysKept' /\ PaidOnce'
  BY <1>1 DEF ReturnMoli, Returnable
<1>2. ASSUME NEW a \in Asset, NEW pos \in Position, NEW hash \in Hash, ClaimBurn(a, pos, hash)
      PROVE  KeysKept' /\ PaidOnce'
  <2>1. /\ a # None /\ pos \notin claimedPositions /\ pos \notin HistoricalPositions
        /\ claimedPositions' = claimedPositions \cup {pos} /\ UNCHANGED returnKeys
    BY <1>2, BridgeAssumption DEF ClaimBurn, Unclaimed, outbound
  <2>2. PICK paid : paid.pos = pos /\ paid.asset = a /\ payouts' = payouts \cup {paid}
    BY <1>2 DEF ClaimBurn
  <2> QED BY <2>1, <2>2
<1>3. CASE UNCHANGED <<payouts, returnKeys, claimedPositions>>
  BY <1>3
<1> QED BY <1>1, <1>2, <1>3
        DEF Next, vars, ledgers, outbound, foreign, BurnMoli, MintBmoli, Register, CommitHeader,
            Release, BurnByContract, MineForeign, NextBlock

\* Every step keeps honest roots true.
LEMMA NextHonest == Inv /\ [Next]_vars => HonestRoots'
<1> SUFFICES ASSUME Inv, [Next]_vars
             PROVE  HonestRoots'
  OBVIOUS
<1> USE BridgeAssumption DEF Inv, BridgeTypeOK, HonestRoots
<1>1. ASSUME NEW by \in Committer, NEW b \in ForeignBlock, NEW root \in Root, CommitHeader(by, b, root)
      PROVE  HonestRoots'
  BY <1>1 DEF CommitHeader, Overrides, foreign
<1>2. ASSUME NEW b \in ForeignBlock, NEW root \in Root, MineForeign(b, root) PROVE HonestRoots'
  BY <1>2 DEF MineForeign, ledgers, Commitment
<1>3. CASE UNCHANGED <<header, mined>>
  BY <1>3
<1> QED BY <1>1, <1>2, <1>3
        DEF Next, vars, ledgers, foreign, BurnMoli, MintBmoli, ReturnMoli, Register, ClaimBurn,
            Release, BurnByContract, NextBlock

\* Every step keeps what a payout rests on.
LEMMA NextRests == Inv /\ [Next]_vars => PayoutsRest' /\ HonestAssetIsBacked'
<1> SUFFICES ASSUME Inv, [Next]_vars
             PROVE  PayoutsRest' /\ HonestAssetIsBacked'
  OBVIOUS
<1> USE BridgeAssumption DEF Inv, BridgeTypeOK
\* An asset stays registered, with its registrar.
<1>1. ASSUME NEW a \in Asset, asset[a] # None
      PROVE  asset'[a] # None /\ asset'[a].registrar = asset[a].registrar
  <2>1. ASSUME NEW x \in Asset, NEW pos \in Position, NEW hash \in Hash, ClaimBurn(x, pos, hash)
        PROVE  asset'[a] # None /\ asset'[a].registrar = asset[a].registrar
    <3> DEFINE n == header[pos[1]].root[pos[2]].burns[x]
    <3>1. n \in Nat /\ asset[x] \in Record /\ asset' = [asset EXCEPT ![x] = Moved(x, n, 0)]
          /\ LedgersAgree'
      BY <2>1, RootOfPosition, NextLedgers DEF ClaimBurn
    <3> HIDE DEF n
    <3>2. Moved(x, n, 0) \in Record
      BY <3>1 DEF Moved, Record
    <3> QED BY <1>1, <3>1, <3>2 DEF Moved
  <2>2. ASSUME NEW x \in Asset, NEW n \in Amount, Release(x, n)
        PROVE  asset'[a] # None /\ asset'[a].registrar = asset[a].registrar
    <3>1. n \in Nat /\ n <= asset[x].minted /\ asset[x] \in Record
          /\ asset' = [asset EXCEPT ![x] = Moved(x, 0, n)]
      BY <2>2 DEF Release
    <3>2. Moved(x, 0, n) \in Record
      BY <3>1 DEF Moved, Record
    <3> QED BY <1>1, <3>1, <3>2 DEF Moved
  <2>3. ASSUME NEW x \in Asset, NEW who \in Committer, NEW cap \in Cap, Register(x, who, cap)
        PROVE  asset'[a] # None /\ asset'[a].registrar = asset[a].registrar
    BY <1>1, <2>3 DEF Register
  <2>4. CASE UNCHANGED asset
    BY <1>1, <2>4
  <2> QED BY <2>1, <2>2, <2>3, <2>4
          DEF Next, vars, ledgers, foreign, BurnMoli, MintBmoli, ReturnMoli, CommitHeader,
              BurnByContract, MineForeign, NextBlock
\* What was paid before rests on what it rested on.
<1>2. ASSUME NEW p \in payouts
      PROVE  /\ p.asset # None => asset'[p.asset] # None
             /\ p.asset = None /\ ~p.byBot /\ Operator \in Honest => ~Forged(p)'
             /\ p.asset # None /\ asset'[p.asset].registrar \in Honest => ~Forged(p)'
  <2>1. p \in Payout
    OBVIOUS
  <2>2. p.asset # None => p.asset \in Asset /\ asset[p.asset] # None
    BY <2>1 DEF PayoutsRest, Payout
  <2>3. p.asset # None => asset'[p.asset] # None /\ asset'[p.asset].registrar = asset[p.asset].registrar
    BY <1>1, <2>2
  <2>4. ~Forged(p) => ~Forged(p)'
    BY ForgedStays
  <2> QED BY <2>3, <2>4 DEF PayoutsRest, HonestAssetIsBacked
\* A return adds what the root of its block says.
<1>3. ASSUME NEW pos \in Position, ReturnMoli(pos)
      PROVE  PayoutsRest' /\ HonestAssetIsBacked'
  <2>1. PICK paid : /\ paid = [pos |-> pos, asset |-> None, height |-> height,
                               amount |-> header[pos[1]].root[pos[2]].back,
                               byBot |-> header[pos[1]].by = Bot]
                    /\ payouts' = payouts \cup {paid} /\ UNCHANGED mined
    BY <1>3 DEF ReturnMoli, foreign
  <2>2. ~paid.byBot /\ Operator \in Honest => ~Forged(paid)'
    <3>1. pos[1] \in ForeignBlock /\ header[pos[1]] # None
      BY <1>3 DEF ReturnMoli, Position
    <3>2. CASE header[pos[1]].by = Operator /\ Operator \in Honest
      <4>1. mined[pos[1]] = header[pos[1]].root /\ header[pos[1]].root # None
        BY <3>1, <3>2 DEF HonestRoots, Commitment
      <4> QED BY <4>1, <2>1 DEF Forged
    <3>3. header[pos[1]].by = Operator \/ paid.byBot
      BY <1>3, <2>1 DEF ReturnMoli
    <3> QED BY <3>2, <3>3
  <2>3. paid.asset = None
    BY <2>1
  <2>4. payouts' = payouts \cup {paid}
    BY <2>1
  <2> QED BY <1>2, <2>2, <2>3, <2>4 DEF PayoutsRest, HonestAssetIsBacked
\* A claim adds what the root of the registrar says.
<1>4. ASSUME NEW a \in Asset, NEW pos \in Position, NEW hash \in Hash, ClaimBurn(a, pos, hash)
      PROVE  PayoutsRest' /\ HonestAssetIsBacked'
  <2>1. PICK paid : /\ paid = [pos |-> pos, asset |-> a, height |-> height,
                               amount |-> header[pos[1]].root[pos[2]].burns[a], byBot |-> FALSE]
                    /\ payouts' = payouts \cup {paid} /\ UNCHANGED mined
    BY <1>4 DEF ClaimBurn, foreign
  <2>2. paid.asset = a /\ a # None /\ asset[a] # None
    BY <1>4, <2>1 DEF ClaimBurn
  <2>3. asset[a].registrar \in Honest => ~Forged(paid)'
    <3>1. pos[1] \in ForeignBlock /\ header[pos[1]] # None /\ header[pos[1]].by = asset[a].registrar
      BY <1>4 DEF ClaimBurn, Position, RestsOnRegistrar
    <3>2. ASSUME asset[a].registrar \in Honest
          PROVE  mined[pos[1]] = header[pos[1]].root /\ header[pos[1]].root # None
      BY <3>1, <3>2 DEF HonestRoots, Commitment
    <3> QED BY <2>1, <2>2, <3>2 DEF Forged
  <2>4. asset'[a] # None /\ asset'[a].registrar = asset[a].registrar
    BY <1>1, <2>2
  <2>5. payouts' = payouts \cup {paid}
    BY <2>1
  <2> QED BY <1>2, <2>2, <2>3, <2>4, <2>5 DEF PayoutsRest, HonestAssetIsBacked
<1>5. CASE UNCHANGED payouts
  BY <1>2, <1>5 DEF PayoutsRest, HonestAssetIsBacked
<1> QED BY <1>3, <1>4, <1>5
        DEF Next, vars, ledgers, foreign, BurnMoli, MintBmoli, Register, CommitHeader,
            Release, BurnByContract, MineForeign, NextBlock

\* The invariant of the ledgers holds throughout.
LEMMA Invariance == Spec => []Inv
<1>1. Inv /\ [Next]_vars => Inv'
  BY NextType, NextLedgers, NextPaid, NextHonest, NextRests DEF Inv
<1> QED BY InitInv, <1>1, PTL DEF Spec

\* Every value keeps its type: no balance, supply or record goes below zero.
THEOREM BridgeTypes == Spec => []BridgeTypeOK
BY Invariance, PTL DEF Inv

\* No more MOLI comes back than went out, and what an asset's record says is
\* minted is what its contract holds (but for what contracts burned) and within
\* its cap.
THEOREM LedgersAgreeTheorem == Spec => []LedgersAgree
BY Invariance, PTL DEF Inv

\* A receipt pays a return at most once and a claim of an asset at most once.
THEOREM PaidOnceTheorem == Spec => []PaidOnce
BY Invariance, PTL DEF Inv

\* Whatever others commit, an asset whose registrar commits the truth mints
\* only what was burned where it comes from.
THEOREM HonestAssetTheorem == Spec => []HonestAssetIsBacked
BY Invariance, PTL DEF Inv

\* An honest operator's roots pay back only what reached the vault: a forged
\* return rests on a root that only the bot committed, and so under its cap.
THEOREM OnlyBotForges ==
  Operator \in Honest => (Spec => [](\A p \in Returns : Forged(p) => p.byBot))
<1> SUFFICES ASSUME Operator \in Honest
             PROVE  Spec => [](\A p \in Returns : Forged(p) => p.byBot)
  OBVIOUS
<1>1. Inv => \A p \in Returns : Forged(p) => p.byBot
  BY DEF Inv, PayoutsRest, Returns
<1> QED BY Invariance, <1>1, PTL

\* A committed root changes only from the bot's word to the operator's.
THEOREM CommitmentTheorem == Spec => CommitmentStands
<1> DEFINE Stands ==
      \A b \in ForeignBlock : header[b] # None /\ header'[b] # header[b] =>
        header[b].by = Bot /\ header'[b] # None
        /\ header'[b].by = Operator /\ header'[b].botRoot = header[b].root
<1>1. BridgeTypeOK /\ [Next]_vars => [Stands]_vars
  <2> SUFFICES ASSUME BridgeTypeOK, Next PROVE Stands
    OBVIOUS
  <2> USE BridgeAssumption DEF BridgeTypeOK
  <2>1. ASSUME NEW by \in Committer, NEW b \in ForeignBlock, NEW root \in Root,
               CommitHeader(by, b, root)
        PROVE  Stands
    BY <2>1 DEF CommitHeader, Overrides, Commitment, Committer
  <2>2. CASE UNCHANGED header
    BY <2>2
  <2> QED BY <2>1, <2>2
          DEF Next, ledgers, foreign, BurnMoli, MintBmoli, ReturnMoli, Register, ClaimBurn,
              Release, BurnByContract, MineForeign, NextBlock
<1> QED BY BridgeTypes, <1>1, PTL DEF Spec, CommitmentStands

-----------------------------------------------------------------------------
(* What the payouts amount to.                                             *)

HasAmounts(S) == IsFiniteSet(S) /\ \A p \in S : p.amount \in Nat

\* What an amount is,
LEMMA AmountType == ASSUME NEW S, HasAmounts(S) PROVE AmountOf(S) \in Nat
<1> DEFINE f == [p \in S |-> p.amount]
<1>1. \A p \in S : f[p] \in Nat
  BY DEF HasAmounts
<1> HIDE DEF f
<1>2. SumFunctionOnSet(f, S) \in Nat
  BY <1>1, SumNat DEF HasAmounts
<1> QED BY <1>2 DEF AmountOf, f

\* how it is computed from the amounts of more than the set,
LEMMA AmountWithin ==
  ASSUME NEW S, HasAmounts(S), NEW T \in SUBSET S
  PROVE  HasAmounts(T) /\ AmountOf(T) = SumFunctionOnSet([p \in S |-> p.amount], T)
<1> DEFINE f == [p \in S |-> p.amount]
           g == [p \in T |-> p.amount]
<1>1. IsFiniteSet(T) /\ \A p \in T : f[p] \in Int /\ g[p] = f[p] /\ p.amount \in Nat
  BY FS_Subset DEF HasAmounts
<1>2. AmountOf(T) = SumFunctionOnSet(g, T)
  BY DEF AmountOf
<1> HIDE DEF f, g
<1>3. SumFunctionOnSet(g, T) = SumFunctionOnSet(f, T)
  BY <1>1, SumSame
<1> QED BY <1>1, <1>2, <1>3 DEF f, HasAmounts

\* and how it adds up.
LEMMA AmountSplit ==
  ASSUME NEW S, NEW T, HasAmounts(S), HasAmounts(T), S \cap T = {}
  PROVE  HasAmounts(S \cup T) /\ AmountOf(S \cup T) = AmountOf(S) + AmountOf(T)
<1> DEFINE f == [p \in S \cup T |-> p.amount]
<1>1. IsFiniteSet(S \cup T)
  BY FS_Union DEF HasAmounts
<1>2. HasAmounts(S \cup T) /\ IsFiniteSet(S) /\ IsFiniteSet(T) /\ \A x \in S \cup T : f[x] \in Int
  BY <1>1 DEF HasAmounts
<1>3. AmountOf(S) = SumFunctionOnSet(f, S) /\ AmountOf(T) = SumFunctionOnSet(f, T)
  BY <1>2, AmountWithin
<1>4. AmountOf(S \cup T) = SumFunctionOnSet(f, S \cup T)
  BY <1>2, AmountWithin
<1> HIDE DEF f
<1>5. SumFunctionOnSet(f, S \cup T) = SumFunctionOnSet(f, S) + SumFunctionOnSet(f, T)
  BY <1>2, SumUnion
<1> QED BY <1>2, <1>3, <1>4, <1>5

\* One payout is its amount.
LEMMA AmountOfOne == ASSUME NEW p, p.amount \in Nat PROVE HasAmounts({p}) /\ AmountOf({p}) = p.amount
<1> DEFINE f == [x \in {p} |-> x.amount]
<1>1. IsFiniteSet({p}) /\ IsFiniteSet({}) /\ p \notin {} /\ {p} = {} \cup {p} /\ f[p] = p.amount
  BY FS_Singleton, FS_EmptySet
<1>2. AmountOf({p}) = SumFunctionOnSet(f, {p})
  BY DEF AmountOf
<1>3. \A x \in {} \cup {p} : f[x] \in Int
  OBVIOUS
<1> HIDE DEF f
<1>4. SumFunctionOnSet(f, {} \cup {p}) = f[p] + SumFunctionOnSet(f, {})
  BY <1>1, <1>3, SumInsert
<1> QED BY <1>1, <1>2, <1>4, SumEmpty DEF HasAmounts

\* A part is no more than the whole.
LEMMA AmountSubset ==
  ASSUME NEW S, HasAmounts(S), NEW T \in SUBSET S
  PROVE  AmountOf(T) <= AmountOf(S)
<1> DEFINE f == [p \in S |-> p.amount]
<1>1. IsFiniteSet(S) /\ \A p \in S : f[p] \in Nat
  BY DEF HasAmounts
<1>2. AmountOf(T) = SumFunctionOnSet(f, T) /\ AmountOf(S) = SumFunctionOnSet(f, S)
  BY AmountWithin DEF AmountOf
<1> HIDE DEF f
<1> QED BY <1>1, <1>2, SumSubset

-----------------------------------------------------------------------------
(* Few things happened, and what the bot returned lately is on its list.   *)


Mined == {b \in ForeignBlock : mined[b] # None}

BotBooks ==
  /\ IsFiniteSet(payouts) /\ IsFiniteSet(botReturns) /\ IsFiniteSet(Mined)
  /\ height > 0 /\ \A p \in Returns : p.height <= height
  /\ \A p \in Returns : p.byBot /\ p.height > height - BotReturnWindow =>
       [height |-> p.height, key |-> p.pos, amount |-> p.amount] \in botReturns

BooksInv == Inv /\ BotBooks /\ Solvent

\* What a step pays back, and mines.
LEMMA ReturnedBy ==
  ASSUME Inv, NEW pos \in Position, ReturnMoli(pos)
  PROVE  \E paid \in Payout :
           /\ paid = [pos |-> pos, asset |-> None, amount |-> header[pos[1]].root[pos[2]].back,
                      height |-> height, byBot |-> header[pos[1]].by = Bot]
           /\ paid \notin payouts /\ payouts' = payouts \cup {paid} /\ Returns' = Returns \cup {paid}
           /\ \A p \in Returns : p.pos # pos
           /\ returned' = returned + paid.amount /\ ChainOf[pos[1]] = Ethereum
           /\ botReturns' = IF paid.byBot
                THEN InBotWindow \cup {[height |-> height, key |-> pos, amount |-> paid.amount]}
                ELSE botReturns
           /\ paid.byBot => BotReturnable(paid.amount)
           /\ UNCHANGED <<height, burned, mined, unclaimed, bmoli>>
<1> DEFINE paid == [pos |-> pos, asset |-> None, amount |-> header[pos[1]].root[pos[2]].back,
                    height |-> height, byBot |-> header[pos[1]].by = Bot]
<1>1. paid \in Payout
  <2>1. header[pos[1]].root[pos[2]].back \in Nat
    BY RootOfPosition DEF ReturnMoli, Inv
  <2> QED BY <2>1 DEF Payout, Inv, BridgeTypeOK
<1>2. pos \notin returnKeys /\ payouts' = payouts \cup {paid} /\ ChainOf[pos[1]] = Ethereum
      /\ returned' = returned + paid.amount /\ UNCHANGED <<height, burned, mined, unclaimed, bmoli>>
  BY DEF ReturnMoli, Returnable, foreign
<1>3. /\ botReturns' = IF paid.byBot
            THEN InBotWindow \cup {[height |-> height, key |-> pos, amount |-> paid.amount]}
            ELSE botReturns
      /\ paid.byBot => BotReturnable(paid.amount)
  BY DEF ReturnMoli
<1>4. \A p \in Returns : p.pos # pos
  BY <1>2 DEF Inv, KeysKept, Returns
<1>5. paid.asset = None /\ paid.pos = pos
  OBVIOUS
<1>6. paid \notin payouts
  BY <1>4, <1>5 DEF Returns
<1>7. Returns' = Returns \cup {paid}
  BY <1>2, <1>5 DEF Returns
<1> QED BY <1>1, <1>2, <1>3, <1>4, <1>6, <1>7

\* What other steps leave alone.
LEMMA OtherSteps ==
  ASSUME Inv, [Next]_vars
  PROVE  \/ \E pos \in Position : ReturnMoli(pos)
         \/ \E b \in ForeignBlock, root \in Root :
              MineForeign(b, root) /\ UNCHANGED <<height, payouts, burned, returned, botReturns, unclaimed>>
         \/ /\ UNCHANGED <<mined, burned, returned, botReturns, unclaimed, bmoli>>
            /\ Returns' = Returns /\ height' \in {height, height + 1}
            /\ payouts' = payouts \/ \E p : payouts' = payouts \cup {p}
         \/ \E n \in Amount :
              /\ BurnMoli(n) \/ MintBmoli(n)
              /\ UNCHANGED <<height, mined, payouts, returned, botReturns>>
<1>1. ASSUME NEW a \in Asset, NEW pos \in Position, NEW hash \in Hash, ClaimBurn(a, pos, hash)
      PROVE  /\ UNCHANGED <<mined, burned, returned, botReturns, unclaimed, bmoli, height>>
             /\ Returns' = Returns /\ \E p : payouts' = payouts \cup {p}
  <2>1. PICK p : p.asset = a /\ payouts' = payouts \cup {p}
    BY <1>1 DEF ClaimBurn
  <2>2. a # None
    BY BridgeAssumption
  <2> QED BY <1>1, <2>1, <2>2 DEF ClaimBurn, Returns, outbound, foreign
<1>2. CASE UNCHANGED <<mined, burned, returned, botReturns, unclaimed, bmoli, payouts>>
           /\ height' \in {height, height + 1}
  BY <1>2 DEF Returns
<1> QED BY <1>1, <1>2
        DEF Next, vars, ledgers, outbound, foreign, BurnMoli, MintBmoli, Register, CommitHeader,
            Release, BurnByContract, MineForeign, NextBlock

\* Every step keeps the bot's list.
LEMMA NextBooks == Inv /\ BotBooks /\ [Next]_vars => BotBooks'
<1> SUFFICES ASSUME Inv, BotBooks, [Next]_vars PROVE BotBooks'
  OBVIOUS
<1> USE DEF BotBooks
<1>0. height \in Nat /\ BotReturnWindow \in Nat /\ \A p \in Returns : p.height \in Nat
  BY BridgeAssumption DEF Inv, BridgeTypeOK, Returns, Payout
<1>1. ASSUME NEW pos \in Position, ReturnMoli(pos) PROVE BotBooks'
  <2>1. PICK paid \in Payout :
           /\ paid = [pos |-> pos, asset |-> None, amount |-> header[pos[1]].root[pos[2]].back,
                      height |-> height, byBot |-> header[pos[1]].by = Bot]
           /\ payouts' = payouts \cup {paid} /\ Returns' = Returns \cup {paid}
           /\ botReturns' = IF paid.byBot
                THEN InBotWindow \cup {[height |-> height, key |-> pos, amount |-> paid.amount]}
                ELSE botReturns
           /\ UNCHANGED <<height, mined>>
    BY <1>1, ReturnedBy
  <2>2. IsFiniteSet(payouts') /\ IsFiniteSet(botReturns')
    <3>1. InBotWindow \in SUBSET botReturns
      BY DEF InBotWindow
    <3>2. IsFiniteSet(InBotWindow)
      BY <3>1, FS_Subset
    <3> QED BY <2>1, <3>2, FS_AddElement
  <2>3. IsFiniteSet(Mined')
    BY <2>1 DEF Mined
  <2>4. paid.height = height /\ paid.pos = pos
    BY <2>1
  <2>5. height' > 0 /\ \A p \in Returns' : p.height <= height'
    BY <1>0, <2>1, <2>4
  <2>6. ASSUME NEW p \in Returns', p.byBot, p.height > height' - BotReturnWindow
        PROVE  [height |-> p.height, key |-> p.pos, amount |-> p.amount] \in botReturns'
    <3>1. CASE p = paid
      BY <2>1, <2>4, <2>6, <3>1
    <3>2. CASE p \in Returns
      <4>1. [height |-> p.height, key |-> p.pos, amount |-> p.amount] \in botReturns
        BY <2>1, <2>6, <3>2
      <4>2. [height |-> p.height, key |-> p.pos, amount |-> p.amount] \in InBotWindow
        BY <2>1, <2>6, <4>1 DEF InBotWindow
      <4> QED BY <2>1, <4>1, <4>2
    <3> QED BY <2>1, <3>1, <3>2
  <2> QED BY <2>2, <2>3, <2>5, <2>6
<1>2. ASSUME NEW b \in ForeignBlock, NEW root \in Root, MineForeign(b, root),
             UNCHANGED <<height, payouts, botReturns>>
      PROVE  BotBooks'
  <2>1. Mined' \in SUBSET (Mined \cup {b})
    BY <1>2 DEF MineForeign, Mined, Inv, BridgeTypeOK
  <2>2. IsFiniteSet(Mined')
    BY <2>1, FS_AddElement, FS_Subset
  <2> QED BY <1>2, <2>2 DEF Returns
<1>3. ASSUME UNCHANGED <<mined, botReturns>>, Returns' = Returns, height' \in {height, height + 1},
             payouts' = payouts \/ \E p : payouts' = payouts \cup {p}
      PROVE  BotBooks'
  <2>1. IsFiniteSet(payouts')
    BY <1>3, FS_AddElement
  <2>2. Mined' = Mined
    BY <1>3 DEF Mined
  <2>3. height' > 0 /\ \A p \in Returns : p.height <= height'
        /\ (p.height > height' - BotReturnWindow => p.height > height - BotReturnWindow)
    BY <1>0, <1>3
  <2> QED BY <1>3, <2>1, <2>2, <2>3
<1> QED BY <1>1, <1>2, <1>3, OtherSteps DEF Returns

-----------------------------------------------------------------------------
(* The bot's cap.                                                          *)

InWindow(h) == {p \in Returns : p.byBot /\ p.height <= h /\ p.height > h - BotReturnWindow}

BotUnderCap == \A h \in 1 .. height : AmountOf(InWindow(h)) <= BotReturnCap

\* Returns, and those on the list, are finitely many amounts.
LEMMA ReturnsHaveAmounts ==
  ASSUME Inv, BotBooks
  PROVE  HasAmounts(Returns) /\ HasAmounts(InBotWindow) /\ \A h : HasAmounts(InWindow(h))
<1>1. \A p \in payouts : p.amount \in Nat
  BY DEF Inv, BridgeTypeOK, Payout
<1>2. \A r \in botReturns : r.amount \in Nat
  BY DEF Inv, BridgeTypeOK
<1>3. HasAmounts(payouts) /\ HasAmounts(botReturns)
  BY <1>1, <1>2 DEF HasAmounts, BotBooks
<1>4. Returns \in SUBSET payouts /\ InBotWindow \in SUBSET botReturns
      /\ \A h : InWindow(h) \in SUBSET payouts
  BY DEF Returns, InBotWindow, InWindow
<1> QED BY <1>3, <1>4, AmountWithin

\* What the bot returned lately is at most what its list says.
LEMMA ListedLately ==
  ASSUME Inv, BotBooks
  PROVE  AmountOf(InWindow(height)) <= AmountOf(InBotWindow)
<1> DEFINE S == InWindow(height)
           R == InBotWindow
           f == [p \in S |-> p.amount]
           g == [r \in R |-> r.amount]
           h == [p \in S |-> [height |-> p.height, key |-> p.pos, amount |-> p.amount]]
<1>1. IsFiniteSet(S) /\ IsFiniteSet(R) /\ (\A p \in S : p.amount \in Nat) /\ (\A r \in R : r.amount \in Nat)
  BY ReturnsHaveAmounts DEF HasAmounts
<1>2. ASSUME NEW p \in S PROVE h[p] \in R /\ f[p] <= g[h[p]]
  <2>1. h[p] = [height |-> p.height, key |-> p.pos, amount |-> p.amount]
    OBVIOUS
  <2>2. p \in Returns /\ p.byBot /\ p.height > height - BotReturnWindow
    BY DEF InWindow
  <2>3. h[p] \in botReturns /\ h[p].height = p.height /\ h[p].amount = p.amount
    BY <2>1, <2>2 DEF BotBooks
  <2>4. h[p] \in R
    BY <2>2, <2>3 DEF InBotWindow
  <2>5. g[h[p]] = p.amount /\ f[p] = p.amount /\ p.amount \in Nat
    BY <1>1, <2>3, <2>4
  <2> QED BY <2>4, <2>5
<1>3. ASSUME NEW p \in S, NEW q \in S, h[p] = h[q] PROVE p = q
  <2>1. p.pos = q.pos
    BY <1>3
  <2>2. p \in payouts /\ q \in payouts /\ p.asset = None /\ q.asset = None
    BY DEF InWindow, Returns
  <2> QED BY <2>1, <2>2 DEF Inv, PaidOnce
<1>4. (\A p \in S : f[p] \in Nat) /\ (\A r \in R : g[r] \in Nat)
  BY <1>1
<1>5. AmountOf(S) = SumFunctionOnSet(f, S) /\ AmountOf(R) = SumFunctionOnSet(g, R)
  BY DEF AmountOf
<1> HIDE DEF S, R, f, g, h
<1>6. SumFunctionOnSet(f, S) <= SumFunctionOnSet(g, R)
  BY <1>1, <1>2, <1>3, <1>4, SumInto
<1> QED BY <1>5, <1>6 DEF S, R

\* Every step keeps every window under the cap.
LEMMA NextUnderCap == Inv /\ BotBooks /\ BotUnderCap /\ [Next]_vars => BotUnderCap'
<1> SUFFICES ASSUME Inv, BotBooks, BotUnderCap, [Next]_vars PROVE BotUnderCap'
  OBVIOUS
<1>0. height \in Nat /\ BotReturnWindow \in Nat /\ BotReturnCap \in Nat
      /\ \A p \in Returns : p.height \in Nat /\ p.height <= height
  BY BridgeAssumption DEF Inv, BridgeTypeOK, Returns, Payout, BotBooks
<1>1. ASSUME NEW pos \in Position, ReturnMoli(pos) PROVE BotUnderCap'
  <2>1. PICK paid \in Payout :
           /\ paid.height = height /\ paid \notin payouts /\ Returns' = Returns \cup {paid}
           /\ paid.byBot => BotReturnable(paid.amount)
           /\ UNCHANGED height
    <3>1. PICK paid \in Payout :
           /\ paid = [pos |-> pos, asset |-> None, amount |-> header[pos[1]].root[pos[2]].back,
                      height |-> height, byBot |-> header[pos[1]].by = Bot]
           /\ paid \notin payouts /\ Returns' = Returns \cup {paid}
           /\ paid.byBot => BotReturnable(paid.amount)
           /\ UNCHANGED height
      BY <1>1, ReturnedBy
    <3>2. paid.height = height
      BY <3>1
    <3> QED BY <3>1, <3>2
  <2>2. ASSUME NEW h \in 1 .. height PROVE AmountOf(InWindow(h)') <= BotReturnCap
    <3>1. CASE paid.byBot /\ h = height /\ height > height - BotReturnWindow
      <4>1. InWindow(h)' = InWindow(h) \cup {paid} /\ InWindow(h) \cap {paid} = {}
        BY <1>0, <2>1, <3>1 DEF InWindow, Returns
      <4>2. HasAmounts(InWindow(h)) /\ HasAmounts({paid}) /\ AmountOf({paid}) = paid.amount /\ paid.amount \in Nat
        BY ReturnsHaveAmounts, AmountOfOne DEF Payout
      <4>3. AmountOf(InWindow(h) \cup {paid}) = AmountOf(InWindow(h)) + paid.amount
        BY <4>1, <4>2, AmountSplit
      <4>4. AmountOf(InWindow(h)) <= AmountOf(InBotWindow) /\ AmountOf(InBotWindow) + paid.amount <= BotReturnCap
        BY <2>1, <3>1, ListedLately DEF BotReturnable
      <4>5. AmountOf(InWindow(h)) \in Nat /\ AmountOf(InBotWindow) \in Nat
        BY ReturnsHaveAmounts, AmountType
      <4> QED BY <1>0, <4>1, <4>2, <4>3, <4>4, <4>5
    <3>2. CASE ~(paid.byBot /\ h = height /\ height > height - BotReturnWindow)
      <4>1. ~(paid.byBot /\ paid.height <= h /\ paid.height > h - BotReturnWindow)
        BY <1>0, <2>1, <3>2
      <4>2. InWindow(h)' = InWindow(h)
        BY <2>1, <4>1 DEF InWindow
      <4> QED BY <4>2 DEF BotUnderCap
    <3> QED BY <3>1, <3>2
  <2>3. \A h : AmountOf(InWindow(h))' = AmountOf(InWindow(h)')
    BY DEF AmountOf
  <2> QED BY <2>1, <2>2, <2>3 DEF BotUnderCap
<1>2. ASSUME Returns' = Returns, height' \in {height, height + 1} PROVE BotUnderCap'
  <2>1. \A h : AmountOf(InWindow(h))' = AmountOf(InWindow(h))
    BY <1>2 DEF AmountOf, InWindow
  <2>2. ASSUME NEW h \in 1 .. height' PROVE AmountOf(InWindow(h)) <= BotReturnCap
    <3>1. CASE h \in 1 .. height
      BY <3>1 DEF BotUnderCap
    <3>2. CASE h = height + 1 /\ height # 0
      <4>1. InWindow(h) \in SUBSET InWindow(height)
        BY <1>0, <3>2 DEF InWindow
      <4>2. HasAmounts(InWindow(height)) /\ HasAmounts(InWindow(h))
        BY ReturnsHaveAmounts
      <4>3. AmountOf(InWindow(h)) <= AmountOf(InWindow(height)) /\ AmountOf(InWindow(height)) <= BotReturnCap
        BY <1>0, <3>2, <4>1, <4>2, AmountSubset DEF BotUnderCap
      <4> QED BY <1>0, <4>2, <4>3, AmountType
    <3>3. height # 0
      BY DEF BotBooks
    <3> QED BY <1>0, <1>2, <3>1, <3>2, <3>3
  <2> QED BY <2>1, <2>2 DEF BotUnderCap
<1>3. ASSUME UNCHANGED <<height, payouts>> PROVE BotUnderCap'
  BY <1>2, <1>3 DEF Returns
<1> QED BY <1>1, <1>2, <1>3, OtherSteps

-----------------------------------------------------------------------------
(* Solvency.                                                               *)

ForgedReturns == {p \in Returns : Forged(p)}
BackAt(pos) == mined[pos[1]][pos[2]].back

\* What waits is a sum over finitely many receipts.
LEMMA WaitingFinite ==
  ASSUME Inv, BotBooks
  PROVE  /\ IsFiniteSet(Due) /\ \A pos \in Due : BackAt(pos) \in Nat
         /\ Waiting = SumFunctionOnSet([pos \in Due |-> BackAt(pos)], Due)
         /\ Waiting \in Nat
         /\ HasAmounts(ForgedReturns)
<1>1. Due \in SUBSET (Mined \X Index)
  BY DEF Due, Mined, Position
<1>2. IsFiniteSet(Mined \X Index)
  BY BridgeAssumption, FS_Product DEF BotBooks
<1>3. IsFiniteSet(Due)
  BY <1>1, <1>2, FS_Subset
<1>4. ASSUME NEW pos \in Due PROVE BackAt(pos) \in Nat
  <2>1. mined[pos[1]] \in Root /\ pos[2] \in Index
    BY DEF Due, Position, Inv, BridgeTypeOK
  <2> QED BY <2>1, BridgeAssumption DEF BackAt, Receipt
<1>5. Waiting = SumFunctionOnSet([pos \in Due |-> BackAt(pos)], Due)
  BY DEF Waiting, BackAt
<1> DEFINE f == [pos \in Due |-> BackAt(pos)]
<1>6. \A pos \in Due : f[pos] \in Nat
  BY <1>4
<1> HIDE DEF f
<1>7. SumFunctionOnSet(f, Due) \in Nat
  BY <1>3, <1>6, SumNat
<1>8. ForgedReturns \in SUBSET Returns /\ HasAmounts(Returns)
  BY ReturnsHaveAmounts DEF ForgedReturns
<1>9. HasAmounts(ForgedReturns)
  BY <1>8, AmountWithin
<1> QED BY <1>3, <1>4, <1>5, <1>7, <1>9 DEF f

\* A return pays what waited, or is forged.
LEMMA SolventReturn ==
  ASSUME Inv, BotBooks, Solvent, NEW pos \in Position, ReturnMoli(pos), Inv', BotBooks'
  PROVE  Solvent'
<1>1. PICK paid \in Payout :
         /\ paid.pos = pos /\ paid.asset = None
         /\ paid \notin payouts /\ Returns' = Returns \cup {paid}
         /\ \A p \in Returns : p.pos # pos
         /\ returned' = returned + paid.amount /\ ChainOf[pos[1]] = Ethereum
         /\ UNCHANGED <<burned, mined, unclaimed, bmoli>>
  <2>1. PICK paid \in Payout :
         /\ paid = [pos |-> pos, asset |-> None, amount |-> header[pos[1]].root[pos[2]].back,
                      height |-> height, byBot |-> header[pos[1]].by = Bot]
         /\ paid \notin payouts /\ Returns' = Returns \cup {paid}
         /\ \A p \in Returns : p.pos # pos
         /\ returned' = returned + paid.amount /\ ChainOf[pos[1]] = Ethereum
         /\ UNCHANGED <<burned, mined, unclaimed, bmoli>>
    BY ReturnedBy
  <2>2. paid.pos = pos /\ paid.asset = None
    BY <2>1
  <2> QED BY <2>1, <2>2
<1>2. paid.amount \in Nat /\ burned \in Nat /\ returned \in Nat /\ unclaimed \in Nat /\ bmoli \in Nat
  BY DEF Payout, Inv, BridgeTypeOK
<1>3. \A p : Forged(p)' <=> Forged(p)
  BY <1>1 DEF Forged
<1>4. \A q : BackAt(q)' = BackAt(q)
  BY <1>1 DEF BackAt
<1>5. Due' = Due \ {pos}
  <2>1. {p.pos : p \in Returns}' = {p.pos : p \in Returns} \cup {pos}
    BY <1>1
  <2> QED BY <1>1, <2>1 DEF Due
<1>6. /\ IsFiniteSet(Due) /\ \A q \in Due : BackAt(q) \in Nat
      /\ Waiting = SumFunctionOnSet([q \in Due |-> BackAt(q)], Due)
      /\ Waiting \in Nat /\ HasAmounts(ForgedReturns)
  BY WaitingFinite
<1>7. /\ Waiting' = SumFunctionOnSet([q \in Due |-> BackAt(q)], Due \ {pos})
      /\ Waiting' \in Nat
  <2> DEFINE D == Due \ {pos}
             f == [q \in Due |-> BackAt(q)]
             g == [q \in D |-> BackAt(q)]
  <2>1. Waiting' = SumFunctionOnSet(g, D)
    BY <1>1, <1>5 DEF Waiting, BackAt
  <2>2. IsFiniteSet(D) /\ \A q \in D : f[q] \in Int /\ g[q] = f[q] /\ g[q] \in Nat
    BY <1>6, FS_RemoveElement
  <2> HIDE DEF f, g, D
  <2>3. SumFunctionOnSet(g, D) = SumFunctionOnSet(f, D)
    BY <2>2, SumSame
  <2>4. SumFunctionOnSet(g, D) \in Nat
    BY <2>2, SumNat
  <2> QED BY <2>1, <2>3, <2>4 DEF f, D
<1>8. Solvent' <=> unclaimed + bmoli + Waiting' <= burned - (returned + paid.amount) + AmountOf(ForgedReturns)'
  BY <1>1 DEF Solvent, Outstanding, ForgedReturns
<1>9. unclaimed + bmoli + Waiting <= burned - returned + AmountOf(ForgedReturns)
  BY DEF Solvent, Outstanding, ForgedReturns
<1>10. AmountOf(ForgedReturns) \in Nat
  BY <1>6, AmountType
<1>11. CASE Forged(paid)
  <2>1. ForgedReturns' = ForgedReturns \cup {paid} /\ ForgedReturns \cap {paid} = {}
    BY <1>1, <1>3, <1>11 DEF ForgedReturns, Returns
  <2>2. HasAmounts({paid}) /\ AmountOf({paid}) = paid.amount
    BY <1>2, AmountOfOne
  <2>3. AmountOf(ForgedReturns \cup {paid}) = AmountOf(ForgedReturns) + paid.amount
    BY <1>6, <2>1, <2>2, AmountSplit
  <2>4. AmountOf(ForgedReturns)' = AmountOf(ForgedReturns) + paid.amount
    BY <2>1, <2>3 DEF AmountOf
  <2>5. Waiting' <= Waiting
    <3> DEFINE f == [q \in Due |-> BackAt(q)]
    <3>1. \A q \in Due : f[q] \in Nat
      BY <1>6
    <3>2. Due \ {pos} \in SUBSET Due
      OBVIOUS
    <3> HIDE DEF f
    <3>3. SumFunctionOnSet(f, Due \ {pos}) <= SumFunctionOnSet(f, Due)
      BY <1>6, <3>1, <3>2, SumSubset
    <3> QED BY <1>6, <1>7, <3>3 DEF f
  <2> QED BY <1>2, <1>6, <1>7, <1>8, <1>9, <1>10, <2>4, <2>5
<1>12. CASE ~Forged(paid)
  <2>1. mined[pos[1]] # None /\ paid.amount = BackAt(pos)
    BY <1>1, <1>12 DEF Forged, BackAt
  <2>2. pos \in Due
    BY <1>1, <2>1 DEF Due
  <2>3. ForgedReturns' = ForgedReturns
    BY <1>1, <1>3, <1>12 DEF ForgedReturns
  <2>4. AmountOf(ForgedReturns)' = AmountOf(ForgedReturns)
    BY <2>3 DEF AmountOf
  <2>5. Waiting = paid.amount + Waiting'
    <3> DEFINE f == [q \in Due |-> BackAt(q)]
    <3>1. (\A q \in Due : f[q] \in Int) /\ f[pos] = paid.amount
      BY <1>6, <2>1, <2>2
    <3> HIDE DEF f
    <3>2. SumFunctionOnSet(f, Due) = f[pos] + SumFunctionOnSet(f, Due \ {pos})
      BY <1>6, <2>2, <3>1, SumRemove
    <3> QED BY <1>6, <1>7, <3>1, <3>2 DEF f
  <2> QED BY <1>2, <1>6, <1>7, <1>8, <1>9, <1>10, <2>4, <2>5
<1> QED BY <1>11, <1>12

\* A foreign block takes from the bMOLI what now waits.
LEMMA SolventMined ==
  ASSUME Inv, BotBooks, Solvent, NEW b \in ForeignBlock, NEW root \in Root, MineForeign(b, root),
         UNCHANGED <<payouts, burned, returned, unclaimed>>, Inv', BotBooks'
  PROVE  Solvent'
<1> DEFINE Back == [i \in Index |-> root[i].back]
           R == {i \in Index : <<b, i>> \in {p.pos : p \in Returns}}
           Rest == Index \ R
           T == {p \in ForgedReturns : p.pos[1] = b /\ p.amount = root[p.pos[2]].back}
           N == Due' \ Due
           f == [q \in Due' |-> BackAt(q)']
<1>1. /\ mined[b] = None /\ mined' = [mined EXCEPT ![b] = root] /\ b \in DOMAIN mined
      /\ BackOf(root) \in 0 .. bmoli /\ bmoli' = bmoli - BackOf(root)
      /\ ChainOf[b] # Ethereum => BackOf(root) = 0
      /\ Returns' = Returns /\ root # None
  BY BridgeAssumption DEF MineForeign, Returns, Inv, BridgeTypeOK
<1>2. \A i \in Index : Back[i] \in Nat
  BY BridgeAssumption DEF Receipt
<1>3. IsFiniteSet(Index) /\ IsFiniteSet(R) /\ IsFiniteSet(Rest) /\ R \cap Rest = {} /\ R \cup Rest = Index
  BY BridgeAssumption, FS_Subset, FS_Difference
<1>4. BackOf(root) = SumFunctionOnSet(Back, R) + SumFunctionOnSet(Back, Rest)
  <2>1. BackOf(root) = SumFunctionOnSet(Back, Index)
    BY DEF BackOf
  <2>2. \A i \in R \cup Rest : Back[i] \in Int
    BY <1>2
  <2> HIDE DEF Back, R, Rest
  <2> QED BY <1>3, <2>1, <2>2, SumUnion
<1>5. SumFunctionOnSet(Back, R) \in Nat /\ SumFunctionOnSet(Back, Rest) \in Nat
  <2>1. (\A i \in R : Back[i] \in Nat) /\ (\A i \in Rest : Back[i] \in Nat)
    BY <1>2
  <2> HIDE DEF Back, R, Rest
  <2> QED BY <1>3, <2>1, SumNat
<1>6. \A p \in Returns : p.pos \in Position /\ p.pos[1] \in ForeignBlock /\ p.pos[2] \in Index
                         /\ p.pos = <<p.pos[1], p.pos[2]>> /\ p.amount \in Nat /\ p.asset = None
  BY DEF Returns, Inv, BridgeTypeOK, Payout, Position
\* Returns on the block so far are no longer forged where they say what it says.
<1>7. ForgedReturns' = ForgedReturns \ T
  <2>1. ASSUME NEW p \in Returns, p.pos[1] # b PROVE Forged(p)' <=> Forged(p)
    BY <1>1, <1>6, <2>1 DEF Forged
  <2>2. ASSUME NEW p \in Returns, p.pos[1] = b
        PROVE  Forged(p) /\ (Forged(p)' <=> p.amount # root[p.pos[2]].back)
    BY <1>1, <1>6, <2>2 DEF Forged
  <2> QED BY <1>1, <2>1, <2>2 DEF ForgedReturns
<1>8. AmountOf(T) <= SumFunctionOnSet(Back, R) /\ HasAmounts(T)
  <2> DEFINE g == [p \in T |-> p.amount]
             h == [p \in T |-> p.pos[2]]
  <2>0. HasAmounts(ForgedReturns) /\ T \in SUBSET ForgedReturns
    BY WaitingFinite
  <2>1. HasAmounts(T)
    <3> HIDE DEF T
    <3> QED BY <2>0, AmountWithin
  <2>2. AmountOf(T) = SumFunctionOnSet(g, T)
    BY DEF AmountOf
  <2>3. ASSUME NEW p \in T PROVE h[p] \in R /\ g[p] <= Back[h[p]] /\ g[p] \in Nat
    <3>1. p \in Returns /\ p.pos[1] = b /\ p.amount = root[p.pos[2]].back
      BY DEF ForgedReturns
    <3>2. p.pos = <<b, p.pos[2]>> /\ p.pos[2] \in Index /\ p.amount \in Nat
      BY <1>6, <3>1
    <3> QED BY <3>1, <3>2
  <2>4. ASSUME NEW p \in T, NEW q \in T, h[p] = h[q] PROVE p = q
    <3>1. p \in Returns /\ q \in Returns /\ p.pos[1] = b /\ q.pos[1] = b
      BY DEF ForgedReturns
    <3>2. p.pos = q.pos /\ p.asset = q.asset
      BY <1>6, <2>4, <3>1
    <3> QED BY <3>1, <3>2 DEF Inv, PaidOnce, Returns
  <2>5. IsFiniteSet(T)
    BY <2>1 DEF HasAmounts
  <2>6. (\A i \in R : Back[i] \in Nat)
    BY <1>2
  <2> HIDE DEF T, R, Back, g, h
  <2> QED BY <1>3, <2>1, <2>2, <2>3, <2>4, <2>5, <2>6, SumInto
<1>9. AmountOf(ForgedReturns) = AmountOf(ForgedReturns)' + AmountOf(T) /\ AmountOf(ForgedReturns)' \in Nat
  <2> DEFINE F == ForgedReturns \ T
  <2>0. HasAmounts(ForgedReturns) /\ F \in SUBSET ForgedReturns /\ F \cap T = {} /\ F \cup T = ForgedReturns
    BY WaitingFinite
  <2>1. HasAmounts(F)
    <3> HIDE DEF F, T
    <3> QED BY <2>0, AmountWithin
  <2>2. AmountOf(F \cup T) = AmountOf(F) + AmountOf(T)
    <3> HIDE DEF F, T
    <3> QED BY <1>8, <2>0, <2>1, AmountSplit
  <2>3. AmountOf(ForgedReturns)' = AmountOf(F)
    BY <1>7 DEF AmountOf
  <2>4. AmountOf(F) \in Nat
    <3> HIDE DEF F
    <3> QED BY <2>1, AmountType
  <2> QED BY <2>0, <2>2, <2>3, <2>4
\* What waits grows by the receipts of the block not yet paid.
<1>10. Waiting' <= Waiting + SumFunctionOnSet(Back, Rest)
  <2>1. Due \in SUBSET Due'
    BY <1>1 DEF Due, Position
  <2>2. \A q \in Due : BackAt(q)' = BackAt(q)
    BY <1>1 DEF Due, Position, BackAt
  <2>3. IsFiniteSet(Due') /\ Waiting' = SumFunctionOnSet(f, Due') /\ \A q \in Due' : f[q] \in Nat
    <3>1. (/\ IsFiniteSet(Due) /\ \A pos \in Due : BackAt(pos) \in Nat
           /\ Waiting = SumFunctionOnSet([pos \in Due |-> BackAt(pos)], Due))'
      BY WaitingFinite, PTL
    <3> QED BY <3>1
  <2>4. IsFiniteSet(Due) /\ Waiting = SumFunctionOnSet([q \in Due |-> BackAt(q)], Due)
    BY WaitingFinite
  <2>5. SumFunctionOnSet(f, Due) = Waiting
    <3> DEFINE g == [q \in Due |-> BackAt(q)]
    <3>1. \A q \in Due : f[q] \in Int /\ g[q] = f[q]
      BY <2>1, <2>2, <2>3
    <3> HIDE DEF f, g
    <3>2. SumFunctionOnSet(g, Due) = SumFunctionOnSet(f, Due)
      BY <2>4, <3>1, SumSame
    <3> QED BY <2>4, <3>2 DEF g
  <2>6. IsFiniteSet(N) /\ Due \cap N = {} /\ Due \cup N = Due'
    BY <2>1, <2>3, FS_Difference
  <2>7. SumFunctionOnSet(f, Due \cup N) = SumFunctionOnSet(f, Due) + SumFunctionOnSet(f, N)
    <3>1. \A q \in Due \cup N : f[q] \in Int
      BY <2>3, <2>6
    <3> HIDE DEF f, N
    <3> QED BY <2>4, <2>6, <3>1, SumUnion
  <2>8. SumFunctionOnSet(f, N) <= SumFunctionOnSet(Back, Rest)
    <3> DEFINE h == [q \in N |-> q[2]]
    <3>1. ASSUME NEW q \in N
          PROVE  q[1] = b /\ q = <<b, q[2]>> /\ h[q] \in Rest /\ f[q] <= Back[h[q]] /\ f[q] \in Nat
      <4>1. q \in Position /\ mined'[q[1]] # None /\ ChainOf[q[1]] = Ethereum
            /\ q \notin {p.pos : p \in Returns}
        BY <1>1 DEF Due
      <4>2. q[1] = b
        BY <1>1, <4>1 DEF Due, Position
      <4>3. q = <<b, q[2]>> /\ q[2] \in Index
        BY <4>1, <4>2 DEF Position
      <4>4. q[2] \in Rest
        BY <4>1, <4>3
      <4>5. f[q] = Back[q[2]]
        BY <1>1, <4>2, <4>3 DEF BackAt
      <4> QED BY <1>2, <4>2, <4>3, <4>4, <4>5
    <3>2. \A p, q \in N : h[p] = h[q] => p = q
      BY <3>1
    <3>3. (\A q \in N : h[q] \in Rest /\ f[q] <= Back[h[q]]) /\ (\A q \in N : f[q] \in Nat)
          /\ (\A i \in Rest : Back[i] \in Nat)
      BY <1>2, <3>1
    <3> HIDE DEF N, f, h, Back, Rest
    <3> QED BY <1>3, <2>6, <3>2, <3>3, SumInto
  <2>9. Waiting \in Nat /\ Waiting' \in Nat
    <3>1. (Waiting \in Nat)'
      BY WaitingFinite, PTL
    <3> QED BY <3>1, WaitingFinite
  <2>10. SumFunctionOnSet(f, N) = Waiting' - Waiting
    <3> HIDE DEF f, N
    <3>1. Waiting' = Waiting + SumFunctionOnSet(f, N)
      BY <2>3, <2>5, <2>6, <2>7
    <3>2. SumFunctionOnSet(f, N) \in Nat
      <4>1. \A q \in N : f[q] \in Nat
        BY <2>3 DEF N
      <4> QED BY <2>6, <4>1, SumNat
    <3> QED BY <2>9, <3>1, <3>2
  <2> HIDE DEF f, N, Back, Rest, R
  <2> QED BY <1>5, <2>8, <2>9, <2>10
<1>11. /\ unclaimed + bmoli + Waiting <= burned - returned + AmountOf(ForgedReturns)
       /\ Solvent' <=> unclaimed + bmoli' + Waiting' <= burned - returned + AmountOf(ForgedReturns)'
  BY DEF Solvent, Outstanding, ForgedReturns
<1>12. /\ AmountOf(T) \in Nat /\ AmountOf(ForgedReturns)' \in Nat
       /\ Waiting \in Nat /\ Waiting' \in Nat
       /\ burned \in Nat /\ returned \in Nat /\ unclaimed \in Nat /\ bmoli \in Nat
  <2>1. (Waiting \in Nat)'
    BY WaitingFinite, PTL
  <2>2. AmountOf(T) \in Nat
    <3> HIDE DEF T
    <3> QED BY <1>8, AmountType
  <2> QED BY <1>9, <2>1, <2>2, WaitingFinite DEF Inv, BridgeTypeOK
<1> HIDE DEF T, R, Rest, Back, N, f
<1> QED BY <1>1, <1>4, <1>5, <1>8, <1>9, <1>10, <1>11, <1>12

\* Every step keeps the bridge solvent.
LEMMA NextSolvent == BooksInv /\ [Next]_vars /\ Inv' /\ BotBooks' => Solvent'
<1> SUFFICES ASSUME Inv, BotBooks, Solvent, [Next]_vars, Inv', BotBooks' PROVE Solvent'
  BY DEF BooksInv
<1>1. ASSUME UNCHANGED mined, Returns' = Returns
      PROVE  Waiting' = Waiting /\ AmountOf(ForgedReturns)' = AmountOf(ForgedReturns)
  <2>1. Due' = Due
    BY <1>1 DEF Due
  <2>2. ForgedReturns' = ForgedReturns
    BY <1>1 DEF ForgedReturns, Forged
  <2> QED BY <1>1, <2>1, <2>2 DEF Waiting, AmountOf
<1>2. /\ Waiting \in Nat /\ AmountOf(ForgedReturns) \in Nat
      /\ burned \in Nat /\ returned \in Nat /\ unclaimed \in Nat /\ bmoli \in Nat
  BY WaitingFinite, AmountType DEF Inv, BridgeTypeOK
<1>3. unclaimed + bmoli + Waiting <= burned - returned + AmountOf(ForgedReturns)
  BY DEF Solvent, Outstanding, ForgedReturns
<1>4. Solvent' <=> unclaimed' + bmoli' + Waiting' <= burned' - returned' + AmountOf(ForgedReturns)'
  BY DEF Solvent, Outstanding, ForgedReturns
<1>5. ASSUME NEW n \in Amount, BurnMoli(n) \/ MintBmoli(n),
             UNCHANGED <<mined, payouts, returned>>
      PROVE  Solvent'
  <2>1. Waiting' = Waiting /\ AmountOf(ForgedReturns)' = AmountOf(ForgedReturns)
    BY <1>1, <1>5 DEF Returns
  <2>2. n \in Nat
    BY BridgeAssumption
  <2>3. unclaimed' + bmoli' = unclaimed + bmoli + (burned' - burned) /\ burned' \in Nat
        /\ unclaimed' \in Int /\ bmoli' \in Int
    BY <1>2, <1>5, <2>2 DEF BurnMoli, MintBmoli, ledgers, outbound
  <2> QED BY <1>2, <1>3, <1>4, <1>5, <2>1, <2>3
<1>6. ASSUME UNCHANGED <<mined, burned, returned, unclaimed, bmoli>>, Returns' = Returns
      PROVE  Solvent'
  BY <1>1, <1>3, <1>4, <1>6
<1> QED BY <1>5, <1>6, SolventReturn, SolventMined, OtherSteps

\* The bridge stays solvent and its books true.
LEMMA BooksInvariance == Spec => []BooksInv
<1>1. Init => BooksInv
  <2> SUFFICES ASSUME Init PROVE BooksInv
    OBVIOUS
  <2>1. Inv
    BY InitInv
  <2>2. Returns = {} /\ Mined = {} /\ Due = {}
    BY DEF Init, Returns, Mined, Due, Position
  <2>3. BotBooks
    BY <2>2, FS_EmptySet DEF Init, BotBooks
  <2>4. ForgedReturns = {} /\ AmountOf(ForgedReturns) = 0
    BY <2>2, SumEmpty DEF ForgedReturns, AmountOf
  <2>5. Waiting = 0
    BY <2>2, SumEmpty DEF Waiting
  <2>6. Solvent
    BY <2>4, <2>5 DEF Init, Solvent, Outstanding, ForgedReturns
  <2> QED BY <2>1, <2>3, <2>6 DEF BooksInv
<1>2. BooksInv /\ [Next]_vars => BooksInv'
  <2> SUFFICES ASSUME BooksInv, [Next]_vars PROVE BooksInv'
    OBVIOUS
  <2>1. Inv'
    BY NextType, NextLedgers, NextPaid, NextHonest, NextRests DEF BooksInv, Inv
  <2>2. BotBooks'
    BY NextBooks DEF BooksInv
  <2> QED BY <2>1, <2>2, NextSolvent DEF BooksInv
<1> QED BY <1>1, <1>2, PTL DEF Spec

\* All bMOLI there is, may still be claimed, or waits to be paid back is backed
\* by MOLI destroyed here, short only of what forged roots took.
THEOREM SolventTheorem == Spec => []Solvent
BY BooksInvariance, PTL DEF BooksInv

\* With an operator that commits the truth, a stolen bot key releases at most
\* the cap in any window of blocks.
THEOREM BotKeyTheorem == Operator \in Honest => (Spec => []BotKeyIsCapped)
<1> SUFFICES ASSUME Operator \in Honest PROVE Spec => []BotKeyIsCapped
  OBVIOUS
<1>1. Init => BotUnderCap
  <2> SUFFICES ASSUME Init PROVE BotUnderCap
    OBVIOUS
  <2>1. \A h : InWindow(h) = {}
    BY DEF Init, InWindow, Returns
  <2>2. AmountOf({}) = 0
    BY SumEmpty DEF AmountOf
  <2>3. \A h : AmountOf(InWindow(h)) = AmountOf({})
    BY <2>1
  <2> QED BY <2>2, <2>3, BridgeAssumption DEF BotUnderCap
<1>2. BooksInv /\ BotUnderCap /\ [Next]_vars => BotUnderCap'
  BY NextUnderCap DEF BooksInv
<1>3. BooksInv /\ BotUnderCap => BotKeyIsCapped
  <2> SUFFICES ASSUME BooksInv, BotUnderCap PROVE BotKeyIsCapped
    OBVIOUS
  <2>1. \A p \in Returns : p.byBot \/ Forged(p) <=> p.byBot
    BY DEF BooksInv, Inv, PayoutsRest, Returns
  <2>2. \A h : {p \in Returns : (p.byBot \/ Forged(p)) /\ (p.height <= h /\ p.height > h - BotReturnWindow)}
               = InWindow(h)
    BY <2>1 DEF InWindow
  <2>3. BotKeyIsCapped <=> \A h \in 1 .. height :
          AmountOf({p \in Returns : (p.byBot \/ Forged(p)) /\ (p.height <= h /\ p.height > h - BotReturnWindow)})
            <= BotReturnCap
    BY DEF BotKeyIsCapped
  <2> QED BY <2>2, <2>3 DEF BotUnderCap
<1> QED BY BooksInvariance, <1>1, <1>2, <1>3, PTL DEF Spec
=============================================================================
