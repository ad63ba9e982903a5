------------------------------- MODULE Bridge -------------------------------
(***************************************************************************)
(* The bridge payloads of src/state.js applyTransaction, from the height   *)
(* BRIDGE_V2_ACTIVATION on, over the two ledgers of consensus state:       *)
(*   - src/moliburn.js OutboundLedger: MOLI destroyed here to be minted as *)
(*     bMOLI on Ethereum, and MOLI paid back for bMOLI sent to the vault;  *)
(*   - src/inbound.js InboundLedger: assets of other chains, minted here   *)
(*     against burns proved under a committed receipts root.               *)
(* Every payload is checked whole before anything changes, so an action is *)
(* one transaction that was accepted.  State belongs to a block and is     *)
(* cloned for the next one: a behaviour is one branch of the chain.        *)
(*                                                                         *)
(* A receipts root stands for what it commits to, a receipt for each index *)
(* (a proof that reaches the root cannot be forged, a root can).  Of a     *)
(* receipt remain the bMOLI it sends to the vault and the burns of each    *)
(* asset; who holds or is paid which unit, and fees, are left out.         *)
(***************************************************************************)
EXTENDS Integers, FiniteSets, Functions

CONSTANTS
  ForeignBlock, ChainOf, \* blocks of the origin chains, and the chain of each
  Ethereum,              \* the chain of bMOLI
  Index,                 \* places of a transaction in a block
  Root,                  \* receipts roots a block may have or a liar invent
  Asset, OriginChain,    \* bridged assets and the chain each comes from
  Hash,                  \* transaction hashes a claimant may write in a claim
  Operator, Bot, Others, \* the Ethereum header authority, its bot, registrars
  Honest,                \* those who commit only roots of blocks that exist
  Cap, Amount,           \* caps and amounts to choose from
  BotActivation,         \* BOT_HEADER_ACTIVATION
  BotReturnCap, BotReturnWindow,
  HistoricalPositions,   \* positions claimed before positional keys
  Supply,                \* MOLI on Molibra at the start
  MaxHeight, MaxBurned,  \* bounds of the state space
  None

Committer == {Operator, Bot} \cup Others
Position == ForeignBlock \X Index
Receipt == [back : Nat, burns : [Asset -> Nat]]
Commitment == [root : Root, by : Committer, botRoot : Root \cup {None}]
Record == [cap : Nat, minted : Nat, burnedIn : Nat, returned : Nat, registrar : Committer]
Payout == [pos : Position, asset : Asset \cup {None}, amount : Nat, height : Nat, byBot : BOOLEAN]

ASSUME BridgeAssumption ==
  /\ ChainOf \in [ForeignBlock -> {Ethereum} \cup {OriginChain[a] : a \in Asset}]
  /\ Root \subseteq [Index -> Receipt] /\ None \notin Root
  /\ IsFiniteSet(Index)
  /\ None \notin Commitment /\ None \notin Record /\ None \notin Asset
  /\ Operator # Bot
  /\ Cap \subseteq Nat \ {0} /\ Amount \subseteq Nat \ {0}
  /\ BotActivation \in Nat /\ BotReturnCap \in Nat /\ BotReturnWindow \in Nat
  /\ HistoricalPositions \subseteq Position
  /\ Supply \in Nat /\ MaxHeight \in Nat /\ MaxBurned \in Nat

VARIABLES
  height,     \* of the block being applied
  supply,     \* MOLI on Molibra
  burned, returned, returnKeys, botReturns, \* the outbound ledger
  asset,      \* tokenId -> its record, or None
  claimedHashes, claimedPositions,
  header,     \* foreign block -> its committed root, or None
  units,      \* what each asset's contract holds
  mined,      \* external: the receipts of each foreign block, or None
  unclaimed,  \* external: MOLI burned whose bMOLI is not minted yet
  bmoli,      \* external: bMOLI outside the return vault
  stray,      \* external: units burned by a contract, not by a release
  payouts     \* history: every return and claim honoured

outbound == <<burned, returned, returnKeys, botReturns>>
ledgers == <<supply, outbound, asset, claimedHashes, claimedPositions, header, units, payouts>>
foreign == <<mined, unclaimed, bmoli>>
vars == <<height, ledgers, foreign, stray>>

Init ==
  /\ height = 1
  /\ supply = Supply
  /\ burned = 0 /\ returned = 0 /\ returnKeys = {} /\ botReturns = {}
  /\ asset = [a \in Asset |-> None]
  /\ claimedHashes = {} /\ claimedPositions = {}
  /\ header = [b \in ForeignBlock |-> None]
  /\ units = [a \in Asset |-> 0]
  /\ mined = [b \in ForeignBlock |-> None]
  /\ unclaimed = 0 /\ bmoli = 0
  /\ stray = [a \in Asset |-> 0]
  /\ payouts = {}

-----------------------------------------------------------------------------
\* What a set of returns, or of payouts, amounts to.
AmountOf(S) == SumFunctionOnSet([p \in S |-> p.amount], S)

Outstanding == burned - returned

\* Mutant: nothing remembers the receipts that were honoured.
ReturnableAgain(pos, n) == n > 0 /\ n <= Outstanding

\* A receipt is honoured once, and no more comes back than went out.
Returnable(pos, n) == n > 0 /\ pos \notin returnKeys /\ n <= Outstanding

\* Mutant: the window is a block short.
InShortWindow == {r \in botReturns : r.height > height - BotReturnWindow + 1}

\* What the window of blocks ending here has left of the bot's returns.
InBotWindow == {r \in botReturns : r.height > height - BotReturnWindow}

BotReturnable(n) == AmountOf(InBotWindow) + n <= BotReturnCap

\* MOLI is destroyed here, and the counter that backs bMOLI rises.
BurnMoli(n) ==
  /\ n <= supply
  /\ burned + n <= MaxBurned
  /\ supply' = supply - n
  /\ burned' = burned + n
  /\ unclaimed' = unclaimed + n
  /\ UNCHANGED <<height, returned, returnKeys, botReturns, asset, claimedHashes,
                 claimedPositions, header, units, mined, bmoli, stray, payouts>>

\* bMOLI proved to have reached the vault is paid back as MOLI, at most once
\* per receipt and never more than went out; on a root only the bot committed,
\* whole or not at all under the rolling cap.
ReturnMoli(pos) ==
  LET b == pos[1]
      n == header[b].root[pos[2]].back
      byBot == header[b].by = Bot
  IN /\ header[b] # None /\ ChainOf[b] = Ethereum
     /\ header[b].by = Operator \/ (byBot /\ height >= BotActivation)
     /\ Returnable(pos, n) /\ (byBot => BotReturnable(n))
     /\ supply' = supply + n
     /\ returned' = returned + n
     /\ returnKeys' = returnKeys \cup {pos}
     /\ botReturns' = IF byBot
          THEN InBotWindow \cup {[height |-> height, key |-> pos, amount |-> n]}
          ELSE botReturns
     /\ payouts' = payouts \cup
          {[pos |-> pos, asset |-> None, amount |-> n, height |-> height, byBot |-> byBot]}
     /\ UNCHANGED <<height, burned, asset, claimedHashes, claimedPositions, header, units,
                    foreign, stray>>

-----------------------------------------------------------------------------
\* A contract that trusts the asset's keyless authority is registered with a
\* cap; whoever registers it is its header authority from then on.
Register(a, who, cap) ==
  /\ asset[a] = None
  /\ asset' = [asset EXCEPT ![a] =
       [cap |-> cap, minted |-> 0, burnedIn |-> 0, returned |-> 0, registrar |-> who]]
  /\ UNCHANGED <<height, supply, outbound, claimedHashes, claimedPositions, header, units,
                 foreign, stray, payouts>>

\* From BOT_HEADER_ACTIVATION Ethereum roots come in two tiers.
Tiered(b) == ChainOf[b] = Ethereum /\ height >= BotActivation

\* Ethereum has its named authorities; another chain whoever registered an
\* asset of it.
MayCommit(by, b) ==
  IF ChainOf[b] = Ethereum
    THEN by = Operator \/ (by = Bot /\ Tiered(b))
    ELSE \E a \in Asset : asset[a] # None /\ OriginChain[a] = ChainOf[b] /\ asset[a].registrar = by

\* The operator's word over the bot's.
Overrides(by, b) == Tiered(b) /\ by = Operator /\ header[b].by = Bot

\* A commitment is not a draft, and the bot does not even repeat the operator.
Agrees(by, b, root) ==
  header[b].root = root /\ (Tiered(b) /\ by = Bot => header[b].by = Bot)

CommitHeader(by, b, root) ==
  /\ by \in Honest => mined[b] = root
  /\ MayCommit(by, b)
  /\ \/ /\ header[b] = None
        /\ header' = [header EXCEPT ![b] = [root |-> root, by |-> by, botRoot |-> None]]
     \/ /\ header[b] # None /\ Overrides(by, b)
        /\ header' = [header EXCEPT ![b] = [root |-> root, by |-> by, botRoot |-> @.root]]
     \/ /\ header[b] # None /\ ~Overrides(by, b) /\ Agrees(by, b, root)
        /\ UNCHANGED header
  /\ UNCHANGED <<height, supply, outbound, asset, claimedHashes, claimedPositions, units,
                 foreign, stray, payouts>>

\* Mutant: whichever root reached the chain first.
RestsOnFirst(a, b) == header[b].by # Bot

\* The root is the asset's own registrar's, and never the bot's.
RestsOnRegistrar(a, b) == header[b].by # Bot /\ header[b].by = asset[a].registrar

\* Mutant: the hash alone, as before the positional keys.
UnclaimedHash(a, pos, hash) == <<OriginChain[a], hash>> \notin claimedHashes

\* Unclaimed under the hash the claimant wrote, and at the place it is at.
Unclaimed(a, pos, hash) ==
  /\ <<OriginChain[a], hash>> \notin claimedHashes
  /\ pos \notin claimedPositions \cup HistoricalPositions

UnderCap(a, n) == asset[a].minted + n <= asset[a].cap

\* The record of an asset after units came in and went out.
Moved(a, in, out) ==
  [cap |-> asset[a].cap, registrar |-> asset[a].registrar,
   minted |-> asset[a].minted + in - out,
   burnedIn |-> asset[a].burnedIn + in, returned |-> asset[a].returned + out]

\* A burn proved under the root of the asset's own registrar is minted here,
\* once for the hash the claimant wrote and once for the place it is at.
ClaimBurn(a, pos, hash) ==
  LET b == pos[1]
      n == header[b].root[pos[2]].burns[a]
  IN /\ asset[a] # None /\ ChainOf[b] = OriginChain[a] /\ header[b] # None
     /\ n > 0 /\ RestsOnRegistrar(a, b) /\ Unclaimed(a, pos, hash) /\ UnderCap(a, n)
     /\ units' = [units EXCEPT ![a] = @ + n]
     /\ asset' = [asset EXCEPT ![a] = Moved(a, n, 0)]
     /\ claimedHashes' = claimedHashes \cup {<<OriginChain[a], hash>>}
     /\ claimedPositions' = claimedPositions \cup {pos}
     /\ payouts' = payouts \cup
          {[pos |-> pos, asset |-> a, amount |-> n, height |-> height, byBot |-> FALSE]}
     /\ UNCHANGED <<height, supply, outbound, header, foreign, stray>>

\* Units are burned by their holder through the contract, then by the ledger.
Release(a, n) ==
  /\ asset[a] # None /\ n <= asset[a].minted /\ n <= units[a]
  /\ units' = [units EXCEPT ![a] = @ - n]
  /\ asset' = [asset EXCEPT ![a] = Moved(a, 0, n)]
  /\ UNCHANGED <<height, supply, outbound, claimedHashes, claimedPositions, header,
                 foreign, stray, payouts>>

\* A contract that holds units calls burn() itself, which consensus does not see.
BurnByContract(a, n) ==
  /\ n <= units[a]
  /\ units' = [units EXCEPT ![a] = @ - n]
  /\ stray' = [stray EXCEPT ![a] = @ + n]
  /\ UNCHANGED <<height, supply, outbound, asset, claimedHashes, claimedPositions, header,
                 foreign, payouts>>

-----------------------------------------------------------------------------
\* The other side: bMOLI is minted for a proved burn.
MintBmoli(n) ==
  /\ n <= unclaimed
  /\ unclaimed' = unclaimed - n /\ bmoli' = bmoli + n
  /\ UNCHANGED <<height, ledgers, mined, stray>>

BackOf(root) == SumFunctionOnSet([i \in Index |-> root[i].back], Index)

\* A foreign block: assets are burned in it, and bMOLI sent to the vault.
MineForeign(b, root) ==
  /\ mined[b] = None
  /\ \E n \in 0..bmoli : /\ n = BackOf(root) /\ bmoli' = bmoli - n
                         /\ ChainOf[b] # Ethereum => n = 0
  /\ mined' = [mined EXCEPT ![b] = root]
  /\ UNCHANGED <<height, ledgers, unclaimed, stray>>

NextBlock ==
  /\ height < MaxHeight
  /\ height' = height + 1
  /\ UNCHANGED <<ledgers, foreign, stray>>

Next ==
  \/ \E n \in Amount : BurnMoli(n) \/ MintBmoli(n)
  \/ \E pos \in Position : ReturnMoli(pos)
  \/ \E a \in Asset, who \in Committer, cap \in Cap : Register(a, who, cap)
  \/ \E by \in Committer, b \in ForeignBlock, root \in Root : CommitHeader(by, b, root)
  \/ \E a \in Asset, pos \in Position, hash \in Hash : ClaimBurn(a, pos, hash)
  \/ \E a \in Asset, n \in Amount : Release(a, n) \/ BurnByContract(a, n)
  \/ \E b \in ForeignBlock, root \in Root : MineForeign(b, root)
  \/ NextBlock

Spec == Init /\ [][Next]_vars
-----------------------------------------------------------------------------
BridgeTypeOK ==
  /\ height \in Nat /\ supply \in Nat
  /\ burned \in Nat /\ returned \in Nat /\ returnKeys \subseteq Position
  /\ botReturns \subseteq [height : Nat, key : Position, amount : Nat]
  /\ asset \in [Asset -> Record \cup {None}]
  /\ claimedHashes \subseteq {OriginChain[a] : a \in Asset} \X Hash
  /\ claimedPositions \subseteq Position
  /\ header \in [ForeignBlock -> Commitment \cup {None}]
  /\ units \in [Asset -> Nat] /\ stray \in [Asset -> Nat]
  /\ mined \in [ForeignBlock -> Root \cup {None}]
  /\ unclaimed \in Nat /\ bmoli \in Nat
  /\ payouts \subseteq Payout

\* A payout whose receipt says otherwise, or is in no block.
Forged(p) ==
  \/ mined[p.pos[1]] = None
  \/ LET r == mined[p.pos[1]][p.pos[2]]
     IN p.amount # IF p.asset = None THEN r.back ELSE r.burns[p.asset]

Returns == {p \in payouts : p.asset = None}
Claims(a) == {p \in payouts : p.asset = a}

\* bMOLI that reached the vault and was not paid back here.
Due == {pos \in Position : mined[pos[1]] # None /\ ChainOf[pos[1]] = Ethereum
                            /\ pos \notin {p.pos : p \in Returns}}
Waiting == SumFunctionOnSet([pos \in Due |-> mined[pos[1]][pos[2]].back], Due)

\* All bMOLI there is, or may still be claimed, or waits to be paid back, is
\* backed by MOLI destroyed and not yet returned, short only of what forged
\* roots took (moliburn.js outstanding(), read by whoever audits the far side).
Solvent ==
  unclaimed + bmoli + Waiting
    <= Outstanding + AmountOf({p \in Returns : Forged(p)})

\* "a stolen bot key releases at most BOT_RETURN_CAP per window"
\* (molireturn.js:124): in any window of blocks, the returns on a root only
\* the bot committed and the forged ones stay under the cap together, while
\* the operator commits the truth.
BotKeyIsCapped ==
  \A h \in 1..height :
    AmountOf({p \in Returns : /\ p.byBot \/ Forged(p)
                             /\ p.height <= h /\ p.height > h - BotReturnWindow})
      <= BotReturnCap

\* A receipt pays a return at most once and a claim of an asset at most once,
\* under whatever hash, whoever submits it, before and after its root changed
\* hands, and a claim honoured before positional keys is not paid again
\* (state.js 3b, moliburn.js assertReturnable).
PaidOnce ==
  /\ \A p, q \in payouts : p.pos = q.pos /\ p.asset = q.asset => p = q
  /\ \A p \in payouts : p.asset # None => p.pos \notin HistoricalPositions

\* An asset whose registrar commits the truth mints only what was burned where
\* it comes from, whatever others commit (state.js, the three rules of v2).
HonestAssetIsBacked ==
  \A p \in payouts :
    p.asset # None /\ asset[p.asset].registrar \in Honest => ~Forged(p)

\* A committed root is never withdrawn, and changes only from the bot's word to
\* the operator's, the bot's staying on the record (inbound.js commitTiered).
CommitmentStands ==
  [][\A b \in ForeignBlock : header[b] # None /\ header'[b] # header[b] =>
       header[b].by = Bot /\ header'[b] # None
       /\ header'[b].by = Operator /\ header'[b].botRoot = header[b].root]_vars
=============================================================================
