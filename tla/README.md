# Verification of Molibra

TLA+ models of the parts of Molibra that decide what its chain is and what money moves on it and
beside it, the TLC configurations that check them on small instances, and TLAPS proofs of every
safety property those runs check, for every instance. Paths and line numbers are those of the
repository (`src/…` there is `src/src/…` in `PROJECT.json`).

1. [The system](#1-the-system)
2. [The modules](#2-the-modules)
3. [What the runs check](#3-what-the-runs-check)
4. [Fairness](#4-fairness)
5. [What is proved](#5-what-is-proved)
6. [Disagreements with the code's own words](#6-disagreements-with-the-codes-own-words)
7. [Observed while modelling](#7-observed-while-modelling)
8. [What is not modelled](#8-what-is-not-modelled)
9. [Plan](#9-plan)

## 1. The system

Molibra is a proof-of-work chain with an account state, an EVM, a token and voting ledger in
consensus, a floor on reorganisations attested on Ethereum, a two-way bridge to Ethereum, and
services (a mining pool, bots, faucets, an installer) around the node. A node is one Node.js
process. Nothing runs in parallel, but every `await` lets another handler in, so the concurrency to
fear is the interleaving of asynchronous calls on shared objects, and of a process with its own
restart.

| Component | State | Operations | What is hard |
|---|---|---|---|
| **Block tree and fork choice** `chain.js` | `byHash`, `canonical`, the head | `processBlock`, `verifyAgainstParent`, `pathToCanonical`, `setHead` | `processBlock` awaits verification, the head change and each orphan it connects, and mining, RPC and sync call it on one object |
| **Orphan pool** `chain.js` 536–623 | `orphans` by parent, bounded | hold, connect recursively, drop | order of arrival, nesting bound, an invalid orphan throwing through the loop |
| **Chain file** `chain.js` 736–786 | the file: blocks and head | `persist` (whole tree), `load` (replay) | a crash anywhere, batched writes of the sync loop, replay without a floor |
| **Mempool and index** `chain.js` 184–365, 647–717 | `mempool`, `txIndex`, `receipts` | `submitRaw`, eviction, unwinding and splicing by `setHead` | a transaction moving between pool and chain through a reorganisation |
| **Anchored floor** `anchor.js`, `anchorfeed.js` | anchors by height, faults, Ethereum's head | `add`, `setEthereumHead`, `permitsReorgFrom` | anchors read again, late, contradicting, regressing, from outsiders; Ethereum going back |
| **Mining loop** `node.js` 147–200 | candidate, its parent, the stop flag | compose, grind a slice, seal, process | a head that moves under the candidate; a candidate the node itself rejects |
| **Peers and sync** `node.js` 290–345, 424–707 | peers, failures, windows | poll, fetch pages, push blocks, announce, wait before mining | a window above the common ancestor; a push that arrives or not; nodes waiting for each other |
| **Accounts and contracts** `state.js`, `evm.js`, `evmstate.js` | balances, nonces, code, storage, checkpoints | apply a transaction, nested calls and creations, commit, revert | a reverted call inside a kept one, a failed call beside a ledger change, composing on after a refusal |
| **Bridge ledgers** `state.js` 752–1110, `inbound.js`, `moliburn.js`, `molireturn.js` | burned and returned MOLI, the bot's rolling cap, assets, roots, claims | burn, return, register, commit a root, claim, release | two tiers of committers, replays under other hashes or places, a contract that burns units behind the ledger |
| **Votes, tokens, credentials** `state.js` 541–692, `token.js`, `vote.js`, `credential.js`, `publisher.js` | vote keys, token records and balances, opened places, spent serials; the publisher's keys and charges, and their file | vote, create, issue, transfer, express, open, spend; sign | one key set for votes and expressions; supplies; a publisher that restarts |
| **Mining pool** `pool.js`, `poolserver.js` | share log, blocks with their split, balances, payments, a file | share, submit, confirm, pay, re-broadcast, save | awaited calls between debit and payment, lost answers, crashes, blocks orphaned and brought back |
| **Fast bridge bot** `bots/fastbridge-core.mjs` | items by transfer with a status, cursors, a file | scan, advance, pay, replace, search, sweep, pause | two chains that reorganise, payouts pending at a nonce, restarts from an older file, rolling limits |
| **Slow bridge bot** `bots/bridge-core.mjs` | returns and claims with a status | read once, advance each: commit the root, return, resend, supersede | what a tick read is stale when it acts; others commit and return the same |
| **Anchor contract, settlement, bMOLI** `bridge/MolibraAnchor.sol`, `MolibraSettlement.sol`, `BridgedMoli.sol`, and the **publisher** `anchor-publisher.mjs` | anchors, bonds, claims; the script's pending transactions | anchor, prove equivocation, withdraw, claim by three routes; scan, choose a height, send | a chain that still reorganises, windows, a re-run over pending transactions |
| **Relay** `bridge/MolibraRelay.sol` | headers with work, index by number, best | submit a batch, release | the index after a shorter and heavier branch; batches that end in a lighter header |
| **Issuer and airdrop** `issuer.js`, `faucet.js` | grants, challenges, claims, a file each | challenge, redeem, claim | cool-down against inclusion, the record written after the transaction is out |
| **Installer's supervisor** `installers/launcher/molibra-miner.mjs` | installed and marked releases, processes, timers | check, build, swap, watch, roll back, restart | timers, updates, rollbacks and the flag-day guard acting on one node across awaits |
| **Molibra contracts** `contracts/*.sol` | reserves, shares, what is sold | add, remove, swap, buy, withdraw | rounding, and calls made from inside a payment |
| **RPC, pages, command line, proofs, scripts** | — | reads, encodings, cryptography | see section 8 |

How they interact. Blocks reach `processBlock` from the mining loop, from `POST` handlers (a pushed
block) and from the sync loop; it consults the anchored floor, moves the mempool and the index, and
writes the file. The anchor feed writes the store that the fork choice reads, on its own timer. The
mining loop reads head and mempool. A block carries the state after it; the bridge and token ledgers
and the accounts are part of that state and are cloned for the next block, so a reorganisation takes
them back with the block. The publisher writes the anchors on Ethereum that the feed reads and that
bMOLI is minted against; the bots commit Ethereum's roots that the bridge ledgers pay against. The
pool, the bots, the issuer and the supervisor are clients: they see the node through awaited calls
or a process boundary, each of which may show another moment of the chain.

What makes each part correct, in one line:

- *Fork choice*: the canonical chain is one path of verified blocks, the heaviest known but for what
  was refused, whatever the interleaving; it never moves deeper than the bound nor below the floor.
- *Orphans*: a block in hand is connected when its parent arrives, and is not lost.
- *File*: it can be replayed after a crash at any point, and never shrinks.
- *Mempool and index*: no transaction vanishes in a reorganisation.
- *Floor*: what binds is what a believed publisher said once and nobody credible contradicted, and
  it never stops the head from being extended.
- *Mining*: what the node composes runs again as it was composed, and nobody is starved by others.
- *Peers*: who is on a lighter chain in the end could not follow; nobody waits for ever to mine.
- *Accounts*: no MOLI appears or is lost; what a reverted call did is gone, what a kept one did
  stays; a refused transaction leaves no trace.
- *Bridge*: everything paid is proved, once; bMOLI is backed; an honest registrar's asset is backed
  whatever others commit; a stolen bot key takes at most its cap per window.
- *Votes and tokens*: a wallet speaks once where its mode says so; units are conserved; no place
  hears more anonymous voices than were signed for.
- *Pool*: books balance in memory and on disk; what is paid twice, and what is owed and not held, is
  so by a lost answer alone.
- *Bots*: what is paid twice has one of a few named causes, limits hold through restarts, every
  return lands in the end.
- *Anchors and claims*: what is paid on Ethereum is mined for good on Molibra; a bond outlives the
  moment its anchor binds; no burn is stranded below an anchor.
- *Relay*: it ends on the heaviest chain, and its index is that chain.
- *Issuer*: nobody is given twice. *Supervisor*: the machine is never left without a node to come.
- *Market*: what is for sale is there, a share never loses value, a purchase is as large as paid
  for.

## 2. The modules

| Module | Models | Uses |
|---|---|---|
| `BlockTree` | what blocks commit to: parent, height, work, ancestors, transactions | — |
| `HeaviestChain` | abstract fork choice: learn valid blocks, move only to a heavier tip, restart | `BlockTree` |
| `AnchorStore` | `anchor.js`: the store and the floor | — |
| `Mempool` | admission rules of `submitRaw` as operators on a pool | — |
| `Chain` | `chain.js`: tree, fork choice, orphans, index, mempool, file, restart, anchor polls | `BlockTree`, `AnchorStore`, `Mempool`; implements `HeaviestChain` |
| `Miner` | `node.js` `startMining` over `composeBlock` | `Mempool` |
| `Peers` | `node.js`: several nodes, their sync, pushes, peers and the wait before mining | `BlockTree` |
| `Accounts` | `applyTransaction`, `evm.js`, `evmstate.js`: accounts, fees, nested contract calls | — |
| `Bridge` | both bridge ledgers over the payloads of `applyTransaction`, from `BRIDGE_V2_ACTIVATION` on | — |
| `Expressions` | votes, tokens and credentials of `applyTransaction`, and `publisher.js` | — |
| `Pool` | `pool.js` and `poolserver.js`, with the node and chain they see | — |
| `FastBridge` | `fastbridge-core.mjs` over two chains | — |
| `ReturnBot` | the return leg of `bridge-core.mjs` | — |
| `AnchorContract` | `MolibraAnchor.sol` | — |
| `Settlement` | the chain, `anchor-publisher.mjs`, and the claims of `BridgedMoli.sol` and `MolibraSettlement.sol` | `AnchorContract` |
| `Relay` | `MolibraRelay.sol` and the bridge that pays from it | — |
| `Launcher` | the supervisor of an installed miner | — |
| `Grants` | `issuer.js` and `faucet.js` over a mempool and a chain | — |
| `Market` | `MolibraPool.sol` and `MoliSaleCurve.sol` | — |
| `MCTree`, `MC…` | instances for TLC; several put components side by side | |
| `SetLemmas`, `…_proofs` | lemmas and theorems | |

Definitions whose comment begins with *Mutant* are altered forms that show a property can fail: no
action uses them.

**Chain.** A *task* is one asynchronous caller of `processBlock`; its stack has one frame per nested
call. `Receive` is the entry up to the first await (known, orphaned or verified next); `Verify` is
what follows `verifyAgainstParent` up to the return of `setHead`: the block enters the tree, is
weighed, adopted, left on its branch, or refused; `Resolve`, `NextChild` and `Return` are the loop
over its orphans; `Throw` is an exception leaving all the nested calls. Persisting tasks (mining, a
pushed block) write the file when the outermost call returns; the others belong to the sync loop,
which writes per batch (`SaveBatch`). `Crash`, `Replay` and `Ready` are the death of the process and
`init`/`load`. `SubmitRaw` is the mempool's entry and `PollAnchors` the feed's. The stretches
between two awaits are actions; a few are cut finer than the event loop would, which adds
behaviours. Whether a block verifies is a constant of the block (`Valid`), since re-execution is
deterministic over its history. `refused` is a history variable. A crash clears everything but the
file, the anchors included: `cli.js` gives the store its anchors only after `load` has returned.

**AnchorStore.** An anchor is a record of height, block, work, Ethereum block and publisher. The
digest of the code is equality of height, block and work. Signatures and timing of the poll are left
out; an anchor may be read any number of times in any order. `seen` is a history variable.

**Mempool** operators are shared by `Chain` and `Miner`. Payload, balance and token checks are
abstracted: `Tx` holds transactions whose content is admissible. Which of several cheapest
transactions is displaced is insertion order in the code, any of them here.

**Miner.** The loop at the granularity of its `setImmediate` slices. Gas is two numbers: the
intrinsic gas, which `composeBlock` weighs before it runs a transaction, and the gas the execution
used, which it adds up and the header states. A composed block is a fold over the mempool in the
order the code tries it (`Take`, `Composed`). The validator has its own definitions: `RunsAgain` is
its loop over the transactions and the sum it compares, `Accepts` adds the limit it checks first.

**Peers.** A network says which nodes there are, who can be dialled, who was configured with whom,
and what each may mine. A page of blocks is one step, since the handlers of a node between two
awaits are not interrupted and what two callers of `processBlock` do to each other is `Chain`'s
subject. A pushed block arrives at once or never. The memory of refused announcements and the waits
after too many requests only delay, and are folded into `outages`; a timer that may have elapsed may
fire.

**Accounts.** A transaction that runs code begins with its checks and charges (`CallContract`,
`Deploy`, `Claim`, `Release`), runs as a stack of frames, each with a checkpoint that is a copy of
the world, and ends in `Finish`. The interpreter is a library: a contract may write, call, create,
return or revert at every step. `journal` and each frame's `mark` are history variables: the writes
made so far, by which a property can say what the state should be. `Deployed`, `Created` and
`Person` are three kinds of address.

**Bridge.** A receipts root stands for the receipts it commits to: a proof under a root cannot be
forged, a root can. Committers other than the honest ones commit anything. Actions are accepted
transactions; every payload is checked whole before it changes anything. Ethereum's side
(`MintBmoli`, `MineForeign`) is external. Fees and recipients are left out.

**Expressions.** Actions are accepted transactions of one branch, whole, and the steps of the
publisher. A hash is what it commits to: the id of a token is its creator and its title, where a
title stands for the words and the height; the key of a vote is the wallet and the place. A plain
vote may name any 32 bytes as its place (`vote.js` checks none), the id of a token among them, so
`Scope` is the union of both. The publisher writes its file before it hands out a signature;
`Restart` is a death anywhere, after which it knows what the file says, or nothing if it has none
(`StateFile`). A key of the publisher can be used by anyone who saw it to open a place; the keys of
strangers sign anything. `acts`, `anonymous`, `granted`, `spent` and `generated` are history
variables, in whose terms the properties speak.

**Pool.** `confirm` and `round` are the local variables of `confirmBlocks` and `payout` across their
awaits; `asking` the submissions under way. What a payout reads of the balances owed, of the nonce
and of the wallet are three actions (`Owe`, `ReadNonce`, `ReadWallet`), each at its own moment of
the chain, and the calls may fail (`PayoutFails`). The chain has a tip, the pool's blocks a node
knows and those on the canonical chain; a reorganisation replaces any suffix within the depth bound.
`Reaches` separates a payment arriving at the node from its answer; `Failed` is any error, a refusal
or an answer that is lost after the payment arrived. `unheard` is a history variable: payments the
node took while the pool gave the balance back.

**FastBridge.** `book` is the bot's memory of items, `disk` its file; `tick` the local variables of
one tick: the tips it read, the gas, what is left to advance. A transfer deep enough is scanned,
then judged by the rules of `decide`, then paid at the nonce the code would take. `Mine`, `Vanish`
and `Undo` are the chains: payouts wait, are mined, disappear from a node, or are taken back with
their blocks. Time is steps: an interval of the code is a count of them (`Resend`, `Hour`, `Day`).
The statuses that only tell a person why an item waits are one, `waiting`. `unrecorded`, `raced` and
`undone` are history variables: transfers that are paid or being paid without their item saying so,
transfers with a payout mined inside a tick that looked for it, and chains that took a deep block
back.

**ReturnBot.** A tick reads the use of the cap and the spent keys, then the roots (`StartRound`,
`ReadRoots`), and advances each return that is deep enough (`Reach`): it commits the root, sends the
return, resends it or supersedes it. What is in flight is looked up first, and a lookup that fails
(`heard` is false) is taken for a transaction that is not mined, as the code's `catch` does.
`SendFails` is an error of any call of `sendMolibra`, before or after the nodes have the
transaction; `Unanswered` a proof that cannot be built. `SomebodyReturns` and `OperatorCommits` are
others doing the same; `Undo`, `UndoOthers` and `Forget` are the chain and its nodes. `retracted` is
a history variable: returns that a reorganisation took back.

**AnchorContract** and **Settlement.** A Molibra block is a height with whether it is of the chain
the nodes agree on; an invented block is the other kind. `PublisherRun` is one run of the script,
from its scan for burns to its send; its transactions may stay pending or be forgotten. `Claim`,
`ClaimVia` and `ReleaseFromPot` are the routes by which something is paid on Ethereum. `ethBlock +
challengeBlocks`, unchecked in the code, is taken modulo `Word`.

**Relay.** Headers are opaque with their number, time, difficulty and parent; the retarget is
modelled, the seal is taken for proved. `Submit` takes a batch, as the contract does.

**Launcher.** Processes have numbers; one is current, others are dying or were left behind. The
hourly check, the build, the swap, the watch over a new release, the restart timer and the flag-day
guard are separate actions because the code awaits between them. A swap may fail at either rename or
at the copy of the supervisor (`BrokenSwap`), which leaves the old release, none, or the new one in
`app/`; the handlers of the error start the node from whatever is there (`SwapFails`, `Begin`), and
without any the supervisor ends (`Breaks`). A release is its sequence number.

**Grants.** `mempool`, `network` and `onChain` are where a transaction of the service may be;
`grants`, `claims` and their files are its memory. `forgotten` is a history variable: a record that
did not survive a failing write and a restart.

**Market.** A call is one step up to the point where it pays MOLI to an account, whose code may then
call anything that is not locked: `open` is the stack of such calls. `Return` and `Reject` end one,
taking the payment or refusing it. `SupplyForSale` and the price are small enough for every rounding
of the contracts to show.

## 3. What the runs check

Components that share no state are put side by side in one module, whose variable `part` says which
of them a behaviour is about: the state spaces add up, and each part is explored as if it were
alone.

| Run | Instance | Properties |
|---|---|---|
| `fork` | *chain*: a chain of 2 with the heavier second block against one of 3, one block invalid; two callers, one of which persists; depth bound 1, orphan bound 2; one crash; nothing is anchored. *accounts*: a wallet with 3 MOLI, a deployed contract and an address to create one at; two transactions of three EVM steps, calls three deep, one block | `HeaviestOrRefused`, `RefinesHeaviestChain`; `MoliAccountedFor`, `OnlyKeptCallsCount`, `AppliedOrUntouched` |
| `trees` | *orphans*: a chain of 3 with a heavier sibling, and an invalid one; two callers, orphan bound 2, one crash, fair. *anchored*: an anchored branch of 3 against a heavier one of 2; six anchors: honest, early, contradicting, regressing, recorded again later, from an outsider; Ethereum heights 1–3 in any order; one caller, depth bound 2. *dropped*: the same blocks without anchors; four transactions of two senders, two with one nonce and one free of charge, in the blocks of both branches, and a pool of 1 | `OrphanLostOnlyToInvalid`, `OrphansEndOnHeaviest` (`EndsOnHeaviest`, in that part); `ContradictedNeverBinds`, `ReorgIsBounded`, `ExtensionNeverRefused`, `AnchoredFloorHolds`; `DroppedTxIsPending` |
| `ledgers` | *bridge*: MOLI that leaves and returns over four heights, two Ethereum blocks of two places, cap 2 over a window of 2, a lying bot; or assets of two chains claimed under two hashes, lying bot and mallory. *pool*: two miners, two blocks of the pool, orphan depth 1 < reorganisation depth 2 = maturity 2; a crash, lost answer or lost payment | `Solvent`, `BotKeyIsCapped`, `PaidOnce`, `HonestAssetIsBacked`; `BooksBalance`, `PaidTwiceOnlyUnheard`, `OwedIsHeld` |
| `expressions` | two wallets; two registered out of six declarations (one of each mode, an asset, a purchase that could be sold); two places, a key of a stranger and two of a publisher of quota 1, three serials; three acts | `OneVoice`, `UnitsConserved`, `QuotaHolds` |
| `fast` | *payouts*: two transfers in either direction, or one with a crash, a lost answer, a lost file, a reorganisation or a sweep; limits that one transfer fits and two in one direction exceed. *market*: two traders, six units for sale, a band of one half, a fee of one tenth, four calls, two of them nested | `PaidTwiceOnlyIf`, `LimitsHeld`; `SaleIsFunded`, `PurchaseIsBest`, `ShareValueNeverFalls` |
| `around` | *relay*: a slow and a fast branch of nine headers, one with a false difficulty. *returns*: two returns of one Ethereum block, each as large as the cap, one fault. *miner*: four transactions of two senders, one too large for any block, one that uses more than its intrinsic gas and overfills the block if it comes second; two movements of the head. Fair | `IndexIsBestChain`, `RelayEndsOnHeaviest`; `ReturnedIsSpent`, `BotEveryReturnLands`; `OwnBlockRunsAgain`, `MinerServesEveryTx` |
| `services` | *settlement*: a script and a publisher that may invent history, a burn and a bridge-out, tip 4, Ethereum 2. *launcher*: three releases, the second crashes, the third is mandatory and brings a supervisor; one fault. *grants*: two persons, two issues or two airdrops, two faults | `PaidForIsMined`, `BondOutlivesBinding`, `ScriptStrandsNoBurn`; `NeverIdle`; `GivenOnce` |
| `peers` | two miners a block apart of which either may stop twice; and three nodes of which one only follows; branches of two blocks above a common stretch of two; fair | `NodesConverge`, `EverybodyMines` |
| `pool_twice`, `fast_twice`, `relay_stale`, `peers_hidden` | see section 6 | one property each, violated |

Type invariants are not in the runs' lists where a theorem of section 5 states them: a run is spent
on what could be wrong.

Why these bounds are enough for the cases that matter:

- *Trees.* The trees have a fork, a lighter branch that is the longer one, a tie, a heavier branch
  behind two unknown blocks and an invalid block beside valid siblings. Two callers are what is
  needed for one to be suspended in any stage while another runs to the end; the mining loop, the
  RPC and the sync loop differ only in whether they persist, and both kinds are there.
- *Depth, orphans, nesting.* The bounds on the depth of a reorganisation (128), on orphans (256) and
  on nesting (128) become 1 to 3: `fork` refuses by depth and turns orphans away. In `trees` the
  nesting bound of *orphans* is above the tree; see section 7 for what lies beyond it.
- *Anchors.* The anchors are one of each kind the code distinguishes. Both orders of each pair
  occur. The anchored blocks carry transactions, but none is submitted beside them: neither the
  floor nor the fork choice looks at a transaction, and an anchor acts on transactions through a
  refused or bounded reorganisation only. The theorems have both at once.
- *Accounts.* Three steps and three frames let a call write, call, and be reverted inside a call
  that is kept, and the reverse; the second transaction meets what the first left. SELFDESTRUCT and
  the metering inside the EVM are left out: gas is what was used in the end.
- *Bridge.* Two places and two blocks are needed for a receipt to be confused with another; two
  assets of one chain with different registrars for one to be paid from another's root; the window
  of 2 within four heights slides past returns. The constraint `Stories` keeps to behaviours that
  have returns or claims, since only the committed roots are common to both, and caps are fixed per
  asset (`CapOf`).
- *Pool.* The real depths are 10 < 128 < 130; what matters is their order, with the reorganisation
  depth at most the maturity, and the model keeps it. `FewBlocks` allows two blocks, or one and a
  fault.
- *Expressions.* Two tokens are needed for a place to be shared by two quantum tokens, or by a
  single one and a plain vote on its id; two acts violate `OneVoice` and the third comes after both
  kinds. Two places and two keys let one key serve two places. Tokens and credentials share no
  variable but the count of acts, so the constraint `Apart` keeps to behaviours with the ones or the
  others, plain votes in both. With a quota of 1 for each of two wallets, a third serial is one too
  many.
- *Fast bridge.* Two payouts of one transfer (`MaxPayouts`) are what the property is about; windows
  of one and two steps order *not mined yet*, *an hour*, *a day* as the code's do; the constraint
  `Short` keeps to stories of two transfers without a fault or of one with a fault or a sweep.
- *Market.* With amounts this small every division rounds by a large part of the amount, and the
  root and the bisection of a purchase have every kind of answer.
- *Settlement.* The script waits 2 blocks where reorganisations reach 1, and the challenge window is
  1, so that an anchor may be claimed under before, at and after the end of each. That the sum of
  Ethereum block and window may wrap is in the model and in the proof; the instance does not get
  near it.
- *Launcher.* Two processes at once are what makes a node be mistaken for another; the release in
  the middle crashes, the last one must be installed before its height, and changes the supervisor.
- *Peers.* A window and a page of 2 blocks over forks of 2, with a depth bound of 1, put the common
  ancestor inside and at the edge of a window, and on either side of a page's end. A fork that
  leaves the window is deeper than the depth bound, so it is refused however much is fetched.

A bound on a counter (`MaxCrashes`, `MaxMoves`, `MaxBurned`, `MaxHeight`, `MaxTip`, `MaxEth`,
`MaxFaults`, `MaxShares`, `MaxTokens`, `MaxUnits`, `MaxActs`, `MaxTxs`, `MaxSteps`, `MaxDepth`,
`MaxCalls`, `MaxNested`, `MaxMined`, `MaxPot`, …) appears in the guard of the action it bounds and
is a named constant.

Deadlock is checked in `trees`, `expressions`, `fast_twice` and `relay_stale`. The other
configurations switch it off because a part really ends there: a market when the calls are used up,
transactions and blocks when their number is, a network of nodes of which none mines any more.

`Chain` has no overflow to model: heights and work are BigInt. The contracts' checked arithmetic
reverts, so an overflowing call is no step; the one unchecked sum is modelled (`Word`).

## 4. Fairness

Only six properties, and the refuted `NodesConverge`, are about what must happen.

- `trees` states the fairness of `Chain`'s `FairSpec` for the part *orphans*. A call in progress
  goes on (weak fairness): a settled promise runs its continuation. The sync loop walks the peer's
  blocks again on every tick, so each block is delivered again and again (strong fairness, since a
  delivery needs its caller to be idle and between two deliveries it is not). Loading ends. Nothing
  is assumed of blocks pushed by peers, mining, or transactions. The model delivers every block of
  the tree; that some window of `syncFrom` reaches the common ancestor is what `peers` is about.
- `around` states the fairness of each part where that part runs. The relay: each header is
  submitted again and again by somebody until it is accepted, alone at least (weak fairness per
  header); without it nobody need ever relay the heavier branch. The bot: its timer fires and a tick
  goes on (weak fairness of `BotStep`), Molibra mines what is in the pool, what was returned leaves
  the rolling window of the cap, and a wait ends (weak fairness of `MineSome`, `WindowMoves`,
  `Elapse`); a restart, a fault or another's return is never assumed. The miner: the loop
  reschedules itself with `setImmediate` (weak fairness of `Rebuild`), and a slice finds a seal
  infinitely often (strong fairness of `Seal`, which is disabled while the candidate is rebuilt),
  since the difficulty retargets.
- `peers` and `peers_hidden`: timers go on firing, the peers of a tick are asked one after another,
  a call to a peer that is down ends in an error, and a stopped node is started again (weak fairness
  of each, per node). Nothing makes a miner find a block, or a push arrive.

No fairness is assumed in the other runs.

## 5. What is proved

Every safety invariant and every action property that a passing run checks is a theorem, and so are
type correctness and other properties that the runs do not spend time on: each holds for every value
of the constants that satisfies the named assumptions (`BlockTreeAssumption`, `HashRankAssumption`,
`TxsAssumption`, `AnchorAssumption`, `ChainAssumption`, `AccountsAssumption`, `BridgeAssumption`,
`ExpressionsAssumption`, `PoolAssumption`, `FastAssumption`, `MarketAssumption`, `RelayAssumption`,
`ReturnBotAssumption`, `MinerAssumption`, `SettlementAssumption`, `LauncherAssumption`,
`GrantsAssumption`), which TLC evaluates on the instances. The number of callers, blocks, wallets,
crashes, anchors, transfers, headers or amounts is bounded in no proof.

Two theorems have a hypothesis that the code does not guarantee:

- `BotKeyTheorem`, `OnlyBotForges`: `Operator \in Honest`. With a lying operator the bot's cap
  protects nothing.

Others carry their exceptions in the property itself (`PaidTwiceOnlyIf`, `PaidTwiceOnlyUnheard`,
`OwedIsHeld`, `OwnBlockRunsAgain`, `ReturnedIsSpent`, `GivenOnce`, `IndexIsBestChain`,
`AnchoredFloorHolds`), which a run checks in the same words.

**Sums and folds** (`SetLemmas`). The provers cannot instantiate the library's induction theorems.
Induction over a finite set is therefore done by a minimal counterexample: among the finite sets
that violate a statement one has the least cardinality, and removing an element contradicts it. That
is enough to prove of `SumFunctionOnSet` that it takes an element more (`SumInsert`), splits into
parts (`SumParts`) or rows (`SumRows`), and is at most the sum it maps into (`SumInto`); these carry
solvency, the bot's cap, the pool's books, the supply of units and of MOLI. The same argument serves
folds over sequences, where they are needed: the replay of a journal, a composed block, the answer
of a bisection.

**Chain** (`Chain_proofs`). The inductive invariant is

    Inv == TypeOK /\ KnownTree /\ CanonicalChain /\ HeaviestOrRefused /\ CallsOK /\ FileOK

`CanonicalChain` alone is not inductive. `setHead` splices the old chain with a branch found by
walking parents, so it needs every known block to have all its ancestors known, at all heights down
to genesis (`KnownTree`, with `Grounded` for one block). That holds because a block is verified only
under a known parent, and a suspended verification still has it when it resumes (`CallsOK`): between
the two awaits only a crash removes blocks, and a crash removes the callers as well. After a crash
the tree is rebuilt from the file, whose closure under parents and order of replay are `FileOK`. The
lemma `ForkPointIsCanonical` shows the walk back meets the canonical chain, with a greatest height;
`ChainToIsAPath` that the splice is a path; `WeighedKeepsTree` that the fork choice keeps tree,
chain and weight together; then one lemma for each action.

From it follow `TypeCorrect`, `CanonicalChainTheorem`, `HeaviestTheorem`, `FileTheorem`, and the
action properties `FileGrowthTheorem`, `HeadTheorem`, `ReorgTheorem`, `ExtensionTheorem`,
`FloorTheorem`. `Refinement` proves that `Chain` implements `HeaviestChain` with the tree for
`known` and the head for the tip: every step learns a block, restarts or stutters.

- `DroppedTheorem` adds that the index is kept through the splice: what leaves it was unwound into
  the mempool or is in a block of the new branch.
- `OrphanTheorem` adds what the frames of a call hold: a frame that verifies or resolves carries its
  own block only, and the blocks of the frames above it in the stack are in the tree. A waiting
  block is then given up by `Throw` and `Crash` alone, for any depth of nesting.
- `ContradictedTheorem` adds, for each anchor of an allowlisted publisher ever read, that its height
  is faulted or the anchor kept there says the same.

**Accounts** (`Chain_proofs`). `MoliAccountedFor` needs the state of every checkpoint, since a
revert brings it back. `Sound(w, m)` says of a world that its money is `m` and that nobody is in
debt; `AccountsInv` has it of the world, of every checkpoint, and of the world that would come of
charging the fee now. Each checkpoint is the replay of the journal's prefix up to its mark, which is
`OnlyKeptCallsCount` once the stack is empty. That the final charge is always there
(`AppliedTheorem`) needs that the code of a person never runs: only the outermost call takes from
the sender, so what was set aside, limit times price, stays. The proof has three lemmas for what a
step may be: a write, a call that begins, a call that returns or reverts.

**Bridge** (`Bridge_proofs`). The inductive invariant is

    Inv == BridgeTypeOK /\ LedgersAgree /\ KeysKept /\ PaidOnce
             /\ HonestRoots /\ PayoutsRest /\ HonestAssetIsBacked

`BridgeTypeOK` says that balances stay naturals, which needs `LedgersAgree` (returned at most
burned, minted at most the cap and equal to the contract's units and stray burns). `PaidOnce` needs
`KeysKept`: each payout left its key behind, and keys are never removed. `HonestAssetIsBacked` needs
`HonestRoots` (a root whose committer is honest is the root of the mined block) and `PayoutsRest`
(each payout still rests on a root committed by those it needed). Theorems: `BridgeTypes`,
`LedgersAgreeTheorem`, `PaidOnceTheorem`, `HonestAssetTheorem`, `OnlyBotForges` (while the operator
is honest, only returns on a bot root can be forged) and `CommitmentTheorem`.

`BooksInv` adds `BotBooks` and `Solvent`. For solvency the returns of the mined blocks are split
into those already paid back and those still due, and the forged ones are a third sum; a return
moves one term between them. For the cap, the list the consensus keeps for the bot and the payouts
in any window are compared by `SumInto`: a payout of the bot that is still in the window is still on
the list (`BotBooks`), so that pruning drops only what no later window holds.

**Votes, tokens, credentials** (`Expressions_proofs`). The inductive invariant is

    Inv == SpeechTypeOK /\ Registered /\ StandingIsGranted /\ UnitsConserved /\ Remembered
             /\ Voices /\ Counted /\ TallyIsBurn /\ ServiceOK /\ PlacesOK

`Registered` says that a record on the ledger is well formed and that nobody holds, was granted or
spent units of a token that is not registered: the purpose of a record could not be relied on
without it. `OneVoice` speaks of pairs of acts and of caps: `Voices` is its part on pairs, and
follows from `Remembered`, that every act left the key or the count by which the next would be
refused, and that no key is ever taken back. `Counted` ties the acts of a wallet on a capped token
to its count. `TallyIsBurn` needs the acts numbered, so that each new one is new. `UnitsConserved`
is a sum over wallets of which a step changes one term; a transfer is two changes in a row, so that
sender and recipient may be one. For `QuotaHolds`, `ServiceOK` says that file and memory agree (or
that a publisher without a file has forgotten: it then generates other keys) and that every
credential carries a number below what its holder was charged; `PlacesOK` that a place has heard as
many voices as serials were spent. Distinct serials of one place have distinct credentials, which
map injectively to pairs of a holder and a number (`SpentAreNumbered`): there are quota times
wallets of those. The runs keep a file; that the quota holds without one is shown by the proof
alone. Theorems: `SpeechTypes`, `OneVoiceTheorem`, `StandingTheorem`, `UnitsTheorem`,
`TallyTheorem`, `QuotaTheorem`.

**Pool** (`Pool_proofs`). Each book, in memory and in the file, is `Sound` by itself: of every
miner, what confirmed blocks earned is what is owed plus what was debited. A crash replaces one by
the other, so `SamePayments` says both list the same payments and it loses statuses only. The work
list of `confirmBlocks`, read before its awaits, still names pending blocks when it acts
(`ConfirmAgrees`), and the balances read by `payout` are still owed (`RoundAgrees`), since nothing
else debits meanwhile. For `PaidTheorem` each payment mined has a place of its own in the book, or
is noted in `unheard`; one that is both, because a later payment of the same amount took its nonce,
counts once. For `OwedTheorem` a confirmed block is buried below `ReorgDepth`, which is at most
`Maturity`, and the splits of a block sum to at most its reward; what payments with lost answers
took out of the wallet is in the statement.

**Fast bridge** (`Markets_proofs`). The inductive invariant is

    FastInv == FastTyped /\ Limited /\ Guarded

`Limited` is for the limits. What is in flight is in the book, or noted in `unrecorded`; what is
young in the file is at least as young in the book, so that a crash, which puts the file in the
book's place, cannot lower what counts against a limit. To Ethereum, an item that says *sent* holds
one nonce per transfer. `Guarded` is for payouts to Molibra, which take whatever nonce is confirmed
next: nonces used are those below the count mined; once a payout is mined, every payout of that
transfer has a used nonce; a tick about to pay has searched and found none, and the range it
searched covers all from the item's start to the tips it read; the scan's cursor is past every
transfer paid for. Steps are grouped by what they change: the chains, a start from the file, a
tick's scan, the advance of one item.

**Market** (`Markets_proofs`). `MarketInv` has `Sound` of the market and of the one saved in every
open call, which a refusal brings back. Divisions are turned into the inequalities that define them.
`SaleIsFunded`: the deposit of a purchase stays within its budget by either rounding.
`ShareValueNeverFalls`: adding and removing round so that each reserve per share rises, hence the
product of the reserves to the square of the shares; a swap keeps the product since the fee is at
most 1; shares given sum to at most those counted. `PurchaseIsBest` needs more. Cost and deposit
grow with the amount; the quadratic's root is exact (`RootIs`, `SolveIs`) and the bisection returns
the last amount that fits (`BisectionFinds`, by the least natural that does not); the deposit takes
its shares exactly by the side that is finer (`DepositExact`), which rests on `Rooted`, that the
square of the shares is at most the product of the reserves; and what is left is worth less than one
share and one token. The proof corrected the property: "a few wei" of dust may suffice for one more
share, see section 7.

**Relay** (`Around_proofs`). Every accepted header has its ancestors accepted, one for each number
down to the checkpoint (`Lined`); the walk of `_chooseBest` stops exactly at the fork; above the new
head nothing is left unless the head's number fell, which is the exception `fell`.

**Return bot** (`Around_proofs`). What a tick saw spent is still spent, or noted as taken back; what
is in flight is a transaction of the bot, and a return in flight is that item's. The chain grows at
its end only, and an undone block notes its returns.

**Mining loop** (`Around_proofs`). The composed block is a fold over the mempool; the transactions
have an order and every set of them a last one. After each one that is taken, those before it still
apply one after another on the parent's state, its intrinsic gas fitted on what was used before it,
and the gas is the sum of what they used. What is left for the validator to reject is the gas of the
last one.

**Settlement** (`Services_proofs`). `SettlementInv` adds to the three properties that anchors rise
with Molibra's heights (`AnchorsRise`), that those which say the truth are of blocks that stay
(`AnchorsFinal`), and that what the script has pending is of such a block and leaves no waiting burn
below (`PendingIsFinal`, which is what a run of the script over transactions not mined yet can
break).

**Supervisor** (`Services_proofs`). `NeverIdle` is inductive once processes are finitely many: every
action that takes the node away leaves a timer, a step of the update or a watch that starts the next
one.

**Issuer and airdrop** (`Services_proofs`). `GrantsInv` adds where nonces stand (`Nonces`), that a
balance is at least the issue in the tip (`Balances`), that what is in memory and not on file is
noted (`Remembered`), and that at most one issue to a person may yet be mined, while it holds little
and is under its cool-down (`Issued`), or at most one airdrop, which is then claimed (`Airdropped`).

**Only model-checked.** The six liveness properties, `OrphansEndOnHeaviest`, `RelayEndsOnHeaviest`,
`BotEveryReturnLands`, `MinerServesEveryTx`, `NodesConverge` and `EverybodyMines`, rest on fairness
and so on `ENABLED`, which is out of the prover's reach. The four properties of section 6 are
violated, and nothing is proved of them.

## 6. Disagreements with the code's own words

Each is a run that TLC finds violated, quoting what the code or its documents say.

- **`fast_twice`** (`fastbridge-core.mjs:425`). A payout to Ethereum that is not mined within twenty
  minutes is judged again by every rule. When gas is unreadable or dear, a cap is reached, the stock
  is short or its own amount fills the rolling limit, its item leaves *sent*; the next judgement
  then no longer replaces the pending payout but takes the pending nonce, which counts it, and both
  can be mined. The head of the file says "Never pay twice", and lines 425–426 "fall through and
  build again (same nonce on Ethereum;". `PaidTwiceOnlyIf`, proved, is what does hold.
- **`pool_twice`** (`poolserver.js:268`). When the answer to a payment is lost, the node may have
  the payment, and mine it; the pool takes the error for a refusal, gives the balance back, and the
  next round pays it again. `test/mining-pool.mjs:163` says "nothing is paid twice".
  `PaidTwiceOnlyUnheard`, proved, says that nothing else makes a miner receive more than it earned.
- **`relay_stale`** (`MolibraRelay.sol:170`). `_chooseBest` rewrites the index back to the fork but
  does not clear it above the new head. After a shorter and heavier branch wins, headers of the
  abandoned one stay canonical there, and once the best work exceeds theirs by enough, `isSettled`
  answers true for a transaction of a block off the best chain. Line 58: "Best chain by accumulated
  work, and the block at each height on it." `IndexIsBestChain`, proved, says that this is the only
  way.
- **`peers_hidden`** (`node.js:531`). Lines 402–405 call pull "the primary mechanism" and announcing
  "an optimisation on top, never the mechanism". For the blocks mined by a node that nobody can dial
  the push is the only mechanism: it is sent once and its failure swallowed. A block whose push is
  lost is known to its miner alone until it finds another, whose parent nobody has then.

## 7. Observed while modelling

Behaviours of the code that no run is about; the models contain those marked (m).

Node:

- (m) The list of orphans is deleted before it is processed, and an invalid one throws out of the
  loop (`chain.js:615`): its valid siblings are in neither the pool nor the tree, and the block
  being accepted is not written. `OrphanLostOnlyToInvalid` shows it is the only way to lose one,
  `OrphansEndOnHeaviest` that a peer which goes on serving repairs it. Chains of orphans longer than
  the nesting bound are not in the run.
- (m) The replay after a restart runs before the anchor feed (`cli.js:80`): a branch refused because
  Ethereum attested to another is adopted, and from then on the anchor no longer matches the local
  chain and binds nothing. `README.md:214` has the floor refuse "at any depth and against any amount
  of work".
- (m) A restart may choose another head among tied ones, or adopt one refused for its depth, since
  blocks are replayed in the order of the file (`chain.js:742`, `780`).
- (m) `composeBlock` weighs intrinsic gas (`chain.js:396`), the header adds what was used: with a
  transaction that uses more, the node may seal a block that it then rejects, drop the rejection and
  compose the same block again, for ever and serving nobody, though `node.js:148` says "Mine
  continuously." So `OwnBlockRunsAgain` allows a rejection for gas, and no other, and
  `MinerServesEveryTx` exempts behaviours in which what would be composed is over-full from some
  moment on (`Overfull`), and no others. Any change of the mempool or of the head that makes the
  block fit ends it.
- The candidate is not rebuilt when the mempool changes (`node.js:167`), though line 159 says it is;
  a transaction waits for the next candidate.
- (m) `setHead` returns transactions to the mempool without applying its size limit
  (`chain.js:701`), and transactions whose nonce has been used by another are not pruned.
- (m) The depth bound is measured from the present tip (`chain.js:596`). A heavier branch may be the
  shorter one, so the tip may sink, and a block that was deeper than the bound is within it again;
  `limits.js:103` says it "cannot be reorged away".
- (m) A refused block returns before its orphans are looked at (`chain.js:592`, `605`): what waited
  for it goes on waiting.
- (m) `anchor.js:218` compares an anchor's work with lower heights only.
- (m) Orphans nested deeper than the recursion bound stay in the pool (`chain.js:614`) although
  their parent is known, until they are delivered again themselves.
- (m) While a taller peer that this node refuses exists, every tick walks the peer's chain from
  genesis again. A node on a fork deeper than the bound waits for ever before mining; a peer that
  lies about its height (`node.js:493`) can hold it there too, which is not modelled.
- A revert in `evmstate.js` restores neither votes, spent serials nor the bridge ledgers; no call of
  the EVM can reach them today. `State.toJSON` omits tokens.

Ledgers:

- (m) A receipt with the burns of two assets, or two burns of one asset, can be claimed once only:
  the position is the receipt's (`state.js:828`). `inbound.js:58` has each burn claimed "exactly
  once". The units left out stay burned at the origin.
- (m) A claimant writes the hash of the burn it claims; one that writes another burn's hash blocks
  that burn's claim (`state.js:798`).
- (m) An asset of Ethereum registered by anyone but the operator can never be claimed: its roots are
  the operator's and a claim needs the asset's registrar.
- (m) An honest return may be refused while forged ones have used up what is outstanding.
- `lowerCap`, `proposeCap` and `applyCap` of the inbound ledger are called by tests only.
- (m) A plain vote on a place, or on a token's id as its place, uses up the wallet's quantum
  expression there, or its single expression on that token (`state.js:636`), and the other way
  round.
- (m) An expression of amount 0 on an asset is accepted and counted (`token.js:477`), though
  "nothing is voted on" (`token.js:322`); it takes no units and leaves no trace in a place.
- (m) Anybody may open a place with a key seen elsewhere, so a credential of one place is accepted
  in another that was opened with its key, once in each; `state.js:677` calls it useless there for
  want of the same key. The quota of each place still holds.

Pool:

- (m) A lost answer also leaves the round's nonce where it was, so that the next payment of that
  round contends with the unheard one for it; the one that is not mined counts as paid and never is.
- (m) A payment that left the mempool is broadcast again after half an hour, when another may have
  its nonce; it counts as paid and never is.
- (m) A crash between "sending" and the broadcast leaves the miner debited and unpaid.
- (m) The pool gives a block up at depth 10 although a reorganisation down to 128 may bring it back;
  a block whose submission lost its answer is never split. Both favour the wallet, so `OwedIsHeld`
  holds.
- The table of seen shares is cleared when large while jobs are open (`pool.js:299`): a share may be
  credited again.

Fast bridge bot:

- (m) With a payout still unconfirmed a second one is sent from the same stock, against lines 30–31
  of the file; sweeps repeat while one is unconfirmed and leave less than the maximum, against line
  95.
- (m) *paid* is final at one confirmation. A payout found on chain carries no time, so it no longer
  counts against a limit.
- (m) A lost file, and a source that a reorganisation moved to another block, make a Molibra payout
  be sent again: the search begins later than the first payout.
- Two transfers in one transaction share one key; the ledger file is written and never read.

Slow bridge bot:

- (m) A return read as spent in a block that is not yet deep (`bridge-core.mjs:642`, the recent
  keys) is recorded as returned and never looked at again. If that block is reorganised away, and
  whoever sent it does not come back, it is never paid. The comment at 278–282 says of the last
  stretch of the chain that it is re-read on every tick and "never persisted", but the status it
  leads to is; the same holds of the bot's own return, recorded at one confirmation (650).
  `ReturnedIsSpent` says that only a reorganisation makes *returned* false; `BotEveryReturnLands`
  exempts a return that is recorded so.
- (m) A root may be committed twice, harmlessly. "Never a second while one is unconfirmed" (25–26)
  is broken by claims.
- One fee transaction pays for several burns; the express anchor gives up after three attempts;
  *awaiting-fee* is unreachable for burns; the lock of `bridge-bot.mjs` has a window between reading
  and writing; an unreadable `state.json` silently becomes an empty one.

Ethereum:

- (m) A batch that ends in a lighter header does not choose a heavier one inside it. A heavier fork
  deeper than the bound can never be applied, though the error says "must be applied in pieces".
- (m) `WITHDRAW_DELAY` of 128 against a challenge window of 7200 blocks contradicts
  `MolibraSettlement.sol:153`. The sum of Ethereum block and window is unchecked and wraps.
- `anchor()` leaves no signature that `proveEquivocation` could use.
- (m) Anybody bonded may anchor above a burn and leave `claim` without an anchor of its own;
  `claimVia` is the way out.
- (m) The script takes the *pending* nonce (`anchor-publisher.mjs:373`), so a re-run while a
  transaction waits sends the next nonce with the same height, which then reverts.

Supervisor:

- (m) A rollback nearly always leaves a second node, which the port of the first makes crash again
  and again; the timer of line 751 may start one twice.
- (m) A rollback can mark the wrong release as bad (322); a good release can be rolled back; the
  mark of an update is removed at the start (380), so a reboot loses the watch over it.
- (m) A null height (794) resumes mining past the flag day, against lines 17–18; mining stays paused
  until the next hourly check after a mandatory install.
- The first installation ignores bad releases, the required launcher and the rollout (853).

Issuer and airdrop:

- (m) A claim that is recorded, whose transaction is lost or more than the treasury holds, is never
  paid.
- (m) A crash within the synchronous stretch from the transaction to its record loses both, so only
  a failing write and a restart forget one. The writes are not atomic: a truncated file stops the
  node at its start.

Market:

- What a purchase keeps of its payment is called rounding dust, "a few wei"
  (`MoliSaleCurve.sol:262`). It can be worth another share when the token's reserve is the smaller
  one: with reserves of 1900 and 19 under 10 shares, of a budget of 1790 there remain 270.
  `PurchaseIsBest` says how much at most.
- The branch `if (m > budget)` of `_depositFor` never executes (lemma `DepositWithin`).
- Dust is deposited only below a limit, which a price far beyond any realistic one could keep it
  above.

## 8. What is not modelled

- *Of the node*: the census of nodes, the guard of addresses and the limits of requests; block
  rewards' halving and difficulty retargeting, which are arithmetic on one block (difficulty is a
  constant of a block here); SELFDESTRUCT and the gas inside the EVM, whose interpreter is
  `@ethereumjs/evm`.
- *Of votes and tokens*: the wording of records, the charge for publishing them (it is in
  `Accounts`), the same checks made once more by `submitRaw`, and the blind signatures of
  `blind.js`: a credential is the key it was signed with and its serial.
- *Of the pool*: the table of jobs, tuning of share difficulty, limits of workers, public pages.
- *Of the bots*: fees beyond one gas price, the dry run, keys, heartbeat and lock; the claim leg,
  the express anchor and the fee gates of the slow bot; the watchdog.
- *Of the Ethereum contracts*: the ERC-20 of bMOLI, the owner of the settlement pot, the pot itself
  (a release that finds too little reverts), and `MolibraProver`, whose proofs are taken for what
  they prove. *Of the publisher*: poller, Bitcoin stamps and watcher.
- *Of the installer*: the archive and its digest, UPnP, the wallet, the window, overlapping hourly
  checks.
- *Of the market*: slippage bounds, deadlines and approvals, which only make a call revert; the
  256-bit width; the factory, token, vesting, locker and registry contracts.
- *Of the issuer*: the stipend, off unless configured; `work.js`'s puzzle.
- *Proofs and cryptography*: Merkle proofs, receipts, signatures and blinding are functions over
  bytes. A proof is what it verifies to under a root; a signature cannot be forged.
- *Heights before `BRIDGE_V2_ACTIVATION`*: history only, replayed under the old rules.
- *RPC, pages, command line, bridge helpers, scripts*: reads, encodings, packaging, or calls of the
  handlers that are modelled.

## 9. Plan

What the proofs leave is liveness, which stays with TLC. What the models leave, in order:

1. **Claim leg of the slow bridge bot** with its fees and the express anchor, over `ReturnBot`'s
   chain.
2. **Headers and proofs**: `MolibraProver` and the header rules of `block.js` as pure operators
   against a reference definition (retarget, seal window, inclusion paths), to replace what `Relay`
   and `Settlement` assume.
3. **Poller and watcher** between `AnchorContract` and `AnchorStore`: that the feed's anchors are
   the contract's, with depth and Ethereum's own reorganisations.
4. **Ratelimit and netguard**: budgets per peer and the memory of refused announcements, now folded
   into outages.
5. **Inbound leftovers**: cap proposals, should the node come to call them; positions per burn.
6. **Refinements**: `Miner` and `Peers` over `Chain` (a block handed to `processBlock` rather than a
   head that moves), `Settlement` as the source of the anchors of `AnchorStore`.
