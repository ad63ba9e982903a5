-------------------------------- MODULE Pool --------------------------------
(***************************************************************************)
(* The public mining pool: src/poolserver.js over the share log of         *)
(* src/pool.js.  A share is logged; one that beats the block target is     *)
(* sealed and submitted; a block that the local node took is split over    *)
(* the newest shares, credited once it is deep enough in the chain, and    *)
(* paid from the pool's wallet.                                            *)
(*                                                                         *)
(* One thread runs everything, but every call of the node is awaited:      *)
(* confirmBlocks, payout and the submissions of blocks interleave at those *)
(* points with each other, with shares, with the timer that saves, and     *)
(* with the chain.  What persists is one record (the book), written whole. *)
(* Gas, the pages, rate limits and the tuning of share difficulty are left *)
(* out; a share of an old parent or seen before is refused, so every share *)
(* here is new work on the present one.                                    *)
(***************************************************************************)
EXTENDS Integers, FiniteSets, FiniteSetsExt, SequencesExt

CONSTANTS
  Miner,
  ShareDifficulty,            \* share difficulties
  ShareWindow,                \* pplnsFactor times the block difficulty
  Reward, Cut,           \* of a block, and the pool's fee in it
  MinPayout,
  Maturity, OrphanDepth, \* depth at which a block is credited, or given up
  ReorgDepth,            \* MAX_REORG_DEPTH of the nodes
  MaxShares, MaxBlocks, MaxPoolTip, MaxPoolFaults, \* bounds of the state space
  NoRecord

PoolBlock == 1..MaxBlocks

Splits == [credits : [Miner -> Nat], status : {"pending", "orphaned", "confirmed"}]

ASSUME PoolAssumption ==
  /\ ShareDifficulty \subseteq Nat \ {0} /\ ShareWindow \in Nat \ {0}
  /\ Reward \in Nat /\ Cut \in 0..Reward /\ MinPayout \in Nat \ {0}
  /\ Maturity \in Nat /\ OrphanDepth \in Nat /\ ReorgDepth \in Nat
  /\ ReorgDepth <= Maturity /\ IsFiniteSet(Miner)
  /\ NoRecord \notin Splits /\ NoRecord \notin Int
  /\ \A D \in SUBSET Miner : NoRecord \notin [D -> Nat]
  /\ MaxShares \in Nat /\ MaxBlocks \in Nat /\ MaxPoolTip \in Nat /\ MaxPoolFaults \in Nat

VARIABLES
  book,      \* state and share log in memory
  disk,      \* pool-state.json
  work,      \* height the template of the pool mines at
  foundAt,     \* height of each block the pool sealed, or 0
  asking,    \* blocks whose submission is not answered yet
  confirm,   \* the confirmBlocks under way, or None
  round,     \* the payout under way, or None
  poolTip, taken, canon, \* external: the chain, the pool blocks a node knows, and
                     \* those on the canonical chain
  unmined, minedPayments,     \* external: payments pending and mined
  unheard,   \* history: payments given back although a node had them
  poolFaults     \* bounded: crashes, lost answers, payments fallen out of the mempool

chain == <<poolTip, taken, canon>>
wallet == <<unmined, minedPayments, unheard>>
poolVars == <<book, disk, work, foundAt, asking, confirm, round, chain, wallet, poolFaults>>

PaymentTx == [to : Miner, amount : Nat, nonce : Nat]

Amounts(S) == SumFunctionOnSet([tx \in S |-> tx.amount], S)

PoolInit ==
  /\ book = [shares |-> << >>, blocks |-> [b \in PoolBlock |-> NoRecord],
             balances |-> [m \in Miner |-> 0], payments |-> << >>]
  /\ disk = book
  /\ work = 1 /\ poolTip = 0
  /\ foundAt = [b \in PoolBlock |-> 0]
  /\ asking = {} /\ taken = {} /\ canon = {}
  /\ confirm = NoRecord /\ round = NoRecord
  /\ unmined = {} /\ minedPayments = {} /\ unheard = {} /\ poolFaults = 0

-----------------------------------------------------------------------------
\* Work logged from the i-th share on.
WorkFrom(shares, i) ==
  SumFunctionOnSet([j \in DOMAIN shares |-> shares[j].difficulty], i..Len(shares))

\* The suffix of the log that twice the window could need.
Trimmed(shares) ==
  LET enough == {i \in DOMAIN shares : WorkFrom(shares, i) >= 2 * ShareWindow}
  IN IF enough = {} THEN shares ELSE SubSeq(shares, Max(enough), Len(shares))

\* The oldest share counts only for the part inside the window.
Counted(shares, i) ==
  Max({0, Min({shares[i].difficulty, ShareWindow - WorkFrom(shares, i + 1)})})

\* What each miner is due of the reward; the dust goes to the fee.
Credits(shares) ==
  LET c == [i \in DOMAIN shares |-> Counted(shares, i)]
      sum == SumFunctionOnSet(c, DOMAIN shares)
      Weight(m) == SumFunctionOnSet(c, {i \in DOMAIN shares : shares[i].address = m})
  IN [m \in Miner |-> IF sum = 0 THEN 0 ELSE ((Reward - Cut) * Weight(m)) \div sum]

Logged(m, d) == [book EXCEPT !.shares = Trimmed(Append(@, [address |-> m, difficulty |-> d]))]

\* A share is credited in the log, and its block target missed.
Share(m, d) ==
  /\ Len(book.shares) < MaxShares
  /\ book' = Logged(m, d)
  /\ UNCHANGED <<disk, work, foundAt, asking, confirm, round, chain, wallet, poolFaults>>

\* A share that beats the block target is sealed, and the node is asked.
Win(m, d, b) ==
  /\ foundAt[b] = 0 /\ \A c \in PoolBlock : c < b => foundAt[c] # 0
  /\ book' = Logged(m, d)
  /\ foundAt' = [foundAt EXCEPT ![b] = work]
  /\ asking' = asking \cup {b}
  /\ UNCHANGED <<disk, work, confirm, round, chain, wallet, poolFaults>>

\* The local node took the block: the split is over the log as it is now.
Recorded(b) ==
  /\ b \in asking /\ b \in taken
  /\ asking' = asking \ {b}
  /\ book' = [book EXCEPT !.blocks[b] = [credits |-> Credits(book.shares), status |-> "pending"]]
  /\ disk' = book'
  /\ UNCHANGED <<work, foundAt, confirm, round, chain, wallet, poolFaults>>

\* It refused it, though another may not, or its answer was lost: no split.
NotRecorded(b) ==
  /\ b \in asking
  /\ asking' = asking \ {b}
  /\ UNCHANGED <<book, disk, work, foundAt, confirm, round, chain, wallet, poolFaults>>

RefreshWork ==
  /\ work # poolTip + 1
  /\ work' = poolTip + 1
  /\ UNCHANGED <<book, disk, foundAt, asking, confirm, round, chain, wallet, poolFaults>>

-----------------------------------------------------------------------------
Pending == {b \in PoolBlock : book.blocks[b] # NoRecord /\ book.blocks[b].status = "pending"}

\* The tip is read once, and then the chain block by block.
ConfirmStart ==
  /\ confirm = NoRecord
  /\ confirm' = [tip |-> poolTip, todo |-> Pending]
  /\ UNCHANGED <<book, disk, work, foundAt, asking, round, chain, wallet, poolFaults>>

\* Mutant: a block is credited as soon as it could be given up.
MatureEarly(b) == confirm.tip - foundAt[b] >= OrphanDepth

Mature(b) == confirm.tip - foundAt[b] >= Maturity

GivenUp(b) == confirm.tip - foundAt[b] >= OrphanDepth

Credited(b) ==
  [book EXCEPT !.blocks[b].status = "confirmed",
               !.balances = [m \in Miner |-> @[m] + book.blocks[b].credits[m]]]

\* A block that left the chain is given up, one deep enough is credited.
ConfirmBlock(b) ==
  /\ confirm # NoRecord /\ b \in confirm.todo
  /\ confirm' = [confirm EXCEPT !.todo = @ \ {b}]
  /\ \/ /\ b \notin canon /\ GivenUp(b)
        /\ book' = [book EXCEPT !.blocks[b].status = "orphaned"]
     \/ /\ b \in canon /\ Mature(b)
        /\ book' = Credited(b)
     \/ /\ IF b \in canon THEN ~Mature(b) ELSE ~GivenUp(b)
        /\ UNCHANGED book
  /\ UNCHANGED <<disk, work, foundAt, asking, round, chain, wallet, poolFaults>>

ConfirmEnd ==
  /\ confirm # NoRecord /\ confirm.todo = {}
  /\ confirm' = NoRecord
  /\ disk' = book
  /\ UNCHANGED <<book, work, foundAt, asking, round, chain, wallet, poolFaults>>

\* The node does not answer: the loop is left without saving.
ConfirmFails ==
  /\ confirm # NoRecord
  /\ confirm' = NoRecord
  /\ UNCHANGED <<book, disk, work, foundAt, asking, round, chain, wallet, poolFaults>>

-----------------------------------------------------------------------------
TxOf(p) == [to |-> p.to, amount |-> p.amount, nonce |-> p.nonce]

Known(tx) == tx \in unmined \cup minedPayments

\* eth_getTransactionCount of the pool's address, "pending".
PendingNonce == Max({Cardinality(minedPayments)} \cup {tx.nonce + 1 : tx \in unmined})

\* What a node admits: the next nonce, or one still open.
Admits(tx) == tx \notin minedPayments /\ tx.nonce \in Cardinality(minedPayments)..PendingNonce

Sent == {i \in DOMAIN book.payments : book.payments[i].status = "sent"}

PayoutStart ==
  /\ round = NoRecord
  /\ round' = [check |-> Sent, due |-> NoRecord, nonce |-> NoRecord,
              wallet |-> NoRecord, sending |-> 0]
  /\ UNCHANGED <<book, disk, work, foundAt, asking, confirm, chain, wallet, poolFaults>>

\* checkPayments: a mined payout is marked, and an old one that is not mined
\* is broadcast again, whatever comes of that.
CheckPayment(i) ==
  /\ round # NoRecord /\ i \in round.check
  /\ round' = [round EXCEPT !.check = @ \ {i}]
  /\ LET tx == TxOf(book.payments[i])
     IN \/ /\ tx \in minedPayments
           /\ book' = [book EXCEPT !.payments[i].status = "confirmed"]
           /\ UNCHANGED unmined
        \/ /\ tx \notin minedPayments
           /\ \/ UNCHANGED unmined
              \/ Admits(tx) /\ unmined' = unmined \cup {tx}
           /\ UNCHANGED book
  /\ UNCHANGED <<disk, work, foundAt, asking, confirm, chain, minedPayments, unheard, poolFaults>>

Income == Reward * Cardinality(canon)

Creditors == {m \in Miner : book.balances[m] >= MinPayout}

\* Who is due, and how much, is fixed; with nobody due the round is over.
Owe ==
  /\ round # NoRecord /\ round.check = {} /\ round.due = NoRecord
  /\ round' = IF Creditors = {} THEN NoRecord
              ELSE [round EXCEPT !.due = [m \in Creditors |-> book.balances[m]]]
  /\ disk' = book
  /\ UNCHANGED <<book, work, foundAt, asking, confirm, chain, wallet, poolFaults>>

\* Then the nonce is read, and the wallet in another moment.
ReadNonce ==
  /\ round # NoRecord /\ round.due # NoRecord /\ round.nonce = NoRecord
  /\ round' = [round EXCEPT !.nonce = PendingNonce]
  /\ UNCHANGED <<book, disk, work, foundAt, asking, confirm, chain, wallet, poolFaults>>

ReadWallet ==
  /\ round # NoRecord /\ round.nonce # NoRecord /\ round.wallet = NoRecord
  /\ round' = [round EXCEPT !.wallet = Income - Amounts(minedPayments)]
  /\ UNCHANGED <<book, disk, work, foundAt, asking, confirm, chain, wallet, poolFaults>>

Payment(m) == [to |-> m, amount |-> round.due[m], nonce |-> round.nonce, status |-> "sending"]

Paying == round # NoRecord /\ round.wallet # NoRecord /\ round.sending = 0

\* Mutant: saved only when the node has answered.
SendUnsaved(m) ==
  /\ Paying /\ m \in DOMAIN round.due /\ round.wallet >= round.due[m]
  /\ book' = [book EXCEPT !.balances[m] = @ - round.due[m], !.payments = Append(@, Payment(m))]
  /\ round' = [round EXCEPT !.sending = Len(book'.payments)]
  /\ UNCHANGED <<disk, work, foundAt, asking, confirm, chain, wallet, poolFaults>>

\* The balance is debited and the payment saved before it is broadcast.
Send(m) ==
  /\ Paying /\ m \in DOMAIN round.due /\ round.wallet >= round.due[m]
  /\ book' = [book EXCEPT !.balances[m] = @ - round.due[m], !.payments = Append(@, Payment(m))]
  /\ disk' = book'
  /\ round' = [round EXCEPT !.sending = Len(book'.payments)]
  /\ UNCHANGED <<work, foundAt, asking, confirm, chain, wallet, poolFaults>>

\* The payment being sent, and the round without it.
Current == book.payments[round.sending]
DueBut(m) == [n \in DOMAIN round.due \ {m} |-> round.due[n]]

\* The node receives it.
Reaches ==
  /\ round # NoRecord /\ round.sending # 0
  /\ Admits(TxOf(Current)) /\ TxOf(Current) \notin unmined
  /\ unmined' = unmined \cup {TxOf(Current)}
  /\ UNCHANGED <<book, disk, work, foundAt, asking, confirm, round, chain, minedPayments, unheard, poolFaults>>

\* It answers that it has it.
Accepted ==
  /\ round # NoRecord /\ round.sending # 0 /\ Known(TxOf(Current))
  /\ book' = [book EXCEPT !.payments[round.sending].status = "sent"]
  /\ disk' = book'
  /\ round' = [round EXCEPT !.sending = 0, !.nonce = @ + 1, !.wallet = @ - Current.amount,
                            !.due = DueBut(Current.to)]
  /\ UNCHANGED <<work, foundAt, asking, confirm, chain, wallet, poolFaults>>

\* The node refuses it, or has it and the answer is lost: what comes of it then
\* nobody follows.
Unanswered ==
  IF Known(TxOf(Current))
  THEN /\ poolFaults < MaxPoolFaults /\ poolFaults' = poolFaults + 1
       /\ unheard' = unheard \cup {TxOf(Current)}
  ELSE UNCHANGED <<poolFaults, unheard>>

\* Mutant: the balance comes back, and the payment still stands.
FailedKept ==
  /\ round # NoRecord /\ round.sending # 0 /\ Unanswered
  /\ book' = [book EXCEPT !.balances[Current.to] = @ + Current.amount]
  /\ disk' = book'
  /\ round' = [round EXCEPT !.sending = 0, !.due = DueBut(Current.to)]
  /\ UNCHANGED <<work, foundAt, asking, confirm, chain, unmined, minedPayments>>

\* Any error gives the balance back, and nothing reads the failed payment
\* again: it is dropped.
Failed ==
  /\ round # NoRecord /\ round.sending # 0 /\ Unanswered
  /\ book' = [book EXCEPT !.balances[Current.to] = @ + Current.amount,
                          !.payments = Front(@)]
  /\ disk' = book'
  /\ round' = [round EXCEPT !.sending = 0, !.due = DueBut(Current.to)]
  /\ UNCHANGED <<work, foundAt, asking, confirm, chain, unmined, minedPayments>>

\* Nobody is left, or the wallet does not hold what the next one is due.
PayoutEnd ==
  /\ Paying
  /\ DOMAIN round.due = {} \/ \E m \in DOMAIN round.due : round.wallet < round.due[m]
  /\ round' = NoRecord
  /\ disk' = book
  /\ UNCHANGED <<book, work, foundAt, asking, confirm, chain, wallet, poolFaults>>

\* The node does not answer before anything is sent.
PayoutFails ==
  /\ round # NoRecord /\ round.due # NoRecord /\ round.wallet = NoRecord
  /\ round' = NoRecord
  /\ UNCHANGED <<book, disk, work, foundAt, asking, confirm, chain, wallet, poolFaults>>

-----------------------------------------------------------------------------
\* The timer.
Save ==
  /\ disk # book
  /\ disk' = book
  /\ UNCHANGED <<book, work, foundAt, asking, confirm, round, chain, wallet, poolFaults>>

\* The process dies and starts again from the file.
Crash ==
  /\ poolFaults < MaxPoolFaults
  /\ poolFaults' = poolFaults + 1
  /\ book' = disk
  /\ asking' = {} /\ confirm' = NoRecord /\ round' = NoRecord
  /\ UNCHANGED <<disk, work, foundAt, chain, wallet>>

\* A node takes a block of the pool, on its head or beside the chain.
NodeTakes(b) ==
  /\ foundAt[b] # 0 /\ b \notin taken
  /\ taken' = taken \cup {b}
  /\ \/ foundAt[b] = poolTip + 1 /\ poolTip < MaxPoolTip /\ poolTip' = poolTip + 1 /\ canon' = canon \cup {b}
     \/ foundAt[b] # poolTip + 1 /\ UNCHANGED <<poolTip, canon>>
  /\ UNCHANGED <<book, disk, work, foundAt, asking, confirm, round, wallet, poolFaults>>

\* Somebody else's block.
ChainGrows ==
  /\ poolTip < MaxPoolTip
  /\ poolTip' = poolTip + 1
  /\ UNCHANGED <<book, disk, work, foundAt, asking, confirm, round, taken, canon, wallet, poolFaults>>

\* A heavier branch replaces the chain from height h on; payments that were
\* mined are in it too, and it must have brought the money for them.
ChainReorganises(h) ==
  /\ h > poolTip - ReorgDepth
  /\ \E S \in SUBSET {b \in taken : foundAt[b] \in h..poolTip} :
       /\ \A b, c \in S : foundAt[b] = foundAt[c] => b = c
       /\ canon' = {b \in canon : foundAt[b] < h} \cup S
  /\ canon' # canon /\ Amounts(minedPayments) <= Reward * Cardinality(canon')
  /\ UNCHANGED <<book, disk, work, foundAt, asking, confirm, round, poolTip, taken, wallet, poolFaults>>

MinePayment(tx) ==
  /\ tx \in unmined /\ tx.nonce = Cardinality(minedPayments)
  /\ tx.amount <= Income - Amounts(minedPayments)
  /\ unmined' = {t \in unmined : t.nonce # tx.nonce}
  /\ minedPayments' = minedPayments \cup {tx}
  /\ UNCHANGED <<book, disk, work, foundAt, asking, confirm, round, chain, unheard, poolFaults>>

\* The mempool is lost in a restart of the node, or is full.
Forget(tx) ==
  /\ poolFaults < MaxPoolFaults
  /\ poolFaults' = poolFaults + 1
  /\ tx \in unmined
  /\ unmined' = unmined \ {tx}
  /\ UNCHANGED <<book, disk, work, foundAt, asking, confirm, round, chain, minedPayments, unheard>>

PoolNext ==
  \/ \E m \in Miner, d \in ShareDifficulty : Share(m, d) \/ \E b \in PoolBlock : Win(m, d, b)
  \/ \E b \in PoolBlock : Recorded(b) \/ NotRecorded(b) \/ NodeTakes(b) \/ ConfirmBlock(b)
  \/ RefreshWork \/ ConfirmStart \/ ConfirmEnd \/ ConfirmFails
  \/ PayoutStart \/ Owe \/ ReadNonce \/ ReadWallet \/ PayoutEnd \/ PayoutFails
  \/ \E i \in DOMAIN book.payments : CheckPayment(i)
  \/ \E m \in Miner : Send(m)
  \/ Reaches \/ Accepted \/ Failed
  \/ Save \/ Crash \/ ChainGrows \/ \E h \in 1..poolTip : ChainReorganises(h)
  \/ \E tx \in unmined : MinePayment(tx)
  \/ \E tx \in unmined : Forget(tx)

PoolSpec == PoolInit /\ [][PoolNext]_poolVars
-----------------------------------------------------------------------------
Payments == [to : Miner, amount : Nat, nonce : Nat,
             status : {"sending", "sent", "confirmed"}]
Books ==
  [shares : Seq([address : Miner, difficulty : ShareDifficulty]),
   blocks : [PoolBlock -> {NoRecord} \cup Splits],
   balances : [Miner -> Nat], payments : Seq(Payments)]

PoolTypeOK ==
  /\ book \in Books /\ disk \in Books
  /\ work \in Nat /\ poolTip \in Nat /\ poolFaults \in Nat
  /\ foundAt \in [PoolBlock -> Nat]
  /\ asking \subseteq PoolBlock /\ canon \subseteq taken /\ taken \subseteq PoolBlock
  /\ confirm = NoRecord \/ confirm \in [tip : Nat, todo : SUBSET PoolBlock]
  /\ unmined \subseteq PaymentTx /\ minedPayments \subseteq PaymentTx /\ unheard \subseteq PaymentTx

ConfirmedIn(b) == {k \in PoolBlock : b.blocks[k] # NoRecord /\ b.blocks[k].status = "confirmed"}

\* What the blocks credited so far brought m.
Earned(b, m) ==
  SumFunctionOnSet([k \in ConfirmedIn(b) |-> b.blocks[k].credits[m]], ConfirmedIn(b))

\* What was taken from m's balance to be paid.
Debited(b, m) ==
  SumFunctionOnSet([i \in DOMAIN b.payments |-> b.payments[i].amount],
                   {i \in DOMAIN b.payments : b.payments[i].to = m})

\* In memory and in every file that is ever saved, what a miner earned is what
\* is owed to it and what was debited to be paid, however confirmations,
\* payouts, saves and crashes fall (poolserver.js confirmBlocks, payout).
BooksBalance ==
  \A m \in Miner :
    /\ book.balances[m] + Debited(book, m) = Earned(book, m)
    /\ disk.balances[m] + Debited(disk, m) = Earned(disk, m)

\* "nothing is paid twice" (test/mining-pool.mjs:163): a miner receives on the
\* chain no more than its confirmed blocks earned it.
NothingPaidTwice ==
  \A m \in Miner : Amounts({tx \in minedPayments : tx.to = m}) <= Earned(book, m)

\* Payments given back that no payment of the book stands for.
Stray == {tx \in unheard : \A i \in DOMAIN book.payments : TxOf(book.payments[i]) # tx}

\* A miner receives more than its confirmed blocks earned it only by payments
\* whose answers were lost, whatever crash, save, repeated nonce or broadcast
\* comes between (poolserver.js 254-274).
PaidTwiceOnlyUnheard ==
  \A m \in Miner : Amounts({tx \in minedPayments \ Stray : tx.to = m}) <= Earned(book, m)

\* "Never promise what the wallet does not hold" (poolserver.js payout), which
\* reads a balance that knows nothing of payments still pending: all that is
\* owed and not paid is in the wallet, whatever was reorganised away, but for
\* what payments with lost answers took out of it.
OwedIsHeld ==
  LET unpaid == {i \in DOMAIN book.payments : TxOf(book.payments[i]) \notin minedPayments}
  IN SumFunctionOnSet(book.balances, Miner)
       + SumFunctionOnSet([i \in DOMAIN book.payments |-> book.payments[i].amount], unpaid)
     <= Income - Amounts(minedPayments \ Stray)
=============================================================================
