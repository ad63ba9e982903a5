----------------------------- MODULE FastBridge -----------------------------
(***************************************************************************)
(* The fast leg of the bridge bot, bots/fastbridge-core.mjs: a wallet with *)
(* one key on both chains answers a transfer of MOLI on Molibra with bMOLI *)
(* on Ethereum ("m2b"), and the reverse ("b2m").  A tick reads the tips,   *)
(* scans both chains for transfers deep enough, advances each open item    *)
(* and sweeps the excess; every await of it is a point where the chains    *)
(* may move or the process stop.                                           *)
(*                                                                         *)
(* Each transfer is a transaction of its own.  Of fees remains whether the *)
(* gas of a payout fits the fee the transfer carries; a payout built again *)
(* differs only in its fees from the one it replaces, so here it is the    *)
(* same.  The statuses of an item that waits, which say why to a person,   *)
(* are one, "waiting".  Payouts once sent stay with some miner: they can   *)
(* be mined as long as their nonce is the next one.                        *)
(***************************************************************************)
EXTENDS Integers, FiniteSets, FiniteSetsExt, Functions, SequencesExt

CONSTANTS
  Transfer, Dir,
  Amount, Sender,        \* amounts, and kinds of sender
  Gas, MinFee,           \* costs of a payout on Ethereum, and the least fee
  Float,                 \* what the inventory holds at first, on each chain
  MaxTransfer,           \* maxPerTransferWei
  MaxPerHour, MaxPerDay, \* rolling limits, per direction and for both
  Confirmations,         \* depth at which a transfer is recorded, per chain
  Resend, Hour, Day,     \* ages: a payout is stale, out of each window
  MaxStock,              \* maxInventory, on each chain
  ReadFailPause,         \* readFailPauseAfter
  MaxTip, MaxPayouts, MaxFaults, \* bounds of the state space
  None, Cold             \* nothing, and the cold wallet as a recipient

Chain == {"molibra", "eth"}
SourceOf(dir) == IF dir = "m2b" THEN "molibra" ELSE "eth"
TargetOf(dir) == IF dir = "m2b" THEN "eth" ELSE "molibra"

Refused == {"over-limit", "below-fee", "contract-sender", "reorged", "payout-reverted", "funding"}
Terminal == Refused \cup {"paid"}
Status == Terminal \cup {"waiting", "sent"}
Leg == Chain \cup {"payouts", "sweep"}  \* a chain to scan, and what follows

Tx == [for : Transfer \cup {Cold}, chain : Chain, nonce : Nat, value : Nat]
Mined == [tx : Tx, height : Nat, ok : BOOLEAN]
Item == [status : Status, block : Nat, checkFrom : Nat, fee : Nat \cup {None},
         tx : Tx \cup {None}, age : 0..Day, seen : Nat]
Book == [items : [Transfer -> Item \cup {None}],
         next : [Chain -> Nat \cup {None}], paused : BOOLEAN, failures : Nat]
Tick == [tips : [Chain -> Nat], gas : Gas \cup {None}, leg : Leg,
         queue : SUBSET Transfer, item : Transfer \cup {None},
         at : {"receipt", "source", "pay"}, sent : SUBSET Chain]

ASSUME FastAssumption ==
  /\ Dir \subseteq {"m2b", "b2m"}
  /\ Amount \subseteq Nat \ {0} /\ Sender \subseteq {"user", "contract", "funder"}
  /\ Gas \subseteq Nat /\ MinFee \in Nat /\ Float \in [Chain -> Nat]
  /\ MaxTransfer \in Nat /\ MaxPerHour \in Nat /\ MaxPerDay \in Nat
  /\ Confirmations \in [Chain -> Nat] /\ MaxStock \in [Chain -> Nat]
  /\ Resend \in Nat /\ Hour \in Nat /\ Day \in Nat /\ Resend <= Hour /\ Hour <= Day
  /\ ReadFailPause \in Nat \ {0} /\ MaxTip \in Nat /\ MaxPayouts \in Nat /\ MaxFaults \in Nat
  /\ IsFiniteSet(Transfer) /\ Cold \notin Transfer /\ None \notin Transfer
  /\ None \notin Nat /\ None \notin Tx /\ None \notin Item

VARIABLES
  book, disk,      \* the state in memory, and fast-state.json
  tick,            \* the tick under way, or None
  transfer,        \* external: direction, amount and sender of each transfer
  tip, at,         \* external: both tips, the block of each transfer or 0
  known, mined,    \* external: payouts sent, and those mined, in nonce order
  unrecorded,      \* history: paid or being paid without the item saying so
  raced, undone,   \* history: transfers with a payout mined inside a tick,
                   \* chains where a payout, or a transfer deep in, was taken back
  faults           \* bounded: crashes, lost answers, deep reorganisations

chains == <<transfer, tip, at, known, mined>>
history == <<raced, undone>>
vars == <<book, disk, tick, chains, unrecorded, history, faults>>

Blank == [items |-> [s \in Transfer |-> None],
          next |-> [c \in Chain |-> None], paused |-> FALSE, failures |-> 0]

Init ==
  /\ book = Blank /\ disk = Blank /\ tick = None
  /\ transfer \in [Transfer -> [dir : Dir, amount : Amount, from : Sender]]
  /\ tip = [c \in Chain |-> 0] /\ at = [s \in Transfer |-> 0]
  /\ known = {} /\ mined = [c \in Chain |-> << >>]
  /\ unrecorded = {} /\ raced = {} /\ undone = {} /\ faults = 0

-----------------------------------------------------------------------------
Has(b, s) == b.items[s] # None
StatusIn(b, s, statuses) == Has(b, s) /\ b.items[s].status \in statuses
DirOf(s) == transfer[s].dir
Home(s) == SourceOf(DirOf(s))
Away(s) == TargetOf(DirOf(s))
AmountOf(S) == SumFunctionOnSet([s \in Transfer |-> transfer[s].amount], S)

\* What the inventory holds on a chain at its tip.
Stock(c) ==
  LET values == [i \in DOMAIN mined[c] |-> mined[c][i].tx.value]
  IN Float[c] + AmountOf({s \in Transfer : Home(s) = c /\ at[s] # 0})
              - SumFunctionOnSet(values, {i \in DOMAIN mined[c] : mined[c][i].ok})

\* The mined payouts of a transfer, and whether one answers it.
Payouts(s) == {i \in DOMAIN mined[Away(s)] : mined[Away(s)][i].tx.for = s /\ mined[Away(s)][i].ok}
IsMined(t, oks) == \E i \in DOMAIN mined[t.chain] : mined[t.chain][i].tx = t /\ mined[t.chain][i].ok \in oks

\* Transfers paid, or being paid, of which the book does not say so.
Forgotten(b, txs) == {s \in Transfer : ~StatusIn(b, s, {"sent", "paid"}) /\ \E t \in txs : t.for = s}

Remember(b, sent) ==
  /\ book' = b
  /\ known' = known \cup sent
  /\ unrecorded' = unrecorded \cup Forgotten(b, known')

Open(b) == {s \in Transfer : Has(b, s) /\ b.items[s].status \notin Terminal}
First(b, queue) == CHOOSE s \in queue : \A r \in queue : b.items[s].seen <= b.items[r].seen

Safe(c, tips) == tips[c] - Confirmations[c]

\* The tick at the next of these legs that has something to do.
At(t, legs, b) ==
  LET work == {i \in DOMAIN legs :
                 IF legs[i] \in Chain THEN b.next[legs[i]] <= Safe(legs[i], t.tips)
                 ELSE legs[i] = "payouts" => Open(b) # {}}
      leg == legs[Min(work)]
      queue == IF leg = "payouts" THEN Open(b) ELSE {}
  IN [t EXCEPT !.leg = leg, !.at = "receipt", !.queue = queue,
               !.item = IF queue = {} THEN None ELSE First(b, queue)]

ItemDone ==
  LET left == tick.queue \ {tick.item} IN
  IF left = {} THEN At(tick, <<"sweep">>, book)
  ELSE [tick EXCEPT !.queue = left, !.item = First(book, left), !.at = "receipt"]

Set(s, status) == [book EXCEPT !.items[s].status = status]
Paused(b) == [b EXCEPT !.paused = TRUE]
TickOver == At(tick, <<"sweep">>, book)

-----------------------------------------------------------------------------
\* The tips and the gas price are read once; a fresh state starts at the tips.
StartTick(gas) ==
  /\ tick = None /\ ~book.paused
  /\ book' = [book EXCEPT !.failures = 0, 
                !.next = [c \in Chain |-> IF @[c] = None THEN tip[c] + 1 ELSE @[c]]]
  /\ tick' = At([tips |-> tip, gas |-> gas, leg |-> "sweep", queue |-> {}, item |-> None,
                 at |-> "receipt", sent |-> {}], <<"molibra", "eth", "payouts", "sweep">>, book')
  /\ UNCHANGED <<disk, chains, unrecorded, history, faults>>

\* The tips cannot be read: the third time in a row pauses the leg.  The count
\* matters no further.
ReadFailed ==
  /\ tick = None /\ ~book.paused
  /\ book' = [book EXCEPT !.failures = Min({@ + 1, ReadFailPause}),
                          !.paused = book.failures + 1 >= ReadFailPause]
  /\ disk' = book'
  /\ UNCHANGED <<tick, chains, unrecorded, history, faults>>

\* The fee is fixed when the transfer is recorded, if gas can be read then.
Quote(s) ==
  IF tick.gas = None THEN None
  ELSE IF DirOf(s) = "m2b" THEN Max({tick.gas, MinFee}) ELSE MinFee

NewItem(s) ==
  [status |-> IF transfer[s].from = "funder" THEN "funding" ELSE "waiting",
   block |-> at[s], checkFrom |-> tick.tips[Away(s)], fee |-> Quote(s), tx |-> None, age |-> Day,
   seen |-> Cardinality({r \in Transfer : Has(book, r)})]

\* Blocks deep enough are read up to one of them, page by page, each page saved.
Scan(c, to) ==
  LET next == book.next[c]
      found == {s \in Transfer : Home(s) = c /\ at[s] \in next..to /\ ~Has(book, s)}
      b == [book EXCEPT !.items = [s \in Transfer |-> IF s \in found THEN NewItem(s) ELSE @[s]],
                        !.next[c] = Max({next, to + 1})]
  IN /\ tick # None /\ tick.leg = c
     /\ to \in (next - 1)..Safe(c, tick.tips)
     /\ Remember(b, {})
     /\ disk' = IF to < next THEN disk ELSE b
     /\ tick' = At(tick, IF c = "molibra" THEN <<"eth", "payouts", "sweep">>
                                     ELSE <<"payouts", "sweep">>, b)
     /\ UNCHANGED <<transfer, tip, at, mined, history, faults>>

-----------------------------------------------------------------------------
Handling(s, stage) == /\ tick # None /\ tick.leg = "payouts" /\ ~book.paused
                      /\ tick.item = s /\ tick.at = stage

\* A payout already sent: its receipt decides.
Receipt(s) ==
  LET it == book.items[s] IN
  /\ Handling(s, "receipt") /\ it.status = "sent"
  /\ \/ /\ IsMined(it.tx, {TRUE})
        /\ Remember(Set(s, "paid"), {})
        /\ tick' = ItemDone
     \/ /\ IsMined(it.tx, {FALSE})
        /\ Remember(Paused(Set(s, "payout-reverted")), {})
        /\ tick' = TickOver
  /\ UNCHANGED <<disk, transfer, tip, at, mined, history, faults>>

\* No receipt, or no answer: sent again while fresh, built again once stale.
NoReceipt(s) ==
  LET it == book.items[s] IN
  /\ Handling(s, "receipt") /\ it.status = "sent"
  /\ tick' = IF it.age < Resend
             THEN [ItemDone EXCEPT !.sent = @ \cup {Away(s)}]
             ELSE [tick EXCEPT !.at = "source"]
  /\ UNCHANGED <<book, disk, chains, unrecorded, history, faults>>

\* A failed read, anywhere: the next tick tries this item again.
Unanswered(s) ==
  /\ tick # None /\ \E stage \in {"source", "pay"} : Handling(s, stage)
  /\ tick' = ItemDone
  /\ UNCHANGED <<book, disk, chains, unrecorded, history, faults>>

Starting(s) == \/ Handling(s, "source")
               \/ Handling(s, "receipt") /\ book.items[s].status # "sent"

\* The source moved after it was recorded: the leg stops for a person.
SourceGone(s) ==
  /\ Starting(s) /\ at[s] # book.items[s].block
  /\ Remember(Paused(Set(s, "reorged")), {})
  /\ tick' = TickOver
  /\ UNCHANGED <<disk, transfer, tip, at, mined, history, faults>>

\* Two Molibra nodes disagree about the block of the source.
NodesDisagree(s) ==
  /\ Starting(s) /\ DirOf(s) = "m2b" /\ at[s] = book.items[s].block /\ faults < MaxFaults
  /\ Remember(Paused(book), {})
  /\ tick' = TickOver
  /\ faults' = faults + 1
  /\ UNCHANGED <<disk, transfer, tip, at, mined, history>>

\* Mutant: the chain is not searched.
FoundNowhere(s) == {i \in Payouts(s) : FALSE}

\* A payout that carries the source, in the blocks up to the tips of the tick.
FoundOnChain(s) ==
  {i \in Payouts(s) : mined[Away(s)][i].height \in book.items[s].checkFrom..tick.tips[Away(s)]}

Search(s) ==
  /\ Starting(s) /\ at[s] = book.items[s].block
  /\ IF FoundOnChain(s) # {}
     THEN /\ Remember([Set(s, "paid") EXCEPT !.items[s].tx =
                         mined[Away(s)][Min(FoundOnChain(s))].tx], {})
          /\ tick' = ItemDone
     ELSE /\ tick' = [tick EXCEPT !.at = "pay"]
          /\ UNCHANGED <<book, known, unrecorded>>
  /\ UNCHANGED <<disk, transfer, tip, at, mined, history, faults>>

-----------------------------------------------------------------------------
\* Mutant: payouts in flight are not counted.
UsedPaid(window, dirs) ==
  AmountOf({s \in Transfer : /\ StatusIn(book, s, {"paid"})
                             /\ book.items[s].age < window /\ DirOf(s) \in dirs})

\* Sum paid or in flight inside a window, by the items.
UsedSince(window, dirs) ==
  AmountOf({s \in Transfer : /\ StatusIn(book, s, {"sent", "paid"})
                             /\ book.items[s].age < window /\ DirOf(s) \in dirs})

Fee(s) == IF book.items[s].fee = None THEN Quote(s) ELSE book.items[s].fee
GasCost(s) == IF DirOf(s) = "m2b" THEN tick.gas ELSE 0

\* The rules, in their order: what becomes of an item that is not paid yet.
Verdict(s) ==
  LET amount == transfer[s].amount IN
  IF amount > MaxTransfer THEN "over-limit"
  ELSE IF tick.gas = None THEN "waiting"
  ELSE IF amount <= Fee(s) THEN "below-fee"
  ELSE IF GasCost(s) > Fee(s) THEN "waiting"
  ELSE IF DirOf(s) = "b2m" /\ transfer[s].from = "contract" THEN "contract-sender"
  ELSE IF \/ UsedSince(Hour, {DirOf(s)}) + amount > MaxPerHour
          \/ UsedSince(Day, Dir) + amount > MaxPerDay THEN "waiting"
  ELSE IF Away(s) \in tick.sent \/ Stock(Away(s)) < amount - Fee(s) THEN "waiting"
  ELSE "pay"

Priced(s) == IF tick.gas = None \/ transfer[s].amount > MaxTransfer THEN book
             ELSE [book EXCEPT !.items[s].fee = Fee(s)]

NotPaid(s, status) == /\ Remember([Priced(s) EXCEPT !.items[s].status = status], {})
                      /\ tick' = ItemDone
                      /\ UNCHANGED <<disk, transfer, tip, at, mined, history, faults>>

Refuse(s) ==
  /\ Handling(s, "pay") /\ Verdict(s) # "pay"
  /\ NotPaid(s, Verdict(s))

\* The bumped fee, or the fee of the moment, is above the cap.
GasTooHigh(s) ==
  /\ Handling(s, "pay") /\ Verdict(s) = "pay" /\ DirOf(s) = "m2b"
  /\ NotPaid(s, "waiting")

\* The nonces a node may answer: 'latest' on Molibra; 'pending' on Ethereum,
\* which counts the payouts in a row that the node still holds.
Nonces(c) ==
  LET count == Len(mined[c])
      used == {t.nonce : t \in {k \in known : k.chain = c}}
  IN {count} \cup IF c = "molibra" THEN {}
                  ELSE {n \in count..(count + Cardinality(known)) : count..(n - 1) \subseteq used}

Payout(s, nonce) ==
  [for |-> s, chain |-> Away(s), nonce |-> nonce, value |-> transfer[s].amount - Fee(s)]

\* An Ethereum payout that is still 'sent' keeps its nonce.
PayoutNonces(s) ==
  LET it == book.items[s] IN
  IF Away(s) = "eth" /\ it.status = "sent"
  THEN {n \in {it.tx.nonce} : n >= Len(mined["eth"])}
  ELSE {n \in Nonces(Away(s)) : Cardinality(known) < MaxPayouts \/ Payout(s, n) \in known}

Pay(s) ==
  /\ Handling(s, "pay") /\ Verdict(s) = "pay"
  /\ \E nonce \in PayoutNonces(s) :
       Remember([Priced(s) EXCEPT !.items[s].status = "sent", !.items[s].age = 0,
                                  !.items[s].tx = Payout(s, nonce)], {Payout(s, nonce)})
  /\ tick' = [ItemDone EXCEPT !.sent = @ \cup {Away(s)}]
  /\ UNCHANGED <<disk, transfer, tip, at, mined, history, faults>>

\* The payout went out, the answer did not come back.
PayUnheard(s) ==
  /\ Handling(s, "pay") /\ Verdict(s) = "pay" /\ faults < MaxFaults
  /\ \E nonce \in PayoutNonces(s) : Remember(Priced(s), {Payout(s, nonce)})
  /\ tick' = ItemDone /\ faults' = faults + 1
  /\ UNCHANGED <<disk, transfer, tip, at, mined, history>>

-----------------------------------------------------------------------------
\* 10% above the maximum starts a sweep; no payout of the chain may be open.
Excess(c) == IF 10 * Stock(c) <= 11 * MaxStock[c] THEN 0 ELSE Stock(c) - MaxStock[c]
MaySweep(c) == /\ ~book.paused /\ c \notin tick.sent /\ Excess(c) > 0
               /\ ~\E s \in Transfer : Away(s) = c /\ StatusIn(book, s, {"sent"})

\* The last leg sends the excess, unless gas is above the cap or a read fails,
\* and the tick ends with the state saved.
EndTick ==
  /\ tick # None /\ tick.leg = "sweep"
  /\ \E swept \in SUBSET {c \in Chain : MaySweep(c) /\ Cardinality(known) < MaxPayouts}, eth \in Nonces("eth"), m \in Nonces("molibra") :
       Remember(book, {[for |-> Cold, chain |-> c, nonce |-> IF c = "eth" THEN eth ELSE m,
                        value |-> Excess(c)] : c \in swept})
  /\ disk' = book /\ tick' = None
  /\ UNCHANGED <<transfer, tip, at, mined, history, faults>>

Fault == faults < MaxFaults /\ faults' = faults + 1

\* The process stops inside a tick and starts again from its file.
Crash ==
  /\ tick # None /\ Fault
  /\ Remember(disk, {}) /\ tick' = None
  /\ UNCHANGED <<disk, transfer, tip, at, mined, history>>

\* The file is lost: the cursors of a fresh state start at the tips.
LoseFile ==
  /\ disk # Blank /\ Fault
  /\ disk' = Blank /\ tick' = None
  /\ Remember(Blank, {})
  /\ UNCHANGED <<transfer, tip, at, mined, history>>

\* A person looks, takes the pause out of the file and starts the bot again.
Resume ==
  /\ tick = None /\ disk.paused
  /\ disk' = [disk EXCEPT !.paused = FALSE]
  /\ Remember(disk', {})
  /\ UNCHANGED <<tick, transfer, tip, at, mined, history, faults>>

Older(b) == [b EXCEPT !.items = [s \in Transfer |->
               IF b.items[s] = None THEN None
               ELSE [b.items[s] EXCEPT !.age = Min({@ + 1, Day})]]]

Elapse ==
  /\ book' = Older(book) /\ disk' = Older(disk)
  /\ UNCHANGED <<tick, chains, unrecorded, history, faults>>

-----------------------------------------------------------------------------
Block(c) == tip[c] < MaxTip /\ tip' = [tip EXCEPT ![c] = @ + 1]

EmptyBlock(c) == Block(c) /\ UNCHANGED <<book, disk, tick, transfer, at, known, mined,
                                         unrecorded, history, faults>>

\* A transfer into the inventory is mined.
Arrive(s) ==
  /\ at[s] = 0 /\ Block(Home(s))
  /\ at' = [at EXCEPT ![s] = tip'[Home(s)]]
  /\ UNCHANGED <<book, disk, tick, transfer, known, mined, unrecorded, history, faults>>

\* A payout is mined; on Ethereum it may revert for want of tokens.
Mine(t) ==
  LET c == t.chain
      ok == Stock(c) >= t.value
  IN /\ t \in known /\ t.nonce = Len(mined[c])
     /\ c = "molibra" => ok
     /\ Block(c)
     /\ mined' = [mined EXCEPT ![c] = Append(@, [tx |-> t, height |-> tip'[c], ok |-> ok])]
     /\ raced' = IF tick = None THEN raced ELSE raced \cup ({t.for} \cap Transfer)
     /\ UNCHANGED <<book, disk, tick, transfer, at, known, unrecorded, undone, faults>>

\* A transfer falls out of the chain, and may come back; deep in it, rarely.
Vanish(s) ==
  /\ at[s] # 0
  /\ IF at[s] > tip[Home(s)] - Confirmations[Home(s)] THEN UNCHANGED <<undone, faults>>
     ELSE Fault /\ undone' = undone \cup {Home(s)}
  /\ at' = [at EXCEPT ![s] = 0]
  /\ UNCHANGED <<book, disk, tick, transfer, tip, known, mined, unrecorded, raced>>

\* The last block of payouts is reorganised away.
Undo(c) ==
  /\ mined[c] # << >> /\ Last(mined[c]).height = tip[c] /\ Fault
  /\ mined' = [mined EXCEPT ![c] = Front(@)]
  /\ undone' = undone \cup {c}
  /\ UNCHANGED <<book, disk, tick, transfer, tip, at, known, unrecorded, raced>>

Next ==
  \/ \E gas \in Gas \cup {None} : StartTick(gas)
  \/ ReadFailed
  \/ \E c \in Chain : (\E to \in 0..MaxTip : Scan(c, to)) \/ EmptyBlock(c) \/ Undo(c)
  \/ \E s \in Transfer : \/ Receipt(s) \/ NoReceipt(s) \/ Unanswered(s)
                         \/ SourceGone(s) \/ NodesDisagree(s) \/ Search(s)
                         \/ Refuse(s) \/ GasTooHigh(s) \/ Pay(s) \/ PayUnheard(s)
                         \/ Arrive(s) \/ Vanish(s)
  \/ EndTick \/ Crash \/ LoseFile \/ Resume \/ Elapse
  \/ \E t \in known : Mine(t)

Spec == Init /\ [][Next]_vars

-----------------------------------------------------------------------------
FastTypeOK ==
  /\ book \in Book /\ disk \in Book
  /\ tick \in Tick \cup {None}
  /\ transfer \in [Transfer -> [dir : Dir, amount : Amount, from : Sender]]
  /\ tip \in [Chain -> 0..MaxTip] /\ at \in [Transfer -> 0..MaxTip]
  /\ known \subseteq Tx /\ mined \in [Chain -> Seq(Mined)]
  /\ unrecorded \subseteq Transfer /\ raced \subseteq Transfer /\ undone \subseteq Chain
  /\ faults \in 0..MaxFaults

\* Never pay twice, as far as it goes: to Ethereum the item that says 'sent'
\* holds the nonce, to Molibra the confirmed nonce does.  A second payout is
\* mined only where the item had stopped saying so, or, to Molibra, where the
\* first was mined inside a tick, a payout was taken back, or the item had
\* stopped saying so and its transfer moved to another block.
PaidTwiceOnlyIf ==
  \A s \in Transfer : Cardinality(Payouts(s)) > 1 =>
    IF DirOf(s) = "m2b" THEN s \in unrecorded
    ELSE s \in raced \/ "molibra" \in undone \/ (s \in unrecorded /\ "eth" \in undone)

\* What the head of the file says of the leg: never pay twice.
NeverPaidTwice == \A s \in Transfer : Cardinality(Payouts(s)) <= 1

\* What users are owed is bounded: inside a window the payouts that the items
\* know of, mined or still to be mined, stay within the limits.
LimitsHeld ==
  LET Recent(window, dirs) ==
        {s \in Transfer \ unrecorded : DirOf(s) \in dirs /\ Has(book, s) /\ book.items[s].age < window}
  IN /\ \A dir \in Dir : AmountOf(Recent(Hour, {dir})) <= MaxPerHour
     /\ AmountOf(Recent(Day, Dir)) <= MaxPerDay
=============================================================================
