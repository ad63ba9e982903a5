----------------------------- MODULE ReturnBot -----------------------------
(***************************************************************************)
(* The return leg of the bridge bot, bots/bridge-core.mjs: bMOLI sent to   *)
(* the vault on Ethereum is paid back on Molibra, in two transactions of   *)
(* the header bot, the root of its Ethereum block and then the return.     *)
(* A tick reads the chain, then advances every open return; every await of *)
(* it is a point where the chain may move or the process stop.             *)
(*                                                                         *)
(* A transaction is its nonce and what it says: signed again with the same *)
(* nonce it is the same.  The statuses in which nothing is in flight, which*)
(* say why to a person, are one, "open".  Proofs, balances and what is     *)
(* outstanding are left out, and the cap of consensus is in module Bridge. *)
(***************************************************************************)
EXTENDS Naturals, FiniteSetsExt, SequencesExt

CONSTANTS
  Return,            \* transfers to the vault, in the order they are found
  EthBlock, BlockOf, \* their Ethereum blocks
  Returned,          \* Returned[r]: the amount
  ReturnCap,         \* BOT_RETURN_CAP
  MaxMined, MaxBotFaults, \* bounds
  Nothing

BotTx == [nonce : Nat, says : EthBlock \cup Return]
InFlight == {"header-sent", "return-sent"}
BotRecord == [status : InFlight \cup {"unseen", "open", "returned"},
              tx : BotTx \cup {Nothing}, late : BOOLEAN]

ASSUME ReturnBotAssumption ==
  /\ Return \subseteq Nat /\ EthBlock \cap Return = {} /\ BlockOf \in [Return -> EthBlock]
  /\ Returned \in [Return -> Nat] /\ ReturnCap \in Nat
  /\ MaxMined \in Nat /\ MaxBotFaults \in Nat /\ Nothing \notin BotTx

VARIABLES
  record,      \* state.returns
  round,       \* the tick under way, or Nothing
  ready,       \* external: returns deep enough on Ethereum, with their fee
  pool, chain, \* external: the bot's transactions waiting, and those mined
  operator,    \* external: the roots the operator committed
  byOthers,    \* external: returns somebody else relayed
  window,      \* external: returns that count against the cap
  retracted,   \* history: returns a reorganisation took back
  botFaults    \* bounded: crashes, failed calls, lost answers, reorganisations

world == <<ready, pool, chain, operator, byOthers, window, retracted>>
returnBotVars == <<record, round, world, botFaults>>

Blank == [status |-> "unseen", tx |-> Nothing, late |-> FALSE]

ReturnBotInit ==
  /\ record = [r \in Return |-> Blank] /\ round = Nothing
  /\ ready = {} /\ pool = {} /\ chain = << >>
  /\ operator = [b \in EthBlock |-> "none"] /\ byOthers = {} /\ window = {}
  /\ retracted = {} /\ botFaults = 0

-----------------------------------------------------------------------------
(* Molibra.                                                                *)

Said(x) == \E i \in DOMAIN chain : chain[i].says = x
Spent == {r \in Return : Said(r)} \cup byOthers

\* The tier a block's root is on.
Tier(b) == IF operator[b] # "none" THEN operator[b] ELSE IF Said(b) THEN "bot" ELSE "none"

Used == LET amount(r) == Returned[r] IN MapThenSumSet(amount, window)

Payable(r) ==
  /\ r \notin Spent
  /\ \/ Tier(BlockOf[r]) = "operator"
     \/ Tier(BlockOf[r]) = "bot" /\ Used + Returned[r] <= ReturnCap
Accepted(x) == IF x \in Return THEN Payable(x) ELSE Tier(x) \in {"none", "bot"}

Counted(x) == IF x \in Return /\ Tier(BlockOf[x]) = "bot" THEN window \cup {x} ELSE window

\* A node takes what is signed with a nonce that is still open.
PoolWith(t) == IF t.nonce >= Len(chain) THEN pool \cup {t} ELSE pool

\* What is refused stays in the mempools; here, while the reorganisation of
\* one block could make it valid again.
MineBotTx(t) ==
  /\ t \in pool /\ t.nonce = Len(chain) /\ Accepted(t.says) /\ Len(chain) < MaxMined
  /\ chain' = Append(chain, t) /\ pool' = {u \in pool \ {t} : u.nonce >= Len(chain)}
  /\ window' = Counted(t.says)
  /\ UNCHANGED <<record, round, ready, operator, byOthers, retracted, botFaults>>

SomebodyReturns(r) ==
  /\ Payable(r)
  /\ byOthers' = byOthers \cup {r} /\ window' = Counted(r)
  /\ UNCHANGED <<record, round, ready, pool, chain, operator, retracted, botFaults>>

\* The operator commits the same root, or another.
OperatorCommits(b, tier) ==
  /\ operator[b] = "none" /\ operator' = [operator EXCEPT ![b] = tier]
  /\ UNCHANGED <<record, round, ready, pool, chain, byOthers, window, retracted, botFaults>>

WindowMoves ==
  /\ window # {} /\ \E r \in window : window' = window \ {r}
  /\ UNCHANGED <<record, round, ready, pool, chain, operator, byOthers, retracted, botFaults>>

Fault == botFaults < MaxBotFaults /\ botFaults' = botFaults + 1

\* The last block of ours is reorganised away; its transaction waits again.
Undo ==
  /\ chain # << >> /\ Fault
  /\ chain' = Front(chain) /\ pool' = pool \cup {Last(chain)}
  /\ window' = window \ {Last(chain).says}
  /\ retracted' = retracted \cup ({Last(chain).says} \cap Return)
  /\ UNCHANGED <<record, round, ready, operator, byOthers>>

\* Somebody else's is, and whoever sent it may not come back.
UndoOthers(r) ==
  /\ r \in byOthers /\ Fault
  /\ byOthers' = byOthers \ {r} /\ window' = window \ {r}
  /\ retracted' = retracted \cup {r}
  /\ UNCHANGED <<record, round, ready, pool, chain, operator>>

\* The nodes restart, and their mempools are empty.
Forget ==
  /\ pool # {} /\ pool' = {} /\ Fault
  /\ UNCHANGED <<record, round, ready, chain, operator, byOthers, window, retracted>>

\* Found as the blocks of Ethereum are, in order, and paid for by then.
Reach(r) ==
  /\ r \notin ready /\ {q \in Return : q < r} \subseteq ready /\ ready' = ready \cup {r}
  /\ UNCHANGED <<record, round, pool, chain, operator, byOthers, window, retracted, botFaults>>

-----------------------------------------------------------------------------
(* The bot.                                                                *)

\* The status of the node and the blocks are read first.
StartRound ==
  /\ round = Nothing
  /\ round' = [used |-> Used, spent |-> Spent, tiers |-> Nothing, queue |-> {}, sent |-> FALSE]
  /\ UNCHANGED <<record, world, botFaults>>

\* Then the vault is scanned, and the committed roots are read.
ReadRoots ==
  /\ round # Nothing /\ round.tiers = Nothing
  /\ record' = [r \in Return |-> IF record[r] = Blank /\ r \in ready
                                 THEN [Blank EXCEPT !.status = "open"] ELSE record[r]]
  /\ round' = [round EXCEPT !.tiers = [b \in EthBlock |-> Tier(b)],
                            !.queue = {r \in Return : record'[r].status \notin {"unseen", "returned"}}]
  /\ UNCHANGED <<world, botFaults>>

At(r) == round # Nothing /\ round.queue # {} /\ r = Min(round.queue)
Done(r) == [round EXCEPT !.queue = @ \ {r}]

\* Mutant: a transaction a node knows is as good as mined.
KnownTx(t) == t \in pool \cup Range(chain)
MinedTx(t) == t \in Range(chain)

\* What is in flight is looked up first; a lookup that fails is taken for a
\* transaction that is not mined.
Looked(r, heard) ==
  /\ At(r) /\ r \notin round.spent
  /\ IF heard THEN UNCHANGED botFaults ELSE record[r].status \in InFlight /\ Fault
SeenMined(r, heard) == heard /\ MinedTx(record[r].tx)

\* The transaction of an older status is not read again.
Set(r, status) == record' = [record EXCEPT ![r] = [Blank EXCEPT !.status = status]]

\* Somebody's return, in a block deep or not, or ours, once it is mined.
AlreadyReturned(r) ==
  /\ At(r)
  /\ \/ r \in round.spent
     \/ r \notin round.spent /\ record[r].status = "return-sent" /\ MinedTx(record[r].tx)
  /\ Set(r, "returned") /\ round' = Done(r)
  /\ UNCHANGED <<world, botFaults>>

\* Ours is mined: the roots read before do not have it yet.
RootsNow(r, heard) ==
  IF record[r].status = "header-sent" /\ SeenMined(r, heard)
  THEN [round.tiers EXCEPT ![BlockOf[r]] = "bot"] ELSE round.tiers

\* One in flight is confirmed or given its time, by sending the same bytes.
Waits(r, heard) ==
  /\ record[r].status \in InFlight /\ ~record[r].late /\ ~SeenMined(r, heard)
  /\ record[r].status = "header-sent" => round.tiers[BlockOf[r]] = "none"
SendAgain(r, heard) ==
  /\ Looked(r, heard) /\ Waits(r, heard)
  /\ pool' = PoolWith(record[r].tx)
  /\ round' = [Done(r) EXCEPT !.sent = TRUE]
  /\ UNCHANGED <<record, ready, chain, operator, byOthers, window, retracted>>

\* Nothing of it is in flight, or not any more, as far as was seen.
Judged(r, heard) ==
  /\ Looked(r, heard) /\ ~Waits(r, heard)
  /\ ~(record[r].status = "return-sent" /\ SeenMined(r, heard))

\* What the roots and the cap, as they were read, allow.
MaySend(r, heard) ==
  LET tier == RootsNow(r, heard)[BlockOf[r]] IN
  /\ tier # "other"
  /\ tier # "operator" => round.used + Returned[r] <= ReturnCap
  /\ ~round.sent

Hold(r, heard) ==
  /\ Judged(r, heard) /\ ~MaySend(r, heard)
  /\ Set(r, "open") /\ round' = [Done(r) EXCEPT !.tiers = RootsNow(r, heard)]
  /\ UNCHANGED world

\* Mutant: behind the one that waits there.
NonceAfterPending ==
  IF \E t \in pool : t.nonce = Len(chain) THEN Len(chain) + 1 ELSE Len(chain)

\* The confirmed nonce: it supersedes whatever is stuck there.
NonceToUse == Len(chain)

NewTx(r, heard) ==
  LET says == IF RootsNow(r, heard)[BlockOf[r]] = "none" THEN BlockOf[r] ELSE r
  IN  [nonce |-> NonceToUse, says |-> says]

Send(r, heard) ==
  /\ Judged(r, heard) /\ MaySend(r, heard)
  /\ LET t == NewTx(r, heard) IN
     /\ pool' = PoolWith(t)
     /\ record' = [record EXCEPT ![r] =
          [status |-> IF t.says = r THEN "return-sent" ELSE "header-sent", tx |-> t, late |-> FALSE]]
  /\ round' = [Done(r) EXCEPT !.tiers = RootsNow(r, heard), !.sent = TRUE]
  /\ UNCHANGED <<ready, chain, operator, byOthers, window, retracted>>

\* The nodes do not answer for its gas, balance or nonce, refuse it, or have it
\* and the answer is lost, or the bot stops before it saves.
SendFails(r) ==
  /\ Judged(r, TRUE) /\ MaySend(r, TRUE) /\ Fault
  /\ pool' \in {pool, PoolWith(NewTx(r, TRUE))}
  /\ Set(r, "open") /\ round' = [Done(r) EXCEPT !.tiers = RootsNow(r, TRUE)]
  /\ UNCHANGED <<ready, chain, operator, byOthers, window, retracted>>

\* Its proof cannot be built: the return keeps its place for the next tick.
Unanswered(r) ==
  /\ At(r) /\ record[r].status = "open" /\ Fault /\ round' = Done(r)
  /\ UNCHANGED <<record, world>>

EndRound ==
  /\ round # Nothing /\ round.tiers # Nothing /\ round.queue = {}
  /\ round' = Nothing
  /\ UNCHANGED <<record, world, botFaults>>

Stop ==
  /\ round # Nothing /\ round' = Nothing /\ Fault
  /\ UNCHANGED <<record, world>>

\* The time an unmined transaction is given is over.
Elapse(r) ==
  /\ record[r].status \in InFlight /\ ~record[r].late
  /\ record' = [record EXCEPT ![r].late = TRUE]
  /\ UNCHANGED <<round, world, botFaults>>

-----------------------------------------------------------------------------
Advance(r, heard) == SendAgain(r, heard) \/ Hold(r, heard) \/ Send(r, heard)
BotStep ==
  StartRound \/ ReadRoots \/ EndRound \/ \E r \in Return : AlreadyReturned(r) \/ Advance(r, TRUE)
MineSome == \E t \in pool : MineBotTx(t)

ReturnBotNext ==
  \/ BotStep
  \/ \E r \in Return : Advance(r, FALSE) \/ SendFails(r) \/ Unanswered(r) \/ Elapse(r)
  \/ Stop
  \/ MineSome \/ Undo \/ Forget \/ WindowMoves
  \/ \E r \in Return : SomebodyReturns(r) \/ UndoOthers(r) \/ Reach(r)
  \/ \E b \in EthBlock, tier \in {"operator", "other"} : OperatorCommits(b, tier)

\* The service ticks for ever, miners take what is valid, and time passes.
ReturnBotFairness ==
  /\ WF_returnBotVars(BotStep) /\ WF_returnBotVars(MineSome) /\ WF_returnBotVars(WindowMoves)
  /\ \A r \in Return : WF_returnBotVars(Elapse(r))

ReturnBotSpec == ReturnBotInit /\ [][ReturnBotNext]_returnBotVars /\ ReturnBotFairness

-----------------------------------------------------------------------------
ReturnBotTypeOK ==
  /\ record \in [Return -> BotRecord]
  /\ round # Nothing => round.queue \subseteq Return
  /\ ready \subseteq Return /\ pool \subseteq BotTx /\ chain \in Seq(BotTx)
  /\ byOthers \subseteq Return /\ window \subseteq Return

\* A return taken for done is done, unless a reorganisation took it back
\* (bridge-core.mjs 596-613).
ReturnedIsSpent ==
  \A r \in Return : record[r].status = "returned" => r \in Spent \cup retracted

\* Every paid transfer to the vault is paid back in the end, whoever commits
\* or relays first, whatever is refused, unanswered or reorganised away, unless
\* it needs the operator, or the bot took it for done before it was lost
\* (bridge-core.mjs 578-668).
EveryReturnLands ==
  \A r \in Return :
    r \in ready ~> \/ r \in Spent \/ record[r].status = "returned"
                   \/ operator[BlockOf[r]] = "other" \/ Returned[r] > ReturnCap
=============================================================================
