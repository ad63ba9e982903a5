---------------------------- MODULE Around_proofs ----------------------------
(***************************************************************************)
(* Theorems about the programs around the node: the light client on        *)
(* Ethereum, for every tree of headers, the bridge bot, for every set of   *)
(* returns, and the mining loop, for every set of transactions.            *)
(***************************************************************************)
EXTENDS Relay, ReturnBot, Miner, SetLemmas, SequenceTheorems, TLAPS

-----------------------------------------------------------------------------
(* The light client.                                                       *)

\* The ancestors of h are one chain, numbered without a gap.
Lined(h) ==
  /\ h \in Ancestors[h] /\ Ancestors[h] \subseteq Header
  /\ \A a \in Ancestors[h] : Number[Checkpoint] <= Number[a] /\ Number[a] <= Number[h]
  /\ \A n \in Number[Checkpoint]..Number[h] : \E a \in Ancestors[h] : Number[a] = n
  /\ \A a, b \in Ancestors[h] : Number[a] = Number[b] => a = b
  /\ \A a, b \in Ancestors[h] : Number[b] <= Number[a] => b \in Ancestors[a]
  /\ \A a \in Ancestors[h] : Ancestors[a] \subseteq Ancestors[h]

RelayInv ==
  /\ headers \subseteq Header /\ Checkpoint \in headers /\ best \in headers
  /\ \A h \in headers : Lined(h)
  /\ DOMAIN canonical = {Number[h] : h \in Header}
  /\ IndexIsBestChain

LEMMA LinedCheckpoint == Lined(Checkpoint)
<1>1. /\ Ancestors[Checkpoint] = {Checkpoint} /\ Checkpoint \in Header /\ Number[Checkpoint] \in Nat
  BY RelayAssumption
<1> QED BY <1>1 DEF Lined

\* A header on a chain makes a chain.
LEMMA LinedNext ==
  ASSUME NEW h \in Header, h # Checkpoint, Lined(Parent[h]), Follows(h)
  PROVE  Lined(h)
<1> DEFINE p == Parent[h]
           A == Ancestors[h]
           B == Ancestors[p]
<1>1. /\ p \in Header /\ Number[p] \in Nat /\ Number[h] \in Nat /\ Number[Checkpoint] \in Nat
      /\ A = B \cup {h} /\ \A a \in Header : Number[a] \in Nat
  BY RelayAssumption
<1>2. Number[h] = Number[p] + 1
  BY DEF Follows
<1>3. /\ p \in B /\ B \subseteq Header
      /\ \A a \in B : Number[Checkpoint] <= Number[a] /\ Number[a] <= Number[p]
      /\ \A n \in Number[Checkpoint]..Number[p] : \E a \in B : Number[a] = n
      /\ \A a, b \in B : Number[a] = Number[b] => a = b
      /\ \A a, b \in B : Number[b] <= Number[a] => b \in Ancestors[a]
      /\ \A a \in B : Ancestors[a] \subseteq B
  BY DEF Lined
<1>4. \A a \in B : Number[a] \in Nat /\ Number[a] < Number[h]
  BY <1>1, <1>2, <1>3
<1> HIDE DEF p, B
<1>5. \A a \in A : Number[Checkpoint] <= Number[a] /\ Number[a] <= Number[h]
  BY <1>1, <1>2, <1>3, <1>4
<1>6. \A n \in Number[Checkpoint]..Number[h] : \E a \in A : Number[a] = n
  <2> TAKE n \in Number[Checkpoint]..Number[h]
  <2>1. n = Number[h] \/ n \in Number[Checkpoint]..Number[p]
    BY <1>1, <1>2
  <2> QED BY <1>1, <1>3, <2>1
<1>7. \A a, b \in A : Number[a] = Number[b] => a = b
  BY <1>1, <1>3, <1>4
<1>8. \A a, b \in A : Number[b] <= Number[a] => b \in Ancestors[a]
  BY <1>1, <1>3, <1>4
<1>9. \A a \in A : Ancestors[a] \subseteq A
  BY <1>1, <1>3
<1> QED BY <1>1, <1>3, <1>5, <1>6, <1>7, <1>8, <1>9 DEF Lined

\* Every header of a submission is lined up behind those before it.
LEMMA RunLined ==
  ASSUME RelayInv, NEW run, NEW n \in Nat, run \in [1..n -> Header], Acceptable(run)
  PROVE  \A i \in 1..n : Lined(run[i])
<1> DEFINE W == {i \in 1..n : ~Lined(run[i])}
<1> SUFFICES ASSUME W # {} PROVE FALSE
  OBVIOUS
<1> DEFINE i == Min(W)
<1>1. i \in W /\ \A j \in W : i <= j
  <2>1. W \in SUBSET Nat
    OBVIOUS
  <2> HIDE DEF W
  <2> QED BY <2>1, MinIsLeast
<1>2. i \in 1..n /\ run[i] \in Header /\ ~Lined(run[i])
  BY <1>1
<1> HIDE DEF i
<1>3. ASSUME NEW h \in KnownBefore(run, i) PROVE Lined(h)
  <2>1. CASE h \in headers
    BY <2>1 DEF RelayInv
  <2>2. CASE h \notin headers
    <3>1. PICK j \in 1..i - 1 : h = run[j]
      BY <2>2 DEF KnownBefore
    <3>2. j \in 1..n /\ ~(i <= j)
      BY <1>2, <3>1
    <3>3. j \notin W
      BY <1>1, <3>2
    <3> QED BY <3>1, <3>2, <3>3
  <2> QED BY <2>1, <2>2
<1>4. run[i] \notin KnownBefore(run, i)
  BY <1>2, <1>3
<1>5. Parent[run[i]] \in KnownBefore(run, i) /\ Follows(run[i])
  BY <1>2, <1>4 DEF Acceptable
<1>6. run[i] # Checkpoint
  BY <1>4 DEF KnownBefore, RelayInv
<1> QED BY <1>2, <1>3, <1>5, <1>6, LinedNext

\* The index and the chain of a head, as two views of one thing.
Indexes(index, h) ==
  \A n \in DOMAIN index :
    index[n] = IF \E a \in Ancestors[h] : Number[a] = n
               THEN CHOOSE a \in Ancestors[h] : Number[a] = n
               ELSE NoHeader

LEMMA OnIndex ==
  ASSUME NEW index, NEW h \in Header, Lined(h), Indexes(index, h),
         DOMAIN index = {Number[k] : k \in Header}, NEW a \in Header
  PROVE  index[Number[a]] = a <=> a \in Ancestors[h]
<1>1. Number[a] \in DOMAIN index
  OBVIOUS
<1>2. CASE \E b \in Ancestors[h] : Number[b] = Number[a]
  <2>1. PICK b \in Ancestors[h] : b = CHOOSE c \in Ancestors[h] : Number[c] = Number[a]
    BY <1>2
  <2>2. Number[b] = Number[a] /\ index[Number[a]] = b
    BY <1>1, <1>2, <2>1 DEF Indexes
  <2> QED BY <2>2 DEF Lined
<1>3. CASE ~\E b \in Ancestors[h] : Number[b] = Number[a]
  BY <1>1, <1>3, RelayAssumption DEF Indexes
<1> QED BY <1>2, <1>3

\* Rewriting back to the first header the index holds makes it the index of
\* the new head, when that is not lower than the old one.
LEMMA IndexMoves ==
  ASSUME NEW h \in Header, Lined(h), best \in Header, Lined(best), Indexes(canonical, best),
         DOMAIN canonical = {Number[k] : k \in Header}, Number[h] >= Number[best],
         NEW index,
         index = [n \in DOMAIN canonical |->
                    IF \E a \in Rewritten(h) : Number[a] = n
                    THEN CHOOSE a \in Rewritten(h) : Number[a] = n
                    ELSE canonical[n]]
  PROVE  Indexes(index, h)
<1>1. /\ Ancestors[h] \subseteq Header /\ Ancestors[best] \subseteq Header
      /\ \A a \in Header : Number[a] \in Nat
  BY RelayAssumption DEF Lined
<1>2. \A a \in Header : canonical[Number[a]] = a <=> a \in Ancestors[best]
  BY OnIndex
<1>3. Rewritten(h) \subseteq Ancestors[h]
  BY DEF Rewritten
<1>4. \A a \in Ancestors[h] : a \notin Rewritten(h) => canonical[Number[a]] = a
  <2> SUFFICES ASSUME NEW a \in Ancestors[h], a \notin Rewritten(h) PROVE a \in Ancestors[best]
    BY <1>1, <1>2
  <2>1. PICK c \in Ancestors[h] : Number[c] >= Number[a] /\ canonical[Number[c]] = c
    BY DEF Rewritten
  <2>2. c \in Ancestors[best] /\ Number[a] <= Number[c]
    BY <1>1, <1>2, <2>1
  <2>3. a \in Ancestors[c]
    BY <2>2 DEF Lined
  <2> QED BY <2>2, <2>3 DEF Lined
<1>5. \A a, b \in Ancestors[h] : Number[a] = Number[b] => a = b
  BY DEF Lined
<1> SUFFICES ASSUME NEW n \in DOMAIN canonical
             PROVE  index[n] = IF \E a \in Ancestors[h] : Number[a] = n
                               THEN CHOOSE a \in Ancestors[h] : Number[a] = n
                               ELSE NoHeader
  BY DEF Indexes
<1>6. n \in Nat
  BY <1>1
<1>7. CASE \E a \in Ancestors[h] : Number[a] = n
  <2>1. PICK a \in Ancestors[h] : Number[a] = n
    BY <1>7
  <2>2. a = CHOOSE b \in Ancestors[h] : Number[b] = n
    BY <1>5, <2>1
  <2>3. CASE a \in Rewritten(h)
    <3>1. a = CHOOSE b \in Rewritten(h) : Number[b] = n
      BY <1>3, <1>5, <2>1, <2>3
    <3> QED BY <1>7, <2>1, <2>2, <2>3, <3>1
  <2>4. CASE a \notin Rewritten(h)
    <3>1. ~\E b \in Rewritten(h) : Number[b] = n
      BY <1>3, <1>5, <2>1, <2>4
    <3>2. canonical[n] = a
      BY <1>4, <2>1, <2>4
    <3> QED BY <1>7, <2>2, <3>1, <3>2
  <2> QED BY <2>3, <2>4
<1>8. CASE ~\E a \in Ancestors[h] : Number[a] = n
  <2>1. ~(n \in Number[Checkpoint]..Number[h])
    BY <1>8 DEF Lined
  <2>2. ~\E a \in Ancestors[best] : Number[a] = n
    <3> SUFFICES ASSUME NEW a \in Ancestors[best], Number[a] = n PROVE FALSE
      OBVIOUS
    <3>1. Number[Checkpoint] <= n /\ n <= Number[best]
      BY DEF Lined
    <3>2. Number[Checkpoint] \in Nat /\ Number[h] \in Nat /\ Number[best] \in Nat
      BY RelayAssumption
    <3> QED BY <1>6, <2>1, <3>1, <3>2
  <2>3. canonical[n] = NoHeader
    BY <2>2 DEF Indexes
  <2>4. ~\E b \in Rewritten(h) : Number[b] = n
    BY <1>3, <1>8
  <2> QED BY <1>8, <2>3, <2>4
<1> QED BY <1>7, <1>8

LEMMA RelayInitInv == RelayInit => RelayInv
<1> SUFFICES ASSUME RelayInit PROVE RelayInv
  OBVIOUS
<1>1. /\ headers = {Checkpoint} /\ best = Checkpoint
      /\ canonical = [n \in {Number[h] : h \in Header} |-> IF n = Number[Checkpoint] THEN Checkpoint ELSE NoHeader]
  BY DEF RelayInit
<1>2. Ancestors[Checkpoint] = {Checkpoint} /\ Checkpoint \in Header
  BY RelayAssumption
<1>3. IndexIsBestChain
  <2> SUFFICES ASSUME NEW n \in DOMAIN canonical
               PROVE  canonical[n] = IF \E a \in Ancestors[best] : Number[a] = n
                                     THEN CHOOSE a \in Ancestors[best] : Number[a] = n
                                     ELSE NoHeader
    BY DEF IndexIsBestChain
  <2>1. CASE n = Number[Checkpoint]
    <3>1. Checkpoint = CHOOSE a \in Ancestors[best] : Number[a] = n
      BY <1>1, <1>2, <2>1
    <3> QED BY <1>1, <1>2, <2>1, <3>1
  <2>2. CASE n # Number[Checkpoint]
    BY <1>1, <1>2, <2>2
  <2> QED BY <2>1, <2>2
<1> QED BY <1>1, <1>2, <1>3, LinedCheckpoint DEF RelayInv

LEMMA RelayNextInv == RelayInv /\ [RelayNext]_relayVars => RelayInv'
<1> SUFFICES ASSUME RelayInv, [RelayNext]_relayVars PROVE RelayInv'
  OBVIOUS
<1>1. CASE UNCHANGED lightVars
  BY <1>1 DEF lightVars, RelayInv, IndexIsBestChain
<1>2. ASSUME NEW run \in HeaderRun, Submit(run) PROVE RelayInv'
  <2>1. PICK n \in 1..MaxRun : run \in [1..n -> Header]
    BY DEF HeaderRun
  <2>2. n \in Nat /\ n >= 1 /\ DOMAIN run = 1..n /\ Len(run) = n
    <3>1. n \in Nat /\ n >= 1 /\ DOMAIN run = 1..n
      BY <2>1, RelayAssumption
    <3>2. run \in Seq(Header)
      BY <2>1, <3>1
    <3>3. DOMAIN run = 1..Len(run) /\ Len(run) \in Nat
      BY <3>2
    <3> QED BY <3>1, <3>3
  <2>3. \A i \in 1..n : Lined(run[i])
    BY <1>2, <2>1, <2>2, RunLined DEF Submit
  <2>4. headers' = headers \cup {run[i] : i \in 1..n}
    BY <1>2, <2>2 DEF Submit
  <2>5. headers' \subseteq Header /\ Checkpoint \in headers' /\ \A h \in headers' : Lined(h)
    BY <2>1, <2>3, <2>4 DEF RelayInv
  <2> DEFINE h == run[n]
  <2>6. h \in headers' /\ h \in Header /\ Lined(h)
    BY <2>1, <2>2, <2>3, <2>4
  <2>7. ChooseBest(h)
    BY <1>2, <2>2 DEF Submit
  <2>8. best \in Header /\ Lined(best) /\ DOMAIN canonical = {Number[k] : k \in Header}
    BY DEF RelayInv
  <2> HIDE DEF h
  <2>9. CASE UNCHANGED <<best, canonical, fell>>
    BY <2>4, <2>5, <2>8, <2>9 DEF RelayInv, IndexIsBestChain
  <2>10. CASE ~UNCHANGED <<best, canonical, fell>>
    <3>1. /\ best' = h /\ fell' = (fell \/ Number[h] < Number[best])
          /\ canonical' = [m \in DOMAIN canonical |->
                            IF \E a \in Rewritten(h) : Number[a] = m
                            THEN CHOOSE a \in Rewritten(h) : Number[a] = m
                            ELSE canonical[m]]
      BY <2>7, <2>10 DEF ChooseBest
    <3>2. DOMAIN canonical' = {Number[k] : k \in Header}
      BY <2>8, <3>1
    <3>3. fell' \/ Indexes(canonical', best')
      <4> SUFFICES ASSUME ~fell' PROVE Indexes(canonical', best')
        OBVIOUS
      <4>1. ~fell /\ ~(Number[h] < Number[best])
        BY <3>1
      <4>2. Number[h] >= Number[best]
        BY <2>6, <2>8, <4>1, RelayAssumption
      <4>3. Indexes(canonical, best)
        BY <4>1 DEF RelayInv, IndexIsBestChain, Indexes
      <4> QED BY <2>6, <2>8, <3>1, <4>2, <4>3, IndexMoves
    <3>4. IndexIsBestChain'
      BY <3>3 DEF IndexIsBestChain, Indexes
    <3> QED BY <2>5, <2>6, <3>1, <3>2, <3>4 DEF RelayInv
  <2> QED BY <2>9, <2>10
<1>3. ASSUME NEW h \in Header, NEW tx \in Tx, Release(h, tx) PROVE UNCHANGED lightVars
  BY <1>3 DEF Release
<1>4. ASSUME Fund \/ Withdraw \/ \E value \in RequiredWork : SetRequiredWork(value)
      PROVE  UNCHANGED lightVars
  BY <1>4 DEF Fund, Withdraw, SetRequiredWork
<1> QED BY <1>1, <1>2, <1>3, <1>4 DEF RelayNext, relayVars

\* While the heavier chain was never the shorter one, the index by number holds
\* the best chain and nothing else, whatever was submitted in whatever order.
THEOREM IndexTheorem == RelaySpec => []IndexIsBestChain
<1>1. RelayInv => IndexIsBestChain
  BY DEF RelayInv
<1> QED BY <1>1, RelayInitInv, RelayNextInv, PTL DEF RelaySpec

-----------------------------------------------------------------------------
(* The bridge bot.                                                         *)

\* What a tick saw spent was spent, and a return that is sent says the return:
\* what is known of the records and the chain for the claim below.
ReturnBotInv ==
  /\ record \in [Return -> BotRecord]
  /\ chain \in Seq(BotTx) /\ pool \subseteq BotTx
  /\ round # Nothing => "spent" \in DOMAIN round /\ round.spent \subseteq Spent \cup retracted
  /\ \A r \in Return : record[r].status \in InFlight => record[r].tx \in BotTx
  /\ \A r \in Return : record[r].status = "return-sent" => record[r].tx.says = r
  /\ ReturnedIsSpent

\* What is paid back stays paid back, or is remembered as taken back.
Lasting == Spent \cup retracted \subseteq (Spent \cup retracted)'

\* The tick does not read again what is spent.
KeepsSpent ==
  round' # Nothing => /\ round # Nothing
                      /\ "spent" \in DOMAIN round' /\ round'.spent = round.spent

\* The chain only grows at its end.
LEMMA MinedLasts ==
  ASSUME chain \in Seq(BotTx), NEW t \in BotTx, chain' = Append(chain, t),
         byOthers' = byOthers, retracted' = retracted
  PROVE  chain' \in Seq(BotTx) /\ Lasting
<1>1. /\ chain' \in Seq(BotTx) /\ DOMAIN chain \subseteq DOMAIN chain'
      /\ \A i \in DOMAIN chain : chain'[i] = chain[i]
  OBVIOUS
<1>2. \A x : Said(x) => Said(x)'
  BY <1>1 DEF Said
<1> QED BY <1>1, <1>2 DEF Lasting, Spent

\* The block that is undone carries one transaction, and its return is noted.
LEMMA UndoneLasts ==
  ASSUME chain \in Seq(BotTx), Undo
  PROVE  chain' \in Seq(BotTx) /\ Last(chain) \in BotTx /\ Lasting
<1>1. chain # << >> /\ chain' = SubSeq(chain, 1, Len(chain) - 1)
  BY DEF Undo, Front
<1>2. Len(chain) \in Nat \ {0} /\ Last(chain) = chain[Len(chain)] /\ Last(chain) \in BotTx
  BY <1>1 DEF Last
<1>3. /\ chain' \in Seq(BotTx) /\ DOMAIN chain' = 1 .. (Len(chain) - 1)
      /\ \A i \in 1 .. (Len(chain) - 1) : chain'[i] = chain[i]
  BY <1>1, <1>2
<1>4. ASSUME NEW r \in Return, Said(r), ~(Said(r)') PROVE Last(chain).says = r
  <2>1. PICK i \in DOMAIN chain : chain[i].says = r
    BY <1>4 DEF Said
  <2>2. i \notin 1 .. (Len(chain) - 1)
    BY <1>3, <1>4, <2>1 DEF Said
  <2>3. i = Len(chain)
    BY <1>2, <2>1, <2>2
  <2> QED BY <1>2, <2>1, <2>3
<1>5. retracted' = retracted \cup ({Last(chain).says} \cap Return) /\ byOthers' = byOthers
  BY DEF Undo
<1> QED BY <1>2, <1>3, <1>4, <1>5 DEF Lasting, Spent

\* Whatever happens outside the bot keeps what it knows true.
LEMMA WorldMoves ==
  ASSUME ReturnBotInv, UNCHANGED <<record, round>>, Lasting,
         chain' \in Seq(BotTx), pool' \subseteq BotTx
  PROVE  ReturnBotInv'
<1>1. ReturnedIsSpent'
  BY DEF ReturnBotInv, ReturnedIsSpent, Lasting
<1>2. round' # Nothing =>
         "spent" \in DOMAIN round' /\ round'.spent \subseteq (Spent \cup retracted)'
  BY DEF ReturnBotInv, Lasting
<1> QED BY <1>1, <1>2 DEF ReturnBotInv

LEMMA WorldInv ==
  ASSUME ReturnBotInv,
         MineSome \/ Undo \/ Forget \/ WindowMoves
         \/ (\E r \in Return : SomebodyReturns(r) \/ UndoOthers(r) \/ Reach(r))
         \/ (\E b \in EthBlock, tier \in {"operator", "other"} : OperatorCommits(b, tier))
  PROVE  ReturnBotInv'
<1>0. chain \in Seq(BotTx) /\ pool \subseteq BotTx
  BY DEF ReturnBotInv
<1>1. CASE MineSome
  <2>1. PICK t \in pool : MineBotTx(t)
    BY <1>1 DEF MineSome
  <2>2. /\ t \in BotTx /\ chain' = Append(chain, t) /\ pool' \subseteq BotTx
        /\ UNCHANGED <<record, round, byOthers, retracted>>
    BY <1>0, <2>1 DEF MineBotTx
  <2>3. chain' \in Seq(BotTx) /\ Lasting
    BY <1>0, <2>2, MinedLasts
  <2> QED BY <2>2, <2>3, WorldMoves
<1>2. CASE Undo
  <2>1. chain' \in Seq(BotTx) /\ Last(chain) \in BotTx /\ Lasting
    BY <1>0, <1>2, UndoneLasts
  <2>2. pool' \subseteq BotTx /\ UNCHANGED <<record, round>>
    BY <1>0, <1>2, <2>1 DEF Undo
  <2> QED BY <2>1, <2>2, WorldMoves
<1>3. CASE Forget \/ WindowMoves \/ (\E r \in Return : SomebodyReturns(r) \/ Reach(r))
           \/ (\E b \in EthBlock, tier \in {"operator", "other"} : OperatorCommits(b, tier))
  <2>1. /\ chain' = chain /\ pool' \subseteq BotTx /\ byOthers \subseteq byOthers'
        /\ UNCHANGED <<record, round, retracted>>
    BY <1>0, <1>3 DEF Forget, WindowMoves, SomebodyReturns, Reach, OperatorCommits
  <2>2. Lasting
    BY <2>1 DEF Lasting, Spent, Said
  <2> QED BY <1>0, <2>1, <2>2, WorldMoves
<1>4. ASSUME NEW r \in Return, UndoOthers(r) PROVE ReturnBotInv'
  <2>1. /\ UNCHANGED <<record, round, pool, chain>>
        /\ byOthers' = byOthers \ {r} /\ retracted' = retracted \cup {r}
    BY <1>4 DEF UndoOthers
  <2>2. Lasting
    BY <2>1 DEF Lasting, Spent, Said
  <2> QED BY <1>0, <2>1, <2>2, WorldMoves
<1> QED BY <1>1, <1>2, <1>3, <1>4

\* A step of the bot: what is paid back does not change, and the record of one
\* return does, to a status that says no more than is known.
LEMMA BotMoves ==
  ASSUME ReturnBotInv, NEW r \in Return, NEW new \in BotRecord,
         UNCHANGED <<chain, byOthers, retracted>>, pool' \subseteq BotTx,
         record' = [record EXCEPT ![r] = new],
         KeepsSpent,
         new.status \in InFlight => new.tx \in BotTx,
         new.status = "return-sent" => new.tx.says = r,
         new.status = "returned" => r \in Spent \cup retracted
  PROVE  ReturnBotInv'
<1>1. Spent' = Spent
  BY DEF Spent, Said
<1>2. record' \in [Return -> BotRecord]
  BY DEF ReturnBotInv
<1>3. \A q \in Return : record'[q] = IF q = r THEN new ELSE record[q]
  BY DEF ReturnBotInv
<1>4. ReturnedIsSpent'
  BY <1>1, <1>3 DEF ReturnBotInv, ReturnedIsSpent
<1>5. round' # Nothing =>
         "spent" \in DOMAIN round' /\ round'.spent \subseteq (Spent \cup retracted)'
  BY <1>1 DEF ReturnBotInv, KeepsSpent
<1>6. \A q \in Return :
        /\ record'[q].status \in InFlight => record'[q].tx \in BotTx
        /\ record'[q].status = "return-sent" => record'[q].tx.says = q
  BY <1>3 DEF ReturnBotInv
<1> QED BY <1>2, <1>4, <1>5, <1>6 DEF ReturnBotInv

\* The two ways a round goes on: one return leaves its queue, and what it read
\* of the roots, or that it sent, is written down.
LEMMA RoundGoesOn ==
  ASSUME ReturnBotInv, round # Nothing, NEW r, NEW tiers,
         \/ round' = Done(r)
         \/ round' = [Done(r) EXCEPT !.tiers = tiers]
         \/ round' = [Done(r) EXCEPT !.sent = TRUE]
         \/ round' = [Done(r) EXCEPT !.tiers = tiers, !.sent = TRUE]
  PROVE  KeepsSpent
BY DEF KeepsSpent, Done, ReturnBotInv

LEMMA BlankIsRecord ==
  \A status \in InFlight \cup {"unseen", "open", "returned"} :
    /\ [Blank EXCEPT !.status = status] \in BotRecord
    /\ [Blank EXCEPT !.status = status].status = status
BY DEF Blank, BotRecord

LEMMA NewTxType ==
  ASSUME chain \in Seq(BotTx), NEW r \in Return, NEW heard
  PROVE  NewTx(r, heard) \in BotTx
BY ReturnBotAssumption DEF NewTx, NonceToUse, BotTx

LEMMA AdvanceInv ==
  ASSUME ReturnBotInv, NEW r \in Return, NEW heard \in BOOLEAN,
         AlreadyReturned(r) \/ Hold(r, heard) \/ Send(r, heard) \/ SendFails(r)
  PROVE  ReturnBotInv'
<1>0. /\ record \in [Return -> BotRecord] /\ chain \in Seq(BotTx) /\ pool \subseteq BotTx
      /\ record[r] \in BotRecord
      /\ round # Nothing => round.spent \subseteq Spent \cup retracted
      /\ record[r].status = "return-sent" => record[r].tx.says = r
  BY DEF ReturnBotInv
<1>1. round # Nothing
  BY DEF AlreadyReturned, Hold, Send, SendFails, Judged, Looked, At
<1> DEFINE blank(status) == [Blank EXCEPT !.status = status]
<1>2. CASE AlreadyReturned(r)
  <2>1. r \in Spent \cup retracted
    <3>1. CASE r \in round.spent
      BY <1>0, <1>1, <3>1
    <3>2. CASE record[r].status = "return-sent" /\ MinedTx(record[r].tx)
      <4>1. PICK i \in DOMAIN chain : chain[i] = record[r].tx
        BY <3>2 DEF MinedTx, Range
      <4> QED BY <1>0, <3>2, <4>1 DEF Spent, Said
    <3> QED BY <1>2, <3>1, <3>2 DEF AlreadyReturned
  <2>2. KeepsSpent
    BY <1>1, <1>2, RoundGoesOn DEF AlreadyReturned
  <2>3. blank("returned") \in BotRecord /\ blank("returned").status = "returned"
    BY BlankIsRecord
  <2>4. record' = [record EXCEPT ![r] = blank("returned")] /\ UNCHANGED world
    BY <1>2 DEF AlreadyReturned, Set
  <2> HIDE DEF blank
  <2> QED BY <1>0, <2>1, <2>2, <2>3, <2>4, BotMoves DEF world, InFlight
<1>3. CASE Hold(r, heard) \/ SendFails(r)
  <2>1. KeepsSpent
    BY <1>1, <1>3, RoundGoesOn DEF Hold, SendFails
  <2>2. blank("open") \in BotRecord /\ blank("open").status = "open"
    BY BlankIsRecord
  <2>3. /\ record' = [record EXCEPT ![r] = blank("open")]
        /\ UNCHANGED <<chain, byOthers, retracted>>
    BY <1>3 DEF Hold, SendFails, Set, world
  <2>4. pool' \subseteq BotTx
    <3>1. NewTx(r, TRUE) \in BotTx
      BY <1>0, NewTxType
    <3> QED BY <1>0, <1>3, <3>1 DEF Hold, SendFails, PoolWith, world
  <2> HIDE DEF blank
  <2> QED BY <2>1, <2>2, <2>3, <2>4, BotMoves DEF InFlight
<1>4. CASE Send(r, heard)
  <2> DEFINE new == [status |-> IF NewTx(r, heard).says = r THEN "return-sent" ELSE "header-sent",
                     tx |-> NewTx(r, heard), late |-> FALSE]
  <2>1. KeepsSpent
    BY <1>1, <1>4, RoundGoesOn DEF Send
  <2>2. NewTx(r, heard) \in BotTx
    BY <1>0, NewTxType
  <2>3. /\ new \in BotRecord /\ new.status # "returned"
        /\ new.tx \in BotTx
        /\ new.status = "return-sent" => new.tx.says = r
    BY <2>2 DEF BotRecord, InFlight
  <2>4. /\ record' = [record EXCEPT ![r] = new]
        /\ UNCHANGED <<chain, byOthers, retracted>> /\ pool' \subseteq pool \cup {NewTx(r, heard)}
    BY <1>4 DEF Send, PoolWith
  <2>5. pool' \subseteq BotTx
    BY <1>0, <2>2, <2>4
  <2> HIDE DEF new
  <2> QED BY <2>5, <2>1, <2>2, <2>3, <2>4, BotMoves
<1> QED BY <1>2, <1>3, <1>4

LEMMA RoundInv ==
  ASSUME ReturnBotInv,
         StartRound \/ ReadRoots \/ EndRound \/ Stop
  PROVE  ReturnBotInv'
<1>0. /\ record \in [Return -> BotRecord] /\ chain \in Seq(BotTx) /\ pool \subseteq BotTx
  BY DEF ReturnBotInv
<1>1. CASE StartRound \/ EndRound \/ Stop
  <2>1. UNCHANGED <<record, world>> /\ Spent' = Spent
    BY <1>1 DEF StartRound, EndRound, Stop, world, Spent, Said
  <2>2. round' # Nothing => "spent" \in DOMAIN round' /\ round'.spent = Spent
    BY <1>1 DEF StartRound, EndRound, Stop
  <2> QED BY <2>1, <2>2 DEF ReturnBotInv, ReturnedIsSpent, world
<1>2. CASE ReadRoots
  <2>1. UNCHANGED world /\ Spent' = Spent
    BY <1>2 DEF ReadRoots, world, Spent, Said
  <2>2. \A q \in Return : \/ record'[q] = record[q]
                          \/ record'[q] = [Blank EXCEPT !.status = "open"]
    BY <1>2 DEF ReadRoots
  <2>3. record' \in [Return -> BotRecord]
    BY <1>0, <1>2, BlankIsRecord DEF ReadRoots
  <2>4. round' # Nothing => "spent" \in DOMAIN round' /\ round'.spent = round.spent
    BY <1>2 DEF ReadRoots, ReturnBotInv
  <2>5. round # Nothing
    BY <1>2 DEF ReadRoots
  <2>6. [Blank EXCEPT !.status = "open"].status = "open"
    BY BlankIsRecord
  <2>7. ReturnedIsSpent'
    BY <2>1, <2>2, <2>6 DEF ReturnBotInv, ReturnedIsSpent, world
  <2>8. \A q \in Return :
          record'[q].status = "open" \/ record'[q] = record[q]
    BY <2>2, <2>6
  <2> QED BY <2>1, <2>3, <2>4, <2>5, <2>7, <2>8 DEF ReturnBotInv, world, InFlight
<1> QED BY <1>1, <1>2

LEMMA BotInv ==
  ASSUME ReturnBotInv, NEW r \in Return, NEW heard \in BOOLEAN,
         SendAgain(r, heard) \/ Unanswered(r) \/ Elapse(r)
  PROVE  ReturnBotInv'
<1>0. /\ record \in [Return -> BotRecord] /\ chain \in Seq(BotTx) /\ pool \subseteq BotTx
      /\ record[r] \in BotRecord
  BY DEF ReturnBotInv
<1>1. CASE SendAgain(r, heard)
  <2>1. round # Nothing /\ record[r].tx \in BotTx
    BY <1>0, <1>1 DEF SendAgain, Looked, At, Waits, ReturnBotInv
  <2>2. KeepsSpent
    BY <1>1, <2>1, RoundGoesOn DEF SendAgain
  <2>3. pool' \subseteq BotTx /\ UNCHANGED <<record, chain, byOthers, retracted>> /\ Spent' = Spent
    BY <1>0, <1>1, <2>1 DEF SendAgain, PoolWith, Spent, Said
  <2> QED BY <2>2, <2>3 DEF KeepsSpent, ReturnBotInv, ReturnedIsSpent
<1>2. CASE Unanswered(r)
  <2>1. KeepsSpent
    BY <1>2, RoundGoesOn DEF Unanswered, At
  <2>2. UNCHANGED <<record, world>> /\ Spent' = Spent
    BY <1>2 DEF Unanswered, world, Spent, Said
  <2> QED BY <2>1, <2>2 DEF KeepsSpent, ReturnBotInv, ReturnedIsSpent, world
<1>3. CASE Elapse(r)
  <2>1. UNCHANGED <<round, world>> /\ Spent' = Spent
    BY <1>3 DEF Elapse, world, Spent, Said
  <2>2. /\ record' \in [Return -> BotRecord]
        /\ \A q \in Return : record'[q].status = record[q].status /\ record'[q].tx = record[q].tx
    BY <1>0, <1>3 DEF Elapse, BotRecord
  <2> QED BY <2>1, <2>2 DEF ReturnBotInv, ReturnedIsSpent, world
<1> QED BY <1>1, <1>2, <1>3

LEMMA ReturnBotInitInv == ReturnBotInit => ReturnBotInv
<1> SUFFICES ASSUME ReturnBotInit PROVE ReturnBotInv
  OBVIOUS
<1>1. Blank \in BotRecord /\ Blank.status = "unseen"
  BY DEF Blank, BotRecord
<1>2. \A r \in Return : record[r] = Blank
  BY DEF ReturnBotInit
<1> QED BY <1>1, <1>2 DEF ReturnBotInit, ReturnBotInv, ReturnedIsSpent, InFlight

LEMMA ReturnBotNextInv == ReturnBotInv /\ [ReturnBotNext]_returnBotVars => ReturnBotInv'
<1> SUFFICES ASSUME ReturnBotInv, [ReturnBotNext]_returnBotVars PROVE ReturnBotInv'
  OBVIOUS
<1>1. CASE UNCHANGED returnBotVars
  <2>1. UNCHANGED <<record, round, pool, chain, byOthers, retracted>>
    BY <1>1 DEF returnBotVars, world
  <2>2. Lasting
    BY <2>1 DEF Lasting, Spent, Said
  <2> QED BY <2>1, <2>2, WorldMoves DEF ReturnBotInv
<1>2. CASE StartRound \/ ReadRoots \/ EndRound \/ Stop
  BY <1>2, RoundInv
<1>3. ASSUME NEW r \in Return, NEW heard \in BOOLEAN,
             AlreadyReturned(r) \/ Advance(r, heard) \/ SendFails(r)
      PROVE  ReturnBotInv'
  BY <1>3, AdvanceInv, BotInv DEF Advance
<1>4. ASSUME NEW r \in Return, Unanswered(r) \/ Elapse(r) PROVE ReturnBotInv'
  BY <1>4, BotInv
<1>5. CASE MineSome \/ Undo \/ Forget \/ WindowMoves
           \/ (\E r \in Return : SomebodyReturns(r) \/ UndoOthers(r) \/ Reach(r))
           \/ (\E b \in EthBlock, tier \in {"operator", "other"} : OperatorCommits(b, tier))
  BY <1>5, WorldInv
<1> QED BY <1>1, <1>2, <1>3, <1>4, <1>5 DEF ReturnBotNext, BotStep

\* Whatever is mined, taken back, lost or relayed by others between two reads of
\* a tick, the bot takes no return for done that was never paid back.
THEOREM ReturnedTheorem == ReturnBotSpec => []ReturnedIsSpent
<1>1. ReturnBotInv => ReturnedIsSpent
  BY DEF ReturnBotInv
<1> QED BY <1>1, ReturnBotInitInv, ReturnBotNextInv, PTL DEF ReturnBotSpec

-----------------------------------------------------------------------------
(* The mining loop.                                                        *)

\* The order in which transactions are tried is an order, so that one of any
\* number of them is tried last.
LEMMA SomeIsLast ==
  ASSUME NEW s \in SUBSET Transaction, s # {}
  PROVE  LastTried(s) \in s
<1> DEFINE Behind(x) == {y \in s : TriedBefore(x, y)}
           W == {Behind(x) : x \in s}
<1>1. IsFiniteSet(s)
  BY MinerAssumption, FS_Subset
<1>2. PICK t \in W : \A u \in SUBSET t : u # t => u \notin W
  <2>1. W \in SUBSET (SUBSET s) /\ W # {}
    OBVIOUS
  <2> HIDE DEF W
  <2> QED BY <1>1, <2>1, MinimalSubset
<1>3. PICK x \in s : t = Behind(x)
  BY <1>2
<1>4. ASSUME NEW y \in s, TriedBefore(x, y) PROVE FALSE
  <2>1. ASSUME NEW z \in s, TriedBefore(y, z) PROVE TriedBefore(x, z)
    BY <1>4, <2>1, MinerAssumption DEF TriedBefore
  <2>2. Behind(y) \in SUBSET Behind(x)
    BY <2>1
  <2>3. y \in Behind(x) /\ y \notin Behind(y)
    BY <1>4, MinerAssumption DEF TriedBefore
  <2>4. Behind(y) \in W
    OBVIOUS
  <2> HIDE DEF Behind, W
  <2> QED BY <1>2, <1>3, <2>2, <2>3, <2>4
<1> QED BY <1>4 DEF LastTried

\* The recursion equation of the loop over the subsets of S.
IsFilling(g, S) ==
  g = [s \in SUBSET S |->
         IF s = {} THEN EmptyBlock ELSE Take(g[s \ {LastTried(s)}], LastTried(s))]

LEMMA FilledUnfolded ==
  ASSUME NEW S PROVE Filled(S) = (CHOOSE g : IsFilling(g, S))[S]
BY DEF Filled, MapThenFoldSet, IsFilling

LEMMA FillingsAgree ==
  ASSUME NEW A \in SUBSET Transaction, NEW B \in SUBSET Transaction,
         NEW g, IsFilling(g, A), NEW h, IsFilling(h, B)
  PROVE  \A s \in SUBSET (A \cap B) : g[s] = h[s]
<1> DEFINE W == {s \in SUBSET (A \cap B) : g[s] # h[s]}
<1> SUFFICES ASSUME W # {} PROVE FALSE
  OBVIOUS
<1>1. IsFiniteSet(A \cap B)
  BY MinerAssumption, FS_Subset
<1>2. PICK s \in W : \A t \in SUBSET s : t # s => t \notin W
  <2> HIDE DEF W
  <2>1. W \in SUBSET (SUBSET (A \cap B))
    BY DEF W
  <2> QED BY <1>1, <2>1, MinimalSubset
<1>3. /\ g[s] = IF s = {} THEN EmptyBlock ELSE Take(g[s \ {LastTried(s)}], LastTried(s))
      /\ h[s] = IF s = {} THEN EmptyBlock ELSE Take(h[s \ {LastTried(s)}], LastTried(s))
  <2>1. s \in SUBSET A /\ s \in SUBSET B
    OBVIOUS
  <2> QED BY <2>1 DEF IsFilling
<1>4. s # {} /\ g[s \ {LastTried(s)}] # h[s \ {LastTried(s)}]
  BY <1>3
<1>5. LastTried(s) \in s
  BY <1>4, SomeIsLast
<1>6. s \ {LastTried(s)} \in SUBSET s /\ s \ {LastTried(s)} # s /\ s \ {LastTried(s)} \in W
  BY <1>4, <1>5
<1> QED BY <1>2, <1>6

LEMMA FillingExists ==
  ASSUME NEW S \in SUBSET Transaction
  PROVE  \E g : IsFilling(g, S)
<1> DEFINE W == {T \in SUBSET S : ~\E g : IsFilling(g, T)}
<1> SUFFICES ASSUME W # {} PROVE FALSE
  OBVIOUS
<1>1. PICK T \in W : \A t \in SUBSET T : t # T => t \notin W
  <2> HIDE DEF W
  <2>1. W \in SUBSET (SUBSET S) /\ IsFiniteSet(S)
    BY MinerAssumption, FS_Subset DEF W
  <2> QED BY <2>1, MinimalSubset
<1> DEFINE Fill(U) == CHOOSE g : IsFilling(g, U)
           Less(U) == U \ {LastTried(U)}
           Value(U) == IF U = {} THEN EmptyBlock ELSE Take(Fill(Less(U))[Less(U)], LastTried(U))
           g == [s \in SUBSET T |-> Value(s)]
<1>2. ASSUME NEW U \in SUBSET T, U # T PROVE IsFilling(Fill(U), U)
  <2>1. \E h : IsFilling(h, U)
    BY <1>1, <1>2
  <2> QED BY <2>1
<1>3. ASSUME NEW U \in SUBSET T, U # {} PROVE Less(U) \in SUBSET U /\ Less(U) # U /\ Less(U) # T
  BY <1>3, SomeIsLast
<1>4. ASSUME NEW U \in SUBSET T, U # T PROVE Fill(U)[U] = Value(U)
  <2>1. IsFilling(Fill(U), U)
    BY <1>2, <1>4
  <2> HIDE DEF Fill
  <2>2. Fill(U)[U] = IF U = {} THEN EmptyBlock ELSE Take(Fill(U)[Less(U)], LastTried(U))
    BY <2>1 DEF IsFilling
  <2>3. CASE U # {}
    <3> HIDE DEF Less
    <3>1. Less(U) \in SUBSET U /\ Less(U) # T /\ Less(U) \in SUBSET T
      BY <1>3, <2>3
    <3>2. IsFilling(Fill(Less(U)), Less(U))
      BY <1>2, <3>1
    <3>3. Less(U) \in SUBSET (U \cap Less(U))
      BY <3>1
    <3>4. Fill(U)[Less(U)] = Fill(Less(U))[Less(U)]
      BY <2>1, <3>1, <3>2, <3>3, FillingsAgree
    <3> QED BY <2>2, <3>4, <2>3
  <2> QED BY <2>2, <2>3
<1>5. ASSUME NEW s \in SUBSET T, s # {} PROVE Fill(Less(s))[Less(s)] = g[Less(s)]
  <2>1. Less(s) \in SUBSET T /\ Less(s) # T
    BY <1>3, <1>5
  <2> HIDE DEF Less, Fill
  <2>2. Fill(Less(s))[Less(s)] = Value(Less(s))
    BY <1>4, <2>1
  <2> QED BY <2>1, <2>2
<1>6. g = [s \in SUBSET T |-> IF s = {} THEN EmptyBlock ELSE Take(g[Less(s)], LastTried(s))]
  <2>1. ASSUME NEW s \in SUBSET T
        PROVE  Value(s) = IF s = {} THEN EmptyBlock ELSE Take(g[Less(s)], LastTried(s))
    <3> HIDE DEF g, Fill, Less
    <3> QED BY <1>5
  <2> HIDE DEF Value, Less
  <2> QED BY <2>1
<1>7. IsFilling(g, T)
  <2> HIDE DEF g
  <2> QED BY <1>6 DEF IsFilling
<1> QED BY <1>1, <1>7

\* A block whose transactions run again, whatever gas they used.
Blocks == [parent : SUBSET Transaction, txs : Seq(Transaction), gas : Nat]
Good(block) == block \in Blocks /\ RunsAgain(block)

LEMMA GasAfterSame ==
  ASSUME NEW b, NEW c, NEW n \in Nat,
         \A i \in 1..n : c.txs[i] = b.txs[i]
  PROVE  GasAfter(c, n) = GasAfter(b, n)
<1>1. [i \in 1..n |-> GasUsed[c.txs[i]]] = [i \in 1..n |-> GasUsed[b.txs[i]]]
  OBVIOUS
<1> QED BY <1>1 DEF GasAfter

LEMMA AppliesSame ==
  ASSUME NEW b, NEW c, NEW n \in Nat, NEW tx, c.parent = b.parent,
         \A i \in 1..n : c.txs[i] = b.txs[i]
  PROVE  AppliesAfter(c, n, tx) <=> AppliesAfter(b, n, tx)
<1>1. {c.txs[i] : i \in 1..n} = {b.txs[i] : i \in 1..n}
  OBVIOUS
<1> QED BY <1>1 DEF AppliesAfter

\* A sum of gas is that of one transaction less, and what the last one used.
LEMMA GasAfterNext ==
  ASSUME NEW b \in Blocks, NEW n \in Nat, n + 1 \in 1..Len(b.txs)
  PROVE  GasAfter(b, n + 1) = GasAfter(b, n) + GasUsed[b.txs[n + 1]]
<1> DEFINE f == [i \in 1..n + 1 |-> GasUsed[b.txs[i]]]
           h == [i \in 1..n |-> GasUsed[b.txs[i]]]
<1>1. \A i \in 1..n + 1 : b.txs[i] \in Transaction
  BY DEF Blocks
<1>2. \A i \in 1..n + 1 : f[i] = GasUsed[b.txs[i]] /\ f[i] \in Int
  BY <1>1, MinerAssumption
<1>3. \A i \in 1..n : h[i] \in Int /\ f[i] = h[i]
  BY <1>2
<1>4. 1..n + 1 = 1..n \cup {n + 1} /\ n + 1 \notin 1..n /\ n + 1 \in 1..n + 1
  OBVIOUS
<1>5. IsFiniteSet(1..n)
  BY FS_Interval
<1>6. GasAfter(b, n + 1) = SumFunctionOnSet(f, 1..n + 1) /\ GasAfter(b, n) = SumFunctionOnSet(h, 1..n)
  BY DEF GasAfter
<1> HIDE DEF f, h
<1>7. SumFunctionOnSet(f, 1..n \cup {n + 1}) = f[n + 1] + SumFunctionOnSet(f, 1..n)
  BY <1>2, <1>4, <1>5, SumInsert
<1>8. SumFunctionOnSet(f, 1..n) = SumFunctionOnSet(h, 1..n)
  BY <1>3, <1>5, SumSame
<1>9. SumFunctionOnSet(h, 1..n) \in Int
  BY <1>3, <1>5, SumType
<1>10. f[n + 1] = GasUsed[b.txs[n + 1]] /\ f[n + 1] \in Int
  BY <1>2, <1>4
<1>11. SumFunctionOnSet(f, 1..n + 1) = f[n + 1] + SumFunctionOnSet(h, 1..n)
  BY <1>4, <1>7, <1>8
<1> QED BY <1>6, <1>9, <1>10, <1>11

LEMMA TakeGood ==
  ASSUME NEW tx \in Transaction, NEW block, Good(block)
  PROVE  Good(Take(block, tx))
<1> DEFINE n == Len(block.txs)
           c == With(block, tx)
<1>1. /\ block \in Blocks /\ block.txs \in Seq(Transaction) /\ n \in Nat /\ block.gas \in Nat
      /\ GasUsed[tx] \in Nat /\ block.gas = GasAfter(block, n)
      /\ DOMAIN block.txs = 1..n
  BY MinerAssumption DEF Good, Blocks, RunsAgain
<1>2. CASE block.gas + Intrinsic[tx] <= GasLimit /\ AppliesAfter(block, n, tx)
  <2>1. /\ c \in Blocks /\ c.parent = block.parent /\ c.gas = block.gas + GasUsed[tx]
        /\ c.txs = Append(block.txs, tx)
    <3>1. Append(block.txs, tx) \in Seq(Transaction) /\ block.gas + GasUsed[tx] \in Nat
      BY <1>1
    <3>2. c = [block EXCEPT !.txs = Append(block.txs, tx), !.gas = block.gas + GasUsed[tx]]
      BY DEF With
    <3> HIDE DEF c
    <3> QED BY <1>1, <3>1, <3>2 DEF Blocks
  <2>2. /\ Len(c.txs) = n + 1 /\ DOMAIN c.txs = 1..n + 1 /\ c.txs[n + 1] = tx
        /\ \A i \in 1..n : c.txs[i] = block.txs[i]
    BY <1>1, <2>1
  <2> HIDE DEF c
  <2>3. \A m \in 0..n : GasAfter(c, m) = GasAfter(block, m)
    BY <1>1, <2>2, GasAfterSame
  <2>4. \A m \in 0..n : \A t : AppliesAfter(c, m, t) <=> AppliesAfter(block, m, t)
    <3> TAKE m \in 0..n
    <3> TAKE t
    <3>1. m \in Nat /\ \A i \in 1..m : c.txs[i] = block.txs[i]
      BY <1>1, <2>2
    <3> QED BY <2>1, <3>1, AppliesSame
  <2>5. ASSUME NEW i \in 1..n
        PROVE  /\ GasAfter(c, i - 1) + Intrinsic[c.txs[i]] <= GasLimit
               /\ AppliesAfter(c, i - 1, c.txs[i])
    <3>1. i - 1 \in 0..n /\ c.txs[i] = block.txs[i]
      BY <1>1, <2>2
    <3>2. /\ GasAfter(block, i - 1) + Intrinsic[block.txs[i]] <= GasLimit
          /\ AppliesAfter(block, i - 1, block.txs[i])
      BY <1>1 DEF Good, RunsAgain
    <3> QED BY <2>3, <2>4, <3>1, <3>2
  <2>6. n \in 0..n /\ n + 1 - 1 = n
    BY <1>1
  <2>7. GasAfter(c, n) + Intrinsic[c.txs[n + 1]] <= GasLimit /\ AppliesAfter(c, n, c.txs[n + 1])
    BY <1>1, <1>2, <2>2, <2>3, <2>4, <2>6
  <2>8. c.gas = GasAfter(c, Len(c.txs))
    <3>1. n + 1 \in 1..Len(c.txs)
      BY <1>1, <2>2
    <3>2. GasAfter(c, n + 1) = GasAfter(c, n) + GasUsed[c.txs[n + 1]]
      BY <1>1, <2>1, <3>1, GasAfterNext
    <3> QED BY <1>1, <2>1, <2>2, <2>3, <2>6, <3>2
  <2>9. \A i \in 1..n + 1 : /\ GasAfter(c, i - 1) + Intrinsic[c.txs[i]] <= GasLimit
                            /\ AppliesAfter(c, i - 1, c.txs[i])
    <3> TAKE i \in 1..n + 1
    <3>1. i \in 1..n \/ i = n + 1
      BY <1>1
    <3> QED BY <2>5, <2>6, <2>7, <3>1
  <2>10. Good(c)
    BY <2>1, <2>2, <2>8, <2>9 DEF Good, RunsAgain
  <2> QED BY <1>2, <2>10 DEF Take, c
<1>3. CASE ~(block.gas + Intrinsic[tx] <= GasLimit /\ AppliesAfter(block, n, tx))
  BY <1>3 DEF Take
<1> QED BY <1>2, <1>3

LEMMA EmptyGood == ASSUME included \subseteq Transaction PROVE Good(EmptyBlock)
<1>1. EmptyBlock \in Blocks /\ EmptyBlock.txs = <<>> /\ EmptyBlock.gas = 0
  BY DEF EmptyBlock, Blocks
<1>2. GasAfter(EmptyBlock, 0) = 0
  <2>1. 1..0 = {}
    OBVIOUS
  <2> QED BY <2>1, SumEmpty DEF GasAfter
<1> QED BY <1>1, <1>2 DEF Good, RunsAgain

LEMMA FilledGood ==
  ASSUME included \subseteq Transaction, NEW S \in SUBSET Transaction
  PROVE  Good(Filled(S))
<1>1. PICK g : IsFilling(g, S) /\ Filled(S) = g[S]
  BY FillingExists, FilledUnfolded
<1> DEFINE W == {s \in SUBSET S : ~Good(g[s])}
<1> SUFFICES ASSUME W # {} PROVE FALSE
  BY <1>1
<1>2. PICK s \in W : \A t \in SUBSET s : t # s => t \notin W
  <2> HIDE DEF W
  <2>1. W \in SUBSET (SUBSET S) /\ IsFiniteSet(S)
    BY MinerAssumption, FS_Subset DEF W
  <2> QED BY <2>1, MinimalSubset
<1>3. g[s] = IF s = {} THEN EmptyBlock ELSE Take(g[s \ {LastTried(s)}], LastTried(s))
  BY <1>1 DEF IsFilling
<1>4. Good(EmptyBlock)
  BY EmptyGood
<1>5. s # {}
  BY <1>3, <1>4
<1>6. LastTried(s) \in s
  BY <1>5, SomeIsLast
<1>7. Good(g[s \ {LastTried(s)}])
  BY <1>2, <1>6
<1>8. Good(g[s])
  BY <1>3, <1>5, <1>6, <1>7, TakeGood
<1> QED BY <1>8

\* The node holds transactions that exist, its candidate runs again, and what
\* it rejected did too.
MinerInv ==
  /\ included \subseteq Transaction /\ mempool \subseteq Transaction
  /\ pc \in {"top", "grind"}
  /\ pc = "grind" => candidate # <<>>
  /\ candidate = <<>> \/ \E c : candidate = <<c>> /\ Good(c)
  /\ rejected = <<>> \/ \E c : rejected = <<c>> /\ RunsAgain(c) /\ c.gas > GasLimit

LEMMA MinerNextInv ==
  ASSUME MinerInv, [MinerNext]_minerVars
  PROVE  MinerInv'
<1> USE DEF MinerInv
<1>1. CASE Rebuild
  <2>1. Good(Composed)
    BY FilledGood DEF Composed
  <2>2. candidate' = <<>> \/ \E c : candidate' = <<c>> /\ Good(c)
    BY <1>1, <2>1 DEF Rebuild
  <2>3. /\ UNCHANGED <<included, mempool, rejected>> /\ pc' = "grind" /\ candidate' # <<>>
    BY <1>1 DEF Rebuild
  <2> QED BY <2>2, <2>3
<1>2. CASE SliceEnds
  BY <1>2 DEF SliceEnds
<1>3. CASE Seal
  <2>1. PICK c : candidate = <<c>> /\ Good(c)
    BY <1>3 DEF Seal
  <2>2. candidate[1] = c /\ pc' = "top" /\ candidate' = <<>>
    BY <1>3, <2>1 DEF Seal
  <2>3. rejected' = <<>> \/ \E d : rejected' = <<d>> /\ RunsAgain(d) /\ d.gas > GasLimit
    <3>1. rejected' = IF Accepts(c) THEN <<>> ELSE <<c>>
      BY <1>3, <2>1, <2>2 DEF Seal
    <3>2. Accepts(c) \/ c.gas > GasLimit
      BY <2>1, MinerAssumption DEF Accepts, Good, Blocks
    <3> QED BY <2>1, <3>1, <3>2 DEF Good
  <2>4. Range(c.txs) \subseteq Transaction
    BY <2>1 DEF Good, Blocks, Range
  <2>5. included' \subseteq Transaction /\ mempool' \subseteq Transaction
    BY <1>3, <2>2, <2>4 DEF Seal
  <2> QED BY <2>2, <2>3, <2>5
<1>4. ASSUME NEW tx \in Transaction, SubmitTx(tx) PROVE MinerInv'
  <2>1. mempool' \subseteq Transaction
    BY <1>4 DEF SubmitTx, Admitted
  <2> QED BY <1>4, <2>1 DEF SubmitTx
<1>5. ASSUME NEW txs \in SUBSET Transaction, HeadMoves(txs) PROVE MinerInv'
  BY <1>5 DEF HeadMoves
<1>6. CASE UNCHANGED minerVars
  BY <1>6 DEF minerVars
<1> QED BY <1>1, <1>2, <1>3, <1>4, <1>5, <1>6 DEF MinerNext

\* A node runs a block it composed itself again without an error, whatever was
\* submitted to it, however the head moved and whatever gas transactions use:
\* it rejects one only for what its last transaction used beyond what
\* composeBlock weighed (chain.js 396), never for a nonce or an order.
THEOREM OwnBlockTheorem == MinerSpec => []OwnBlockRunsAgain
<1>1. MinerInit => MinerInv
  BY DEF MinerInit, MinerInv
<1>2. MinerInv /\ [MinerNext]_minerVars => MinerInv'
  BY MinerNextInv
<1>3. MinerInv => OwnBlockRunsAgain
  BY DEF MinerInv, OwnBlockRunsAgain, Range
<1> QED BY <1>1, <1>2, <1>3, PTL DEF MinerSpec
=============================================================================
