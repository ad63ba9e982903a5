----------------------------- MODULE Pool_proofs -----------------------------
(***************************************************************************)
(* Theorems about the mining pool, for every set of miners, share sizes,   *)
(* rewards and depths: the books balance; but for payments whose answers   *)
(* were lost, nobody is paid twice and what is owed is held.               *)
(***************************************************************************)
EXTENDS Pool, SetLemmas, SequenceTheorems, TLAPS

\* A book by itself: what a miner earned is what is owed to it and what was
\* debited, and no block is split into more than its reward.
Sound(b) ==
  /\ b \in Books
  /\ \A m \in Miner : b.balances[m] + Debited(b, m) = Earned(b, m)
  /\ \A k \in PoolBlock :
       b.blocks[k] # NoRecord => SumFunctionOnSet(b.blocks[k].credits, Miner) <= Reward

\* A block on the chain that no reorganisation reaches any more.
Buried(k, c, f, t) == k \in c /\ f[k] + Maturity <= t

\* A book beside the chain: credited blocks are buried, and none is recorded
\* before the node has answered for it.
Fits(b, c, f, a, t) ==
  /\ \A k \in ConfirmedIn(b) : Buried(k, c, f, t)
  /\ \A k \in PoolBlock : f[k] = 0 \/ k \in a => b.blocks[k] = NoRecord

\* Work is never on the genesis block, so a block asked for has its height.
AskedFor(w, f, a) == w # 0 /\ \A k \in a : f[k] # 0

\* Statuses apart, two books list the same payments.
SamePayments(b, c) ==
  /\ Len(b.payments) = Len(c.payments)
  /\ \A i \in 1..Len(b.payments) : TxOf(b.payments[i]) = TxOf(c.payments[i])

\* Whatever confirmBlocks has yet to see is still pending.
ConfirmAgrees(c, b, t) ==
  c # NoRecord => /\ c.tip <= t
                  /\ \A k \in c.todo : b.blocks[k] # NoRecord /\ b.blocks[k].status = "pending"

Dues == {NoRecord} \cup UNION {[D -> Nat] : D \in SUBSET Miner}

Rounds == [check : SUBSET Nat, due : Dues, nonce : Nat \cup {NoRecord},
           wallet : Int \cup {NoRecord}, sending : Nat]

\* What a payout has yet to send is covered by the balances, and what it is
\* sending is the last payment of the book.
RoundAgrees(r, b) ==
  r # NoRecord =>
    /\ r \in Rounds
    /\ r.nonce # NoRecord => r.due # NoRecord
    /\ r.wallet # NoRecord => r.nonce # NoRecord
    /\ r.sending # 0 => r.wallet # NoRecord /\ r.sending = Len(b.payments)
    /\ r.due # NoRecord =>
         \A m \in DOMAIN r.due :
           \/ r.sending # 0 /\ m = b.payments[r.sending].to
           \/ r.due[m] <= b.balances[m]

\* A payment that some node has is in the book, but for those whose answers
\* were lost.
NoneStray(x, u, p, b) ==
  \A tx \in u \cup p : tx \in x \/ \E i \in 1..Len(b.payments) : TxOf(b.payments[i]) = tx

PoolInv ==
  /\ PoolTypeOK /\ IsFiniteSet(unmined) /\ IsFiniteSet(minedPayments)
  /\ Sound(book) /\ Sound(disk) /\ AskedFor(work, foundAt, asking)
  /\ Fits(book, canon, foundAt, asking, poolTip) /\ Fits(disk, canon, foundAt, asking, poolTip)
  /\ SamePayments(disk, book)
  /\ ConfirmAgrees(confirm, book, poolTip)
  /\ RoundAgrees(round, book)
  /\ NoneStray(unheard, unmined, minedPayments, book)

-----------------------------------------------------------------------------
LEMMA DuesIntro == ASSUME NEW D \in SUBSET Miner, NEW g \in [D -> Nat] PROVE g \in Dues
BY DEF Dues

LEMMA DuesElim ==
  ASSUME NEW d \in Dues, d # NoRecord
  PROVE  DOMAIN d \subseteq Miner /\ \A m \in DOMAIN d : d[m] \in Nat
<1>1. PICK D \in SUBSET Miner : d \in [D -> Nat]
  BY DEF Dues
<1> QED BY <1>1

LEMMA BooksElim ==
  ASSUME NEW b \in Books
  PROVE  /\ b.shares \in Seq([address : Miner, difficulty : ShareDifficulty])
         /\ b.blocks \in [PoolBlock -> {NoRecord} \cup Splits]
         /\ b.balances \in [Miner -> Nat]
         /\ b.payments \in Seq(Payments)
         /\ Len(b.payments) \in Nat /\ DOMAIN b.payments = 1..Len(b.payments)
         /\ \A i \in 1..Len(b.payments) :
              /\ b.payments[i] \in Payments
              /\ b.payments[i].to \in Miner /\ b.payments[i].amount \in Nat
              /\ TxOf(b.payments[i]) \in PaymentTx
<1>1. /\ b.shares \in Seq([address : Miner, difficulty : ShareDifficulty])
      /\ b.blocks \in [PoolBlock -> {NoRecord} \cup Splits]
      /\ b.balances \in [Miner -> Nat]
      /\ b.payments \in Seq(Payments)
  BY DEF Books
<1>2. Len(b.payments) \in Nat /\ DOMAIN b.payments = 1..Len(b.payments)
  BY <1>1
<1>3. \A i \in 1..Len(b.payments) : b.payments[i] \in Payments
  BY <1>1, <1>2
<1>4. \A p \in Payments : p.to \in Miner /\ p.amount \in Nat /\ TxOf(p) \in PaymentTx
  BY DEF Payments, TxOf, PaymentTx
<1> QED BY <1>1, <1>2, <1>3, <1>4

LEMMA FinitePlaces ==
  ASSUME NEW b \in Books
  PROVE  IsFiniteSet(DOMAIN b.payments) /\ IsFiniteSet(PoolBlock)
BY BooksElim, FS_Interval, PoolAssumption DEF PoolBlock

\* The payments to m, and the amounts of all.
Places(b, m) == {i \in DOMAIN b.payments : b.payments[i].to = m}
AmountsOf(b) == [i \in DOMAIN b.payments |-> b.payments[i].amount]

LEMMA DebitedIs == ASSUME NEW b, NEW m PROVE Debited(b, m) = SumFunctionOnSet(AmountsOf(b), Places(b, m))
BY DEF Debited, Places, AmountsOf

LEMMA PlacesFinite ==
  ASSUME NEW b \in Books, NEW m
  PROVE  /\ IsFiniteSet(Places(b, m)) /\ Places(b, m) \subseteq DOMAIN b.payments
         /\ \A i \in DOMAIN b.payments : AmountsOf(b)[i] \in Nat
<1>1. IsFiniteSet(DOMAIN b.payments)
  BY FinitePlaces
<1>2. Places(b, m) \subseteq DOMAIN b.payments
  BY DEF Places
<1>3. \A i \in DOMAIN b.payments : AmountsOf(b)[i] \in Nat
  BY BooksElim DEF AmountsOf
<1> QED BY <1>1, <1>2, <1>3, FS_Subset

LEMMA DebitedNat == ASSUME NEW b \in Books, NEW m PROVE Debited(b, m) \in Nat
<1>1. \A i \in Places(b, m) : AmountsOf(b)[i] \in Nat
  BY PlacesFinite
<1> QED BY <1>1, PlacesFinite, SumNat, DebitedIs

\* What was debited depends on nothing but the payments themselves.
LEMMA DebitedSame ==
  ASSUME NEW b \in Books, NEW c \in Books, SamePayments(b, c), NEW m
  PROVE  Debited(c, m) = Debited(b, m)
<1>1. Len(b.payments) = Len(c.payments) /\ DOMAIN b.payments = DOMAIN c.payments
  BY BooksElim DEF SamePayments
<1>2. ASSUME NEW i \in DOMAIN b.payments
      PROVE  b.payments[i].to = c.payments[i].to /\ b.payments[i].amount = c.payments[i].amount
  <2>1. TxOf(b.payments[i]) = TxOf(c.payments[i])
    BY BooksElim DEF SamePayments
  <2>2. /\ TxOf(b.payments[i]).to = b.payments[i].to
        /\ TxOf(c.payments[i]).to = c.payments[i].to
        /\ TxOf(b.payments[i]).amount = b.payments[i].amount
        /\ TxOf(c.payments[i]).amount = c.payments[i].amount
    BY DEF TxOf
  <2> QED BY <2>1, <2>2
<1>3. Places(c, m) = Places(b, m)
  BY <1>1, <1>2 DEF Places
<1>4. \A i \in Places(b, m) : AmountsOf(b)[i] \in Int /\ AmountsOf(c)[i] = AmountsOf(b)[i]
  <2>1. \A i \in DOMAIN b.payments : AmountsOf(c)[i] = AmountsOf(b)[i]
    BY <1>1, <1>2 DEF AmountsOf
  <2> QED BY <2>1, PlacesFinite
<1> QED BY <1>3, <1>4, PlacesFinite, SumSame, DebitedIs

\* One payment more debits its receiver, and nobody else.
LEMMA DebitedMore ==
  ASSUME NEW b \in Books, NEW c \in Books, NEW p \in Payments,
         Len(c.payments) = Len(b.payments) + 1, c.payments[Len(c.payments)] = p,
         \A i \in 1..Len(b.payments) : c.payments[i] = b.payments[i],
         NEW m
  PROVE  Debited(c, m) = Debited(b, m) + (IF p.to = m THEN p.amount ELSE 0)
<1> DEFINE n == Len(c.payments)
<1>1. n \in Nat /\ n \notin DOMAIN b.payments /\ DOMAIN c.payments = DOMAIN b.payments \cup {n}
  BY BooksElim
<1>2. \A i \in DOMAIN b.payments : c.payments[i] = b.payments[i]
  BY BooksElim
<1>3. c.payments[n] = p
  OBVIOUS
<1> HIDE DEF n
<1>4. Places(c, m) = IF p.to = m THEN Places(b, m) \cup {n} ELSE Places(b, m)
  BY <1>1, <1>2, <1>3 DEF Places
<1>5. \A i \in DOMAIN b.payments : AmountsOf(c)[i] = AmountsOf(b)[i]
  BY <1>1, <1>2 DEF AmountsOf
<1>6. AmountsOf(c)[n] = p.amount
  BY <1>1, <1>3 DEF AmountsOf
<1>7. \A i \in DOMAIN c.payments : AmountsOf(c)[i] \in Int
  BY PlacesFinite
<1>8. SumFunctionOnSet(AmountsOf(c), Places(b, m)) = Debited(b, m)
  <2>1. \A i \in Places(b, m) : AmountsOf(b)[i] \in Int /\ AmountsOf(c)[i] = AmountsOf(b)[i]
    BY <1>5, PlacesFinite
  <2> QED BY <2>1, PlacesFinite, SumSame, DebitedIs
<1>9. CASE p.to = m
  <2>1. n \notin Places(b, m) /\ \A i \in Places(b, m) \cup {n} : AmountsOf(c)[i] \in Int
    BY <1>1, <1>7, PlacesFinite
  <2>2. SumFunctionOnSet(AmountsOf(c), Places(b, m) \cup {n})
          = AmountsOf(c)[n] + SumFunctionOnSet(AmountsOf(c), Places(b, m))
    BY <2>1, PlacesFinite, SumInsert
  <2>3. p.amount \in Nat /\ Debited(b, m) \in Nat
    BY DebitedNat DEF Payments
  <2>4. Debited(c, m) = SumFunctionOnSet(AmountsOf(c), Places(b, m) \cup {n})
    BY <1>4, <1>9, DebitedIs
  <2> QED BY <1>6, <1>8, <1>9, <2>2, <2>3, <2>4
<1>10. CASE p.to # m
  <2>1. Debited(c, m) = SumFunctionOnSet(AmountsOf(c), Places(b, m))
    BY <1>4, <1>10, DebitedIs
  <2>2. Debited(b, m) \in Nat
    BY DebitedNat
  <2> QED BY <1>8, <1>10, <2>1, <2>2
<1> QED BY <1>9, <1>10

\* What the confirmed blocks bring m.
Brings(b, m) == [k \in ConfirmedIn(b) |-> b.blocks[k].credits[m]]

LEMMA EarnedIs == ASSUME NEW b, NEW m PROVE Earned(b, m) = SumFunctionOnSet(Brings(b, m), ConfirmedIn(b))
BY DEF Earned, Brings

LEMMA BringsNat ==
  ASSUME NEW b \in Books
  PROVE  /\ IsFiniteSet(ConfirmedIn(b)) /\ ConfirmedIn(b) \subseteq PoolBlock
         /\ \A m \in Miner : \A k \in ConfirmedIn(b) :
              b.blocks[k].credits[m] \in Nat /\ Brings(b, m)[k] \in Nat
<1>1. ConfirmedIn(b) \subseteq PoolBlock
  BY DEF ConfirmedIn
<1>2. IsFiniteSet(ConfirmedIn(b))
  BY <1>1, FinitePlaces, FS_Subset
<1>3. ASSUME NEW m \in Miner, NEW k \in ConfirmedIn(b)
      PROVE  b.blocks[k].credits[m] \in Nat
  <2>1. k \in PoolBlock /\ b.blocks[k] # NoRecord
    BY DEF ConfirmedIn
  <2>2. b.blocks[k] \in Splits
    BY <2>1, BooksElim
  <2> QED BY <2>2 DEF Splits
<1>4. \A m \in Miner : \A k \in ConfirmedIn(b) : Brings(b, m)[k] = b.blocks[k].credits[m]
  BY DEF Brings
<1> QED BY <1>1, <1>2, <1>3, <1>4

LEMMA EarnedNat == ASSUME NEW b \in Books, NEW m \in Miner PROVE Earned(b, m) \in Nat
BY BringsNat, SumNat, EarnedIs

\* What was earned depends on nothing but the splits of the confirmed blocks.
LEMMA EarnedSame ==
  ASSUME NEW b \in Books, NEW c \in Books, ConfirmedIn(c) = ConfirmedIn(b),
         \A k \in ConfirmedIn(b) : c.blocks[k].credits = b.blocks[k].credits,
         NEW m \in Miner
  PROVE  Earned(c, m) = Earned(b, m)
<1>1. \A k \in ConfirmedIn(b) : Brings(b, m)[k] \in Int /\ Brings(c, m)[k] = Brings(b, m)[k]
  BY BringsNat DEF Brings
<1> QED BY <1>1, BringsNat, SumSame, EarnedIs

\* One block more brings its credits.
LEMMA EarnedMore ==
  ASSUME NEW b \in Books, NEW c \in Books, NEW k \in PoolBlock, k \notin ConfirmedIn(b),
         ConfirmedIn(c) = ConfirmedIn(b) \cup {k},
         \A j \in ConfirmedIn(b) : c.blocks[j].credits = b.blocks[j].credits,
         NEW m \in Miner
  PROVE  Earned(c, m) = Earned(b, m) + c.blocks[k].credits[m]
<1>1. Brings(c, m)[k] = c.blocks[k].credits[m] /\ Brings(c, m)[k] \in Nat
  BY BringsNat DEF Brings
<1>2. \A j \in ConfirmedIn(b) : Brings(b, m)[j] \in Int /\ Brings(c, m)[j] = Brings(b, m)[j]
  BY BringsNat DEF Brings
<1>3. SumFunctionOnSet(Brings(c, m), ConfirmedIn(b)) = Earned(b, m)
  BY <1>2, BringsNat, SumSame, EarnedIs
<1>4. SumFunctionOnSet(Brings(c, m), ConfirmedIn(b) \cup {k})
        = Brings(c, m)[k] + SumFunctionOnSet(Brings(c, m), ConfirmedIn(b))
  <2>1. \A j \in ConfirmedIn(b) \cup {k} : Brings(c, m)[j] \in Int
    BY BringsNat
  <2> QED BY <2>1, BringsNat, SumInsert
<1> QED BY <1>1, <1>3, <1>4, EarnedIs, EarnedNat

-----------------------------------------------------------------------------
\* Four ways a sound book becomes another: its payments and what is confirmed
\* stay as they are,
LEMMA SoundSame ==
  ASSUME NEW b, Sound(b), NEW c \in Books, c.balances = b.balances, SamePayments(b, c),
         ConfirmedIn(c) = ConfirmedIn(b),
         \A k \in PoolBlock : c.blocks[k] # NoRecord =>
           \/ b.blocks[k] # NoRecord /\ c.blocks[k].credits = b.blocks[k].credits
           \/ k \notin ConfirmedIn(c) /\ SumFunctionOnSet(c.blocks[k].credits, Miner) <= Reward
  PROVE  Sound(c)
<1>1. b \in Books
  BY DEF Sound
<1>2. \A k \in ConfirmedIn(b) : c.blocks[k].credits = b.blocks[k].credits
  BY DEF ConfirmedIn
<1>3. \A m \in Miner : c.balances[m] + Debited(c, m) = Earned(c, m)
  <2> TAKE m \in Miner
  <2>1. Debited(c, m) = Debited(b, m)
    BY <1>1, DebitedSame
  <2>2. Earned(c, m) = Earned(b, m)
    BY <1>1, <1>2, EarnedSame
  <2> QED BY <2>1, <2>2 DEF Sound
<1>4. \A k \in PoolBlock :
        c.blocks[k] # NoRecord => SumFunctionOnSet(c.blocks[k].credits, Miner) <= Reward
  BY DEF Sound
<1> QED BY <1>3, <1>4 DEF Sound

\* a block is credited,
LEMMA SoundCredited ==
  ASSUME NEW b, Sound(b), NEW c \in Books, NEW k \in PoolBlock,
         b.blocks[k] # NoRecord, b.blocks[k].status = "pending",
         c.payments = b.payments,
         \A j \in PoolBlock : j # k => c.blocks[j] = b.blocks[j],
         c.blocks[k] \in Splits, c.blocks[k].status = "confirmed",
         c.blocks[k].credits = b.blocks[k].credits,
         \A m \in Miner : c.balances[m] = b.balances[m] + b.blocks[k].credits[m]
  PROVE  Sound(c) /\ ConfirmedIn(c) = ConfirmedIn(b) \cup {k}
<1>1. b \in Books
  BY DEF Sound
<1>2. b.blocks[k] \in Splits
  BY <1>1, BooksElim
<1>4. c.blocks[k] # NoRecord
  BY PoolAssumption
<1>5. k \notin ConfirmedIn(b)
  BY DEF ConfirmedIn
<1>6. ConfirmedIn(c) = ConfirmedIn(b) \cup {k}
  BY <1>4 DEF ConfirmedIn
<1>7. \A j \in ConfirmedIn(b) : c.blocks[j].credits = b.blocks[j].credits
  BY <1>5 DEF ConfirmedIn
<1>8. \A m \in Miner : c.balances[m] + Debited(c, m) = Earned(c, m)
  <2> TAKE m \in Miner
  <2>1. Debited(c, m) = Debited(b, m)
    BY DEF Debited
  <2>2. Earned(c, m) = Earned(b, m) + b.blocks[k].credits[m]
    <3>1. Earned(c, m) = Earned(b, m) + c.blocks[k].credits[m]
      BY <1>1, <1>5, <1>6, <1>7, EarnedMore
    <3> QED BY <3>1
  <2>3. b.balances[m] + Debited(b, m) = Earned(b, m)
    BY DEF Sound
  <2>4. Debited(b, m) \in Nat /\ Earned(b, m) \in Nat /\ b.balances[m] \in Nat
    BY <1>1, DebitedNat, EarnedNat, BooksElim
  <2>5. b.blocks[k].credits[m] \in Nat
    BY <1>2 DEF Splits
  <2> QED BY <2>1, <2>2, <2>3, <2>4, <2>5
<1>9. \A j \in PoolBlock :
        c.blocks[j] # NoRecord => SumFunctionOnSet(c.blocks[j].credits, Miner) <= Reward
  BY DEF Sound
<1> QED BY <1>6, <1>8, <1>9 DEF Sound

\* a balance becomes a payment, or the last payment a balance.
LEMMA SoundPaid ==
  ASSUME NEW b \in Books, NEW c \in Books, NEW p \in Payments,
         Len(c.payments) = Len(b.payments) + 1, c.payments[Len(c.payments)] = p,
         \A i \in 1..Len(b.payments) : c.payments[i] = b.payments[i],
         c.blocks = b.blocks,
         \A m \in Miner : c.balances[m] = b.balances[m] - (IF p.to = m THEN p.amount ELSE 0)
  PROVE  Sound(b) <=> Sound(c)
<1>1. ConfirmedIn(c) = ConfirmedIn(b)
  BY DEF ConfirmedIn
<1>2. \A m \in Miner :
        c.balances[m] + Debited(c, m) = Earned(c, m) <=> b.balances[m] + Debited(b, m) = Earned(b, m)
  <2> TAKE m \in Miner
  <2>1. Debited(c, m) = Debited(b, m) + (IF p.to = m THEN p.amount ELSE 0)
    BY DebitedMore
  <2>2. Earned(c, m) = Earned(b, m)
    BY <1>1, EarnedSame
  <2>3. Debited(b, m) \in Nat /\ Earned(b, m) \in Nat /\ b.balances[m] \in Nat /\ p.amount \in Nat
    BY DebitedNat, EarnedNat, BooksElim DEF Payments
  <2>4. c.balances[m] = b.balances[m] - (IF p.to = m THEN p.amount ELSE 0)
    OBVIOUS
  <2> QED BY <2>1, <2>2, <2>3, <2>4
<1> QED BY <1>2 DEF Sound

-----------------------------------------------------------------------------
\* The newest shares are split, and no more than the reward less the cut.
Weights(shares) == [i \in DOMAIN shares |-> Counted(shares, i)]

LEMMA CountedNat ==
  ASSUME NEW s \in Seq([address : Miner, difficulty : ShareDifficulty]),
         NEW i \in DOMAIN s
  PROVE  Counted(s, i) \in Nat
<1>1. DOMAIN s = 1..Len(s) /\ Len(s) \in Nat
  OBVIOUS
<1>2. \A j \in DOMAIN s : s[j].difficulty \in Nat /\ s[j].difficulty \in Int
  <2> SUFFICES ASSUME NEW j \in DOMAIN s PROVE s[j].difficulty \in Nat
    OBVIOUS
  <2>1. s[j] \in [address : Miner, difficulty : ShareDifficulty]
    <3> DEFINE R == [address : Miner, difficulty : ShareDifficulty]
    <3>1. s \in Seq(R) /\ j \in 1..Len(s)
      BY <1>1
    <3> HIDE DEF R
    <3>2. s[j] \in R
      BY <3>1, ElementOfSeq
    <3> QED BY <3>2 DEF R
  <2>2. s[j].difficulty \in ShareDifficulty
    BY <2>1
  <2> QED BY <2>2, PoolAssumption
<1> DEFINE d == [j \in DOMAIN s |-> s[j].difficulty]
           w == WorkFrom(s, i + 1)
           x == Min({s[i].difficulty, ShareWindow - w})
<1>3. w \in Int
  <2>0. i \in Nat /\ i + 1 \in Int /\ i >= 1
    BY <1>1
  <2>1. IsFiniteSet((i+1)..Len(s)) /\ (i+1)..Len(s) \subseteq DOMAIN s
    <3>1. IsFiniteSet((i+1)..Len(s))
      BY <1>1, <2>0, FS_Interval
    <3> QED BY <1>1, <2>0, <3>1
  <2>2. \A j \in (i+1)..Len(s) : d[j] \in Int
    BY <1>2, <2>1
  <2>3. w = SumFunctionOnSet(d, (i+1)..Len(s))
    BY DEF WorkFrom
  <2> HIDE DEF d, w
  <2> QED BY <2>1, <2>2, <2>3, SumType
<1>4. x \in Int
  <2> DEFINE two == {s[i].difficulty, ShareWindow - w}
  <2>1. two \subseteq Int /\ two # {}
    BY <1>2, <1>3, PoolAssumption
  <2>2. \E y \in two : \A z \in two : y <= z
    <3>1. s[i].difficulty \in Int /\ ShareWindow - w \in Int
      BY <1>2, <1>3, PoolAssumption
    <3> HIDE DEF w
    <3>2. s[i].difficulty <= ShareWindow - w \/ ShareWindow - w <= s[i].difficulty
      BY <3>1
    <3>3. s[i].difficulty <= s[i].difficulty /\ ShareWindow - w <= ShareWindow - w
      BY <3>1
    <3> QED BY <3>2, <3>3
  <2>3. x \in two
    BY <2>2 DEF Min
  <2> HIDE DEF x, two
  <2> QED BY <2>1, <2>3
<1> HIDE DEF x
<1>6. Max({0, x}) \in {0, x} /\ Max({0, x}) >= 0
  <2>1. \E y \in {0, x} : \A z \in {0, x} : y >= z
    BY <1>4
  <2> QED BY <2>1 DEF Max
<1>7. Max({0, x}) \in Nat
  BY <1>4, <1>6
<1> QED BY <1>7 DEF Counted, x

LEMMA ProductOrder ==
  ASSUME NEW s \in Nat \ {0}, NEW x \in Int, NEW k \in Int, s * x <= s * k
  PROVE  x <= k
<1> SUFFICES ASSUME x >= k + 1 PROVE FALSE
  OBVIOUS
<1>1. x - k >= 1 /\ s >= 1
  OBVIOUS
<1>2. \A a, b \in Int : a >= 1 /\ b >= 1 => a * b >= 1
  OBVIOUS
<1>3. s * (x - k) >= 1
  BY <1>1, <1>2
<1>4. s * (x - k) = s * x - s * k
  OBVIOUS
<1>5. s * x \in Int /\ s * k \in Int
  OBVIOUS
<1> QED BY <1>3, <1>4, <1>5

\* A part of a whole: k times w over s, rounded down.
LEMMA Rounded ==
  ASSUME NEW k \in Nat, NEW w \in Nat, NEW s \in Nat \ {0}
  PROVE  /\ (k * w) \div s \in Nat
         /\ s * ((k * w) \div s) <= k * w
<1>1. k * w \in Nat
  OBVIOUS
<1>2. \A x \in Nat : x \div s \in Nat /\ s * (x \div s) <= x
  OBVIOUS
<1> QED BY <1>1, <1>2

LEMMA CreditsSplit ==
  ASSUME NEW shares \in Seq([address : Miner, difficulty : ShareDifficulty])
  PROVE  Credits(shares) \in [Miner -> Nat] /\ SumFunctionOnSet(Credits(shares), Miner) <= Reward
<1> DEFINE c == Weights(shares)
           S == DOMAIN shares
           s == SumFunctionOnSet(c, S)
           Of(m) == {i \in S : shares[i].address = m}
           w == [m \in Miner |-> SumFunctionOnSet(c, Of(m))]
           k == Reward - Cut
           key == [i \in S |-> shares[i].address]
           r == Credits(shares)
<1>1. IsFiniteSet(S) /\ IsFiniteSet(Miner) /\ k \in Nat /\ k <= Reward /\ Reward \in Nat
  <2>1. S = 1..Len(shares) /\ Len(shares) \in Nat
    OBVIOUS
  <2>2. IsFiniteSet(1..Len(shares))
    BY <2>1, FS_Interval
  <2> QED BY <2>1, <2>2, PoolAssumption
<1>2. \A i \in S : c[i] \in Nat
  BY CountedNat DEF Weights
<1>3. \A i \in S : key[i] \in Miner
  <2> SUFFICES ASSUME NEW i \in S PROVE shares[i].address \in Miner
    OBVIOUS
  <2> DEFINE R == [address : Miner, difficulty : ShareDifficulty]
  <2>1. shares \in Seq(R) /\ i \in 1..Len(shares)
    OBVIOUS
  <2> HIDE DEF R
  <2>2. shares[i] \in R
    BY <2>1, ElementOfSeq
  <2> QED BY <2>2 DEF R
<1>4. r = [m \in Miner |-> IF s = 0 THEN 0 ELSE (k * w[m]) \div s]
  BY DEF Credits, Weights
<1>5. \A m \in Miner : w[m] \in Nat
  <2> TAKE m \in Miner
  <2>1. IsFiniteSet(Of(m)) /\ \A i \in Of(m) : c[i] \in Nat
    BY <1>1, <1>2, FS_Subset
  <2> HIDE DEF c
  <2> QED BY <2>1, SumNat
<1>6. s \in Nat
  <2> HIDE DEF c, S
  <2> QED BY <1>1, <1>2, SumNat
<1>7. SumFunctionOnSet(w, Miner) = s
  <2> DEFINE part == [m \in Miner |-> Of(m)]
  <2>1. \A m \in Miner : part[m] \subseteq S /\ w[m] = SumFunctionOnSet(c, part[m])
    OBVIOUS
  <2>2. \A i \in S : \E m \in Miner : i \in part[m] /\ \A n \in Miner : i \in part[n] => n = m
    BY <1>3
  <2>3. \A i \in S : c[i] \in Int
    BY <1>2
  <2>4. IsFiniteSet(S) /\ IsFiniteSet(Miner)
    BY <1>1
  <2> HIDE DEF c, S, w, key, k, r, Of, part
  <2> QED BY <2>1, <2>2, <2>3, <2>4, SumParts
<1> HIDE DEF c, S, s, w, k, r
<1>8. CASE s = 0
  <2>1. \A m \in Miner : r[m] = 0
    BY <1>4, <1>8
  <2>2. SumFunctionOnSet(r, Miner) = 0
    BY <1>1, <2>1, SumZero
  <2> QED BY <1>1, <1>4, <1>8, <2>2 DEF r
<1>9. CASE s # 0
  <2>1. \A m \in Miner : r[m] \in Nat /\ s * r[m] <= k * w[m]
    <3> TAKE m \in Miner
    <3>1. r[m] = (k * w[m]) \div s
      BY <1>4, <1>9
    <3> QED BY <1>1, <1>5, <1>6, <1>9, <3>1, Rounded
  <2> DEFINE f == [m \in Miner |-> s * r[m]]
             g == [m \in Miner |-> k * w[m]]
  <2>2. SumFunctionOnSet(f, Miner) = s * SumFunctionOnSet(r, Miner)
    <3>1. s \in Int /\ \A m \in Miner : r[m] \in Int /\ f[m] = s * r[m]
      BY <1>6, <2>1
    <3> HIDE DEF f
    <3> QED BY <1>1, <3>1, SumTimes
  <2>3. SumFunctionOnSet(g, Miner) = k * s
    <3>1. k \in Int /\ \A m \in Miner : w[m] \in Int /\ g[m] = k * w[m]
      BY <1>1, <1>5
    <3> HIDE DEF g
    <3> QED BY <1>1, <1>7, <3>1, SumTimes
  <2>4. SumFunctionOnSet(f, Miner) <= SumFunctionOnSet(g, Miner)
    <3>1. \A m \in Miner : f[m] \in Int /\ g[m] \in Int /\ f[m] <= g[m]
      <4> TAKE m \in Miner
      <4>1. s \in Nat /\ k \in Nat /\ r[m] \in Nat /\ w[m] \in Nat
        BY <1>1, <1>5, <1>6, <2>1
      <4>2. s * r[m] \in Int /\ k * w[m] \in Int
        BY <4>1
      <4> QED BY <2>1, <4>2
    <3> HIDE DEF f, g
    <3> QED BY <1>1, <3>1, SumLess
  <2>5. SumFunctionOnSet(r, Miner) \in Nat
    BY <1>1, <2>1, SumNat
  <2>6. k * s = s * k
    BY <1>1, <1>6
  <2>7. SumFunctionOnSet(r, Miner) <= k
    <3> HIDE DEF f, g
    <3>1. s * SumFunctionOnSet(r, Miner) <= s * k
      BY <2>2, <2>3, <2>4, <2>6
    <3>2. s \in Nat \ {0} /\ k \in Int /\ SumFunctionOnSet(r, Miner) \in Int
      BY <1>1, <1>6, <1>9, <2>5
    <3> QED BY <3>1, <3>2, ProductOrder
  <2>8. r \in [Miner -> Nat]
    BY <1>4, <2>1
  <2> QED BY <1>1, <2>5, <2>7, <2>8 DEF r
<1> QED BY <1>8, <1>9

\* Trimming the log leaves a log.
LEMMA TrimmedLog ==
  ASSUME NEW R, NEW shares \in Seq(R)
  PROVE  Trimmed(shares) \in Seq(R)
<1> DEFINE enough == {i \in DOMAIN shares : WorkFrom(shares, i) >= 2 * ShareWindow}
<1>1. CASE enough = {}
  BY <1>1 DEF Trimmed
<1>2. CASE enough # {}
  <2>1. DOMAIN shares = 1..Len(shares) /\ Len(shares) \in Nat
    OBVIOUS
  <2>2. enough \subseteq 1..Len(shares) /\ IsFiniteSet(1..Len(shares))
    BY <2>1, FS_Interval
  <2>3. IsFiniteSet(enough) /\ enough \in SUBSET Int
    BY <2>2, FS_Subset
  <2> HIDE DEF enough
  <2>4. Max(enough) \in enough
    BY <1>2, <2>3, MaxIsGreatest
  <2>5. Max(enough) \in 1..Len(shares) /\ Max(enough) \in Int /\ Len(shares) \in Int
    <3>1. Max(enough) \in 1..Len(shares)
      BY <2>2, <2>4
    <3> HIDE DEF Max
    <3> QED BY <2>1, <3>1
  <2>6. \A i \in Max(enough)..Len(shares) : shares[i] \in R
    BY <2>1, <2>5, ElementOfSeq
  <2>7. SubSeq(shares, Max(enough), Len(shares)) \in Seq(R)
    BY <2>5, <2>6, SubSeqProperties
  <2> QED BY <1>2, <2>7 DEF Trimmed, enough
<1> QED BY <1>1, <1>2

LEMMA LoggedBook ==
  ASSUME book \in Books, NEW m \in Miner, NEW d \in ShareDifficulty
  PROVE  /\ Logged(m, d) \in Books
         /\ Logged(m, d).blocks = book.blocks /\ Logged(m, d).balances = book.balances
         /\ Logged(m, d).payments = book.payments
<1> DEFINE R == [address : Miner, difficulty : ShareDifficulty]
           s == Append(book.shares, [address |-> m, difficulty |-> d])
           t == Trimmed(s)
<1>1. Logged(m, d) = [book EXCEPT !.shares = t]
  BY DEF Logged
<1>2. t \in Seq(R)
  <2>1. book.shares \in Seq(R) /\ [address |-> m, difficulty |-> d] \in R
    BY BooksElim
  <2> HIDE DEF R
  <2>2. s \in Seq(R)
    BY <2>1
  <2> HIDE DEF s
  <2> QED BY <2>2, TrimmedLog
<1> HIDE DEF t
<1> QED BY <1>1, <1>2 DEF Books

-----------------------------------------------------------------------------
\* What a step leaves of a book that does not change.
LEMMA FitsOn ==
  ASSUME NEW b, NEW c, NEW f, NEW a, NEW t, NEW c2, NEW f2, NEW a2, NEW t2,
         Fits(b, c, f, a, t),
         \A k \in PoolBlock : f[k] # 0 /\ k \notin a => f2[k] = f[k] /\ k \notin a2,
         \A k \in PoolBlock : f[k] # 0 /\ Buried(k, c, f, t) => Buried(k, c2, f2, t2)
  PROVE  Fits(b, c2, f2, a2, t2)
<1>1. \A k \in ConfirmedIn(b) : k \in PoolBlock /\ b.blocks[k] # NoRecord /\ Buried(k, c, f, t)
  BY DEF Fits, ConfirmedIn
<1>2. \A k \in PoolBlock : f[k] = 0 \/ k \in a => b.blocks[k] = NoRecord
  BY DEF Fits
<1> QED BY <1>1, <1>2 DEF Fits

\* No step takes a buried block out of the chain, or asks again about a block
\* that was answered.
LEMMA Onward ==
  ASSUME PoolTypeOK, AskedFor(work, foundAt, asking), PoolNext
  PROVE  /\ poolTip' \in Nat /\ poolTip <= poolTip' /\ AskedFor(work', foundAt', asking')
         /\ \A k \in PoolBlock :
              foundAt[k] # 0 /\ k \notin asking => foundAt'[k] = foundAt[k] /\ k \notin asking'
         /\ \A k \in PoolBlock :
              foundAt[k] # 0 /\ Buried(k, canon, foundAt, poolTip)
                => Buried(k, canon', foundAt', poolTip')
<1>1. /\ poolTip \in Nat /\ foundAt \in [PoolBlock -> Nat] /\ canon \subseteq taken /\ taken \subseteq PoolBlock
      /\ Maturity \in Nat /\ ReorgDepth \in Nat /\ ReorgDepth <= Maturity
  BY PoolAssumption DEF PoolTypeOK
<1>2. CASE UNCHANGED <<foundAt, canon, poolTip>> /\ asking' \subseteq asking /\ work' \in {work, poolTip + 1}
  BY <1>1, <1>2 DEF Buried, AskedFor
<1>3. CASE \E m \in Miner, d \in ShareDifficulty : \E b \in PoolBlock : Win(m, d, b)
  <2>1. PICK b \in PoolBlock : /\ foundAt[b] = 0 /\ foundAt' = [foundAt EXCEPT ![b] = work]
                               /\ asking' = asking \cup {b} /\ UNCHANGED chain /\ UNCHANGED work
    BY <1>3 DEF Win
  <2> QED BY <1>1, <2>1 DEF Buried, chain, AskedFor
<1>4. CASE \E b \in PoolBlock : NodeTakes(b)
  <2>1. /\ UNCHANGED <<foundAt, asking, work>> /\ canon \subseteq canon'
        /\ poolTip' = poolTip + 1 \/ poolTip' = poolTip
    BY <1>4 DEF NodeTakes
  <2> QED BY <1>1, <2>1 DEF Buried, AskedFor
<1>5. CASE ChainGrows
  <2>1. UNCHANGED <<foundAt, asking, canon, work>> /\ poolTip' = poolTip + 1
    BY <1>5 DEF ChainGrows
  <2> QED BY <1>1, <2>1 DEF Buried, AskedFor
<1>6. CASE \E h \in 1..poolTip : ChainReorganises(h)
  <2>1. PICK h \in 1..poolTip : ChainReorganises(h)
    BY <1>6
  <2>2. /\ UNCHANGED <<foundAt, asking, poolTip, work>> /\ h > poolTip - ReorgDepth
        /\ \A k \in canon : foundAt[k] < h => k \in canon'
    BY <2>1 DEF ChainReorganises
  <2>3. \A k \in PoolBlock : foundAt[k] + Maturity <= poolTip => foundAt[k] < h
    BY <1>1, <2>2
  <2> QED BY <1>1, <2>2, <2>3 DEF Buried, AskedFor
<1>7. \/ \E m \in Miner, d \in ShareDifficulty : \E b \in PoolBlock : Win(m, d, b)
      \/ \E b \in PoolBlock : NodeTakes(b)
      \/ ChainGrows
      \/ \E h \in 1..poolTip : ChainReorganises(h)
      \/ UNCHANGED <<foundAt, canon, poolTip>> /\ asking' \subseteq asking /\ work' \in {work, poolTip + 1}
  <2>1. ASSUME NEW m \in Miner, NEW d \in ShareDifficulty, Share(m, d)
        PROVE  UNCHANGED <<foundAt, canon, poolTip, asking>> /\ work' \in {work, poolTip + 1}
    BY <2>1 DEF Share, chain
  <2>2. ASSUME NEW b \in PoolBlock, Recorded(b) \/ NotRecorded(b) \/ ConfirmBlock(b)
        PROVE  UNCHANGED <<foundAt, canon, poolTip>> /\ asking' \subseteq asking /\ work' \in {work, poolTip + 1}
    BY <2>2 DEF Recorded, NotRecorded, ConfirmBlock, chain
  <2>3. ASSUME RefreshWork \/ ConfirmStart \/ ConfirmEnd \/ ConfirmFails
        PROVE  UNCHANGED <<foundAt, canon, poolTip, asking>> /\ work' \in {work, poolTip + 1}
    BY <2>3 DEF RefreshWork, ConfirmStart, ConfirmEnd, ConfirmFails, chain
  <2>4. ASSUME PayoutStart \/ Owe \/ ReadNonce \/ ReadWallet \/ PayoutEnd \/ PayoutFails
        PROVE  UNCHANGED <<foundAt, canon, poolTip, asking>> /\ work' \in {work, poolTip + 1}
    BY <2>4 DEF PayoutStart, Owe, ReadNonce, ReadWallet, PayoutEnd, PayoutFails, chain
  <2>5. ASSUME NEW i \in DOMAIN book.payments, CheckPayment(i)
        PROVE  UNCHANGED <<foundAt, canon, poolTip, asking>> /\ work' \in {work, poolTip + 1}
    BY <2>5 DEF CheckPayment, chain
  <2>6. ASSUME NEW m \in Miner, Send(m)
        PROVE  UNCHANGED <<foundAt, canon, poolTip, asking>> /\ work' \in {work, poolTip + 1}
    BY <2>6 DEF Send, chain
  <2>7. ASSUME Reaches \/ Accepted \/ Failed \/ Save
        PROVE  UNCHANGED <<foundAt, canon, poolTip, asking>> /\ work' \in {work, poolTip + 1}
    BY <2>7 DEF Reaches, Accepted, Failed, Save, chain
  <2>8. ASSUME Crash
        PROVE  UNCHANGED <<foundAt, canon, poolTip>> /\ asking' \subseteq asking /\ work' \in {work, poolTip + 1}
    BY <2>8 DEF Crash, chain
  <2>9. ASSUME NEW tx, MinePayment(tx) \/ Forget(tx)
        PROVE  UNCHANGED <<foundAt, canon, poolTip, asking>> /\ work' \in {work, poolTip + 1}
    BY <2>9 DEF MinePayment, Forget, chain
  <2> QED BY <2>1, <2>2, <2>3, <2>4, <2>5, <2>6, <2>7, <2>8, <2>9 DEF PoolNext
<1> QED BY <1>2, <1>3, <1>4, <1>5, <1>6, <1>7

LEMMA ConfirmStays ==
  ASSUME NEW c, NEW b, NEW t, ConfirmAgrees(c, b, t), NEW b2, NEW t2,
         c = NoRecord \/ c \in [tip : Nat, todo : SUBSET PoolBlock],
         t \in Nat, t2 \in Nat, t <= t2,
         \A k \in PoolBlock : b.blocks[k] # NoRecord => b2.blocks[k] = b.blocks[k]
  PROVE  ConfirmAgrees(c, b2, t2)
<1>1. CASE c = NoRecord
  BY <1>1 DEF ConfirmAgrees
<1>2. CASE c # NoRecord
  <2>1. c.tip \in Nat /\ c.todo \subseteq PoolBlock
    BY <1>2
  <2> QED BY <1>2, <2>1 DEF ConfirmAgrees
<1> QED BY <1>1, <1>2

LEMMA RoundStays ==
  ASSUME NEW r, NEW b \in Books, RoundAgrees(r, b), NEW b2 \in Books, SamePayments(b, b2),
         \A m \in Miner : b.balances[m] <= b2.balances[m]
  PROVE  RoundAgrees(r, b2)
<1>1. CASE r = NoRecord
  BY <1>1 DEF RoundAgrees
<1>2. CASE r # NoRecord
  <2>1. /\ r \in Rounds
        /\ r.nonce # NoRecord => r.due # NoRecord
        /\ r.wallet # NoRecord => r.nonce # NoRecord
        /\ r.sending # 0 => r.wallet # NoRecord /\ r.sending = Len(b.payments)
        /\ r.due # NoRecord =>
             \A m \in DOMAIN r.due :
               \/ r.sending # 0 /\ m = b.payments[r.sending].to
               \/ r.due[m] <= b.balances[m]
    BY <1>2 DEF RoundAgrees
  <2>2. Len(b2.payments) = Len(b.payments)
    BY DEF SamePayments
  <2>3. r.sending \in Nat /\ r.due \in Dues
    BY <2>1 DEF Rounds
  <2>4. r.sending # 0 => b2.payments[r.sending].to = b.payments[r.sending].to
    <3> HAVE r.sending # 0
    <3>1. r.sending \in 1..Len(b.payments)
      BY <2>1, <2>3
    <3>2. TxOf(b.payments[r.sending]) = TxOf(b2.payments[r.sending])
      BY <3>1 DEF SamePayments
    <3>3. \A p : TxOf(p).to = p.to
      BY DEF TxOf
    <3>4. TxOf(b.payments[r.sending]).to = TxOf(b2.payments[r.sending]).to
      BY <3>2
    <3> QED BY <3>3, <3>4
  <2>5. r.due # NoRecord =>
          \A m \in DOMAIN r.due :
            \/ r.sending # 0 /\ m = b2.payments[r.sending].to
            \/ r.due[m] <= b2.balances[m]
    <3> HAVE r.due # NoRecord
    <3> TAKE m \in DOMAIN r.due
    <3>1. m \in Miner /\ r.due[m] \in Nat
      BY <2>3, DuesElim
    <3>2. b.balances[m] \in Nat /\ b2.balances[m] \in Nat /\ b.balances[m] <= b2.balances[m]
      BY <3>1, BooksElim
    <3> QED BY <2>1, <2>4, <3>1, <3>2
  <2> QED BY <1>2, <2>1, <2>2, <2>5 DEF RoundAgrees
<1> QED BY <1>1, <1>2

LEMMA StrayStays ==
  ASSUME NEW x, NEW u, NEW p, NEW b, NoneStray(x, u, p, b), NEW x2, NEW u2, NEW p2, NEW b2,
         x \subseteq x2, u2 \cup p2 \subseteq u \cup p, SamePayments(b, b2)
  PROVE  NoneStray(x2, u2, p2, b2)
BY DEF NoneStray, SamePayments

LEMMA SameRefl == ASSUME NEW b PROVE SamePayments(b, b)
BY DEF SamePayments

LEMMA SameSym == ASSUME NEW b, NEW c, SamePayments(b, c) PROVE SamePayments(c, b)
BY DEF SamePayments

LEMMA SameTrans ==
  ASSUME NEW b, NEW c, NEW d, SamePayments(b, c), SamePayments(c, d) PROVE SamePayments(b, d)
BY DEF SamePayments

\* The invariant of the next state, part by part.
LEMMA InvPrimed ==
  ASSUME PoolTypeOK', IsFiniteSet(unmined'), IsFiniteSet(minedPayments'),
         Sound(book'), Sound(disk'), AskedFor(work', foundAt', asking'),
         Fits(book', canon', foundAt', asking', poolTip'),
         Fits(disk', canon', foundAt', asking', poolTip'),
         SamePayments(disk', book'),
         ConfirmAgrees(confirm', book', poolTip'),
         RoundAgrees(round', book'),
         NoneStray(unheard', unmined', minedPayments', book')
  PROVE  PoolInv'
BY DEF PoolInv, Sound, Fits, Buried, ConfirmedIn, Earned, Debited, SamePayments, TxOf, ConfirmAgrees,
       RoundAgrees, NoneStray, AskedFor

\* A step that writes no book, but for saving it,
LEMMA Quiet ==
  ASSUME PoolInv, PoolNext, book' = book, disk' = disk \/ disk' = book,
         PoolTypeOK', IsFiniteSet(unmined'), IsFiniteSet(minedPayments'),
         ConfirmAgrees(confirm', book, poolTip'), RoundAgrees(round', book),
         NoneStray(unheard', unmined', minedPayments', book)
  PROVE  PoolInv'
<1>1. /\ PoolTypeOK /\ AskedFor(work, foundAt, asking)
      /\ Sound(book) /\ Sound(disk) /\ SamePayments(disk, book)
      /\ Fits(book, canon, foundAt, asking, poolTip) /\ Fits(disk, canon, foundAt, asking, poolTip)
  BY DEF PoolInv
<1>2. /\ Fits(book, canon', foundAt', asking', poolTip')
      /\ Fits(disk, canon', foundAt', asking', poolTip')
  BY <1>1, Onward, FitsOn
<1>4. AskedFor(work', foundAt', asking')
  BY <1>1, Onward
<1>3. Sound(disk') /\ Fits(disk', canon', foundAt', asking', poolTip') /\ SamePayments(disk', book)
  BY <1>1, <1>2, SameRefl
<1> QED BY <1>1, <1>2, <1>3, <1>4, InvPrimed

\* and one that writes a book with the same payments.
LEMMA Written ==
  ASSUME PoolInv, PoolNext, disk' = disk \/ disk' = book', PoolTypeOK',
         Sound(book'), Fits(book', canon', foundAt', asking', poolTip'),
         SamePayments(book, book'),
         unheard' = unheard, unmined' \cup minedPayments' \subseteq unmined \cup minedPayments,
         IsFiniteSet(unmined'), IsFiniteSet(minedPayments'),
         ConfirmAgrees(confirm', book', poolTip'), RoundAgrees(round', book')
  PROVE  PoolInv'
<1>1. /\ PoolTypeOK /\ AskedFor(work, foundAt, asking)
      /\ Sound(disk) /\ SamePayments(disk, book)
      /\ Fits(disk, canon, foundAt, asking, poolTip) /\ NoneStray(unheard, unmined, minedPayments, book)
  BY DEF PoolInv
<1>2. Fits(disk, canon', foundAt', asking', poolTip')
  BY <1>1, Onward, FitsOn
<1>3. SamePayments(disk, book')
  BY <1>1, SameTrans
<1>4. Sound(disk') /\ Fits(disk', canon', foundAt', asking', poolTip') /\ SamePayments(disk', book')
  BY <1>1, <1>2, <1>3, SameRefl
<1>5. NoneStray(unheard', unmined', minedPayments', book')
  BY <1>1, StrayStays
<1>6. AskedFor(work', foundAt', asking')
  BY <1>1, Onward
<1> QED BY <1>4, <1>5, <1>6, InvPrimed

-----------------------------------------------------------------------------
LEMMA InitInv == PoolInit => PoolInv
<1> SUFFICES ASSUME PoolInit PROVE PoolInv
  OBVIOUS
<1>1. /\ book = [shares |-> << >>, blocks |-> [b \in PoolBlock |-> NoRecord],
                 balances |-> [m \in Miner |-> 0], payments |-> << >>]
      /\ disk = book /\ confirm = NoRecord /\ round = NoRecord
      /\ unmined = {} /\ minedPayments = {} /\ unheard = {} /\ canon = {} /\ taken = {} /\ asking = {}
      /\ work = 1 /\ poolTip = 0 /\ poolFaults = 0 /\ foundAt = [b \in PoolBlock |-> 0]
  BY DEF PoolInit
<1>2. book \in Books
  BY <1>1 DEF Books
<1>3. PoolTypeOK /\ IsFiniteSet(unmined) /\ IsFiniteSet(minedPayments)
  BY <1>1, <1>2, FS_EmptySet DEF PoolTypeOK
<1>4. ConfirmedIn(book) = {}
  BY <1>1 DEF ConfirmedIn
<1>5. Sound(book)
  <2>1. \A m \in Miner : Earned(book, m) = 0
    BY <1>4, EarnedIs, SumEmpty
  <2>2. \A m \in Miner : Debited(book, m) = 0
    <3> TAKE m \in Miner
    <3>1. Places(book, m) = {}
      BY <1>1 DEF Places
    <3> QED BY <3>1, DebitedIs, SumEmpty
  <2>3. \A m \in Miner : book.balances[m] = 0
    BY <1>1
  <2>4. \A k \in PoolBlock : book.blocks[k] = NoRecord
    BY <1>1
  <2> QED BY <1>2, <2>1, <2>2, <2>3, <2>4 DEF Sound
<1>6. Fits(book, canon, foundAt, asking, poolTip) /\ AskedFor(work, foundAt, asking)
  BY <1>1, <1>4 DEF Fits, AskedFor
<1>7. SamePayments(disk, book) /\ ConfirmAgrees(confirm, book, poolTip) /\ RoundAgrees(round, book)
  BY <1>1, SameRefl DEF ConfirmAgrees, RoundAgrees
<1>8. NoneStray(unheard, unmined, minedPayments, book)
  BY <1>1 DEF NoneStray
<1> QED BY <1>1, <1>3, <1>5, <1>6, <1>7, <1>8 DEF PoolInv

\* The parts that most steps leave alone.
LEMMA Parts ==
  ASSUME PoolInv
  PROVE  /\ PoolTypeOK /\ book \in Books /\ disk \in Books /\ poolTip \in Nat
         /\ confirm = NoRecord \/ confirm \in [tip : Nat, todo : SUBSET PoolBlock]
         /\ IsFiniteSet(unmined) /\ IsFiniteSet(minedPayments)
         /\ unmined \subseteq PaymentTx /\ minedPayments \subseteq PaymentTx
         /\ unheard \subseteq PaymentTx
         /\ Sound(book) /\ Sound(disk) /\ AskedFor(work, foundAt, asking)
         /\ Fits(book, canon, foundAt, asking, poolTip)
         /\ SamePayments(disk, book)
         /\ ConfirmAgrees(confirm, book, poolTip) /\ RoundAgrees(round, book)
         /\ NoneStray(unheard, unmined, minedPayments, book)
BY DEF PoolInv, PoolTypeOK

\* The steps that neither write the book nor move the chain or the wallet,
LEMMA NotRecordedStep ==
  ASSUME PoolInv, PoolNext, NEW b \in PoolBlock, NotRecorded(b)
  PROVE  PoolInv'
<1>1. /\ UNCHANGED <<book, disk, work, foundAt, confirm, round, poolTip, taken, canon>>
      /\ UNCHANGED <<unmined, minedPayments, unheard, poolFaults>>
      /\ asking' \subseteq asking
  BY DEF NotRecorded, chain, wallet
<1>2. PoolTypeOK'
  BY <1>1, Parts DEF PoolTypeOK
<1> QED BY <1>1, <1>2, Parts, Quiet

LEMMA RefreshWorkStep ==
  ASSUME PoolInv, PoolNext, RefreshWork
  PROVE  PoolInv'
<1>1. /\ UNCHANGED <<book, disk, foundAt, asking, confirm, round, poolTip, taken, canon>>
      /\ UNCHANGED <<unmined, minedPayments, unheard, poolFaults>>
      /\ work' = poolTip + 1
  BY DEF RefreshWork, chain, wallet
<1>2. PoolTypeOK'
  BY <1>1, Parts DEF PoolTypeOK
<1> QED BY <1>1, <1>2, Parts, Quiet

\* of confirmBlocks,
LEMMA ConfirmStartStep ==
  ASSUME PoolInv, PoolNext, ConfirmStart
  PROVE  PoolInv'
<1>1. /\ UNCHANGED <<book, disk, work, foundAt, asking, round, poolTip, taken, canon>>
      /\ UNCHANGED <<unmined, minedPayments, unheard, poolFaults>>
      /\ confirm' = [tip |-> poolTip, todo |-> Pending]
  BY DEF ConfirmStart, chain, wallet
<1>2. PoolTypeOK'
  <2>1. Pending \subseteq PoolBlock
    BY DEF Pending
  <2> QED BY <1>1, <2>1, Parts DEF PoolTypeOK
<1>3. ConfirmAgrees(confirm', book, poolTip')
  BY <1>1, Parts DEF ConfirmAgrees, Pending
<1> QED BY <1>1, <1>2, <1>3, Parts, Quiet

LEMMA ConfirmEndStep ==
  ASSUME PoolInv, PoolNext, ConfirmEnd \/ ConfirmFails
  PROVE  PoolInv'
<1>1. /\ UNCHANGED <<book, work, foundAt, asking, round, poolTip, taken, canon>>
      /\ UNCHANGED <<unmined, minedPayments, unheard, poolFaults>>
      /\ confirm' = NoRecord /\ disk' \in {book, disk}
  BY DEF ConfirmEnd, ConfirmFails, chain, wallet
<1>2. PoolTypeOK'
  BY <1>1, Parts DEF PoolTypeOK
<1>3. ConfirmAgrees(confirm', book, poolTip')
  BY <1>1 DEF ConfirmAgrees
<1> QED BY <1>1, <1>2, <1>3, Parts, Quiet

\* of payout,
LEMMA PayoutEndStep ==
  ASSUME PoolInv, PoolNext, PayoutEnd \/ PayoutFails
  PROVE  PoolInv'
<1>1. /\ UNCHANGED <<book, work, foundAt, asking, confirm, poolTip, taken, canon>>
      /\ UNCHANGED <<unmined, minedPayments, unheard, poolFaults>>
      /\ round' = NoRecord /\ disk' \in {book, disk}
  BY DEF PayoutEnd, PayoutFails, chain, wallet
<1>2. PoolTypeOK'
  BY <1>1, Parts DEF PoolTypeOK
<1>3. RoundAgrees(round', book)
  BY <1>1 DEF RoundAgrees
<1> QED BY <1>1, <1>2, <1>3, Parts, Quiet

LEMMA PayoutStartStep ==
  ASSUME PoolInv, PoolNext, PayoutStart
  PROVE  PoolInv'
<1>1. /\ UNCHANGED <<book, disk, work, foundAt, asking, confirm, poolTip, taken, canon>>
      /\ UNCHANGED <<unmined, minedPayments, unheard, poolFaults>>
      /\ round' = [check |-> Sent, due |-> NoRecord, nonce |-> NoRecord,
                   wallet |-> NoRecord, sending |-> 0]
  BY DEF PayoutStart, chain, wallet
<1>2. PoolTypeOK'
  BY <1>1, Parts DEF PoolTypeOK
<1>3. RoundAgrees(round', book)
  <2>1. Sent \subseteq Nat
    BY Parts, BooksElim DEF Sent
  <2>2. round' \in Rounds
    BY <1>1, <2>1 DEF Rounds, Dues
  <2> QED BY <1>1, <2>2 DEF RoundAgrees
<1> QED BY <1>1, <1>2, <1>3, Parts, Quiet

LEMMA IncomeNat == ASSUME PoolInv PROVE Income \in Nat /\ Amounts(minedPayments) \in Nat
<1>1. IsFiniteSet(canon)
  <2>1. IsFiniteSet(PoolBlock) /\ canon \subseteq PoolBlock
    BY Parts, FinitePlaces DEF PoolTypeOK
  <2> QED BY <2>1, FS_Subset
<1>2. Income \in Nat
  BY <1>1, FS_CardinalityType, PoolAssumption DEF Income
<1> DEFINE f == [tx \in minedPayments |-> tx.amount]
<1>3. \A tx \in minedPayments : f[tx] \in Nat
  BY Parts DEF PaymentTx
<1> HIDE DEF f
<1>4. SumFunctionOnSet(f, minedPayments) \in Nat
  BY <1>3, Parts, SumNat
<1> QED BY <1>2, <1>4 DEF Amounts, f

LEMMA PendingNonceNat == ASSUME PoolInv PROVE PendingNonce \in Nat
<1> DEFINE f == [tx \in unmined |-> tx.nonce + 1]
           T == {tx.nonce + 1 : tx \in unmined}
           n == Cardinality(minedPayments)
<1>1. n \in Nat
  BY Parts, FS_CardinalityType
<1>2. T \subseteq Nat
  BY Parts DEF PaymentTx
<1>3. IsFiniteSet(T)
  <2>1. T = {f[tx] : tx \in unmined}
    OBVIOUS
  <2> HIDE DEF T, f
  <2> QED BY <2>1, Parts, ImageFinite
<1> HIDE DEF T, n
<1>4. {n} \cup T \in SUBSET Int /\ IsFiniteSet({n} \cup T) /\ {n} \cup T # {}
  <2>1. IsFiniteSet({n})
    BY FS_Singleton
  <2>2. IsFiniteSet({n} \cup T)
    BY <1>3, <2>1, FS_Union
  <2> QED BY <1>1, <1>2, <2>2
<1>5. Max({n} \cup T) \in {n} \cup T
  BY <1>4, MaxIsGreatest
<1>6. PendingNonce = Max({n} \cup T)
  BY DEF PendingNonce, n, T
<1> QED BY <1>1, <1>2, <1>5, <1>6

LEMMA OweStep ==
  ASSUME PoolInv, PoolNext, Owe
  PROVE  PoolInv'
<1> DEFINE d == [m \in Creditors |-> book.balances[m]]
<1>1. /\ UNCHANGED <<book, work, foundAt, asking, confirm, poolTip, taken, canon>>
      /\ UNCHANGED <<unmined, minedPayments, unheard, poolFaults>>
      /\ round # NoRecord /\ round.due = NoRecord
      /\ round' = NoRecord \/ round' = [round EXCEPT !.due = d]
      /\ disk' = book
  BY DEF Owe, chain, wallet
<1>2. PoolTypeOK'
  BY <1>1, Parts DEF PoolTypeOK
<1>3. CASE round' = NoRecord
  BY <1>1, <1>2, <1>3, Parts, Quiet DEF RoundAgrees
<1>4. CASE round' = [round EXCEPT !.due = d]
  <2>1. /\ round \in Rounds /\ round.nonce = NoRecord /\ round.wallet = NoRecord
        /\ round.sending = 0
    BY <1>1, Parts DEF RoundAgrees
  <2>2. Creditors \in SUBSET Miner /\ \A m \in Creditors : book.balances[m] \in Nat
    BY Parts, BooksElim DEF Creditors
  <2>3. d \in Dues
    <3>1. d \in [Creditors -> Nat]
      BY <2>2
    <3> HIDE DEF d
    <3> QED BY <2>2, <3>1, DuesIntro
  <2>4. DOMAIN d = Creditors /\ \A m \in Creditors : d[m] = book.balances[m]
    OBVIOUS
  <2> HIDE DEF d
  <2>5. /\ round' \in Rounds /\ round'.due = d /\ round'.sending = 0
        /\ round'.nonce = NoRecord /\ round'.wallet = NoRecord
    BY <1>4, <2>1, <2>3 DEF Rounds
  <2>6. \A m \in DOMAIN d : d[m] <= book.balances[m]
    BY <2>2, <2>4
  <2>7. RoundAgrees(round', book)
    BY <2>5, <2>6 DEF RoundAgrees
  <2> QED BY <1>1, <1>2, <2>7, Parts, Quiet
<1> QED BY <1>1, <1>3, <1>4

LEMMA ReadNonceStep ==
  ASSUME PoolInv, PoolNext, ReadNonce
  PROVE  PoolInv'
<1>1. /\ UNCHANGED <<book, disk, work, foundAt, asking, confirm, poolTip, taken, canon>>
      /\ UNCHANGED <<unmined, minedPayments, unheard, poolFaults>>
      /\ round # NoRecord /\ round.due # NoRecord
      /\ round' = [round EXCEPT !.nonce = PendingNonce]
  BY DEF ReadNonce, chain, wallet
<1>2. PoolTypeOK'
  BY <1>1, Parts DEF PoolTypeOK
<1>3. RoundAgrees(round', book)
  <2>1. round \in Rounds
    BY <1>1, Parts DEF RoundAgrees
  <2>2. PendingNonce # NoRecord
    BY PendingNonceNat, PoolAssumption
  <2>3. /\ round' \in Rounds /\ round'.due = round.due /\ round'.sending = round.sending
        /\ round'.nonce # NoRecord /\ round'.wallet = round.wallet
    BY <1>1, <2>1, <2>2, PendingNonceNat DEF Rounds
  <2> QED BY <1>1, <2>3, Parts DEF RoundAgrees
<1> QED BY <1>1, <1>2, <1>3, Parts, Quiet

LEMMA ReadWalletStep ==
  ASSUME PoolInv, PoolNext, ReadWallet
  PROVE  PoolInv'
<1> DEFINE w == Income - Amounts(minedPayments)
<1>1. /\ UNCHANGED <<book, disk, work, foundAt, asking, confirm, poolTip, taken, canon>>
      /\ UNCHANGED <<unmined, minedPayments, unheard, poolFaults>>
      /\ round # NoRecord /\ round.nonce # NoRecord
      /\ round' = [round EXCEPT !.wallet = w]
  BY DEF ReadWallet, chain, wallet
<1>2. PoolTypeOK'
  BY <1>1, Parts DEF PoolTypeOK
<1>3. RoundAgrees(round', book)
  <2>1. round \in Rounds
    BY <1>1, Parts DEF RoundAgrees
  <2>2. w \in Int /\ w # NoRecord
    BY IncomeNat, PoolAssumption
  <2> HIDE DEF w
  <2>3. /\ round' \in Rounds /\ round'.due = round.due /\ round'.sending = round.sending
        /\ round'.nonce = round.nonce /\ round'.wallet # NoRecord
    BY <1>1, <2>1, <2>2 DEF Rounds
  <2> QED BY <1>1, <2>3, Parts DEF RoundAgrees
<1> QED BY <1>1, <1>2, <1>3, Parts, Quiet

\* of the chain,
LEMMA ChainStep ==
  ASSUME PoolInv, PoolNext,
         \/ ChainGrows
         \/ \E b \in PoolBlock : NodeTakes(b)
         \/ \E h \in 1..poolTip : ChainReorganises(h)
  PROVE  PoolInv'
<1>1. UNCHANGED <<book, disk, work, foundAt, asking, confirm, round, unmined, minedPayments, unheard, poolFaults>>
  BY DEF ChainGrows, NodeTakes, ChainReorganises, wallet
<1>2. poolTip' \in Nat /\ poolTip <= poolTip'
  BY Parts, Onward
<1>3. canon' \subseteq taken' /\ taken' \subseteq PoolBlock
  BY Parts DEF PoolTypeOK, ChainGrows, NodeTakes, ChainReorganises
<1>4. PoolTypeOK'
  BY <1>1, <1>2, <1>3, Parts DEF PoolTypeOK
<1>5. ConfirmAgrees(confirm', book, poolTip')
  BY <1>1, <1>2, Parts, ConfirmStays
<1> QED BY <1>1, <1>4, <1>5, Parts, Quiet

\* and of the wallet.
LEMMA MinePaymentStep ==
  ASSUME PoolInv, PoolNext, NEW tx \in unmined, MinePayment(tx)
  PROVE  PoolInv'
<1>1. /\ UNCHANGED <<book, disk, work, foundAt, asking, confirm, round, poolTip, taken, canon>>
      /\ UNCHANGED <<unheard, poolFaults>>
      /\ unmined' \subseteq unmined /\ minedPayments' = minedPayments \cup {tx}
  BY DEF MinePayment, chain
<1>2. PoolTypeOK'
  BY <1>1, Parts DEF PoolTypeOK
<1>3. IsFiniteSet(unmined') /\ IsFiniteSet(minedPayments')
  BY <1>1, Parts, FS_Subset, FS_AddElement
<1>4. NoneStray(unheard', unmined', minedPayments', book)
  <2>1. unmined' \cup minedPayments' \subseteq unmined \cup minedPayments
    BY <1>1
  <2> QED BY <1>1, <2>1, Parts, SameRefl, StrayStays
<1> QED BY <1>1, <1>2, <1>3, <1>4, Parts, Quiet

LEMMA ForgetStep ==
  ASSUME PoolInv, PoolNext, NEW tx, Forget(tx)
  PROVE  PoolInv'
<1>1. /\ UNCHANGED <<book, disk, work, foundAt, asking, confirm, round, poolTip, taken, canon>>
      /\ UNCHANGED <<minedPayments, unheard>>
      /\ unmined' = unmined \ {tx} /\ poolFaults' = poolFaults + 1
  BY DEF Forget, chain
<1>2. PoolTypeOK'
  BY <1>1, Parts DEF PoolTypeOK
<1>3. IsFiniteSet(unmined')
  BY <1>1, Parts, FS_Subset
<1>4. NoneStray(unheard', unmined', minedPayments', book)
  <2>1. unmined' \cup minedPayments' \subseteq unmined \cup minedPayments
    BY <1>1
  <2> QED BY <1>1, <2>1, Parts, SameRefl, StrayStays
<1> QED BY <1>1, <1>2, <1>3, <1>4, Parts, Quiet

\* The payment being sent is the last of the book.
LEMMA CurrentIs ==
  ASSUME PoolInv, round # NoRecord, round.sending # 0
  PROVE  /\ round.due # NoRecord /\ round.sending = Len(book.payments)
         /\ round.sending \in 1..Len(book.payments) /\ round.sending \in Nat
         /\ Current \in Payments /\ Current.to \in Miner /\ Current.amount \in Nat
         /\ TxOf(Current) \in PaymentTx
<1>1. /\ round \in Rounds /\ round.due # NoRecord /\ round.sending = Len(book.payments)
  BY Parts DEF RoundAgrees
<1>2. round.sending \in Nat
  BY <1>1 DEF Rounds
<1>3. round.sending \in 1..Len(book.payments)
  BY <1>1, <1>2
<1> QED BY <1>1, <1>2, <1>3, Parts, BooksElim DEF Current

LEMMA ReachesStep ==
  ASSUME PoolInv, PoolNext, Reaches
  PROVE  PoolInv'
<1>1. /\ UNCHANGED <<book, disk, work, foundAt, asking, confirm, round, poolTip, taken, canon, poolFaults>>
      /\ UNCHANGED <<minedPayments, unheard>>
      /\ round # NoRecord /\ round.sending # 0 /\ unmined' = unmined \cup {TxOf(Current)}
  BY DEF Reaches, chain
<1>2. PoolTypeOK'
  BY <1>1, Parts, CurrentIs DEF PoolTypeOK
<1>3. IsFiniteSet(unmined')
  BY <1>1, Parts, FS_AddElement
<1>4. NoneStray(unheard', unmined', minedPayments', book)
  BY <1>1, Parts, CurrentIs DEF NoneStray, Current
<1> QED BY <1>1, <1>2, <1>3, <1>4, Parts, Quiet

LEMMA SaveStep ==
  ASSUME PoolInv, PoolNext, Save
  PROVE  PoolInv'
<1>1. /\ UNCHANGED <<book, work, foundAt, asking, confirm, round, poolTip, taken, canon, poolFaults>>
      /\ UNCHANGED <<unmined, minedPayments, unheard>> /\ disk' = book
  BY DEF Save, chain, wallet
<1>2. PoolTypeOK'
  BY <1>1, Parts DEF PoolTypeOK
<1> QED BY <1>1, <1>2, Parts, Quiet

LEMMA CrashStep ==
  ASSUME PoolInv, PoolNext, Crash
  PROVE  PoolInv'
<1>1. /\ UNCHANGED <<disk, work, foundAt, poolTip, taken, canon>>
      /\ UNCHANGED <<unmined, minedPayments, unheard>>
      /\ book' = disk /\ asking' = {} /\ confirm' = NoRecord /\ round' = NoRecord
      /\ poolFaults' = poolFaults + 1
  BY DEF Crash, chain, wallet
<1>2. PoolTypeOK'
  BY <1>1, Parts DEF PoolTypeOK
<1>3. Fits(disk, canon', foundAt', asking', poolTip')
  <2>1. Fits(disk, canon, foundAt, asking, poolTip) /\ PoolTypeOK /\ AskedFor(work, foundAt, asking)
    BY DEF PoolInv
  <2> QED BY <2>1, Onward, FitsOn
<1>6. AskedFor(work', foundAt', asking')
  BY Parts, Onward
<1>4. NoneStray(unheard', unmined', minedPayments', book')
  <2>1. SamePayments(book, disk)
    BY Parts, SameSym
  <2> QED BY <1>1, <2>1, Parts, StrayStays
<1>5. ConfirmAgrees(confirm', book', poolTip') /\ RoundAgrees(round', book')
  BY <1>1 DEF ConfirmAgrees, RoundAgrees
<1> QED BY <1>1, <1>2, <1>3, <1>4, <1>5, <1>6, Parts, SameRefl, InvPrimed

-----------------------------------------------------------------------------
\* The steps that write the book: a share is logged,
LEMMA LoggedStep ==
  ASSUME PoolInv, PoolNext, NEW m \in Miner, NEW d \in ShareDifficulty, book' = Logged(m, d),
         UNCHANGED <<disk, work, confirm, round, poolTip, taken, canon, unmined, minedPayments, unheard, poolFaults>>,
         foundAt' \in [PoolBlock -> Nat], asking' \subseteq PoolBlock
  PROVE  PoolInv'
<1>1. /\ book' \in Books /\ book'.blocks = book.blocks /\ book'.balances = book.balances
      /\ book'.payments = book.payments
  BY Parts, LoggedBook
<1>2. PoolTypeOK'
  BY <1>1, Parts DEF PoolTypeOK
<1>3. SamePayments(book, book') /\ ConfirmedIn(book') = ConfirmedIn(book)
  BY <1>1 DEF SamePayments, ConfirmedIn
<1>4. Sound(book')
  BY <1>1, <1>3, Parts, SoundSame
<1>5. Fits(book', canon', foundAt', asking', poolTip')
  <2>1. Fits(book, canon', foundAt', asking', poolTip')
    BY Parts, Onward, FitsOn
  <2> QED BY <1>1, <1>3, <2>1 DEF Fits
<1>6. ConfirmAgrees(confirm', book', poolTip')
  BY <1>1, Parts, ConfirmStays
<1>7. RoundAgrees(round', book')
  <2>1. \A n \in Miner : book.balances[n] <= book'.balances[n]
    BY <1>1, Parts, BooksElim
  <2> QED BY <1>1, <1>3, <2>1, Parts, RoundStays
<1> QED BY <1>2, <1>3, <1>4, <1>5, <1>6, <1>7, Parts, Written

LEMMA ShareStep ==
  ASSUME PoolInv, PoolNext, NEW m \in Miner, NEW d \in ShareDifficulty, Share(m, d)
  PROVE  PoolInv'
<1>1. /\ book' = Logged(m, d)
      /\ UNCHANGED <<disk, work, foundAt, asking, confirm, round, poolTip, taken, canon>>
      /\ UNCHANGED <<unmined, minedPayments, unheard, poolFaults>>
  BY DEF Share, chain, wallet
<1> QED BY <1>1, Parts, LoggedStep DEF PoolTypeOK

LEMMA WinStep ==
  ASSUME PoolInv, PoolNext, NEW m \in Miner, NEW d \in ShareDifficulty, NEW b \in PoolBlock, Win(m, d, b)
  PROVE  PoolInv'
<1>1. /\ book' = Logged(m, d)
      /\ foundAt' = [foundAt EXCEPT ![b] = work] /\ asking' = asking \cup {b}
      /\ UNCHANGED <<disk, work, confirm, round, poolTip, taken, canon, unmined, minedPayments, unheard, poolFaults>>
  BY DEF Win, chain, wallet
<1>2. foundAt' \in [PoolBlock -> Nat] /\ asking' \subseteq PoolBlock
  BY <1>1, Parts DEF PoolTypeOK
<1> QED BY <1>1, <1>2, LoggedStep

\* a block is recorded,
LEMMA RecordedStep ==
  ASSUME PoolInv, PoolNext, NEW b \in PoolBlock, Recorded(b)
  PROVE  PoolInv'
<1> DEFINE r == [credits |-> Credits(book.shares), status |-> "pending"]
<1>1. /\ b \in asking /\ asking' = asking \ {b} /\ book' = [book EXCEPT !.blocks[b] = r] /\ disk' = book'
      /\ UNCHANGED <<work, foundAt, confirm, round, poolTip, taken, canon, unmined, minedPayments, unheard, poolFaults>>
  BY DEF Recorded, chain, wallet
<1>2. r \in Splits /\ r.status = "pending" /\ SumFunctionOnSet(r.credits, Miner) <= Reward
  BY Parts, BooksElim, CreditsSplit DEF Splits
<1> HIDE DEF r
<1>3. book' \in Books
  BY <1>1, <1>2, Parts DEF Books
<1>4. /\ book'.balances = book.balances /\ book'.payments = book.payments
      /\ book'.blocks = [book.blocks EXCEPT ![b] = r]
  BY <1>1, Parts DEF Books
<1>5. book.blocks \in [PoolBlock -> {NoRecord} \cup Splits] /\ book.blocks[b] = NoRecord
  BY <1>1, Parts, BooksElim DEF Fits
<1>6. ConfirmedIn(book') = ConfirmedIn(book)
  BY <1>2, <1>4, <1>5 DEF ConfirmedIn
<1>7. b \notin ConfirmedIn(book') /\ SamePayments(book, book')
  BY <1>4, <1>5, <1>6 DEF ConfirmedIn, SamePayments
<1>8. Sound(book')
  <2>1. \A k \in PoolBlock : book'.blocks[k] # NoRecord =>
           \/ book.blocks[k] # NoRecord /\ book'.blocks[k].credits = book.blocks[k].credits
           \/ k \notin ConfirmedIn(book') /\ SumFunctionOnSet(book'.blocks[k].credits, Miner) <= Reward
    BY <1>2, <1>4, <1>5, <1>7
  <2> QED BY <1>3, <1>4, <1>6, <1>7, <2>1, Parts, SoundSame
<1>9. Fits(book', canon', foundAt', asking', poolTip')
  <2>1. \A k \in ConfirmedIn(book') : Buried(k, canon', foundAt', poolTip')
    BY <1>1, <1>6, Parts DEF Fits, Buried
  <2>2. \A k \in PoolBlock : foundAt'[k] = 0 \/ k \in asking' => book'.blocks[k] = NoRecord
    <3>1. foundAt[b] # 0
      BY <1>1, Parts DEF AskedFor
    <3> QED BY <1>1, <1>4, <1>5, <3>1, Parts DEF Fits
  <2> QED BY <2>1, <2>2 DEF Fits
<1>10. PoolTypeOK'
  BY <1>1, <1>3, Parts DEF PoolTypeOK
<1>11. ConfirmAgrees(confirm', book', poolTip')
  <2>1. \A k \in PoolBlock : book.blocks[k] # NoRecord => book'.blocks[k] = book.blocks[k]
    BY <1>4, <1>5
  <2>2. poolTip' = poolTip /\ confirm' = confirm /\ poolTip <= poolTip'
    BY <1>1, Parts
  <2> QED BY <2>1, <2>2, Parts, ConfirmStays
<1>12. RoundAgrees(round', book')
  <2>1. \A n \in Miner : book.balances[n] <= book'.balances[n]
    BY <1>4, Parts, BooksElim
  <2> QED BY <1>1, <1>3, <1>7, <2>1, Parts, RoundStays
<1> QED BY <1>1, <1>7, <1>8, <1>9, <1>10, <1>11, <1>12, Parts, Written

\* a block is given up, credited, or left for the next time,
LEMMA ConfirmBlockStep ==
  ASSUME PoolInv, PoolNext, NEW b \in PoolBlock, ConfirmBlock(b)
  PROVE  PoolInv'
<1>1. /\ confirm # NoRecord /\ b \in confirm.todo /\ confirm' = [confirm EXCEPT !.todo = @ \ {b}]
      /\ UNCHANGED <<disk, work, foundAt, asking, round, poolTip, taken, canon, unmined, minedPayments, unheard, poolFaults>>
  BY DEF ConfirmBlock, chain, wallet
<1>2. /\ confirm \in [tip : Nat, todo : SUBSET PoolBlock] /\ confirm' \in [tip : Nat, todo : SUBSET PoolBlock]
      /\ confirm'.tip = confirm.tip /\ confirm'.todo = confirm.todo \ {b}
      /\ confirm.tip <= poolTip /\ confirm.tip \in Nat
      /\ \A k \in confirm.todo : book.blocks[k] # NoRecord /\ book.blocks[k].status = "pending"
  BY <1>1, Parts DEF ConfirmAgrees
<1>3. /\ book.blocks \in [PoolBlock -> {NoRecord} \cup Splits] /\ book.balances \in [Miner -> Nat]
      /\ book.blocks[b] # NoRecord /\ book.blocks[b].status = "pending" /\ book.blocks[b] \in Splits
  BY <1>1, <1>2, Parts, BooksElim
<1>4. CASE UNCHANGED book
  <2>1. PoolTypeOK'
    BY <1>1, <1>2, <1>4, Parts DEF PoolTypeOK
  <2>2. ConfirmAgrees(confirm', book, poolTip')
    BY <1>1, <1>2 DEF ConfirmAgrees
  <2> QED BY <1>1, <1>4, <2>1, <2>2, Parts, Quiet
<1>5. CASE book' = [book EXCEPT !.blocks[b].status = "orphaned"]
  <2>1. book' = [book EXCEPT !.blocks = [book.blocks EXCEPT ![b] = [book.blocks[b] EXCEPT !.status = "orphaned"]]]
    BY <1>5
  <2> DEFINE r == [book.blocks[b] EXCEPT !.status = "orphaned"]
  <2>2. r \in Splits /\ r.status = "orphaned" /\ r.credits = book.blocks[b].credits
    BY <1>3 DEF Splits
  <2> HIDE DEF r
  <2>3. /\ book' \in Books /\ book'.balances = book.balances /\ book'.payments = book.payments
        /\ book'.blocks = [book.blocks EXCEPT ![b] = r]
    BY <2>1, <2>2, <1>3, Parts DEF Books, r
  <2>4. ConfirmedIn(book') = ConfirmedIn(book) /\ SamePayments(book, book')
    BY <1>3, <2>2, <2>3 DEF ConfirmedIn, SamePayments
  <2>5. Sound(book')
    <3>1. \A k \in PoolBlock : book'.blocks[k] # NoRecord =>
             book.blocks[k] # NoRecord /\ book'.blocks[k].credits = book.blocks[k].credits
      BY <1>3, <2>2, <2>3
    <3> QED BY <2>3, <2>4, <3>1, Parts, SoundSame
  <2>6. Fits(book', canon', foundAt', asking', poolTip')
    <3>1. \A k \in ConfirmedIn(book') : Buried(k, canon', foundAt', poolTip')
      BY <1>1, <2>4, Parts DEF Fits, Buried
    <3>2. \A k \in PoolBlock : foundAt'[k] = 0 \/ k \in asking' => book'.blocks[k] = NoRecord
      BY <1>1, <1>3, <2>3, Parts DEF Fits
    <3> QED BY <3>1, <3>2 DEF Fits
  <2>7. ConfirmAgrees(confirm', book', poolTip')
    <3>1. \A k \in confirm'.todo : book'.blocks[k] = book.blocks[k]
      BY <1>2, <1>3, <2>3
    <3> QED BY <1>1, <1>2, <3>1 DEF ConfirmAgrees
  <2>8. RoundAgrees(round', book')
    <3>1. \A n \in Miner : book.balances[n] <= book'.balances[n]
      BY <1>3, <2>3
    <3> QED BY <1>1, <2>3, <2>4, <3>1, Parts, RoundStays
  <2>9. PoolTypeOK'
    BY <1>1, <1>2, <2>3, Parts DEF PoolTypeOK
  <2> QED BY <1>1, <2>4, <2>5, <2>6, <2>7, <2>8, <2>9, Parts, Written
<1>6. CASE b \in canon /\ Mature(b) /\ book' = Credited(b)
  <2> DEFINE r == [book.blocks[b] EXCEPT !.status = "confirmed"]
             bal == [m \in Miner |-> book.balances[m] + book.blocks[b].credits[m]]
  <2>1. book' = [book EXCEPT !.blocks = [book.blocks EXCEPT ![b] = r], !.balances = bal]
    BY <1>6 DEF Credited
  <2>2. /\ r \in Splits /\ r.status = "confirmed" /\ r.credits = book.blocks[b].credits
        /\ r.credits \in [Miner -> Nat]
    BY <1>3 DEF Splits
  <2>3. bal \in [Miner -> Nat] /\ \A m \in Miner : bal[m] = book.balances[m] + book.blocks[b].credits[m]
    BY <1>3, <2>2
  <2> HIDE DEF r, bal
  <2>4. /\ book' \in Books /\ book'.balances = bal /\ book'.payments = book.payments
        /\ book'.blocks = [book.blocks EXCEPT ![b] = r]
    BY <2>1, <2>2, <2>3, <1>3, Parts DEF Books
  <2>5. Sound(book') /\ ConfirmedIn(book') = ConfirmedIn(book) \cup {b}
    <3>1. /\ book'.blocks[b] \in Splits /\ book'.blocks[b].status = "confirmed"
          /\ book'.blocks[b].credits = book.blocks[b].credits
          /\ \A j \in PoolBlock : j # b => book'.blocks[j] = book.blocks[j]
      BY <1>3, <2>2, <2>4
    <3>2. \A m \in Miner : book'.balances[m] = book.balances[m] + book.blocks[b].credits[m]
      BY <2>3, <2>4
    <3> QED BY <1>3, <2>4, <3>1, <3>2, Parts, SoundCredited
  <2>6. Fits(book', canon', foundAt', asking', poolTip')
    <3>1. foundAt[b] \in Nat /\ Maturity \in Nat /\ poolTip \in Nat
      BY Parts, PoolAssumption DEF PoolTypeOK
    <3>2. Buried(b, canon, foundAt, poolTip)
      BY <1>2, <1>6, <3>1 DEF Mature, Buried
    <3>3. \A k \in ConfirmedIn(book') : Buried(k, canon', foundAt', poolTip')
      BY <1>1, <2>5, <3>2, Parts DEF Fits, Buried
    <3>4. \A k \in PoolBlock : foundAt'[k] = 0 \/ k \in asking' => book'.blocks[k] = NoRecord
      BY <1>1, <1>3, <2>4, Parts DEF Fits
    <3> QED BY <3>3, <3>4 DEF Fits
  <2>7. ConfirmAgrees(confirm', book', poolTip')
    <3>1. \A k \in confirm'.todo : book'.blocks[k] = book.blocks[k]
      BY <1>2, <1>3, <2>4
    <3> QED BY <1>1, <1>2, <3>1 DEF ConfirmAgrees
  <2>8. SamePayments(book, book')
    BY <2>4 DEF SamePayments
  <2>9. RoundAgrees(round', book')
    <3>1. \A n \in Miner : book.balances[n] <= book'.balances[n]
      <4> TAKE n \in Miner
      <4>1. book.blocks[b].credits[n] \in Nat /\ book.balances[n] \in Nat
        BY <1>3, <2>2
      <4> QED BY <2>3, <2>4, <4>1
    <3> QED BY <1>1, <2>4, <2>8, <3>1, Parts, RoundStays
  <2>10. PoolTypeOK'
    BY <1>1, <1>2, <2>4, Parts DEF PoolTypeOK
  <2> QED BY <1>1, <2>5, <2>6, <2>7, <2>8, <2>9, <2>10, Parts, Written
<1> QED BY <1>4, <1>5, <1>6 DEF ConfirmBlock

\* a payment changes its status,
LEMMA StatusStep ==
  ASSUME PoolInv, PoolNext, NEW i \in 1..Len(book.payments), NEW x \in {"sent", "confirmed"},
         book' = [book EXCEPT !.payments[i].status = x],
         disk' = disk \/ disk' = book',
         UNCHANGED <<work, foundAt, asking, confirm, poolTip, taken, canon, unmined, minedPayments, unheard, poolFaults>>
  PROVE  /\ book' \in Books /\ book'.balances = book.balances /\ SamePayments(book, book')
         /\ (RoundAgrees(round', book') => PoolInv')
<1> DEFINE q == [book.payments[i] EXCEPT !.status = x]
           ps == [book.payments EXCEPT ![i] = q]
<1>1. book' = [book EXCEPT !.payments = ps]
  OBVIOUS
<1>2. /\ book.payments \in Seq(Payments) /\ Len(book.payments) \in Nat
      /\ book.payments[i] \in Payments
  BY Parts, BooksElim
<1>3. q \in Payments /\ q.to = book.payments[i].to /\ q.amount = book.payments[i].amount
      /\ q.nonce = book.payments[i].nonce
  BY <1>2 DEF Payments
<1> HIDE DEF q
<1>4. /\ ps \in Seq(Payments) /\ Len(ps) = Len(book.payments)
      /\ \A j \in 1..Len(book.payments) : ps[j] = IF j = i THEN q ELSE book.payments[j]
  BY <1>2, <1>3, ExceptSeq
<1> HIDE DEF ps
<1>5. /\ book' \in Books /\ book'.balances = book.balances /\ book'.blocks = book.blocks
      /\ book'.payments = ps
  BY <1>1, <1>4, Parts DEF Books
<1>6. SamePayments(book, book') /\ ConfirmedIn(book') = ConfirmedIn(book)
  BY <1>3, <1>4, <1>5 DEF SamePayments, ConfirmedIn, TxOf
<1>7. Sound(book')
  BY <1>5, <1>6, Parts, SoundSame
<1>8. Fits(book', canon', foundAt', asking', poolTip')
  BY <1>5, <1>6, Parts DEF Fits, Buried
<1>9. ConfirmAgrees(confirm', book', poolTip')
  <2>1. poolTip' = poolTip /\ confirm' = confirm /\ poolTip <= poolTip'
    BY Parts
  <2> QED BY <1>5, <2>1, Parts, ConfirmStays
<1>10. PoolTypeOK'
  BY <1>5, Parts DEF PoolTypeOK
<1> QED BY <1>5, <1>6, <1>7, <1>8, <1>9, <1>10, Parts, Written

LEMMA CheckPaymentStep ==
  ASSUME PoolInv, PoolNext, NEW i \in DOMAIN book.payments, CheckPayment(i)
  PROVE  PoolInv'
<1> DEFINE tx == TxOf(book.payments[i])
<1>1. /\ round # NoRecord /\ round' = [round EXCEPT !.check = @ \ {i}]
      /\ UNCHANGED <<disk, work, foundAt, asking, confirm, poolTip, taken, canon, minedPayments, unheard, poolFaults>>
      /\ \/ book' = [book EXCEPT !.payments[i].status = "confirmed"] /\ UNCHANGED unmined
         \/ book' = book /\ unmined' \in {unmined, unmined \cup {tx}}
  BY DEF CheckPayment, chain
<1>2. i \in 1..Len(book.payments) /\ tx \in PaymentTx
  BY Parts, BooksElim
<1>3. RoundAgrees(round', book)
  <2>1. round \in Rounds
    BY <1>1, Parts DEF RoundAgrees
  <2>2. /\ round' \in Rounds /\ round'.due = round.due /\ round'.sending = round.sending
        /\ round'.nonce = round.nonce /\ round'.wallet = round.wallet
    BY <1>1, <2>1 DEF Rounds
  <2> QED BY <1>1, <2>2, Parts DEF RoundAgrees
<1> HIDE DEF tx
<1>4. CASE book' = [book EXCEPT !.payments[i].status = "confirmed"] /\ UNCHANGED unmined
  <2>1. /\ book' \in Books /\ book'.balances = book.balances /\ SamePayments(book, book')
        /\ (RoundAgrees(round', book') => PoolInv')
    BY <1>1, <1>2, <1>4, StatusStep
  <2>2. \A n \in Miner : book.balances[n] <= book'.balances[n]
    BY <2>1, Parts, BooksElim
  <2>3. RoundAgrees(round', book')
    BY <1>3, <2>1, <2>2, Parts, RoundStays
  <2> QED BY <2>1, <2>3
<1>5. CASE book' = book /\ unmined' \in {unmined, unmined \cup {tx}}
  <2>1. PoolTypeOK'
    BY <1>1, <1>2, <1>5, Parts DEF PoolTypeOK
  <2>2. IsFiniteSet(unmined')
    BY <1>5, Parts, FS_AddElement
  <2>3. NoneStray(unheard', unmined', minedPayments', book)
    BY <1>1, <1>2, <1>5, Parts DEF NoneStray, tx
  <2> QED BY <1>1, <1>3, <1>5, <2>1, <2>2, <2>3, Parts, Quiet
<1> QED BY <1>1, <1>4, <1>5

\* and the payment being sent leaves the list of who is due.
LEMMA DueButIs ==
  ASSUME round \in Rounds, round.due # NoRecord, NEW m
  PROVE  /\ DueBut(m) \in Dues /\ DOMAIN DueBut(m) = DOMAIN round.due \ {m}
         /\ \A n \in DOMAIN DueBut(m) : DueBut(m)[n] = round.due[n]
         /\ DueBut(m) # NoRecord
<1>1. DOMAIN round.due \subseteq Miner /\ \A n \in DOMAIN round.due : round.due[n] \in Nat
  BY DuesElim DEF Rounds
<1> DEFINE D == DOMAIN round.due \ {m}
<1>2. DueBut(m) = [n \in D |-> round.due[n]]
  BY DEF DueBut
<1>3. DueBut(m) \in [D -> Nat] /\ D \in SUBSET Miner
  BY <1>1, <1>2
<1> QED BY <1>2, <1>3, DuesIntro, PoolAssumption

LEMMA AcceptedStep ==
  ASSUME PoolInv, PoolNext, Accepted
  PROVE  PoolInv'
<1> DEFINE i == round.sending
           d == DueBut(Current.to)
           w == round.wallet - Current.amount
<1>1. /\ round # NoRecord /\ i # 0
      /\ book' = [book EXCEPT !.payments[i].status = "sent"] /\ disk' = book'
      /\ round' = [round EXCEPT !.sending = 0, !.nonce = @ + 1, !.wallet = w, !.due = d]
      /\ UNCHANGED <<work, foundAt, asking, confirm, poolTip, taken, canon, unmined, minedPayments, unheard, poolFaults>>
  BY DEF Accepted, chain, wallet
<1>2. i \in 1..Len(book.payments) /\ round.due # NoRecord /\ Current.to \in Miner /\ Current.amount \in Nat
  BY <1>1, CurrentIs
<1>3. /\ book' \in Books /\ book'.balances = book.balances /\ SamePayments(book, book')
      /\ (RoundAgrees(round', book') => PoolInv')
  <2> HIDE DEF d, w
  <2>1. "sent" \in {"sent", "confirmed"}
    OBVIOUS
  <2> QED BY <1>1, <1>2, <2>1, StatusStep
<1>4. RoundAgrees(round', book')
  <2>1. round \in Rounds /\ \A m \in DOMAIN round.due : m # Current.to => round.due[m] <= book.balances[m]
    BY <1>1, <1>2, Parts DEF RoundAgrees, Current
  <2>2. /\ d \in Dues /\ d # NoRecord /\ DOMAIN d = DOMAIN round.due \ {Current.to}
        /\ \A m \in DOMAIN d : d[m] = round.due[m]
    BY <1>2, <2>1, DueButIs
  <2>3. w \in Int /\ round.nonce \in Nat /\ round.nonce + 1 \in Nat
    <3>1. round.wallet # NoRecord /\ round.nonce # NoRecord
      BY <1>1, Parts DEF RoundAgrees
    <3> QED BY <1>2, <2>1, <3>1 DEF Rounds
  <2>6. round.nonce + 1 # NoRecord
    BY <2>3, PoolAssumption
  <2> HIDE DEF d, w, i
  <2>4. /\ round' \in Rounds /\ round'.due = d /\ round'.sending = 0
        /\ round'.due # NoRecord /\ round'.nonce # NoRecord
    BY <1>1, <2>1, <2>2, <2>3, <2>6 DEF Rounds
  <2>5. \A m \in DOMAIN d : d[m] <= book'.balances[m]
    BY <1>3, <2>1, <2>2
  <2> QED BY <2>4, <2>5 DEF RoundAgrees
<1> QED BY <1>3, <1>4

\* a balance is debited and its payment written, before it is sent,
LEMMA SendStep ==
  ASSUME PoolInv, PoolNext, NEW m \in Miner, Send(m)
  PROVE  PoolInv'
<1> DEFINE q == Payment(m)
           ps == Append(book.payments, q)
           bal == [book.balances EXCEPT ![m] = @ - round.due[m]]
<1>1. /\ round # NoRecord /\ round.wallet # NoRecord /\ round.sending = 0 /\ m \in DOMAIN round.due
      /\ book' = [book EXCEPT !.balances = bal, !.payments = ps] /\ disk' = book'
      /\ round' = [round EXCEPT !.sending = Len(book'.payments)]
      /\ UNCHANGED <<work, foundAt, asking, confirm, poolTip, taken, canon, unmined, minedPayments, unheard, poolFaults>>
  BY DEF Send, Paying, chain, wallet
<1>2. /\ round \in Rounds /\ round.due # NoRecord /\ round.nonce # NoRecord /\ round.nonce \in Nat
      /\ round.due[m] \in Nat /\ round.due[m] <= book.balances[m]
      /\ DOMAIN round.due \subseteq Miner
      /\ \A n \in DOMAIN round.due : round.due[n] <= book.balances[n]
  <2>1. /\ round \in Rounds /\ round.due # NoRecord /\ round.nonce # NoRecord
        /\ \A n \in DOMAIN round.due : round.due[n] <= book.balances[n]
    BY <1>1, Parts DEF RoundAgrees
  <2>2. round.due \in Dues /\ round.nonce \in Nat
    BY <2>1 DEF Rounds
  <2> QED BY <1>1, <2>1, <2>2, DuesElim
<1>3. q \in Payments /\ q.to = m /\ q.amount = round.due[m]
  BY <1>2 DEF Payment, Payments, Rounds
<1>4. /\ book.payments \in Seq(Payments) /\ Len(book.payments) \in Nat
      /\ book.balances \in [Miner -> Nat] /\ DOMAIN book.payments = 1..Len(book.payments)
  BY Parts, BooksElim
<1> HIDE DEF q
<1>5. /\ ps \in Seq(Payments) /\ Len(ps) = Len(book.payments) + 1 /\ ps[Len(ps)] = q
      /\ \A i \in 1..Len(book.payments) : ps[i] = book.payments[i]
  BY <1>3, <1>4
<1>6. /\ bal \in [Miner -> Nat] /\ bal[m] = book.balances[m] - round.due[m]
      /\ \A n \in Miner : n # m => bal[n] = book.balances[n]
  BY <1>2, <1>4
<1> HIDE DEF ps, bal
<1>7. /\ book' \in Books /\ book'.balances = bal /\ book'.payments = ps /\ book'.blocks = book.blocks
  BY <1>1, <1>5, <1>6, Parts DEF Books
<1>8. Sound(book')
  <2>1. \A n \in Miner : book'.balances[n] = book.balances[n] - (IF q.to = n THEN q.amount ELSE 0)
    BY <1>3, <1>4, <1>6, <1>7
  <2>2. /\ Len(book'.payments) = Len(book.payments) + 1 /\ book'.payments[Len(book'.payments)] = q
        /\ \A i \in 1..Len(book.payments) : book'.payments[i] = book.payments[i]
    BY <1>5, <1>7
  <2> QED BY <1>3, <1>7, <2>1, <2>2, Parts, SoundPaid
<1>9. Fits(book', canon', foundAt', asking', poolTip')
  <2>1. ConfirmedIn(book') = ConfirmedIn(book)
    BY <1>7 DEF ConfirmedIn
  <2> QED BY <1>1, <1>7, <2>1, Parts DEF Fits, Buried
<1>10. ConfirmAgrees(confirm', book', poolTip')
  <2>1. poolTip' = poolTip /\ confirm' = confirm /\ poolTip <= poolTip'
    BY <1>1, Parts
  <2> QED BY <1>7, <2>1, Parts, ConfirmStays
<1>11. NoneStray(unheard', unmined', minedPayments', book')
  <2>1. Len(book.payments) + 1 \in Nat
    BY <1>4
  <2>2. \A i \in 1..Len(book.payments) :
          i \in 1..Len(book'.payments) /\ book'.payments[i] = book.payments[i]
    BY <1>4, <1>5, <1>7
  <2> QED BY <1>1, <2>2, Parts DEF NoneStray
<1>12. RoundAgrees(round', book')
  <2>1. Len(book'.payments) \in Nat /\ Len(book'.payments) # 0
    BY <1>4, <1>5, <1>7
  <2>2. /\ round' \in Rounds /\ round'.sending = Len(book'.payments) /\ round'.due = round.due
        /\ round'.wallet # NoRecord /\ round'.nonce # NoRecord
    BY <1>1, <1>2, <2>1 DEF Rounds
  <2>3. book'.payments[round'.sending].to = m
    BY <1>3, <1>5, <1>7, <2>2
  <2>4. \A n \in DOMAIN round.due : n # m => round.due[n] <= book'.balances[n]
    BY <1>2, <1>6, <1>7
  <2> QED BY <1>1, <1>2, <2>1, <2>2, <2>3, <2>4 DEF RoundAgrees
<1>13. PoolTypeOK'
  BY <1>1, <1>7, Parts DEF PoolTypeOK
<1>14. AskedFor(work', foundAt', asking')
  BY Parts, Onward
<1> QED BY <1>1, <1>8, <1>9, <1>10, <1>11, <1>12, <1>13, <1>14, Parts, SameRefl, InvPrimed

\* or the payment fails and its balance comes back.
LEMMA FailedStep ==
  ASSUME PoolInv, PoolNext, Failed
  PROVE  PoolInv'
<1> DEFINE n == Len(book.payments)
           q == Current
           ps == Front(book.payments)
           bal == [book.balances EXCEPT ![q.to] = @ + q.amount]
           d == DueBut(q.to)
<1>1. /\ round # NoRecord /\ round.sending # 0
      /\ book' = [book EXCEPT !.balances = bal, !.payments = ps] /\ disk' = book'
      /\ round' = [round EXCEPT !.sending = 0, !.due = d]
      /\ UNCHANGED <<work, foundAt, asking, confirm, poolTip, taken, canon, unmined, minedPayments>>
      /\ poolFaults' \in {poolFaults, poolFaults + 1}
      /\ unheard' = IF Known(TxOf(q)) THEN unheard \cup {TxOf(q)} ELSE unheard
  BY DEF Failed, Unanswered, chain
<1>2. /\ round.due # NoRecord /\ round.sending = n /\ q = book.payments[n]
      /\ round.wallet # NoRecord /\ round.nonce # NoRecord
      /\ q \in Payments /\ q.to \in Miner /\ q.amount \in Nat
  BY <1>1, CurrentIs, Parts DEF Current, RoundAgrees
<1>3. /\ book.payments \in Seq(Payments) /\ n \in Nat /\ n \in 1..n
      /\ book.balances \in [Miner -> Nat]
      /\ \A i \in 1..n : book.payments[i] \in Payments
  BY <1>1, Parts, BooksElim, CurrentIs
<1>4. round \in Rounds /\ \A m \in DOMAIN round.due : m # q.to => round.due[m] <= book.balances[m]
  BY <1>1, <1>2, Parts DEF RoundAgrees
<1>5. ps \in Seq(Payments) /\ Len(ps) = n - 1 /\ \A i \in 1..n - 1 : ps[i] = book.payments[i]
  <2>1. ps = SubSeq(book.payments, 1, n - 1)
    BY DEF Front
  <2>2. n - 1 \in Int /\ 1 \in Int /\ \A i \in 1..n - 1 : book.payments[i] \in Payments
    BY <1>3
  <2>3. /\ SubSeq(book.payments, 1, n - 1) \in Seq(Payments)
        /\ Len(SubSeq(book.payments, 1, n - 1)) = IF 1 <= n - 1 THEN n - 1 - 1 + 1 ELSE 0
        /\ \A i \in 1..n - 1 - 1 + 1 : SubSeq(book.payments, 1, n - 1)[i] = book.payments[1 + i - 1]
    BY <2>2, SubSeqProperties
  <2> HIDE DEF ps, n
  <2> QED BY <1>3, <2>1, <2>3
<1> HIDE DEF q
<1>6. /\ bal \in [Miner -> Nat] /\ bal[q.to] = book.balances[q.to] + q.amount
      /\ \A m \in Miner : m # q.to => bal[m] = book.balances[m]
  BY <1>2, <1>3
<1> HIDE DEF ps, bal
<1>7. /\ book' \in Books /\ book'.balances = bal /\ book'.payments = ps /\ book'.blocks = book.blocks
  BY <1>1, <1>5, <1>6, Parts DEF Books
<1>8. Sound(book')
  <2>1. \A m \in Miner : book.balances[m] = book'.balances[m] - (IF q.to = m THEN q.amount ELSE 0)
    BY <1>2, <1>3, <1>6, <1>7
  <2>2. /\ Len(book.payments) = Len(book'.payments) + 1 /\ book.payments[Len(book.payments)] = q
        /\ \A i \in 1..Len(book'.payments) : book.payments[i] = book'.payments[i]
    BY <1>2, <1>3, <1>5, <1>7
  <2> QED BY <1>2, <1>7, <2>1, <2>2, Parts, SoundPaid
<1>9. Fits(book', canon', foundAt', asking', poolTip')
  <2>1. ConfirmedIn(book') = ConfirmedIn(book)
    BY <1>7 DEF ConfirmedIn
  <2> QED BY <1>1, <1>7, <2>1, Parts DEF Fits, Buried
<1>10. ConfirmAgrees(confirm', book', poolTip')
  <2>1. poolTip' = poolTip /\ confirm' = confirm /\ poolTip <= poolTip'
    BY <1>1, Parts
  <2> QED BY <1>7, <2>1, Parts, ConfirmStays
<1>11. NoneStray(unheard', unmined', minedPayments', book')
  <2> SUFFICES ASSUME NEW tx \in unmined \cup minedPayments, tx \notin unheard'
               PROVE  \E i \in 1..Len(book'.payments) : TxOf(book'.payments[i]) = tx
    BY <1>1 DEF NoneStray
  <2>1. PICK i \in 1..n : TxOf(book.payments[i]) = tx
    BY <1>1, Parts DEF NoneStray
  <2>2. TxOf(q) # tx
    BY <1>1 DEF Known
  <2>3. i # n
    BY <1>2, <2>1, <2>2
  <2>4. i \in 1..n - 1
    BY <1>3, <2>3
  <2> QED BY <1>5, <1>7, <2>1, <2>4
<1>12. RoundAgrees(round', book')
  <2>1. /\ d \in Dues /\ d # NoRecord /\ DOMAIN d = DOMAIN round.due \ {q.to}
        /\ \A m \in DOMAIN d : d[m] = round.due[m]
    BY <1>2, <1>4, DueButIs
  <2> HIDE DEF d
  <2>2. /\ round' \in Rounds /\ round'.due = d /\ round'.sending = 0
        /\ round'.due # NoRecord /\ round'.nonce # NoRecord
    BY <1>1, <1>2, <1>4, <2>1 DEF Rounds
  <2>3. DOMAIN round.due \subseteq Miner
    BY <1>2, <1>4, DuesElim DEF Rounds
  <2>4. \A m \in DOMAIN d : d[m] <= book'.balances[m]
    BY <1>4, <1>6, <1>7, <2>1, <2>3
  <2> QED BY <2>2, <2>4 DEF RoundAgrees
<1>13. PoolTypeOK'
  <2>1. TxOf(q) \in PaymentTx
    BY <1>2 DEF Payments, TxOf, PaymentTx
  <2>2. unheard' \subseteq PaymentTx /\ poolFaults' \in Nat
    BY <1>1, <2>1, Parts DEF PoolTypeOK
  <2> QED BY <1>1, <1>7, <2>2, Parts DEF PoolTypeOK
<1>14. AskedFor(work', foundAt', asking')
  BY Parts, Onward
<1> QED BY <1>1, <1>8, <1>9, <1>10, <1>11, <1>12, <1>13, <1>14, Parts, SameRefl, InvPrimed

-----------------------------------------------------------------------------
LEMMA NextInv == PoolInv /\ [PoolNext]_poolVars => PoolInv'
<1> SUFFICES ASSUME PoolInv, [PoolNext]_poolVars PROVE PoolInv'
  OBVIOUS
<1>1. CASE UNCHANGED poolVars
  <2>1. /\ UNCHANGED <<book, disk, work, foundAt, asking, confirm, round, poolTip, taken, canon>>
        /\ UNCHANGED <<unmined, minedPayments, unheard, poolFaults>>
    BY <1>1 DEF poolVars, chain, wallet
  <2>2. PoolTypeOK'
    BY <2>1, Parts DEF PoolTypeOK
  <2>3. Fits(disk, canon, foundAt, asking, poolTip)
    BY DEF PoolInv
  <2> QED BY <2>1, <2>2, <2>3, Parts, InvPrimed
<1>2. CASE PoolNext
  <2>1. ASSUME NEW m \in Miner, NEW d \in ShareDifficulty, Share(m, d) \/ \E b \in PoolBlock : Win(m, d, b)
        PROVE  PoolInv'
    BY <1>2, <2>1, ShareStep, WinStep
  <2>2. ASSUME NEW b \in PoolBlock, Recorded(b) \/ NotRecorded(b) \/ NodeTakes(b) \/ ConfirmBlock(b)
        PROVE  PoolInv'
    BY <1>2, <2>2, RecordedStep, NotRecordedStep, ChainStep, ConfirmBlockStep
  <2>3. CASE RefreshWork \/ ConfirmStart \/ ConfirmEnd \/ ConfirmFails
    BY <1>2, <2>3, RefreshWorkStep, ConfirmStartStep, ConfirmEndStep
  <2>4. CASE PayoutStart \/ Owe \/ ReadNonce \/ ReadWallet \/ PayoutEnd \/ PayoutFails
    BY <1>2, <2>4, PayoutStartStep, OweStep, ReadNonceStep, ReadWalletStep, PayoutEndStep
  <2>5. ASSUME NEW i \in DOMAIN book.payments, CheckPayment(i) PROVE PoolInv'
    BY <1>2, <2>5, CheckPaymentStep
  <2>6. ASSUME NEW m \in Miner, Send(m) PROVE PoolInv'
    BY <1>2, <2>6, SendStep
  <2>7. CASE Reaches \/ Accepted \/ Failed
    BY <1>2, <2>7, ReachesStep, AcceptedStep, FailedStep
  <2>8. CASE Save \/ Crash \/ ChainGrows \/ \E h \in 1..poolTip : ChainReorganises(h)
    BY <1>2, <2>8, SaveStep, CrashStep, ChainStep
  <2>9. ASSUME NEW tx \in unmined, MinePayment(tx) \/ Forget(tx) PROVE PoolInv'
    BY <1>2, <2>9, MinePaymentStep, ForgetStep
  <2> QED BY <1>2, <2>1, <2>2, <2>3, <2>4, <2>5, <2>6, <2>7, <2>8, <2>9 DEF PoolNext
<1> QED BY <1>1, <1>2

LEMMA PoolInvTheorem == PoolSpec => []PoolInv
BY InitInv, NextInv, PTL DEF PoolSpec

\* In memory and in the file, whatever falls between a write and the next
\* save, what a miner earned is what it is owed and what was debited.
THEOREM BooksTheorem == PoolSpec => []BooksBalance
<1>1. PoolInv => BooksBalance
  BY DEF PoolInv, Sound, BooksBalance
<1> QED BY <1>1, PoolInvTheorem, PTL

-----------------------------------------------------------------------------
\* The payments mined, but for those that no payment of the book stands for.
Booked == minedPayments \ Stray

\* Each of them has a place of its own in the book.
LEMMA MinedPlaces ==
  ASSUME PoolInv
  PROVE  \E h : /\ \A tx \in Booked : /\ h[tx] \in DOMAIN book.payments
                                      /\ TxOf(book.payments[h[tx]]) = tx
                                      /\ book.payments[h[tx]].amount = tx.amount
                                      /\ book.payments[h[tx]].to = tx.to
                /\ \A tx, other \in Booked : h[tx] = h[other] => tx = other
<1> DEFINE h == [tx \in Booked |-> CHOOSE i \in 1..Len(book.payments) : TxOf(book.payments[i]) = tx]
<1>1. DOMAIN book.payments = 1..Len(book.payments)
  BY Parts, BooksElim
<1>2. \A tx \in Booked : \E i \in 1..Len(book.payments) : TxOf(book.payments[i]) = tx
  <2> TAKE tx \in Booked
  <2>1. tx \in minedPayments /\ tx \notin Stray
    BY DEF Booked
  <2>2. tx \in unheard \/ \E i \in 1..Len(book.payments) : TxOf(book.payments[i]) = tx
    BY <2>1, Parts DEF NoneStray
  <2> QED BY <1>1, <2>1, <2>2 DEF Stray
<1>3. \A tx \in Booked : h[tx] \in 1..Len(book.payments) /\ TxOf(book.payments[h[tx]]) = tx
  BY <1>2
<1>4. \A p : TxOf(p).to = p.to /\ TxOf(p).amount = p.amount
  BY DEF TxOf
<1> HIDE DEF h
<1>5. \A tx \in Booked :
        book.payments[h[tx]].amount = tx.amount /\ book.payments[h[tx]].to = tx.to
  BY <1>3, <1>4
<1>6. \A tx, other \in Booked : h[tx] = h[other] => tx = other
  BY <1>3
<1> QED BY <1>1, <1>3, <1>5, <1>6

\* Payments that were mined, to places that hold them, sum to no more than the
\* places do.
LEMMA MinedSum ==
  ASSUME PoolInv, NEW S \in SUBSET minedPayments, NEW R \in SUBSET DOMAIN book.payments,
         NEW h, \A tx \in S : h[tx] \in R /\ book.payments[h[tx]].amount = tx.amount,
         \A tx, other \in S : h[tx] = h[other] => tx = other
  PROVE  Amounts(S) <= SumFunctionOnSet(AmountsOf(book), R)
<1> DEFINE f == [tx \in S |-> tx.amount]
           g == AmountsOf(book)
<1>1. IsFiniteSet(S) /\ IsFiniteSet(R)
  BY Parts, FinitePlaces, FS_Subset
<1>2. \A tx \in S : f[tx] \in Nat
  BY Parts DEF PaymentTx
<1>3. \A i \in R : g[i] \in Nat
  BY Parts, PlacesFinite
<1>4. \A tx \in S : h[tx] \in R /\ f[tx] <= g[h[tx]]
  <2> TAKE tx \in S
  <2>1. g[h[tx]] = tx.amount
    BY DEF AmountsOf
  <2> QED BY <1>2, <2>1
<1> HIDE DEF f, g
<1>5. SumFunctionOnSet(f, S) <= SumFunctionOnSet(g, R)
  BY <1>1, <1>2, <1>3, <1>4, SumInto
<1> QED BY <1>5 DEF Amounts, f, g

\* But for payments whose answers were lost, a miner receives on the chain no
\* more than its confirmed blocks earned it, through crashes, repeated nonces
\* and reorganisations.
THEOREM PaidTheorem == PoolSpec => []PaidTwiceOnlyUnheard
<1>1. PoolInv => PaidTwiceOnlyUnheard
  <2> SUFFICES ASSUME PoolInv, NEW m \in Miner
               PROVE  Amounts({tx \in Booked : tx.to = m}) <= Earned(book, m)
    BY DEF PaidTwiceOnlyUnheard, Booked
  <2> DEFINE S == {tx \in Booked : tx.to = m}
             R == Places(book, m)
  <2>1. PICK h : /\ \A tx \in Booked : /\ h[tx] \in DOMAIN book.payments
                                       /\ TxOf(book.payments[h[tx]]) = tx
                                       /\ book.payments[h[tx]].amount = tx.amount
                                       /\ book.payments[h[tx]].to = tx.to
                 /\ \A tx, other \in Booked : h[tx] = h[other] => tx = other
    BY MinedPlaces
  <2>2. \A tx \in S : h[tx] \in R /\ book.payments[h[tx]].amount = tx.amount
    BY <2>1 DEF Places
  <2>3. /\ S \in SUBSET minedPayments /\ R \in SUBSET DOMAIN book.payments
        /\ \A tx, other \in S : h[tx] = h[other] => tx = other
    BY <2>1 DEF Places, Booked
  <2> HIDE DEF S, R
  <2>4. Amounts(S) <= SumFunctionOnSet(AmountsOf(book), R)
    BY <2>2, <2>3, MinedSum
  <2>5. SumFunctionOnSet(AmountsOf(book), R) = Debited(book, m)
    BY DebitedIs DEF R
  <2>6. /\ book.balances[m] + Debited(book, m) = Earned(book, m) /\ book.balances[m] \in Nat
        /\ Debited(book, m) \in Nat /\ Earned(book, m) \in Nat
    BY Parts, BooksElim, DebitedNat, EarnedNat DEF Sound
  <2>7. Amounts(S) \in Nat
    <3> DEFINE f == [tx \in S |-> tx.amount]
    <3>1. IsFiniteSet(S) /\ \A tx \in S : f[tx] \in Nat
      BY <2>3, Parts, FS_Subset DEF PaymentTx
    <3> HIDE DEF f
    <3>2. SumFunctionOnSet(f, S) \in Nat
      BY <3>1, SumNat
    <3> QED BY <3>2 DEF Amounts, f
  <2>8. Amounts(S) <= Earned(book, m)
    BY <2>4, <2>5, <2>6, <2>7
  <2> QED BY <2>8 DEF S
<1> QED BY <1>1, PoolInvTheorem, PTL

LEMMA BookedNat == ASSUME PoolInv PROVE Amounts(Booked) \in Nat
<1> DEFINE f == [tx \in Booked |-> tx.amount]
<1>1. IsFiniteSet(Booked) /\ \A tx \in Booked : f[tx] \in Nat
  BY Parts, FS_Subset DEF Booked, PaymentTx
<1> HIDE DEF f
<1>2. SumFunctionOnSet(f, Booked) \in Nat
  BY <1>1, SumNat
<1> QED BY <1>2 DEF Amounts, f

\* What all balances and all payments hold is what the confirmed blocks
\* brought, and no more than the blocks of the chain did.
LEMMA AllEarned ==
  ASSUME PoolInv
  PROVE  SumFunctionOnSet(book.balances, Miner) + SumFunctionOnSet(AmountsOf(book), DOMAIN book.payments)
           <= Income
<1> DEFINE bal == book.balances
           D == DOMAIN book.payments
           deb == [m \in Miner |-> Debited(book, m)]
           earn == [m \in Miner |-> Earned(book, m)]
           K == ConfirmedIn(book)
<1>1. IsFiniteSet(Miner) /\ IsFiniteSet(D) /\ IsFiniteSet(K) /\ K \subseteq PoolBlock
  BY PoolAssumption, Parts, FinitePlaces, BringsNat
<1>2. \A m \in Miner : /\ bal[m] \in Nat /\ deb[m] \in Nat /\ earn[m] \in Nat
                       /\ earn[m] = bal[m] + deb[m]
  BY Parts, BooksElim, DebitedNat, EarnedNat DEF Sound
<1>3. SumFunctionOnSet(deb, Miner) = SumFunctionOnSet(AmountsOf(book), D)
  <2> DEFINE part == [m \in Miner |-> Places(book, m)]
             f == AmountsOf(book)
  <2>1. \A m \in Miner : part[m] \subseteq D /\ deb[m] = SumFunctionOnSet(f, part[m])
    BY DebitedIs DEF Places
  <2>2. \A i \in D : \E m \in Miner : i \in part[m] /\ \A n \in Miner : i \in part[n] => n = m
    BY Parts, BooksElim DEF Places
  <2>3. \A i \in D : f[i] \in Int
    BY Parts, PlacesFinite
  <2> HIDE DEF D, deb, earn, K, part, f, bal
  <2>4. SumFunctionOnSet(deb, Miner) = SumFunctionOnSet(f, D)
    BY <1>1, <2>1, <2>2, <2>3, SumParts
  <2> QED BY <2>4 DEF f
<1>4. SumFunctionOnSet(earn, Miner) = SumFunctionOnSet(bal, Miner) + SumFunctionOnSet(deb, Miner)
  <2> HIDE DEF bal, deb, earn
  <2>1. \A m \in Miner : bal[m] \in Int /\ deb[m] \in Int /\ earn[m] = bal[m] + deb[m]
    BY <1>2
  <2> QED BY <1>1, <2>1, SumPlus
<1>5. SumFunctionOnSet(earn, Miner) <= Reward * Cardinality(K)
  <2> DEFINE c == [k \in K |-> book.blocks[k].credits]
  <2>1. \A k \in K : \A m \in Miner : c[k][m] \in Nat
    BY Parts, BringsNat
  <2>2. \A k \in K : SumFunctionOnSet(c[k], Miner) <= Reward
    BY Parts DEF Sound, ConfirmedIn
  <2>3. \A m \in Miner : earn[m] = SumFunctionOnSet([k \in K |-> c[k][m]], K)
    <3> TAKE m \in Miner
    <3>1. Brings(book, m) = [k \in K |-> c[k][m]]
      BY DEF Brings
    <3> QED BY <3>1, EarnedIs
  <2>4. Reward \in Nat
    BY PoolAssumption
  <2> HIDE DEF earn, K, c
  <2> QED BY <1>1, <2>1, <2>2, <2>3, <2>4, SumRows
<1>6. Cardinality(K) <= Cardinality(canon) /\ Cardinality(K) \in Nat /\ Cardinality(canon) \in Nat
  <2>1. K \subseteq canon
    BY Parts DEF Fits, Buried
  <2>2. IsFiniteSet(canon)
    <3>1. canon \subseteq PoolBlock /\ IsFiniteSet(PoolBlock)
      BY Parts, FinitePlaces DEF PoolTypeOK
    <3> QED BY <3>1, FS_Subset
  <2> HIDE DEF K
  <2> QED BY <1>1, <2>1, <2>2, FS_Subset, FS_CardinalityType
<1>7. Reward * Cardinality(K) <= Income
  <2> HIDE DEF K
  <2>1. Reward \in Nat
    BY PoolAssumption
  <2>2. \A x, y \in Nat : x <= y => Reward * x <= Reward * y
    BY <2>1
  <2> QED BY <1>6, <2>2 DEF Income
<1>8. SumFunctionOnSet(bal, Miner) \in Nat /\ SumFunctionOnSet(deb, Miner) \in Nat
  <2> HIDE DEF bal, deb
  <2> QED BY <1>1, <1>2, SumNat
<1>9. Reward * Cardinality(K) \in Nat /\ Income \in Nat
  <2> HIDE DEF K
  <2> QED BY <1>6, PoolAssumption, IncomeNat
<1> HIDE DEF bal, D, deb, earn, K
<1>10. SumFunctionOnSet(bal, Miner) + SumFunctionOnSet(AmountsOf(book), D) <= Income
  BY <1>3, <1>4, <1>5, <1>7, <1>8, <1>9
<1> QED BY <1>10 DEF bal, D

\* Everything owed and not paid is in the pool's wallet, but for what payments
\* with lost answers took: a block is credited only below the deepest
\* reorganisation.
THEOREM OwedTheorem == PoolSpec => []OwedIsHeld
<1>1. PoolInv => OwedIsHeld
  <2> SUFFICES ASSUME PoolInv PROVE OwedIsHeld
    OBVIOUS
  <2> DEFINE D == DOMAIN book.payments
             unpaid == {i \in D : TxOf(book.payments[i]) \notin minedPayments}
             paid == D \ unpaid
             f == AmountsOf(book)
  <2>1. PICK h : /\ \A tx \in Booked : /\ h[tx] \in D
                                       /\ TxOf(book.payments[h[tx]]) = tx
                                       /\ book.payments[h[tx]].amount = tx.amount
                                       /\ book.payments[h[tx]].to = tx.to
                 /\ \A tx, other \in Booked : h[tx] = h[other] => tx = other
    BY MinedPlaces
  <2>2. \A tx \in Booked : h[tx] \in paid
    BY <2>1 DEF Booked
  <2>3. Amounts(Booked) <= SumFunctionOnSet(f, paid)
    <3>1. paid \in SUBSET D /\ Booked \in SUBSET minedPayments
      BY DEF Booked
    <3> HIDE DEF paid
    <3> QED BY <2>1, <2>2, <3>1, MinedSum
  <2>4. IsFiniteSet(D) /\ \A i \in D : f[i] \in Nat /\ f[i] \in Int
    BY Parts, FinitePlaces, PlacesFinite
  <2>5. unpaid \cap paid = {} /\ unpaid \cup paid = D /\ unpaid \subseteq D /\ paid \subseteq D
    OBVIOUS
  <2> HIDE DEF unpaid, paid, f, D
  <2>6. IsFiniteSet(unpaid) /\ IsFiniteSet(paid)
    BY <2>4, <2>5, FS_Subset
  <2>7. SumFunctionOnSet(f, D) = SumFunctionOnSet(f, unpaid) + SumFunctionOnSet(f, paid)
    <3>1. \A i \in unpaid \cup paid : f[i] \in Int
      BY <2>4, <2>5
    <3>2. SumFunctionOnSet(f, unpaid \cup paid) = SumFunctionOnSet(f, unpaid) + SumFunctionOnSet(f, paid)
      BY <2>5, <2>6, <3>1, SumUnion
    <3> QED BY <2>5, <3>2
  <2>8. /\ SumFunctionOnSet(f, unpaid) \in Nat /\ SumFunctionOnSet(f, paid) \in Nat
        /\ \A m \in Miner : book.balances[m] \in Nat
    BY <2>4, <2>5, <2>6, SumNat, Parts, BooksElim
  <2>9. SumFunctionOnSet(book.balances, Miner) \in Nat
    BY <2>8, PoolAssumption, SumNat
  <2>10. SumFunctionOnSet(book.balances, Miner) + SumFunctionOnSet(f, D) <= Income
    BY AllEarned DEF f, D
  <2>11. SumFunctionOnSet(book.balances, Miner) + SumFunctionOnSet(f, unpaid)
           <= Income - Amounts(Booked)
    BY <2>3, <2>7, <2>8, <2>9, <2>10, IncomeNat, BookedNat
  <2>12. f = [i \in DOMAIN book.payments |-> book.payments[i].amount]
    BY DEF f, AmountsOf
  <2> QED BY <2>11, <2>12 DEF OwedIsHeld, Booked, unpaid, D
<1> QED BY <1>1, PoolInvTheorem, PTL
=============================================================================
