------------------------------ MODULE Accounts ------------------------------
(***************************************************************************)
(* The accounts a block is composed on, and the transactions applied to    *)
(* them one after another: transfers, contract calls, claims and releases  *)
(* of bridged assets, burns and returns of MOLI, and the charge for        *)
(* publishing (state.js applyTransaction, evm.js, evmstate.js).  composeBlock *)
(* goes on with the same state after a transaction that was refused.       *)
(*                                                                         *)
(* The EVM is a library: here it is what it may do through the state       *)
(* manager.  A call is several steps, one per nested call, and each call   *)
(* rests on a checkpoint, a copy of the state.  Gas is what was used in    *)
(* the end; what a native payload does to its own ledger is in modules     *)
(* Bridge and Expressions.                                                 *)
(***************************************************************************)
EXTENDS Integers, FiniteSets, FiniteSetsExt, SequencesExt, Functions

CONSTANTS
  Person,                \* accounts with a key
  Deployed, Created,     \* contracts that exist, and addresses of later ones
  Coinbase,              \* the miner of the block
  Authority, AssetContract, \* of a bridged asset: its keyless address, its contract
  Funds,                 \* what each person has at first
  IntrinsicGas, GasLimit, GasPrices,
  PublishBurn, BlockReward,
  MaxValue, MaxTxs, MaxSteps, MaxDepth, MaxBlocksMined, \* bounds
  NoTx

Address == Person \cup Deployed \cup Created \cup {Coinbase, Authority}

\* The accounts of a block, where S have an account and R have storage, a
\* transaction in the EVM that found them so, and a call of it.
World(S, R) ==
  [accounts : [S -> [balance : Int, nonce : Nat]], code : SUBSET (Deployed \cup Created),
   storage : [R -> Nat]]
Transaction(S, R) ==
  [from : Person, caller : Address, limit : Nat, price : Nat, native : BOOLEAN,
   value : Nat, nonce : Nat, entry : World(S, R), failed : BOOLEAN]

ASSUME AccountsAssumption ==
  /\ IsFiniteSet(Person) /\ IsFiniteSet(Deployed) /\ IsFiniteSet(Created)
  /\ Person \cap (Deployed \cup Created) = {} /\ Authority \notin Person
  /\ AssetContract \in Deployed /\ Funds \in [Person -> Nat]
  /\ IntrinsicGas \in Nat /\ GasLimit \subseteq Nat /\ GasPrices \subseteq Nat
  /\ PublishBurn \in Nat /\ BlockReward \in Nat
  /\ \A S, R \in SUBSET Address : NoTx \notin Transaction(S, R)

VARIABLES
  world,       \* accounts, code and storage
  outstanding, \* MOLI burned and not returned
  published,   \* MOLI destroyed by publishing
  issued,      \* MOLI mined
  tx,          \* the transaction in the EVM, or NoTx
  frames,      \* its calls, the outermost first, each with its checkpoint
               \* and, as history, the writes there were by then
  journal,     \* history: its writes in order, but those of reverted calls
  steps,       \* of the EVM
  txs, blocks  \* transactions begun, and blocks mined

vmVars == <<tx, frames, journal, steps>>
supplyVars == <<outstanding, published, issued>>
accountsVars == <<world, supplyVars, vmVars, txs, blocks>>

-----------------------------------------------------------------------------
(* The state                                                               *)

Empty == [balance |-> 0, nonce |-> 0]
Get(w, a) == IF a \in DOMAIN w.accounts THEN w.accounts[a] ELSE Empty
BalanceIn(w, a) == Get(w, a).balance
NonceIn(w, a) == Get(w, a).nonce

Put(map, a, v) == [b \in DOMAIN map \cup {a} |-> IF b = a THEN v ELSE map[b]]
SetAccount(w, a, account) == [w EXCEPT !.accounts = Put(@, a, account)]
Credit(w, a, n) == SetAccount(w, a, [Get(w, a) EXCEPT !.balance = @ + n])
Debit(w, a, n) == Credit(w, a, -n)
SetNonce(w, a, n) == SetAccount(w, a, [Get(w, a) EXCEPT !.nonce = n])
BumpNonce(w, a) == SetNonce(w, a, NonceIn(w, a) + 1)
SetStorage(w, a, v) ==
  [w EXCEPT !.storage = IF v = 0 THEN Restrict(@, DOMAIN @ \ {a}) ELSE Put(@, a, v)]

\* What the state root commits to: "empty accounts do not count".
RootLines(w) ==
  [w EXCEPT !.accounts = Restrict(@, {a \in DOMAIN @ : @[a] # Empty})]

AccountsInit ==
  /\ world = [accounts |-> [p \in Person |-> [balance |-> Funds[p], nonce |-> 0]],
              code |-> Deployed, storage |-> << >>]
  /\ outstanding = 0 /\ published = 0 /\ issued = 0
  /\ tx = NoTx /\ frames = << >> /\ journal = << >> /\ steps = 0
  /\ txs = 0 /\ blocks = 0

-----------------------------------------------------------------------------
(* Transactions that never reach the EVM                                   *)

Fee(price) == IntrinsicGas * price

\* The fee and the value move, and the nonce.
Paid(f, t, v, price) ==
  BumpNonce(Credit(Credit(Debit(world, f, Fee(price) + v), t, v), Coinbase, Fee(price)), f)

\* Refused before anything is written, or applied in one step.
Native(f, n, price) ==
  /\ tx = NoTx /\ txs < MaxTxs /\ txs' = txs + 1
  /\ BalanceIn(world, f) >= Fee(price) + n
  /\ UNCHANGED <<vmVars, blocks>>

\* A transfer, to an account without code, or to nobody: then it comes back.
Pay(f, t, v, price) ==
  /\ Native(f, v, price) /\ t \notin world.code
  /\ world' = Paid(f, t, v, price)
  /\ UNCHANGED supplyVars

\* A token is created, or units are issued: the charge goes to nobody.
Publish(f, price) ==
  /\ Native(f, PublishBurn, price)
  /\ world' = Debit(Paid(f, f, 0, price), f, PublishBurn)
  /\ published' = published + PublishBurn
  /\ UNCHANGED <<outstanding, issued>>

\* MOLI leaves for another chain,
BurnMoli(f, n, price) ==
  /\ Native(f, n, price)
  /\ world' = Debit(Paid(f, f, 0, price), f, n)
  /\ outstanding' = outstanding + n
  /\ UNCHANGED <<published, issued>>

\* and comes back to whom the proof names.
ReturnMoli(f, t, n, price) ==
  /\ Native(f, 0, price) /\ n <= outstanding
  /\ world' = Credit(Paid(f, f, 0, price), t, n)
  /\ outstanding' = outstanding - n
  /\ UNCHANGED <<published, issued>>

-----------------------------------------------------------------------------
(* What an EVM call writes, and the journal of it                          *)

ValueMoved(w, e) == Credit(Debit(w, e.from, e.n), e.to, e.n)

Write(w, e) ==
  CASE e.op = "move"  -> ValueMoved(w, e)
    [] e.op = "store" -> SetStorage(w, e.at, e.n)
    [] e.op = "nonce" -> BumpNonce(w, e.at)
    [] e.op = "code"  -> [w EXCEPT !.code = @ \cup {e.at}]

Move(f, t, n) == [op |-> "move", from |-> f, to |-> t, n |-> n]
Store(a, n) == [op |-> "store", at |-> a, n |-> n]
NonceMoves(a) == [op |-> "nonce", at |-> a]
Code(a) == [op |-> "code", at |-> a]

Replayed(w, writes) == FoldLeft(Write, w, writes)

\* The checkpoint of a call, and its first writes: the value, and the nonce of a
\* contract that begins.
EnterCall(w, before, f, t, n, creates) ==
  LET first == <<Move(f, t, n)>> \o (IF creates THEN <<NonceMoves(t)>> ELSE << >>)
  IN  /\ world' = Replayed(w, first)
      /\ frames' = Append(frames, [self |-> t, creates |-> creates, saved |-> w,
                                   mark |-> Len(before)])
      /\ journal' = before \o first

\* Mutant: the whole limit need not be covered, as what is used may be less.
CoversIntrinsic(f, limit, price, v) == BalanceIn(world, f) >= Fee(price) + v

Covers(f, limit, price, v) == BalanceIn(world, f) >= limit * price + v

\* runEvm: runCall moves the caller's nonce itself, before its checkpoint.
RunEvm(f, caller, t, v, limit, price, native, creates) ==
  /\ tx = NoTx /\ txs < MaxTxs /\ txs' = txs + 1
  /\ limit >= IntrinsicGas /\ Covers(f, limit, price, v)
  /\ tx' = [from |-> f, caller |-> caller, limit |-> limit, price |-> price, native |-> native,
            value |-> v, nonce |-> NonceIn(world, caller), entry |-> world, failed |-> FALSE]
  /\ EnterCall(BumpNonce(world, caller), journal, caller, t, v, creates)
  /\ steps' = 0
  /\ UNCHANGED <<supplyVars, blocks>>

CallContract(f, t, v, limit, price) ==
  t \in world.code /\ RunEvm(f, f, t, v, limit, price, FALSE, FALSE)

Deploy(f, a, v, limit, price) ==
  a \in Created \ world.code /\ RunEvm(f, f, a, v, limit, price, FALSE, TRUE)

\* A claim mints as the asset's keyless address, a release burns as the holder;
\* the EVM is told that gas is free.
Claim(f, limit, price) == RunEvm(f, Authority, AssetContract, 0, limit, price, TRUE, FALSE)
Release(f, limit, price) == RunEvm(f, f, AssetContract, 0, limit, price, TRUE, FALSE)

-----------------------------------------------------------------------------
(* One step of a contract                                                  *)

Self == Last(frames).self
\* Code runs in it, of a contract or of one that begins.
Runs == Last(frames).creates \/ Self \in world.code

Step == frames # << >> /\ steps < MaxSteps /\ steps' = steps + 1 /\ UNCHANGED <<tx, supplyVars, txs, blocks>>

StoreStep(n) ==
  /\ Step /\ Runs
  /\ world' = SetStorage(world, Self, n)
  /\ journal' = Append(journal, Store(Self, n))
  /\ UNCHANGED frames

CallStep(t, n) ==
  /\ Step /\ Runs /\ Len(frames) < MaxDepth
  /\ n <= BalanceIn(world, Self)
  /\ EnterCall(world, journal, Self, t, n, FALSE)

\* A contract that creates another moves its own nonce, whatever comes of it.
CreateStep(a, n) ==
  /\ Step /\ Runs /\ Len(frames) < MaxDepth
  /\ a \in Created \ world.code /\ \A i \in DOMAIN frames : frames[i].self # a
  /\ n <= BalanceIn(world, Self)
  /\ EnterCall(BumpNonce(world, Self), Append(journal, NonceMoves(Self)), Self, a, n, TRUE)

\* The innermost call is over.
Closed(kept) ==
  /\ frames' = Front(frames) /\ journal' = kept
  /\ UNCHANGED <<steps, supplyVars, txs, blocks>>

Commit ==
  /\ frames # << >>
  /\ LET code == IF Last(frames).creates THEN <<Code(Self)>> ELSE << >>
     IN  world' = Replayed(world, code) /\ Closed(journal \o code)
  /\ UNCHANGED tx

\* Mutant: the balances stay as they are.
RevertCode ==
  /\ frames # << >> /\ Runs
  /\ world' = [Last(frames).saved EXCEPT !.accounts = world.accounts]
  /\ Closed(SubSeq(journal, 1, Last(frames).mark))
  /\ tx' = IF Len(frames) = 1 THEN [tx EXCEPT !.failed = TRUE] ELSE tx

Revert ==
  /\ frames # << >> /\ Runs
  /\ world' = Last(frames).saved
  /\ Closed(SubSeq(journal, 1, Last(frames).mark))
  /\ tx' = IF Len(frames) = 1 THEN [tx EXCEPT !.failed = TRUE] ELSE tx

-----------------------------------------------------------------------------
(* The end of a transaction                                                *)

\* The nonce that runCall moved is put back, whatever happened.
Restored == SetNonce(world, tx.caller, tx.nonce)

\* A claim or a release whose call fails is refused, any other is mined.
Refuses == tx.failed /\ tx.native

\* Mutant: the value is taken although the EVM moved it.
ChargedAll(spent) ==
  Credit(Debit(Restored, tx.from, spent + tx.value), Coinbase, spent)

Charged(spent) == Credit(Debit(Restored, tx.from, spent), Coinbase, spent)

Finish(used) ==
  /\ tx # NoTx /\ frames = << >>
  /\ LET spent == (IntrinsicGas + used) * tx.price
     IN  world' = IF Refuses \/ BalanceIn(Restored, tx.from) < spent THEN Restored
                  ELSE BumpNonce(Charged(spent), tx.from)
  /\ tx' = NoTx /\ frames' = << >> /\ journal' = << >> /\ steps' = 0
  /\ UNCHANGED <<supplyVars, txs, blocks>>

MineBlock ==
  /\ tx = NoTx /\ blocks < MaxBlocksMined /\ blocks' = blocks + 1
  /\ world' = Credit(world, Coinbase, BlockReward)
  /\ issued' = issued + BlockReward
  /\ UNCHANGED <<outstanding, published, vmVars, txs>>

AccountsNext ==
  \/ \E f \in Person, price \in GasPrices :
       \/ Publish(f, price)
       \/ \E t \in Address, v \in 0 .. MaxValue : Pay(f, t, v, price)
       \/ \E n \in 1 .. MaxValue : BurnMoli(f, n, price) \/ \E t \in Address : ReturnMoli(f, t, n, price)
       \/ \E limit \in GasLimit :
            \/ \E t \in Deployed \cup Created, v \in 0 .. MaxValue :
                 CallContract(f, t, v, limit, price) \/ Deploy(f, t, v, limit, price)
            \/ Claim(f, limit, price) \/ Release(f, limit, price)
  \/ \E n \in {0, 1} : StoreStep(n)
  \/ \E t \in Address, n \in 0 .. MaxValue : CallStep(t, n) \/ CreateStep(t, n)
  \/ Commit \/ Revert \/ MineBlock
  \/ tx # NoTx /\ \E used \in 0 .. tx.limit - IntrinsicGas : Finish(used)

AccountsSpec == AccountsInit /\ [][AccountsNext]_accountsVars

-----------------------------------------------------------------------------
(* Properties                                                              *)

\* Every MOLI that was given or mined is in an account, or counted as burned, at
\* every step of every call (applyTransaction; monetary.js: "total supply stays
\* derivable as the sum of account balances").
MoliAccountedFor ==
  /\ SumFunctionOnSet([a \in Address |-> BalanceIn(world, a)], Address) + outstanding + published
       = SumFunctionOnSet(Funds, Person) + issued
  /\ \A a \in Address : BalanceIn(world, a) >= 0

\* In the middle of a transaction the state is what the calls that were not
\* reverted wrote, in order, however they nest: "a CALL that reverts must leave
\* nothing behind" (evmstate.js checkpoint, commit, revert).
OnlyKeptCallsCount ==
  tx # NoTx => world = Replayed(BumpNonce(tx.entry, tx.caller), journal)

\* A transaction that is refused leaves no trace in the state root, one whose
\* call fails only its fee and its nonce, and the nonce moves once in any other
\* (state.js, "the ledger and the contract move together or neither moves").
AppliedOrUntouched ==
  [][tx # NoTx /\ frames = << >> /\ tx' = NoTx =>
       LET f == tx.from
           before == tx.entry
           fee == BalanceIn(world', Coinbase) - BalanceIn(world, Coinbase)
           charged == Credit(Debit(BumpNonce(before, f), f, fee), Coinbase, fee)
       IN  \/ RootLines(world') = RootLines(before) /\ (tx.failed => tx.native)
           \/ /\ tx.failed => ~tx.native /\ RootLines(world') = RootLines(charged)
              /\ NonceIn(world', f) = NonceIn(before, f) + 1
              /\ fee <= tx.limit * tx.price]_accountsVars
=============================================================================
