------------------------------ MODULE Mempool ------------------------------
(***************************************************************************)
(* The admission rules of the mempool (chain.js submitRaw, pendingNonce),  *)
(* as operators on a pool: a set of transactions.  Module Chain owns the   *)
(* pool itself, because a reorganisation writes it too.                    *)
(*                                                                         *)
(* What a transaction says (its payload, balance and token checks) is      *)
(* abstracted: Tx holds the transactions whose content is admissible.      *)
(***************************************************************************)
EXTENDS Naturals, FiniteSets, FiniteSetsExt

CONSTANTS
  Sender,              \* Sender[tx]: the account that signed it
  Nonce,               \* Nonce[tx]
  GasPrice,            \* GasPrice[tx]
  FreeToSpeak,         \* expressions, exempt from the price floor
  MinGasPrice,         \* this node's floor
  MaxMempoolSize,
  MaxMempoolPerSender

FromSender(pool, s) == {tx \in pool : Sender[tx] = s}

\* The next nonce usable by s, whose account is at nonce n.
PendingNonce(pool, s, n) ==
  Max({n} \cup {Nonce[tx] + 1 : tx \in {p \in FromSender(pool, s) : Nonce[p] >= n}})

\* Every check of submitRaw that does not depend on the pool being full; n is
\* the sender's nonce in the head state.
Admissible(pool, tx, n) ==
  /\ tx \notin pool
  /\ Nonce[tx] \in n .. PendingNonce(pool, Sender[tx], n)
  /\ GasPrice[tx] >= MinGasPrice \/ tx \in FreeToSpeak
  /\ Cardinality(FromSender(pool, Sender[tx])) < MaxMempoolPerSender

Cheapest(pool) == {tx \in pool : \A p \in pool : GasPrice[tx] <= GasPrice[p]}

\* The pools that may result from admitting tx: with room it is added; when
\* the pool is full it must outbid, and displaces, the first of the cheapest
\* (which of several at one price is insertion order, abstracted here).
Admitted(pool, tx) ==
  IF Cardinality(pool) < MaxMempoolSize
    THEN {pool \cup {tx}}
    ELSE {(pool \ {c}) \cup {tx} :
            c \in {c \in Cheapest(pool) : GasPrice[tx] > GasPrice[c]}}
=============================================================================
