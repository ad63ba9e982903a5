------------------------------- MODULE Relay -------------------------------
(***************************************************************************)
(* MolibraRelay, a light client of Molibra on Ethereum, and MolibraBridge, *)
(* which pays out what the relay says is settled (bridge/MolibraRelay.sol).*)
(*                                                                         *)
(* A header is an opaque value: its hash fixes its parent and, through it, *)
(* its history.  The seal, which MolibraProver checks, is abstracted: the  *)
(* headers are those with a valid one.  Anyone may submit headers, in any  *)
(* order; a submission that reverts changes nothing and is no step.        *)
(***************************************************************************)
EXTENDS Naturals, FiniteSets, Sequences

CONSTANTS
  Header,            \* every sealed header that may ever be submitted
  Checkpoint,        \* the header the deployer supplies
  Parent, Number, Time, Difficulty,
  Ancestors,         \* Ancestors[h]: h and all before it, from the checkpoint
  Work,              \* Work[h]: the difficulty of all of them
  TargetSeconds, MinimumDifficulty,
  MaxReorg,          \* MAX_REORG
  Tx, Txs, Amount,   \* bridge-outs, those of a header, and what they pay
  RequiredWork,      \* the values the owner may require
  MaxRun, MaxPot,    \* bounds: headers in one submission, ETH in the bridge
  NoHeader

ASSUME RelayAssumption ==
  /\ Checkpoint \in Header /\ NoHeader \notin Header
  /\ Parent \in [Header \ {Checkpoint} -> Header]
  /\ Number \in [Header -> Nat] /\ Time \in [Header -> Nat]
  /\ Difficulty \in [Header -> Nat \ {0}] /\ Work \in [Header -> Nat]
  /\ Ancestors \in [Header -> SUBSET Header]
  /\ Ancestors[Checkpoint] = {Checkpoint}
  /\ \A h \in Header \ {Checkpoint} :
       /\ Ancestors[h] = Ancestors[Parent[h]] \cup {h}
       /\ Work[h] = Work[Parent[h]] + Difficulty[h]
  /\ TargetSeconds \in Nat /\ MinimumDifficulty \in Nat /\ MaxReorg \in Nat
  /\ Txs \in [Header -> SUBSET Tx] /\ Amount \in [Tx -> Nat]
  /\ RequiredWork \subseteq Nat /\ MaxRun \in Nat /\ MaxPot \in Nat

VARIABLES
  headers,       \* the headers accepted
  best,          \* the head of the best chain
  canonical,     \* number -> the header of the best chain there, or NoHeader
  claimed,       \* bridge-outs paid
  requiredWork,
  pot,           \* the ETH the bridge holds
  fell           \* history: the best chain was once replaced by a shorter one

lightVars == <<headers, best, canonical, fell>>
bridgeVars == <<claimed, requiredWork, pot>>
relayVars == <<lightVars, bridgeVars>>

RelayInit ==
  /\ headers = {Checkpoint} /\ best = Checkpoint
  /\ canonical = [n \in {Number[h] : h \in Header} |->
                    IF n = Number[Checkpoint] THEN Checkpoint ELSE NoHeader]
  /\ claimed = {} /\ requiredWork \in RequiredWork /\ pot = 0
  /\ fell = FALSE

-----------------------------------------------------------------------------
(* The relay.                                                              *)

\* A sixteenth up or down, at least one, and never below the floor.
ExpectedDifficulty(parentDifficulty, elapsed) ==
  LET step == IF parentDifficulty < 16 THEN 1 ELSE parentDifficulty \div 16
      next == IF elapsed < TargetSeconds THEN parentDifficulty + step ELSE parentDifficulty - step
  IN  IF next < MinimumDifficulty THEN MinimumDifficulty ELSE next

Follows(h) ==
  /\ Number[h] = Number[Parent[h]] + 1
  /\ Time[h] > Time[Parent[h]]
  /\ Difficulty[h] = ExpectedDifficulty(Difficulty[Parent[h]], Time[h] - Time[Parent[h]])

\* What is known once the headers before the i-th are accepted.
KnownBefore(run, i) == headers \cup {run[j] : j \in 1 .. i - 1}
Acceptable(run) ==
  \A i \in DOMAIN run :
    run[i] \notin KnownBefore(run, i) =>
      Parent[run[i]] \in KnownBefore(run, i) /\ Follows(run[i])

\* Mutant: the longer chain wins.
Longer(h) == Number[h] > Number[best]

Heavier(h) == Work[h] > Work[best]

\* The walk from a new head back to the first header the index already holds.
\* Mutant: it stops one header early.
RewrittenButFork(h) ==
  {a \in Ancestors[h] \ {Checkpoint} :
     \A c \in Ancestors[h] : Number[c] + 1 >= Number[a] => canonical[Number[c]] # c}
Rewritten(h) ==
  {a \in Ancestors[h] : \A c \in Ancestors[h] : Number[c] >= Number[a] => canonical[Number[c]] # c}
TooDeep(h) == Cardinality(Rewritten(h)) > MaxReorg

\* The head of the run is weighed, whatever came before it in the run.
ChooseBest(h) ==
  \/ ~Heavier(h) /\ UNCHANGED <<best, canonical, fell>>
  \/ /\ Heavier(h) /\ ~TooDeep(h)
     /\ best' = h
     /\ canonical' = [n \in DOMAIN canonical |->
                        IF \E a \in Rewritten(h) : Number[a] = n
                        THEN CHOOSE a \in Rewritten(h) : Number[a] = n
                        ELSE canonical[n]]
     /\ fell' = (fell \/ Number[h] < Number[best])

Submit(run) ==
  /\ Acceptable(run)
  /\ headers' = headers \cup {run[i] : i \in DOMAIN run}
  /\ ChooseBest(run[Len(run)])
  /\ UNCHANGED bridgeVars

-----------------------------------------------------------------------------
(* The bridge.                                                             *)

OnBest(h) == h \in headers /\ canonical[Number[h]] = h
IsSettled(h, tx) ==
  /\ OnBest(h) /\ tx \in Txs[h]
  /\ Work[best] >= Work[h] + requiredWork

Release(h, tx) ==
  /\ tx \notin claimed
  /\ IsSettled(h, tx)
  /\ 0 < Amount[tx] /\ Amount[tx] <= pot
  /\ claimed' = claimed \cup {tx}
  /\ pot' = pot - Amount[tx]
  /\ UNCHANGED <<lightVars, requiredWork>>

Fund == pot < MaxPot /\ pot' = pot + 1 /\ UNCHANGED <<lightVars, claimed, requiredWork>>
Withdraw == pot > 0 /\ pot' = 0 /\ UNCHANGED <<lightVars, claimed, requiredWork>>
SetRequiredWork(value) == requiredWork' = value /\ UNCHANGED <<lightVars, claimed, pot>>

HeaderRun == UNION {[1 .. n -> Header] : n \in 1 .. MaxRun}

RelayNext ==
  \/ \E run \in HeaderRun : Submit(run)
  \/ \E h \in Header, tx \in Tx : Release(h, tx)
  \/ Fund \/ Withdraw \/ \E value \in RequiredWork : SetRequiredWork(value)

RelaySpec == RelayInit /\ [][RelayNext]_relayVars

\* Somebody goes on submitting every header that exists, one by one.
RelayFairness == \A h \in Header : WF_relayVars(Submit(<<h>>))

-----------------------------------------------------------------------------
RelayTypeOK ==
  /\ headers \subseteq Header /\ best \in headers
  /\ canonical \in [{Number[h] : h \in Header} -> headers \cup {NoHeader}]
  /\ claimed \subseteq Tx /\ requiredWork \in RequiredWork /\ pot \in Nat
  /\ fell \in BOOLEAN

\* As long as no shorter chain has ever been the heavier one, the index by
\* number holds the best chain and nothing else, so what is settled is on it
\* (MolibraRelay.sol 63-66, 170-188).
IndexIsBestChain ==
  fell \/ \A n \in DOMAIN canonical :
            canonical[n] = IF \E a \in Ancestors[best] : Number[a] = n
                           THEN CHOOSE a \in Ancestors[best] : Number[a] = n
                           ELSE NoHeader

\* Whatever was submitted first, in whatever batches, the relay ends up on the
\* heaviest chain, unless that forks deeper than it can rewrite in one call
\* (MolibraRelay.sol 27-33, 170-188).
EndsOnHeaviest ==
  LET Sealed == {h \in Header : \A a \in Ancestors[h] \ {Checkpoint} : Follows(a)}
  IN  <>[](\A h \in Sealed : Work[h] <= Work[best] \/ TooDeep(h))

\* A transaction is paid only out of a block of the best chain, with the work
\* required piled on top of it (MolibraRelay.sol 201-218).
PaidOnlyIfSettled ==
  [][\A tx \in claimed' \ claimed :
       \E h \in Ancestors[best] : tx \in Txs[h] /\ Work[best] >= Work[h] + requiredWork]_relayVars
=============================================================================
