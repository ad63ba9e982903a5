------------------------------- MODULE Grants -------------------------------
(***************************************************************************)
(* The two services of a node that give something to whoever asks: the     *)
(* issuer of chalk (issuer.js), against a solved puzzle or a linking       *)
(* proof, and the treasury's airdrop (faucet.js), against a proof only.    *)
(*                                                                         *)
(* What they give is a transaction of their own account, which waits in    *)
(* the mempool of the node, reaches other nodes or not, and is mined,      *)
(* crowded out, or lost with the process; a block may be abandoned.  What  *)
(* they remember is a file each, written once the transaction is out, and  *)
(* writing may fail.  The stipend of MOLI, off by default, is left out.    *)
(***************************************************************************)
EXTENDS Integers, FiniteSetsExt

CONSTANTS
  Person,
  Cost, GrantExpressions, \* of one expression, and expressions in a grant
  Treasury,               \* airdrops the treasury can pay
  MaxMempoolPerSender,
  MaxOpen,                \* challenges open at a time: bound
  MaxIssues, MaxAirdrops, MaxGrantFaults, \* bounds
  NoTransaction

Grant == Cost * GrantExpressions

ASSUME GrantsAssumption ==
  /\ Cost \in Nat \ {0} /\ GrantExpressions \in Nat \ {0}
  /\ Treasury \in Nat /\ MaxMempoolPerSender \in Nat \ {0}

VARIABLES
  challenges, \* person -> puzzles handed out and not used
  links,      \* linking challenges handed out and not used
  grants,     \* person -> "fresh" or "old" (past the cool-down), or "none"
  grantsFile,
  claims,     \* persons that claimed
  claimsFile,
  mempool,    \* of the node
  network,    \* transactions other nodes have
  onChain, spent, last, \* what is on the chain, chalk used up, the tip's transaction
  late,       \* history: the cool-down was over while an issue could still be mined
  unsaved, forgotten, \* history: records that are not on file, and that a crash took
  grantFaults

asked == <<challenges, links>>
records == <<grants, grantsFile, claims, claimsFile, unsaved>>
chain == <<mempool, network, onChain, spent, last>>
grantsVars == <<asked, records, chain, late, forgotten, grantFaults>>

GrantsInit ==
  /\ challenges = [p \in Person |-> 0] /\ links = 0
  /\ grants = [p \in Person |-> "none"] /\ grantsFile = grants
  /\ claims = {} /\ claimsFile = {}
  /\ mempool = {} /\ network = {}
  /\ onChain = {} /\ spent = [p \in Person |-> 0] /\ last = NoTransaction
  /\ late = {} /\ unsaved = {} /\ forgotten = {} /\ grantFaults = 0

-----------------------------------------------------------------------------
(* The chain, as the services read it                                      *)

Of(s, txs) == {t \in txs : t.by = s}
For(s, p, txs) == {t \in Of(s, txs) : t.to = p}
NonceOf(s) == Cardinality(Of(s, onChain))
PendingNonce(s) == Max({NonceOf(s)} \cup {t.nonce + 1 : t \in Of(s, mempool)})

TokenBalanceOf(p) == Grant * Cardinality(For("issuer", p, onChain)) - spent[p]
Balance == Treasury - Cardinality(Of("treasury", onChain))

\* Issues to p that may yet be mined, on this branch or another.
Waiting(p) == For("issuer", p, mempool \cup network) \ onChain

-----------------------------------------------------------------------------
(* Asking                                                                  *)

\* Mutant: only what is held already counts.
MayReceiveHeld(p) == TokenBalanceOf(p) < Cost

\* refusalFor: "you already hold enough chalk to speak", "a grant to this
\* address is still being mined".
MayReceive(p) == TokenBalanceOf(p) < Cost /\ grants[p] # "fresh"

ChallengeFor(p) ==
  /\ MayReceive(p) /\ challenges[p] < MaxOpen
  /\ challenges' = [challenges EXCEPT ![p] = @ + 1]
  /\ UNCHANGED <<links, records, chain, late, forgotten, grantFaults>>

LinkChallenge ==
  /\ links < MaxOpen /\ links' = links + 1
  /\ UNCHANGED <<challenges, records, chain, late, forgotten, grantFaults>>

\* A challenge is used up whatever comes of it,
UseChallenge(p) ==
  /\ challenges[p] > 0 /\ challenges' = [challenges EXCEPT ![p] = @ - 1]
  /\ UNCHANGED links

UseLink ==
  /\ links > 0 /\ links' = links - 1
  /\ UNCHANGED challenges

\* in vain when it expired, was not solved, or is another's.
Waste ==
  /\ UseLink \/ \E p \in Person : UseChallenge(p)
  /\ UNCHANGED <<records, chain, late, forgotten, grantFaults>>

-----------------------------------------------------------------------------
(* Giving                                                                  *)

\* submitRaw takes the transaction, and the broadcast may reach nobody.
Sends(s, p) ==
  LET t == [by |-> s, to |-> p, nonce |-> PendingNonce(s)] IN
  /\ Cardinality(Of(s, mempool)) < MaxMempoolPerSender
  /\ mempool' = mempool \cup {t}
  /\ network' \in {network, network \cup {t}}
  /\ UNCHANGED <<onChain, spent, last>>

Fault == grantFaults < MaxGrantFaults /\ grantFaults' = grantFaults + 1

\* The whole file is written again, or writing throws.
SavedGrants(book) ==
  \/ grantsFile' = book /\ unsaved' = unsaved \ ({"issuer"} \X Person) /\ UNCHANGED grantFaults
  \/ Fault /\ UNCHANGED grantsFile
     /\ unsaved' = unsaved \cup {<<"issuer", p>> : p \in {q \in Person : book[q] # grants[q]}}

SavedClaims(book) ==
  \/ claimsFile' = book /\ unsaved' = unsaved \ ({"treasury"} \X Person) /\ UNCHANGED grantFaults
  \/ Fault /\ UNCHANGED claimsFile
     /\ unsaved' = unsaved \cup {<<"treasury", p>> : p \in book \ claims}

IssueTo(p) ==
  /\ MayReceive(p) /\ Sends("issuer", p)
  /\ PendingNonce("issuer") < MaxIssues
  /\ grants' = [grants EXCEPT ![p] = "fresh"]
  /\ SavedGrants(grants')
  /\ UNCHANGED <<claims, claimsFile, late, forgotten>>

Redeem(p) == UseChallenge(p) /\ IssueTo(p)
GrantForProof(p) == UseLink /\ IssueTo(p)

ClaimAirdrop(p) ==
  /\ UseLink
  /\ p \notin claims /\ Balance > 0
  /\ Sends("treasury", p) /\ PendingNonce("treasury") < MaxAirdrops
  /\ claims' = claims \cup {p}
  /\ SavedClaims(claims')
  /\ UNCHANGED <<grants, grantsFile, late, forgotten>>

-----------------------------------------------------------------------------
(* The chain, time, and the process                                        *)

MineTransaction(t) ==
  /\ t.nonce = NonceOf(t.by)
  /\ t.by = "treasury" => Balance > 0
  /\ onChain' = onChain \cup {t} /\ last' = t
  /\ mempool' = {u \in mempool : u.by = t.by => u.nonce > t.nonce}
  /\ UNCHANGED <<network, spent, asked, records, late, forgotten, grantFaults>>

\* A holder speaks, at the cost or, where the amount is the weight, for more.
SpeakWith(p, n) ==
  /\ n <= TokenBalanceOf(p)
  /\ spent' = [spent EXCEPT ![p] = @ + n] /\ last' = NoTransaction
  /\ UNCHANGED <<mempool, network, onChain, asked, records, late, forgotten, grantFaults>>

\* The tip is abandoned, and its transaction pending again.
Abandon ==
  /\ last # NoTransaction /\ Fault
  /\ onChain' = onChain \ {last} /\ mempool' = mempool \cup {last} /\ last' = NoTransaction
  /\ late' = IF last.by = "issuer" /\ grants[last.to] # "fresh" THEN late \cup {last.to} ELSE late
  /\ UNCHANGED <<network, spent, asked, records, forgotten>>

\* A full mempool drops it for one that pays more.
Displace(t) ==
  /\ t \in mempool /\ Fault
  /\ mempool' = mempool \ {t}
  /\ UNCHANGED <<network, onChain, spent, last, asked, records, late, forgotten>>

Elapse(p) ==
  LET aged(book) == IF book[p] = "fresh" THEN [book EXCEPT ![p] = "old"] ELSE book IN
  /\ grants[p] = "fresh"
  /\ grants' = aged(grants) /\ grantsFile' = aged(grantsFile)
  /\ late' = IF Waiting(p) # {} THEN late \cup {p} ELSE late
  /\ UNCHANGED <<claims, claimsFile, unsaved, asked, chain, forgotten, grantFaults>>

\* The process dies and starts again with its files.
Restart ==
  /\ Fault
  /\ grants' = grantsFile /\ claims' = claimsFile
  /\ challenges' = [p \in Person |-> 0] /\ links' = 0 /\ mempool' = {}
  /\ forgotten' = forgotten \cup unsaved /\ unsaved' = {}
  /\ UNCHANGED <<grantsFile, claimsFile, network, onChain, spent, last, late>>

GrantsNext ==
  \/ \E p \in Person :
       \/ ChallengeFor(p) \/ Redeem(p) \/ GrantForProof(p) \/ ClaimAirdrop(p) \/ Elapse(p)
       \/ \E n \in Cost .. Cost + 1 : SpeakWith(p, n)
  \/ LinkChallenge \/ Waste
  \/ \E t \in mempool \cup network : MineTransaction(t) \/ Displace(t)
  \/ Abandon \/ Restart

GrantsSpec == GrantsInit /\ [][GrantsNext]_grantsVars

-----------------------------------------------------------------------------
(* Properties                                                              *)

\* "A grant is refused while the address still holds enough to speak", which is
\* to cap hoarding: nobody holds more than a grant and less than the cost of one
\* expression, unless the cool-down was over, or a reorganisation came, before
\* the grant was mined, or the record of it did not survive (issuer.js 127-148).
HoardsOnlyIf ==
  \A p \in Person :
    TokenBalanceOf(p) >= Grant + Cost => p \in late \/ <<"issuer", p>> \in forgotten

\* "One claim per address", though files fail, nonces are used again after a
\* crash and blocks are abandoned, unless the record did not survive (faucet.js).
ClaimedOnce ==
  \A p \in Person :
    Cardinality(For("treasury", p, onChain)) > 1 => <<"treasury", p>> \in forgotten

\* Nothing is given twice by the two together.
GivenOnce == HoardsOnlyIf /\ ClaimedOnce
=============================================================================
