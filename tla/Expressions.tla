---------------------------- MODULE Expressions ----------------------------
(***************************************************************************)
(* Speaking on the chain: the votes, tokens and credentials of             *)
(* src/state.js applyTransaction, with the records of src/token.js and the *)
(* keys of src/vote.js and src/credential.js, and the service that signs   *)
(* credentials, src/publisher.js.                                          *)
(*                                                                         *)
(* Every payload is checked whole before anything changes, so an action of *)
(* the chain is one transaction that was accepted; a behaviour is one      *)
(* branch.  Fees, the publishing charge, what was said, and the wording of *)
(* a record are left out.  A hash is what it commits to: the id of a token *)
(* is its creator and title, where a title stands for the words and the    *)
(* height they were registered at.  A vote may name any 32 bytes as its    *)
(* place, the id of a token too.                                           *)
(***************************************************************************)
EXTENDS Integers, FiniteSets, Functions

CONSTANTS
  Wallet, Title, Poll, Serial,
  Declaration,               \* the records creators try to register
  Amount,                    \* amounts written in transactions
  PublisherKey,              \* credential keys the publisher may generate
  StrangerKey,               \* credential keys of others, who sign at will
  Quota, StateFile,          \* of the publisher, and whether it keeps a file
  MaxTokens, MaxUnits, MaxActs, \* bounds of the state space
  None

VoteMode == {"single", "quantum", "capped", "weighted"}
Purpose == {"market", "behaviour", "social", "purchase", "electoral"}
Political == {"social", "purchase", "electoral"}

TokenId == Wallet \X Title
Scope == Poll \cup TokenId
Key == PublisherKey \cup StrangerKey
Record == [decl : Declaration, minted : Nat, burned : Nat, expressions : Nat]

ASSUME ExpressionsAssumption ==
  /\ Declaration \subseteq
       [kind : {"expression", "asset"}, voteMode : VoteMode \cup {None},
        purpose : Purpose \cup {None}, cap : Nat, expressionCost : Nat,
        initialSupply : Nat, maxSupply : Nat,
        issuable : BOOLEAN, transferable : BOOLEAN]
  /\ Amount \subseteq Nat
  /\ None \notin VoteMode \cup Purpose \cup TokenId \cup Key /\ None \notin Record
  /\ IsFiniteSet(Wallet)
  /\ PublisherKey \cap StrangerKey = {}
  /\ Quota \in Nat \ {0} /\ StateFile \in BOOLEAN
  /\ MaxTokens \in Nat /\ MaxUnits \in Nat /\ MaxActs \in Nat

VARIABLES
  tokens,        \* tokenId -> its record and accounting, or None
  tokenBalances, \* tokenId -> wallet -> units
  voteKeys,      \* <<wallet, scope>> that spoke
  expressCounts, \* <<wallet, tokenId>> -> expressions counted there
  polls,         \* voting place -> the key of its credentials, or None
  spentSerials,  \* <<place, serial>> spent
  publisher,     \* keys by place and credentials charged, in memory
  file,          \* the same on disk
  signed,        \* credentials that exist, as their holders have them
  generated,     \* history: keys the publisher generated
  acts,          \* history: votes and expressions accepted
  anonymous,     \* history: credential expressions accepted, by place
  granted, spent \* history: units made for and burned by each wallet

ledger == <<tokens, tokenBalances, voteKeys, expressCounts, acts, granted, spent>>
places == <<polls, spentSerials, anonymous>>
service == <<publisher, file, signed, generated>>
vars == <<ledger, places, service>>

NoBook == [keys |-> [p \in Poll |-> None], issued |-> [pa \in Poll \X Wallet |-> 0]]

Init ==
  /\ tokens = [id \in TokenId |-> None]
  /\ tokenBalances = [id \in TokenId |-> [w \in Wallet |-> 0]]
  /\ voteKeys = {}
  /\ expressCounts = [k \in Wallet \X TokenId |-> 0]
  /\ polls = [p \in Poll |-> None]
  /\ spentSerials = {}
  /\ publisher = NoBook /\ file = NoBook
  /\ signed = {} /\ generated = {}
  /\ acts = {}
  /\ anonymous = [p \in Poll |-> 0]
  /\ granted = [id \in TokenId |-> [w \in Wallet |-> 0]]
  /\ spent = [id \in TokenId |-> [w \in Wallet |-> 0]]

-----------------------------------------------------------------------------
Total(f, S) == SumFunctionOnSet(f, S)
ActsSoFar == Cardinality(acts) + Total(anonymous, Poll)

-----------------------------------------------------------------------------
(* Tokens.                                                                 *)

\* What a record must be to be registered.
WellFormed(d) ==
  /\ d.kind = "expression" => /\ d.voteMode # None /\ d.expressionCost > 0
                              /\ d.purpose # None
                              /\ d.issuable \/ d.transferable
  /\ d.kind = "asset" => d.voteMode = None /\ d.expressionCost = 0
  /\ d.voteMode = "capped" => d.cap >= 1
  /\ d.maxSupply > 0 => d.initialSupply <= d.maxSupply
  /\ d.purpose \in Political => ~d.transferable
  /\ d.issuable \/ d.initialSupply > 0

\* A record is registered under an id of its own, and its initial supply is
\* its creator's.
Create(w, title, d) ==
  LET id == <<w, title>> IN
  /\ WellFormed(d)
  /\ tokens[id] = None
  /\ Cardinality({i \in TokenId : tokens[i] # None}) < MaxTokens
  /\ tokens' = [tokens EXCEPT ![id] = [decl |-> d, minted |-> d.initialSupply,
                                       burned |-> 0, expressions |-> 0]]
  /\ tokenBalances' = [tokenBalances EXCEPT ![id][w] = d.initialSupply]
  /\ granted' = [granted EXCEPT ![id][w] = d.initialSupply]
  /\ UNCHANGED <<voteKeys, expressCounts, acts, spent, places, service>>

\* Units may be made up to the declared maximum of all ever made.
Mintable(id, n) ==
  /\ tokens[id].decl.issuable /\ n > 0
  /\ tokens[id].decl.maxSupply > 0 => tokens[id].minted + n <= tokens[id].decl.maxSupply

\* The creator makes units for somebody.
Issue(w, id, to, n) ==
  /\ tokens[id] # None /\ w = id[1] /\ Mintable(id, n)
  /\ tokens[id].minted + n <= MaxUnits
  /\ tokens' = [tokens EXCEPT ![id].minted = @ + n]
  /\ tokenBalances' = [tokenBalances EXCEPT ![id][to] = @ + n]
  /\ granted' = [granted EXCEPT ![id][to] = @ + n]
  /\ UNCHANGED <<voteKeys, expressCounts, acts, spent, places, service>>

\* Mutant: both balances are read before either is written.
MovedBoth(held, from, to, n) == [held EXCEPT ![from] = @ - n, ![to] = held[to] + n]

\* The sender is debited before the recipient is read.
Moved(held, from, to, n) ==
  LET debited == [held EXCEPT ![from] = @ - n] IN [debited EXCEPT ![to] = @ + n]

\* Units of a transferable token change hands.
Transfer(id, from, to, n) ==
  /\ tokens[id] # None /\ tokens[id].decl.transferable
  /\ n > 0 /\ n <= tokenBalances[id][from]
  /\ tokenBalances' = [tokenBalances EXCEPT ![id] = Moved(@, from, to, n)]
  /\ UNCHANGED <<tokens, voteKeys, expressCounts, acts, granted, spent, places, service>>

-----------------------------------------------------------------------------
(* Votes and expressions.                                                  *)

\* A plain vote, which needs no token.
Vote(w, scope) ==
  /\ <<w, scope>> \notin voteKeys
  /\ ActsSoFar < MaxActs
  /\ voteKeys' = voteKeys \cup {<<w, scope>>}
  /\ acts' = acts \cup {[by |-> w, token |-> None, scope |-> scope, nth |-> 0]}
  /\ UNCHANGED <<tokens, tokenBalances, expressCounts, granted, spent, places, service>>

\* The price of an expression is fixed, except where the amount is the weight.
Burnable(d, n) ==
  IF d.voteMode = "weighted" THEN n >= d.expressionCost ELSE n = d.expressionCost

\* Mutant: a quantum expression is remembered under its token.
ScopeOfToken(id, scope) == id

\* What an expression is unique within.
ScopeOf(id, scope) == IF tokens[id].decl.voteMode = "quantum" THEN scope ELSE id

Unique(id) == tokens[id].decl.voteMode \in {"single", "quantum"}

\* The key is used up, or one more is counted under it.
Recorded(id, key) ==
  IF Unique(id)
  THEN voteKeys' = voteKeys \cup {key} /\ UNCHANGED expressCounts
  ELSE expressCounts' = [expressCounts EXCEPT ![key] = @ + 1] /\ UNCHANGED voteKeys

\* The accounting of a token, some units and one act further.
Accounted(r, n) == [decl |-> r.decl, minted |-> r.minted,
                    burned |-> r.burned + n, expressions |-> r.expressions + 1]

\* The units are destroyed, and the act is counted.
Burned(w, id, n) ==
  /\ tokenBalances' = [tokenBalances EXCEPT ![id][w] = @ - n]
  /\ tokens' = [tokens EXCEPT ![id] = Accounted(@, n)]
  /\ spent' = [spent EXCEPT ![id][w] = @ + n]

\* A wallet burns units of a token, naming a place.
Express(w, id, scope, n) ==
  /\ tokens[id] # None
  /\ Burnable(tokens[id].decl, n) /\ n <= tokenBalances[id][w]
  /\ LET key == <<w, ScopeOf(id, scope)>> IN
     /\ Unique(id) => key \notin voteKeys
     /\ tokens[id].decl.voteMode = "capped" => expressCounts[key] < tokens[id].decl.cap
     /\ Recorded(id, key)
  /\ ActsSoFar < MaxActs
  /\ Burned(w, id, n)
  /\ acts' = acts \cup {[by |-> w, token |-> id, scope |-> scope,
                         nth |-> tokens[id].expressions]}
  /\ UNCHANGED <<granted, places, service>>

-----------------------------------------------------------------------------
(* Voting places and credentials.                                          *)

\* Anyone opens a place, with any key that is known: its first opener's.
OpenPlace(p, k) ==
  /\ polls[p] = None
  /\ k \in generated \cup StrangerKey
  /\ polls' = [polls EXCEPT ![p] = k]
  /\ UNCHANGED <<spentSerials, anonymous, ledger, service>>

\* The signature is on the serial alone, and is verified by the place's key.
CredentialIsValid(p, s) ==
  \/ polls[p] \in StrangerKey
  \/ \E c \in signed : c.key = polls[p] /\ c.serial = s

\* A credential is spent once in a place, by whichever wallet.
CredentialExpress(p, s) ==
  /\ polls[p] # None /\ CredentialIsValid(p, s)
  /\ <<p, s>> \notin spentSerials
  /\ ActsSoFar < MaxActs
  /\ spentSerials' = spentSerials \cup {<<p, s>>}
  /\ anonymous' = [anonymous EXCEPT ![p] = @ + 1]
  /\ UNCHANGED <<polls, ledger, service>>

\* The publisher writes its file at once, if it has one.
Saved(book) ==
  /\ publisher' = book
  /\ file' = IF StateFile THEN book ELSE file

\* The publisher generates the key of a place.
GenerateKey(p, k) ==
  /\ publisher.keys[p] = None
  /\ k \in PublisherKey \ generated
  /\ generated' = generated \cup {k}
  /\ Saved([publisher EXCEPT !.keys[p] = k])
  /\ UNCHANGED <<signed, ledger, places>>

CredentialOf(w, p, s) == [key |-> publisher.keys[p], serial |-> s,
                          to |-> w, nth |-> publisher.issued[<<p, w>>]]

\* Mutant: the charge is kept in memory only.
SignForUnsaved(w, p, s) ==
  /\ publisher.keys[p] # None
  /\ publisher.issued[<<p, w>>] < Quota
  /\ publisher' = [publisher EXCEPT !.issued[<<p, w>>] = @ + 1]
  /\ \/ signed' = signed \cup {CredentialOf(w, p, s)}
     \/ UNCHANGED signed
  /\ UNCHANGED <<file, generated, ledger, places>>

\* An account is charged, on file, before it is signed for; the signature may
\* fail after that.  The publisher does not see the serial.
SignFor(w, p, s) ==
  /\ publisher.keys[p] # None
  /\ publisher.issued[<<p, w>>] < Quota
  /\ Saved([publisher EXCEPT !.issued[<<p, w>>] = @ + 1])
  /\ \/ signed' = signed \cup {CredentialOf(w, p, s)}
     \/ UNCHANGED signed
  /\ UNCHANGED <<generated, ledger, places>>

\* The publisher is started again: it knows what its file says.
Restart ==
  /\ publisher' = file
  /\ UNCHANGED <<file, signed, generated, ledger, places>>

-----------------------------------------------------------------------------
Next ==
  \/ \E w \in Wallet, title \in Title, d \in Declaration : Create(w, title, d)
  \/ \E w \in Wallet, id \in TokenId, to \in Wallet, n \in Amount : Issue(w, id, to, n)
  \/ \E id \in TokenId, from, to \in Wallet, n \in Amount : Transfer(id, from, to, n)
  \/ \E w \in Wallet, scope \in Scope : Vote(w, scope)
  \/ \E w \in Wallet, id \in TokenId, scope \in Scope, n \in Amount : Express(w, id, scope, n)
  \/ \E p \in Poll, k \in Key : OpenPlace(p, k)
  \/ \E p \in Poll, s \in Serial : CredentialExpress(p, s)
  \/ \E p \in Poll, k \in PublisherKey : GenerateKey(p, k)
  \/ \E w \in Wallet, p \in Poll, s \in Serial : SignFor(w, p, s)
  \/ Restart

Spec == Init /\ [][Next]_vars

-----------------------------------------------------------------------------
(* Properties.                                                             *)

Act == [by : Wallet, token : TokenId \cup {None}, scope : Scope, nth : Nat]
Credential == [key : PublisherKey, serial : Serial, to : Wallet, nth : 0..Quota-1]
Book == [keys : [Poll -> PublisherKey \cup {None}], issued : [Poll \X Wallet -> 0..Quota]]

\* The types of the variables; balances and counts never go below zero, and
\* the publisher never charges beyond its quota (state.js 60-118, 137-211).
SpeechTypeOK ==
  /\ tokens \in [TokenId -> Record \cup {None}]
  /\ tokenBalances \in [TokenId -> [Wallet -> Nat]]
  /\ voteKeys \subseteq Wallet \X Scope
  /\ expressCounts \in [Wallet \X TokenId -> Nat]
  /\ polls \in [Poll -> Key \cup {None}]
  /\ spentSerials \subseteq Poll \X Serial
  /\ publisher \in Book /\ file \in Book
  /\ signed \subseteq Credential
  /\ generated \subseteq PublisherKey
  /\ acts \subseteq Act
  /\ anonymous \in [Poll -> Nat]
  /\ granted \in [TokenId -> [Wallet -> Nat]]
  /\ spent \in [TokenId -> [Wallet -> Nat]]

Mode(id) == tokens[id].decl.voteMode
InPlace(a) == a.token = None \/ Mode(a.token) = "quantum"
On(id) == {a \in acts : a.token = id}
By(w, id) == {a \in On(id) : a.by = w}

\* A wallet speaks once in a voting place, whether by a plain vote or with
\* units of whatever quantum token; once on a token of mode single; and at
\* most as often as its cap on a capped one, in whatever places it names
\* (token.js 119-130, state.js 636-652).
OneVoice ==
  /\ \A a, b \in acts :
       a.by = b.by /\ a # b =>
         /\ ~ (InPlace(a) /\ InPlace(b) /\ a.scope = b.scope)
         /\ a.token = b.token /\ a.token # None => Mode(a.token) # "single"
  /\ \A id \in TokenId, w \in Wallet :
       tokens[id] # None /\ Mode(id) = "capped" => Cardinality(By(w, id)) <= tokens[id].decl.cap

\* The units in all hands are those made less those burned, and no more were
\* ever made than the record declared (state.js 155-187: "cannot be bypassed").
UnitsConserved ==
  \A id \in TokenId :
    IF tokens[id] = None THEN \A w \in Wallet : tokenBalances[id][w] = 0
    ELSE /\ Total(tokenBalances[id], Wallet) = tokens[id].minted - tokens[id].burned
         /\ tokens[id].decl.maxSupply > 0 => tokens[id].minted <= tokens[id].decl.maxSupply

\* Of a token that is about public matters, a wallet holds exactly what its
\* creator gave it less what it spent on speaking: nobody else's grant ever
\* reached it (state.js 571-575, 597-607; token.js 393-409).
StandingIsGranted ==
  \A id \in TokenId, w \in Wallet :
    tokens[id] # None /\ tokens[id].decl.purpose \in Political =>
      tokenBalances[id][w] + spent[id][w] = granted[id][w]

\* Anyone can read the tally off the ledger: every expression burned the
\* declared cost, or at least that where the amount is the weight
\* (state.js 86-88, 189-197; token.js 457-483).
TallyIsBurn ==
  \A id \in TokenId :
    tokens[id] # None =>
      /\ tokens[id].expressions = Cardinality(On(id))
      /\ LET price == tokens[id].decl.expressionCost * tokens[id].expressions
         IN IF Mode(id) = "weighted" THEN tokens[id].burned >= price
            ELSE tokens[id].burned = price

\* In a place opened with a key of the publisher, there are no more anonymous
\* expressions than the quota of every account, though the publisher and its
\* accounts come and go (publisher.js 112-150; credential.js 33-39).
QuotaHolds ==
  \A p \in Poll :
    polls[p] \in PublisherKey => anonymous[p] <= Quota * Cardinality(Wallet)
=============================================================================
