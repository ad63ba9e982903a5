------------------------- MODULE Expressions_proofs -------------------------
(***************************************************************************)
(* Theorems about speaking on the chain, for every set of wallets, tokens, *)
(* places, serials and keys, and any number of acts.                       *)
(***************************************************************************)
EXTENDS Expressions, SetLemmas, TLAPS

\* A registered record is well formed; before that nobody holds anything.
Registered ==
  \A id \in TokenId :
    IF tokens[id] # None THEN WellFormed(tokens[id].decl)
    ELSE \A w \in Wallet : tokenBalances[id][w] = 0 /\ granted[id][w] = 0 /\ spent[id][w] = 0

\* An act left its key behind, and has a number below the next one.
LeftKey(a) ==
  IF a.token = None THEN <<a.by, a.scope>> \in voteKeys
  ELSE /\ tokens[a.token] # None
       /\ a.nth < tokens[a.token].expressions
       /\ Mode(a.token) = "quantum" => <<a.by, a.scope>> \in voteKeys
       /\ Mode(a.token) = "single" => <<a.by, a.token>> \in voteKeys

Remembered == \A a \in acts : LeftKey(a)

\* Two acts of one wallet do not use up the same right to speak.
Apart(a, b) ==
  a.by = b.by /\ a # b =>
    /\ ~ (InPlace(a) /\ InPlace(b) /\ a.scope = b.scope)
    /\ a.token = b.token /\ a.token # None => Mode(a.token) # "single"

\* What is not remembered by a key is counted under one, up to the cap.
Counted ==
  /\ IsFiniteSet(acts)
  /\ \A id \in TokenId, w \in Wallet :
       /\ tokens[id] = None => expressCounts[<<w, id>>] = 0
       /\ tokens[id] # None /\ ~Unique(id) => Cardinality(By(w, id)) = expressCounts[<<w, id>>]
       /\ tokens[id] # None /\ Mode(id) = "capped" =>
            expressCounts[<<w, id>>] <= tokens[id].decl.cap

-----------------------------------------------------------------------------
LEMMA TokenIdOf == ASSUME NEW w \in Wallet, NEW title \in Title PROVE <<w, title>> \in TokenId
BY DEF TokenId

\* A record keeps its place when its accounting moves.
LEMMA RecordOf ==
  ASSUME SpeechTypeOK, NEW id \in TokenId, tokens[id] # None
  PROVE  /\ tokens[id] \in Record
         /\ tokens[id].decl \in Declaration
         /\ tokens[id].decl.cap \in Nat /\ tokens[id].decl.expressionCost \in Nat
         /\ tokens[id].decl.initialSupply \in Nat /\ tokens[id].decl.maxSupply \in Nat
BY ExpressionsAssumption DEF SpeechTypeOK, Record

LEMMA MintedRecord ==
  ASSUME NEW r \in Record, NEW n \in Nat PROVE [r EXCEPT !.minted = @ + n] \in Record
BY DEF Record

LEMMA ChargedBook ==
  ASSUME NEW book \in Book, NEW p \in Poll, NEW w \in Wallet, book.issued[<<p, w>>] < Quota
  PROVE  [book EXCEPT !.issued[<<p, w>>] = @ + 1] \in Book
<1> DEFINE count == [book.issued EXCEPT ![<<p, w>>] = @ + 1]
<1>1. book.issued \in [Poll \X Wallet -> 0..Quota] /\ book.issued[<<p, w>>] + 1 \in 0..Quota
  BY ExpressionsAssumption DEF Book
<1>2. count \in [Poll \X Wallet -> 0..Quota]
  BY <1>1
<1>3. [book EXCEPT !.issued = count] \in Book
  BY <1>2 DEF Book
<1> QED BY <1>3

\* After any step a variable has its type.
LEMMA NextType == SpeechTypeOK /\ [Next]_vars => SpeechTypeOK'
<1> SUFFICES ASSUME SpeechTypeOK, [Next]_vars PROVE SpeechTypeOK'
  OBVIOUS
<1> USE ExpressionsAssumption DEF SpeechTypeOK
<1>1. ASSUME NEW w \in Wallet, NEW title \in Title, NEW d \in Declaration, Create(w, title, d)
      PROVE  SpeechTypeOK'
  <2> DEFINE id == <<w, title>>
             rec == [decl |-> d, minted |-> d.initialSupply, burned |-> 0, expressions |-> 0]
  <2>1. id \in TokenId /\ d.initialSupply \in Nat
    BY DEF TokenId
  <2>2. rec \in Record
    BY <2>1 DEF Record
  <2>3. /\ tokens' = [tokens EXCEPT ![id] = rec]
        /\ tokenBalances' = [tokenBalances EXCEPT ![id][w] = d.initialSupply]
        /\ granted' = [granted EXCEPT ![id][w] = d.initialSupply]
    BY <1>1 DEF Create
  <2>4. tokens' \in [TokenId -> Record \cup {None}]
    BY <2>1, <2>2, <2>3
  <2>5. tokenBalances' \in [TokenId -> [Wallet -> Nat]] /\ granted' \in [TokenId -> [Wallet -> Nat]]
    BY <2>1, <2>3
  <2> QED BY <1>1, <2>4, <2>5 DEF Create, places, service
<1>2. ASSUME NEW w \in Wallet, NEW id \in TokenId, NEW to \in Wallet, NEW n \in Amount,
             Issue(w, id, to, n)
      PROVE  SpeechTypeOK'
  <2>1. tokens[id] \in Record /\ n \in Nat
    BY <1>2 DEF Issue
  <2> DEFINE rec == [tokens[id] EXCEPT !.minted = @ + n]
  <2>2. tokens' = [tokens EXCEPT ![id] = rec]
    BY <1>2 DEF Issue
  <2>3. rec \in Record
    BY <2>1, MintedRecord
  <2> HIDE DEF rec
  <2>4. tokens' \in [TokenId -> Record \cup {None}]
    BY <2>2, <2>3
  <2>5. tokenBalances' \in [TokenId -> [Wallet -> Nat]] /\ granted' \in [TokenId -> [Wallet -> Nat]]
    BY <1>2, <2>1 DEF Issue
  <2> QED BY <1>2, <2>4, <2>5 DEF Issue, places, service
<1>3. ASSUME NEW id \in TokenId, NEW from \in Wallet, NEW to \in Wallet, NEW n \in Amount,
             Transfer(id, from, to, n)
      PROVE  SpeechTypeOK'
  <2>1. n \in Nat /\ n <= tokenBalances[id][from] /\ tokenBalances[id] \in [Wallet -> Nat]
    BY <1>3 DEF Transfer
  <2>2. Moved(tokenBalances[id], from, to, n) \in [Wallet -> Nat]
    BY <2>1 DEF Moved
  <2>3. tokenBalances' = [tokenBalances EXCEPT ![id] = Moved(tokenBalances[id], from, to, n)]
    BY <1>3 DEF Transfer
  <2>4. tokenBalances' \in [TokenId -> [Wallet -> Nat]]
    BY <2>2, <2>3
  <2> QED BY <1>3, <2>4 DEF Transfer, places, service
<1>4. ASSUME NEW w \in Wallet, NEW scope \in Scope, Vote(w, scope) PROVE SpeechTypeOK'
  <2>1. [by |-> w, token |-> None, scope |-> scope, nth |-> 0] \in Act
    BY DEF Act
  <2> QED BY <1>4, <2>1 DEF Vote, places, service
<1>5. ASSUME NEW w \in Wallet, NEW id \in TokenId, NEW scope \in Scope, NEW n \in Amount,
             Express(w, id, scope, n)
      PROVE  SpeechTypeOK'
  <2> DEFINE act == [by |-> w, token |-> id, scope |-> scope, nth |-> tokens[id].expressions]
             key == <<w, ScopeOf(id, scope)>>
  <2>1. tokens[id] \in Record /\ n \in Nat /\ n <= tokenBalances[id][w]
        /\ tokenBalances[id] \in [Wallet -> Nat]
    BY <1>5 DEF Express
  <2>2. act \in Act /\ acts' = acts \cup {act}
    BY <1>5, <2>1 DEF Act, Express, Record
  <2>3. tokens' = [tokens EXCEPT ![id] = Accounted(tokens[id], n)]
    BY <1>5 DEF Express, Burned
  <2>4. Accounted(tokens[id], n) \in Record
    BY <2>1 DEF Record, Accounted
  <2>5. tokens' \in [TokenId -> Record \cup {None}]
    BY <2>3, <2>4
  <2>6. tokenBalances' \in [TokenId -> [Wallet -> Nat]] /\ spent' \in [TokenId -> [Wallet -> Nat]]
    BY <1>5, <2>1 DEF Express, Burned
  <2>7. key \in Wallet \X Scope /\ (~Unique(id) => key \in Wallet \X TokenId)
    BY DEF ScopeOf, Scope, Unique
  <2>8. Recorded(id, key)
    BY <1>5 DEF Express
  <2> HIDE DEF key
  <2>9. voteKeys' \subseteq Wallet \X Scope /\ expressCounts' \in [Wallet \X TokenId -> Nat]
    <3>1. CASE Unique(id)
      BY <2>7, <2>8, <3>1 DEF Recorded
    <3>2. CASE ~Unique(id)
      BY <2>7, <2>8, <3>2 DEF Recorded
    <3> QED BY <3>1, <3>2
  <2> QED BY <1>5, <2>2, <2>5, <2>6, <2>9 DEF Express, places, service
<1>6. ASSUME NEW p \in Poll, NEW k \in Key, OpenPlace(p, k) PROVE SpeechTypeOK'
  BY <1>6 DEF OpenPlace, ledger, service
<1>7. ASSUME NEW p \in Poll, NEW s \in Serial, CredentialExpress(p, s) PROVE SpeechTypeOK'
  BY <1>7 DEF CredentialExpress, ledger, service
<1>8. ASSUME NEW p \in Poll, NEW k \in PublisherKey, GenerateKey(p, k) PROVE SpeechTypeOK'
  BY <1>8 DEF GenerateKey, Saved, Book, ledger, places
<1>9. ASSUME NEW w \in Wallet, NEW p \in Poll, NEW s \in Serial, SignFor(w, p, s)
      PROVE  SpeechTypeOK'
  <2>1. publisher \in Book /\ publisher.keys[p] \in PublisherKey
        /\ publisher.issued[<<p, w>>] \in 0..Quota-1
    BY <1>9 DEF SignFor, Book
  <2>2. CredentialOf(w, p, s) \in Credential
    BY <2>1 DEF CredentialOf, Credential
  <2>3. [publisher EXCEPT !.issued[<<p, w>>] = @ + 1] \in Book
    BY <1>9, <2>1, ChargedBook DEF SignFor
  <2>4. publisher' \in Book /\ file' \in Book
    BY <1>9, <2>3 DEF SignFor, Saved
  <2> QED BY <1>9, <2>2, <2>4 DEF SignFor, ledger, places
<1>10. CASE Restart
  BY <1>10 DEF Restart, ledger, places
<1>11. CASE UNCHANGED vars
  BY <1>11 DEF vars, ledger, places, service
<1> QED BY <1>1, <1>2, <1>3, <1>4, <1>5, <1>6, <1>7, <1>8, <1>9, <1>10, <1>11 DEF Next

-----------------------------------------------------------------------------
\* Places and the publisher leave the ledger alone.
LEMMA LedgerSteps ==
  ASSUME [Next]_vars
  PROVE  \/ \E w \in Wallet, title \in Title, d \in Declaration : Create(w, title, d)
         \/ \E w \in Wallet, id \in TokenId, to \in Wallet, n \in Amount : Issue(w, id, to, n)
         \/ \E id \in TokenId, from, to \in Wallet, n \in Amount : Transfer(id, from, to, n)
         \/ \E w \in Wallet, scope \in Scope : Vote(w, scope)
         \/ \E w \in Wallet, id \in TokenId, scope \in Scope, n \in Amount : Express(w, id, scope, n)
         \/ UNCHANGED ledger
BY DEF Next, vars, OpenPlace, CredentialExpress, GenerateKey, SignFor, Restart

\* No step takes a record away, and none rewrites what it declared.
LEMMA RecordsStay ==
  ASSUME SpeechTypeOK, [Next]_vars, NEW id \in TokenId, tokens[id] # None
  PROVE  /\ tokens'[id] # None /\ tokens'[id].decl = tokens[id].decl
         /\ tokens[id].expressions <= tokens'[id].expressions
<1> USE ExpressionsAssumption
<1> DEFINE Stays == /\ tokens'[id] # None /\ tokens'[id].decl = tokens[id].decl
                    /\ tokens[id].expressions <= tokens'[id].expressions
<1>1. /\ tokens[id] \in Record /\ tokens \in [TokenId -> Record \cup {None}]
      /\ tokens[id].expressions \in Nat /\ Amount \subseteq Nat
  BY DEF SpeechTypeOK, Record
<1>2. ASSUME tokens'[id] = tokens[id] PROVE Stays
  BY <1>1, <1>2
<1>3. ASSUME NEW w \in Wallet, NEW title \in Title, NEW d \in Declaration, Create(w, title, d)
      PROVE  Stays
  BY <1>1, <1>2, <1>3, TokenIdOf DEF Create
<1>4. ASSUME NEW w \in Wallet, NEW i \in TokenId, NEW to \in Wallet, NEW n \in Amount,
             Issue(w, i, to, n)
      PROVE  Stays
  <2>1. CASE i # id
    BY <1>1, <1>2, <1>4, <2>1 DEF Issue
  <2>2. CASE i = id
    <3>1. tokens'[id] = [tokens[id] EXCEPT !.minted = @ + n]
      BY <1>1, <1>4, <2>2 DEF Issue
    <3>2. tokens'[id] \in Record
      BY <1>1, <3>1, MintedRecord
    <3> QED BY <1>1, <3>1, <3>2 DEF Record
  <2> QED BY <2>1, <2>2
<1>5. ASSUME NEW w \in Wallet, NEW i \in TokenId, NEW scope \in Scope, NEW n \in Amount,
             Express(w, i, scope, n)
      PROVE  Stays
  <2>1. CASE i # id
    BY <1>1, <1>2, <1>5, <2>1 DEF Express, Burned
  <2>2. CASE i = id
    <3>1. tokens'[id] = Accounted(tokens[id], n)
      BY <1>1, <1>5, <2>2 DEF Express, Burned
    <3>2. tokens'[id] \in Record
      BY <1>1, <3>1 DEF Record, Accounted
    <3> QED BY <1>1, <3>1, <3>2 DEF Accounted
  <2> QED BY <2>1, <2>2
<1>6. ASSUME UNCHANGED tokens PROVE Stays
  BY <1>2, <1>6
<1> HIDE DEF Stays
<1>7. Stays
  BY <1>3, <1>4, <1>5, <1>6, LedgerSteps DEF Transfer, Vote, ledger
<1> QED BY <1>7 DEF Stays

LEMMA ModesStay ==
  ASSUME SpeechTypeOK, [Next]_vars, NEW id \in TokenId, tokens[id] # None
  PROVE  Mode(id)' = Mode(id) /\ (Unique(id)' <=> Unique(id))
BY RecordsStay DEF Mode, Unique

\* A right to speak, once used up, stays used up until the block is undone.
LEMMA KeysStay == ASSUME [Next]_vars PROVE voteKeys \subseteq voteKeys'
<1>1. ASSUME NEW w \in Wallet, NEW id \in TokenId, NEW scope \in Scope, NEW n \in Amount,
             Express(w, id, scope, n)
      PROVE  voteKeys \subseteq voteKeys'
  <2>1. Recorded(id, <<w, ScopeOf(id, scope)>>)
    BY <1>1 DEF Express
  <2> QED BY <2>1 DEF Recorded
<1> QED BY <1>1, LedgerSteps DEF Create, Issue, Transfer, Vote, ledger

LEMMA LeftKeyStays ==
  ASSUME SpeechTypeOK, [Next]_vars, NEW a \in acts, LeftKey(a)
  PROVE  LeftKey(a)' /\ (InPlace(a)' <=> InPlace(a))
<1>1. a \in Act
  BY DEF SpeechTypeOK
<1>2. CASE a.token = None
  BY <1>2, KeysStay DEF LeftKey, InPlace
<1>3. CASE a.token # None
  <2>1. a.token \in TokenId /\ a.nth \in Nat /\ tokens[a.token] # None
    BY <1>1, <1>3 DEF Act, LeftKey
  <2>2. /\ tokens[a.token].expressions \in Nat
        /\ tokens'[a.token].expressions \in Nat
    BY <2>1, NextType, RecordsStay DEF SpeechTypeOK, Record
  <2> QED BY <1>3, <2>1, <2>2, RecordsStay, ModesStay, KeysStay DEF LeftKey, InPlace
<1> QED BY <1>2, <1>3

LEMMA ApartStays ==
  ASSUME SpeechTypeOK, Remembered, [Next]_vars, NEW a \in acts, NEW b \in acts, Apart(a, b)
  PROVE  Apart(a, b)'
<1>1. (InPlace(a)' <=> InPlace(a)) /\ (InPlace(b)' <=> InPlace(b))
  BY LeftKeyStays DEF Remembered
<1>2. a.token # None => Mode(a.token)' = Mode(a.token)
  <2>1. a \in Act
    BY DEF SpeechTypeOK
  <2> QED BY <2>1, ModesStay DEF Remembered, LeftKey, Act
<1> QED BY <1>1, <1>2 DEF Apart

Voices == \A a, b \in acts : Apart(a, b)

\* Adding an act that is apart from the others.
LEMMA AddAct ==
  ASSUME SpeechTypeOK, Remembered, Voices, [Next]_vars, NEW e, acts' = acts \cup {e},
         LeftKey(e)', \A b \in acts : Apart(e, b)' /\ Apart(b, e)'
  PROVE  Remembered' /\ Voices'
<1>1. \A a \in acts : LeftKey(a)'
  BY LeftKeyStays DEF Remembered
<1>2. \A a, b \in acts : Apart(a, b)'
  BY ApartStays DEF Voices
<1>3. Apart(e, e)'
  BY DEF Apart
<1> QED BY <1>1, <1>2, <1>3 DEF Remembered, Voices

LEMMA VoteApart ==
  ASSUME SpeechTypeOK, Remembered, Voices, [Next]_vars,
         NEW w \in Wallet, NEW scope \in Scope, Vote(w, scope)
  PROVE  Remembered' /\ Voices'
<1> DEFINE e == [by |-> w, token |-> None, scope |-> scope, nth |-> 0]
<1>1. acts' = acts \cup {e} /\ <<w, scope>> \in voteKeys' /\ <<w, scope>> \notin voteKeys
  BY DEF Vote
<1>2. LeftKey(e)'
  BY <1>1 DEF LeftKey
<1>3. ASSUME NEW b \in acts, b.by = w, InPlace(b)' PROVE b.scope # scope
  <2>1. LeftKey(b) /\ InPlace(b)
    BY <1>3, LeftKeyStays DEF Remembered
  <2> QED BY <1>1, <1>3, <2>1 DEF LeftKey, InPlace
<1>4. ASSUME NEW b \in acts PROVE Apart(e, b)' /\ Apart(b, e)'
  BY <1>3, <1>4 DEF Apart
<1> HIDE DEF e
<1> QED BY <1>1, <1>2, <1>4, AddAct

LEMMA ExpressApart ==
  ASSUME SpeechTypeOK, Remembered, Voices, [Next]_vars, NEW w \in Wallet, NEW id \in TokenId,
         NEW scope \in Scope, NEW n \in Amount, Express(w, id, scope, n)
  PROVE  Remembered' /\ Voices'
<1> USE ExpressionsAssumption
<1> DEFINE key == <<w, ScopeOf(id, scope)>>
<1>0. PICK e : e = [by |-> w, token |-> id, scope |-> scope, nth |-> tokens[id].expressions]
  OBVIOUS
<1>1. /\ acts' = acts \cup {e} /\ id # None /\ tokens[id] # None
      /\ tokens[id] \in Record /\ tokens[id].expressions \in Nat
      /\ e.by = w /\ e.token = id /\ e.scope = scope /\ e.nth = tokens[id].expressions
  BY <1>0 DEF Express, SpeechTypeOK, Record
<1>2. Unique(id) => key \notin voteKeys /\ key \in voteKeys'
  BY DEF Express, Recorded
<1>3. /\ tokens'[id] # None /\ Mode(id)' = Mode(id)
      /\ tokens'[id].expressions = tokens[id].expressions + 1
  <2>1. tokens'[id] = Accounted(tokens[id], n)
    BY DEF Express, Burned, SpeechTypeOK
  <2> QED BY <1>1, <2>1, RecordsStay, ModesStay DEF Accounted
<1>4. /\ Mode(id) = "quantum" => key = <<w, scope>> /\ Unique(id)
      /\ Mode(id) = "single" => key = <<w, id>> /\ Unique(id)
  BY DEF Mode, Unique, ScopeOf
<1>5. LeftKey(e)'
  BY <1>1, <1>2, <1>3, <1>4 DEF LeftKey, Mode
<1>6. ASSUME NEW b \in acts, b.by = w, InPlace(b)', Mode(id)' = "quantum" PROVE b.scope # scope
  <2>1. LeftKey(b) /\ InPlace(b)
    BY <1>6, LeftKeyStays DEF Remembered
  <2> QED BY <1>2, <1>3, <1>4, <1>6, <2>1 DEF LeftKey, InPlace
<1>7. ASSUME NEW b \in acts, b.by = w, b.token = id PROVE Mode(id)' # "single"
  <2>1. LeftKey(b)
    BY DEF Remembered
  <2> QED BY <1>1, <1>2, <1>3, <1>4, <1>7, <2>1 DEF LeftKey
<1>8. ASSUME NEW b \in acts PROVE Apart(e, b)' /\ Apart(b, e)'
  <2>1. InPlace(e)' => Mode(id)' = "quantum"
    BY <1>1 DEF InPlace
  <2> QED BY <1>1, <1>6, <1>7, <1>8, <2>1 DEF Apart, Mode
<1> QED BY <1>1, <1>5, <1>8, AddAct

LEMMA NextVoices == SpeechTypeOK /\ Remembered /\ Voices /\ [Next]_vars => Remembered' /\ Voices'
<1> SUFFICES ASSUME SpeechTypeOK, Remembered, Voices, [Next]_vars
             PROVE  Remembered' /\ Voices'
  OBVIOUS
<1>1. CASE UNCHANGED acts
  BY <1>1, LeftKeyStays, ApartStays DEF Remembered, Voices
<1> QED BY <1>1, VoteApart, ExpressApart, LedgerSteps
        DEF Create, Issue, Transfer, ledger

-----------------------------------------------------------------------------
\* A record of a public matter was registered as not transferable.
LEMMA PoliticalStays ==
  ASSUME Registered, NEW id \in TokenId, tokens[id] # None, tokens[id].decl.transferable
  PROVE  tokens[id].decl.purpose \notin Political
BY DEF Registered, WellFormed

\* Of one token: what Registered and StandingIsGranted say.
Stands(id) ==
  IF tokens[id] # None
  THEN /\ WellFormed(tokens[id].decl)
       /\ tokens[id].decl.purpose \in Political =>
            \A w \in Wallet : tokenBalances[id][w] + spent[id][w] = granted[id][w]
  ELSE \A w \in Wallet : tokenBalances[id][w] = 0 /\ granted[id][w] = 0 /\ spent[id][w] = 0

LEMMA StandsIff == (\A id \in TokenId : Stands(id)) <=> Registered /\ StandingIsGranted
BY DEF Stands, Registered, StandingIsGranted

LEMMA NextStands ==
  ASSUME SpeechTypeOK, \A i \in TokenId : Stands(i), [Next]_vars, NEW id \in TokenId
  PROVE  Stands(id)'
<1> USE ExpressionsAssumption
<1>1. /\ Stands(id)
      /\ tokens \in [TokenId -> Record \cup {None}] /\ Amount \subseteq Nat
      /\ tokenBalances \in [TokenId -> [Wallet -> Nat]]
      /\ granted \in [TokenId -> [Wallet -> Nat]] /\ spent \in [TokenId -> [Wallet -> Nat]]
  BY DEF SpeechTypeOK
<1>2. ASSUME tokens'[id] = tokens[id], tokenBalances'[id] = tokenBalances[id],
             granted'[id] = granted[id], spent'[id] = spent[id]
      PROVE  Stands(id)'
  BY <1>1, <1>2 DEF Stands
<1>3. ASSUME NEW w \in Wallet, NEW title \in Title, NEW d \in Declaration, Create(w, title, d)
      PROVE  Stands(id)'
  <2>1. <<w, title>> \in TokenId /\ d.initialSupply \in Nat
    BY DEF TokenId
  <2>2. CASE id # <<w, title>>
    BY <1>1, <1>2, <1>3, <2>1, <2>2 DEF Create
  <2>3. CASE id = <<w, title>>
    <3>1. /\ tokens'[id] = [decl |-> d, minted |-> d.initialSupply, burned |-> 0, expressions |-> 0]
          /\ tokens[id] = None /\ WellFormed(d)
          /\ tokenBalances'[id] = [tokenBalances[id] EXCEPT ![w] = d.initialSupply]
          /\ granted'[id] = [granted[id] EXCEPT ![w] = d.initialSupply]
          /\ spent'[id] = spent[id]
      BY <1>1, <1>3, <2>1, <2>3 DEF Create
    <3>2. tokens'[id].decl = d
      BY <3>1
    <3>3. \A x \in Wallet : tokenBalances[id][x] = 0 /\ granted[id][x] = 0 /\ spent[id][x] = 0
      BY <1>1, <3>1 DEF Stands
    <3>4. \A x \in Wallet : tokenBalances'[id][x] + spent'[id][x] = granted'[id][x]
      BY <1>1, <2>1, <3>1, <3>3
    <3>5. tokens'[id] # None
      <4>1. tokens'[id] \in Record
        BY <2>1, <3>1 DEF Record
      <4> QED BY <4>1
    <3> QED BY <3>1, <3>2, <3>4, <3>5 DEF Stands
  <2> QED BY <2>2, <2>3
<1>4. ASSUME NEW w \in Wallet, NEW i \in TokenId, NEW to \in Wallet, NEW n \in Amount,
             Issue(w, i, to, n)
      PROVE  Stands(id)'
  <2>1. CASE i # id
    BY <1>1, <1>2, <1>4, <2>1 DEF Issue
  <2>2. CASE i = id
    <3>1. /\ tokens[id] # None /\ spent'[id] = spent[id]
          /\ tokenBalances'[id] = [tokenBalances[id] EXCEPT ![to] = @ + n]
          /\ granted'[id] = [granted[id] EXCEPT ![to] = @ + n]
      BY <1>1, <1>4, <2>2 DEF Issue
    <3>2. tokens'[id] # None /\ tokens'[id].decl = tokens[id].decl
      BY <3>1, RecordsStay
    <3> QED BY <1>1, <3>1, <3>2 DEF Stands
  <2> QED BY <2>1, <2>2
<1>5. ASSUME NEW i \in TokenId, NEW from \in Wallet, NEW to \in Wallet, NEW n \in Amount,
             Transfer(i, from, to, n)
      PROVE  Stands(id)'
  <2>1. CASE i # id
    BY <1>1, <1>2, <1>5, <2>1 DEF Transfer
  <2>2. CASE i = id
    <3>1. tokens[id] # None /\ tokens' = tokens /\ tokens[id].decl.purpose \notin Political
      BY <1>5, <2>2, PoliticalStays, StandsIff DEF Transfer
    <3> QED BY <1>1, <3>1 DEF Stands
  <2> QED BY <2>1, <2>2
<1>6. ASSUME NEW w \in Wallet, NEW i \in TokenId, NEW scope \in Scope, NEW n \in Amount,
             Express(w, i, scope, n)
      PROVE  Stands(id)'
  <2>1. CASE i # id
    BY <1>1, <1>2, <1>6, <2>1 DEF Express, Burned
  <2>2. CASE i = id
    <3>1. /\ tokens[id] # None /\ granted'[id] = granted[id]
          /\ tokenBalances'[id] = [tokenBalances[id] EXCEPT ![w] = @ - n]
          /\ spent'[id] = [spent[id] EXCEPT ![w] = @ + n]
      BY <1>1, <1>6, <2>2 DEF Express, Burned
    <3>2. tokens'[id] # None /\ tokens'[id].decl = tokens[id].decl
      BY <3>1, RecordsStay
    <3>3. ASSUME NEW x \in Wallet
          PROVE  tokenBalances'[id][x] + spent'[id][x] = tokenBalances[id][x] + spent[id][x]
      <4>1. n \in Nat /\ tokenBalances[id][x] \in Nat /\ spent[id][x] \in Nat
        BY <1>1
      <4>2. CASE x = w
        BY <1>1, <3>1, <4>1, <4>2
      <4>3. CASE x # w
        BY <1>1, <3>1, <4>1, <4>3
      <4> QED BY <4>2, <4>3
    <3> QED BY <1>1, <3>1, <3>2, <3>3 DEF Stands
  <2> QED BY <2>1, <2>2
<1>7. ASSUME UNCHANGED <<tokens, tokenBalances, granted, spent>> PROVE Stands(id)'
  BY <1>2, <1>7
<1> QED BY <1>3, <1>4, <1>5, <1>6, <1>7, LedgerSteps DEF Vote, ledger

-----------------------------------------------------------------------------
LEMMA OneMore == ASSUME NEW c \in Nat, NEW k \in Nat PROVE c * (k + 1) = c * k + c
OBVIOUS

Price(id) == tokens[id].decl.expressionCost * tokens[id].expressions

\* Of one token: what Counted and TallyIsBurn say.
Tallies(id) ==
  IF tokens[id] = None THEN \A w \in Wallet : expressCounts[<<w, id>>] = 0
  ELSE /\ ~Unique(id) => \A w \in Wallet : Cardinality(By(w, id)) = expressCounts[<<w, id>>]
       /\ Mode(id) = "capped" =>
            \A w \in Wallet : expressCounts[<<w, id>>] <= tokens[id].decl.cap
       /\ tokens[id].expressions = Cardinality(On(id))
       /\ IF Mode(id) = "weighted" THEN tokens[id].burned >= Price(id)
          ELSE tokens[id].burned = Price(id)

LEMMA TalliesIff ==
  (IsFiniteSet(acts) /\ \A id \in TokenId : Tallies(id)) <=> Counted /\ TallyIsBurn
BY DEF Tallies, Counted, TallyIsBurn, Price

LEMMA FiniteActs == IsFiniteSet(acts) /\ [Next]_vars => IsFiniteSet(acts')
<1> SUFFICES ASSUME IsFiniteSet(acts), [Next]_vars PROVE IsFiniteSet(acts')
  OBVIOUS
<1>1. \A e : IsFiniteSet(acts \cup {e})
  BY FS_AddElement
<1>2. acts' = acts \/ \E e : acts' = acts \cup {e}
  <2>1. ASSUME NEW w \in Wallet, NEW scope \in Scope, Vote(w, scope)
        PROVE  \E e : acts' = acts \cup {e}
    BY ONLY <2>1 DEF Vote
  <2>2. ASSUME NEW w \in Wallet, NEW id \in TokenId, NEW scope \in Scope, NEW n \in Amount,
               Express(w, id, scope, n)
        PROVE  \E e : acts' = acts \cup {e}
    BY ONLY <2>2 DEF Express
  <2> QED BY <2>1, <2>2, LedgerSteps DEF Create, Issue, Transfer, ledger
<1> QED BY ONLY <1>1, <1>2, IsFiniteSet(acts)

\* Nothing that Tallies speaks of changes for a token that is left alone.
LEMMA TalliesStays ==
  ASSUME NEW id \in TokenId, Tallies(id), tokens'[id] = tokens[id], On(id)' = On(id),
         \A w \in Wallet : expressCounts'[<<w, id>>] = expressCounts[<<w, id>>]
  PROVE  Tallies(id)'
<1>1. \A w \in Wallet : By(w, id)' = By(w, id)
  BY DEF By
<1>2. Mode(id)' = Mode(id) /\ (Unique(id)' <=> Unique(id)) /\ Price(id)' = Price(id)
  BY DEF Mode, Unique, Price
<1> QED BY <1>1, <1>2 DEF Tallies

LEMMA ExpressTallies ==
  ASSUME SpeechTypeOK, Remembered, IsFiniteSet(acts), [Next]_vars, NEW id \in TokenId, Tallies(id),
         NEW w \in Wallet, NEW scope \in Scope, NEW n \in Amount, Express(w, id, scope, n)
  PROVE  Tallies(id)'
<1> USE ExpressionsAssumption
<1>0. PICK e : e = [by |-> w, token |-> id, scope |-> scope, nth |-> tokens[id].expressions]
  OBVIOUS
<1>1. /\ tokens[id] # None /\ tokens[id] \in Record /\ n \in Nat
      /\ tokens'[id] = Accounted(tokens[id], n)
      /\ acts' = acts \cup {e} /\ e.by = w /\ e.token = id /\ e.nth = tokens[id].expressions
  BY <1>0 DEF Express, Burned, SpeechTypeOK
<1>2. /\ tokens[id].expressions \in Nat /\ tokens[id].burned \in Nat
      /\ tokens[id].decl.expressionCost \in Nat
      /\ tokens'[id].expressions = tokens[id].expressions + 1
      /\ tokens'[id].burned = tokens[id].burned + n
      /\ tokens'[id].decl = tokens[id].decl /\ tokens'[id] # None
  BY <1>1, RecordOf, RecordsStay DEF Record, Accounted
<1>3. Mode(id)' = Mode(id) /\ (Unique(id)' <=> Unique(id))
  BY <1>1, ModesStay
<1>4. e \notin acts
  <2>1. id # None
    OBVIOUS
  <2>2. ASSUME e \in acts PROVE e.nth < tokens[id].expressions
    BY <1>1, <2>1, <2>2 DEF Remembered, LeftKey
  <2> QED BY <1>1, <1>2, <2>2
<1>5. On(id)' = On(id) \cup {e} /\ e \notin On(id) /\ IsFiniteSet(On(id))
  BY <1>1, <1>4, FS_Subset DEF On
<1>6. Cardinality(On(id)') = Cardinality(On(id)) + 1
  BY <1>5, FS_AddElement
<1>7. ASSUME NEW x \in Wallet, ~Unique(id)
      PROVE  /\ Cardinality(By(x, id)') = expressCounts'[<<x, id>>]
             /\ Mode(id) = "capped" => expressCounts'[<<x, id>>] <= tokens[id].decl.cap
  <2>1. /\ expressCounts' = [expressCounts EXCEPT ![<<w, id>>] = @ + 1]
        /\ Mode(id) = "capped" => expressCounts[<<w, id>>] < tokens[id].decl.cap
    BY <1>7 DEF Express, Recorded, ScopeOf, Unique, Mode
  <2>2. /\ expressCounts \in [Wallet \X TokenId -> Nat] /\ tokens[id].decl.cap \in Nat
        /\ Cardinality(By(x, id)) = expressCounts[<<x, id>>]
        /\ Mode(id) = "capped" => expressCounts[<<x, id>>] <= tokens[id].decl.cap
    BY <1>1, <1>7, RecordOf DEF Tallies, SpeechTypeOK
  <2>3. CASE x = w
    <3>1. By(x, id)' = By(x, id) \cup {e} /\ e \notin By(x, id) /\ IsFiniteSet(By(x, id))
      BY <1>1, <1>5, <2>3, FS_Subset DEF By
    <3>2. Cardinality(By(x, id)') = Cardinality(By(x, id)) + 1
      BY <3>1, FS_AddElement
    <3> QED BY <2>1, <2>2, <2>3, <3>2
  <2>4. CASE x # w
    <3>1. By(x, id)' = By(x, id)
      BY <1>1, <1>5, <2>4 DEF By
    <3> QED BY <2>1, <2>2, <2>4, <3>1
  <2> QED BY <2>3, <2>4
<1>8. Price(id)' = Price(id) + tokens[id].decl.expressionCost /\ Price(id) \in Nat
  BY <1>2, OneMore DEF Price
<1>9. IF Mode(id) = "weighted" THEN n >= tokens[id].decl.expressionCost
      ELSE n = tokens[id].decl.expressionCost
  BY DEF Express, Burnable, Mode
<1>10. Mode(id) = "capped" => ~Unique(id)
  BY DEF Mode, Unique
<1>11. tokens[id].expressions = Cardinality(On(id))
       /\ IF Mode(id) = "weighted" THEN tokens[id].burned >= Price(id)
          ELSE tokens[id].burned = Price(id)
  BY <1>1 DEF Tallies
<1>12. tokens'[id].expressions = Cardinality(On(id)')
  BY <1>2, <1>6, <1>11
<1>13. IF Mode(id)' = "weighted" THEN tokens'[id].burned >= Price(id)'
       ELSE tokens'[id].burned = Price(id)'
  BY <1>1, <1>2, <1>3, <1>8, <1>9, <1>11
<1> QED BY <1>2, <1>3, <1>7, <1>10, <1>12, <1>13 DEF Tallies

LEMMA NextTallies ==
  ASSUME SpeechTypeOK, Remembered, IsFiniteSet(acts), \A i \in TokenId : Tallies(i),
         [Next]_vars, NEW id \in TokenId
  PROVE  Tallies(id)'
<1> USE ExpressionsAssumption
<1>1. /\ tokens \in [TokenId -> Record \cup {None}] /\ Tallies(id)
      /\ expressCounts \in [Wallet \X TokenId -> Nat] /\ id # None
  BY DEF SpeechTypeOK
<1>2. ASSUME NEW w \in Wallet, NEW title \in Title, NEW d \in Declaration, Create(w, title, d)
      PROVE  Tallies(id)'
  <2>1. <<w, title>> \in TokenId /\ acts' = acts /\ expressCounts' = expressCounts
    BY <1>2 DEF Create, TokenId
  <2>2. CASE id # <<w, title>>
    <3>1. tokens'[id] = tokens[id] /\ On(id)' = On(id)
      BY <1>1, <1>2, <2>1, <2>2 DEF Create, On
    <3> QED BY <1>1, <2>1, <3>1, TalliesStays
  <2>3. CASE id = <<w, title>>
    <3> DEFINE rec == [decl |-> d, minted |-> d.initialSupply, burned |-> 0, expressions |-> 0]
    <3>1. tokens[id] = None /\ tokens'[id] = rec
      BY <1>1, <1>2, <2>1, <2>3 DEF Create
    <3>2. On(id)' = {} /\ \A x \in Wallet : By(x, id)' = {}
      BY <1>1, <2>1, <3>1 DEF On, By, Remembered, LeftKey
    <3>3. Cardinality(On(id)') = 0 /\ \A x \in Wallet : Cardinality(By(x, id)') = 0
      BY <3>2, FS_EmptySet
    <3>4. \A x \in Wallet : expressCounts'[<<x, id>>] = 0
      BY <1>1, <2>1, <3>1 DEF Tallies
    <3>5. d.expressionCost \in Nat /\ d.cap \in Nat /\ d.initialSupply \in Nat
      OBVIOUS
    <3>6. Price(id)' = 0
      BY <3>1, <3>5 DEF Price
    <3>7. tokens'[id] # None
      <4>1. rec \in Record
        BY <3>5 DEF Record
      <4> QED BY <3>1, <4>1
    <3> QED BY <3>1, <3>3, <3>4, <3>5, <3>6, <3>7 DEF Tallies
  <2> QED BY <2>2, <2>3
<1>3. ASSUME NEW w \in Wallet, NEW i \in TokenId, NEW to \in Wallet, NEW n \in Amount,
             Issue(w, i, to, n)
      PROVE  Tallies(id)'
  <2>1. acts' = acts /\ expressCounts' = expressCounts
    BY <1>3 DEF Issue
  <2>2. On(id)' = On(id) /\ \A x \in Wallet : By(x, id)' = By(x, id)
    BY <2>1 DEF On, By
  <2>3. CASE i # id
    <3>1. tokens'[id] = tokens[id]
      BY <1>1, <1>3, <2>3 DEF Issue
    <3> QED BY <1>1, <2>1, <2>2, <3>1, TalliesStays
  <2>4. CASE i = id
    <3>1. /\ tokens[id] # None /\ tokens[id] \in Record
          /\ tokens'[id] = [tokens[id] EXCEPT !.minted = @ + n]
      BY <1>1, <1>3, <2>4 DEF Issue
    <3>2. /\ tokens'[id] # None /\ tokens'[id].decl = tokens[id].decl
          /\ tokens'[id].burned = tokens[id].burned
          /\ tokens'[id].expressions = tokens[id].expressions
      BY <3>1, RecordsStay DEF Record
    <3>3. Mode(id)' = Mode(id) /\ (Unique(id)' <=> Unique(id)) /\ Price(id)' = Price(id)
      BY <3>2 DEF Mode, Unique, Price
    <3> QED BY <1>1, <2>1, <2>2, <3>1, <3>2, <3>3 DEF Tallies
  <2> QED BY <2>3, <2>4
<1>4. ASSUME NEW w \in Wallet, NEW scope \in Scope, Vote(w, scope) PROVE Tallies(id)'
  <2>1. On(id)' = On(id)
    BY <1>1, <1>4 DEF Vote, On
  <2> QED BY <1>1, <1>4, <2>1, TalliesStays DEF Vote
<1>5. ASSUME NEW w \in Wallet, NEW i \in TokenId, NEW scope \in Scope, NEW n \in Amount,
             Express(w, i, scope, n)
      PROVE  Tallies(id)'
  <2>1. CASE i # id
    <3>1. On(id)' = On(id) /\ tokens'[id] = tokens[id]
      BY <1>1, <1>5, <2>1 DEF Express, Burned, On
    <3>2. ASSUME NEW x \in Wallet PROVE expressCounts'[<<x, id>>] = expressCounts[<<x, id>>]
      <4>1. Recorded(i, <<w, ScopeOf(i, scope)>>) /\ (~Unique(i) => ScopeOf(i, scope) = i)
        BY <1>5 DEF Express, ScopeOf, Unique
      <4> QED BY <1>1, <2>1, <4>1 DEF Recorded
    <3> QED BY <1>1, <3>1, <3>2, TalliesStays
  <2>2. CASE i = id
    BY <1>1, <1>5, <2>2, ExpressTallies
  <2> QED BY <2>1, <2>2
<1>6. ASSUME UNCHANGED <<tokens, acts, expressCounts>> PROVE Tallies(id)'
  <2>1. On(id)' = On(id)
    BY <1>6 DEF On
  <2> QED BY <1>1, <1>6, <2>1, TalliesStays
<1> QED BY <1>2, <1>3, <1>4, <1>5, <1>6, LedgerSteps DEF Transfer, ledger

-----------------------------------------------------------------------------
\* The credentials of a key are numbered apart, and while the publisher has
\* the key its count is above all of them: it is on file before a credential
\* exists, and without a file the keys are forgotten with the counts.
ServiceOK ==
  /\ file = IF StateFile THEN publisher ELSE NoBook
  /\ \A p \in Poll : publisher.keys[p] # None => publisher.keys[p] \in generated
  /\ \A p, q \in Poll : publisher.keys[p] # None /\ publisher.keys[p] = publisher.keys[q] => p = q
  /\ \A c \in signed :
       /\ c.key \in generated
       /\ \A p \in Poll : publisher.keys[p] = c.key => c.nth < publisher.issued[<<p, c.to>>]
  /\ \A c, d \in signed : c.key = d.key /\ c.to = d.to /\ c.nth = d.nth => c = d

SpentIn(p) == {k \in spentSerials : k[1] = p}

\* What was spent in a place of the publisher is one of its credentials.
PlacesOK ==
  /\ IsFiniteSet(spentSerials)
  /\ \A p \in Poll : anonymous[p] = Cardinality(SpentIn(p))
  /\ \A k \in spentSerials :
       /\ polls[k[1]] # None
       /\ polls[k[1]] \in PublisherKey =>
            \E c \in signed : c.key = polls[k[1]] /\ c.serial = k[2]

\* The ledger leaves places and the publisher alone.
LEMMA ServiceSteps ==
  ASSUME [Next]_vars
  PROVE  \/ \E p \in Poll, k \in Key : OpenPlace(p, k)
         \/ \E p \in Poll, s \in Serial : CredentialExpress(p, s)
         \/ \E p \in Poll, k \in PublisherKey : GenerateKey(p, k)
         \/ \E w \in Wallet, p \in Poll, s \in Serial : SignFor(w, p, s)
         \/ Restart
         \/ UNCHANGED <<places, service>>
<1>1. ASSUME NEW w \in Wallet, NEW title \in Title, NEW d \in Declaration, Create(w, title, d)
      PROVE  UNCHANGED <<places, service>>
  BY ONLY <1>1 DEF Create
<1>2. ASSUME NEW w \in Wallet, NEW id \in TokenId, NEW to \in Wallet, NEW n \in Amount,
             Issue(w, id, to, n) \/ Transfer(id, w, to, n)
      PROVE  UNCHANGED <<places, service>>
  BY ONLY <1>2 DEF Issue, Transfer
<1>3. ASSUME NEW w \in Wallet, NEW id \in TokenId, NEW scope \in Scope, NEW n \in Amount,
             Express(w, id, scope, n)
      PROVE  UNCHANGED <<places, service>>
  BY ONLY <1>3 DEF Express
<1>4. ASSUME NEW w \in Wallet, NEW scope \in Scope, Vote(w, scope)
      PROVE  UNCHANGED <<places, service>>
  BY ONLY <1>4 DEF Vote
<1> QED BY <1>1, <1>2, <1>3, <1>4 DEF Next, vars

LEMMA NextService == SpeechTypeOK /\ ServiceOK /\ [Next]_vars => ServiceOK'
<1> SUFFICES ASSUME SpeechTypeOK, ServiceOK, [Next]_vars PROVE ServiceOK'
  OBVIOUS
<1> USE ExpressionsAssumption
<1>1. /\ publisher \in Book /\ signed \subseteq Credential /\ None \notin PublisherKey
      /\ publisher.keys \in [Poll -> PublisherKey \cup {None}]
      /\ publisher.issued \in [Poll \X Wallet -> 0..Quota]
  BY DEF SpeechTypeOK, Book, Key
<1>2. ASSUME NEW p \in Poll, NEW k \in PublisherKey, GenerateKey(p, k) PROVE ServiceOK'
  <2>1. /\ publisher'.keys = [publisher.keys EXCEPT ![p] = k]
        /\ publisher'.issued = publisher.issued
        /\ file' = (IF StateFile THEN publisher' ELSE NoBook)
        /\ generated' = generated \cup {k} /\ k \notin generated /\ signed' = signed
    BY <1>1, <1>2 DEF GenerateKey, Saved, ServiceOK, Book
  <2> QED BY <1>1, <2>1 DEF ServiceOK, Credential
<1>3. ASSUME NEW w \in Wallet, NEW p \in Poll, NEW s \in Serial, SignFor(w, p, s)
      PROVE  ServiceOK'
  <2>0. PICK e : e = CredentialOf(w, p, s)
    OBVIOUS
  <2>1. /\ publisher'.keys = publisher.keys
        /\ publisher'.issued = [publisher.issued EXCEPT ![<<p, w>>] = @ + 1]
        /\ file' = (IF StateFile THEN publisher' ELSE NoBook)
        /\ generated' = generated /\ signed' \in {signed, signed \cup {e}}
        /\ publisher.keys[p] # None
    BY <1>1, <1>3, <2>0 DEF SignFor, Saved, ServiceOK, Book
  <2>2. e.key = publisher.keys[p] /\ e.to = w /\ e.nth = publisher.issued[<<p, w>>]
    BY <2>0 DEF CredentialOf
  <2>3. \A x \in Wallet, q \in Poll :
          /\ publisher.issued[<<q, x>>] \in Nat /\ publisher'.issued[<<q, x>>] \in Nat
          /\ publisher.issued[<<q, x>>] <= publisher'.issued[<<q, x>>]
    BY <1>1, <2>1
  <2>4. publisher.issued[<<p, w>>] < publisher'.issued[<<p, w>>]
    BY <1>1, <2>1
  <2>5. ASSUME NEW c \in signed
        PROVE  /\ c.key \in generated' /\ ~ (c.key = e.key /\ c.to = e.to /\ c.nth = e.nth)
               /\ \A q \in Poll : publisher'.keys[q] = c.key => c.nth < publisher'.issued[<<q, c.to>>]
    <3>1. c \in Credential /\ c.nth \in Nat /\ c.to \in Wallet
      BY <1>1 DEF Credential
    <3>2. \A q \in Poll : publisher.keys[q] = c.key => c.nth < publisher.issued[<<q, c.to>>]
      BY DEF ServiceOK
    <3> QED BY <2>1, <2>2, <2>3, <3>1, <3>2 DEF ServiceOK
  <2>6. /\ e.key \in generated'
        /\ \A q \in Poll : publisher'.keys[q] = e.key => e.nth < publisher'.issued[<<q, e.to>>]
    BY <2>1, <2>2, <2>4 DEF ServiceOK
  <2>7. \A q, r \in Poll : publisher'.keys[q] # None /\ publisher'.keys[q] = publisher'.keys[r] => q = r
    BY <2>1 DEF ServiceOK
  <2>8. \A q \in Poll : publisher'.keys[q] # None => publisher'.keys[q] \in generated'
    BY <2>1 DEF ServiceOK
  <2>9. \A c, d \in signed' : c.key = d.key /\ c.to = d.to /\ c.nth = d.nth => c = d
    BY <2>1, <2>5 DEF ServiceOK
  <2> QED BY <2>1, <2>5, <2>6, <2>7, <2>8, <2>9 DEF ServiceOK
<1>4. CASE Restart
  <2>1. CASE StateFile
    BY <1>4, <2>1 DEF Restart, ServiceOK
  <2>2. CASE ~StateFile
    <3>1. \A p \in Poll : publisher'.keys[p] = None
      BY <1>4, <2>2 DEF Restart, ServiceOK, NoBook
    <3>2. \A c \in signed : c.key # None
      BY <1>1 DEF Credential
    <3> QED BY <1>4, <2>2, <3>1, <3>2 DEF Restart, ServiceOK
  <2> QED BY <2>1, <2>2
<1>5. CASE UNCHANGED service
  BY <1>5 DEF service, ServiceOK
<1> QED BY <1>2, <1>3, <1>4, <1>5, ServiceSteps DEF OpenPlace, CredentialExpress

LEMMA NextPlaces == SpeechTypeOK /\ PlacesOK /\ [Next]_vars => PlacesOK'
<1> SUFFICES ASSUME SpeechTypeOK, PlacesOK, [Next]_vars PROVE PlacesOK'
  OBVIOUS
<1>1. /\ polls \in [Poll -> Key \cup {None}] /\ anonymous \in [Poll -> Nat]
      /\ spentSerials \subseteq Poll \X Serial
  BY DEF SpeechTypeOK
<1>2. ASSUME NEW p \in Poll, NEW k \in Key, OpenPlace(p, k) PROVE PlacesOK'
  <2>1. \A q \in Poll : SpentIn(q)' = SpentIn(q)
    BY <1>2 DEF OpenPlace, SpentIn
  <2>2. \A x \in spentSerials : x[1] \in Poll /\ polls'[x[1]] = polls[x[1]]
    BY <1>1, <1>2 DEF OpenPlace, PlacesOK
  <2> QED BY <1>2, <2>1, <2>2 DEF OpenPlace, PlacesOK, service
<1>3. ASSUME NEW p \in Poll, NEW s \in Serial, CredentialExpress(p, s) PROVE PlacesOK'
  <2>0. PICK x : x = <<p, s>>
    OBVIOUS
  <2>1. /\ spentSerials' = spentSerials \cup {x} /\ x \notin spentSerials
        /\ x[1] = p /\ x[2] = s
        /\ polls' = polls /\ signed' = signed
        /\ anonymous' = [anonymous EXCEPT ![p] = @ + 1]
    BY <1>3, <2>0 DEF CredentialExpress, service
  <2>2. IsFiniteSet(spentSerials) /\ IsFiniteSet(spentSerials')
    BY <2>1, FS_AddElement DEF PlacesOK
  <2>3. ASSUME NEW q \in Poll PROVE anonymous'[q] = Cardinality(SpentIn(q)')
    <3>1. IsFiniteSet(SpentIn(q)) /\ x \notin SpentIn(q)
      BY <2>1, <2>2, FS_Subset DEF SpentIn
    <3>2. CASE q = p
      <4>1. SpentIn(q)' = SpentIn(q) \cup {x}
        BY <2>1, <3>2 DEF SpentIn
      <4>2. Cardinality(SpentIn(q)') = Cardinality(SpentIn(q)) + 1
        BY <3>1, <4>1, FS_AddElement
      <4> QED BY <1>1, <2>1, <3>2, <4>2 DEF PlacesOK
    <3>3. CASE q # p
      <4>1. SpentIn(q)' = SpentIn(q)
        BY <2>1, <3>3 DEF SpentIn
      <4> QED BY <1>1, <2>1, <3>3, <4>1 DEF PlacesOK
    <3> QED BY <3>2, <3>3
  <2>4. /\ polls[p] # None
        /\ polls[p] \in PublisherKey => \E c \in signed : c.key = polls[p] /\ c.serial = s
    BY <1>3, ExpressionsAssumption DEF CredentialExpress, CredentialIsValid
  <2> QED BY <2>1, <2>2, <2>3, <2>4 DEF PlacesOK
<1>4. ASSUME UNCHANGED places, signed \subseteq signed' PROVE PlacesOK'
  <2>1. \A q \in Poll : SpentIn(q)' = SpentIn(q)
    BY <1>4 DEF places, SpentIn
  <2> QED BY <1>4, <2>1 DEF places, PlacesOK
<1> QED BY <1>2, <1>3, <1>4, ServiceSteps DEF GenerateKey, SignFor, Restart, service

\* A place of the publisher holds no more spent serials than its key signed,
\* and the key signed no more than the numbers of all accounts.
LEMMA SpentAreNumbered ==
  ASSUME SpeechTypeOK, ServiceOK, PlacesOK, NEW p \in Poll, polls[p] \in PublisherKey
  PROVE  anonymous[p] <= Quota * Cardinality(Wallet)
<1> USE ExpressionsAssumption
<1> DEFINE S == SpentIn(p)
           T == Wallet \X (0..Quota-1)
           Of(x) == CHOOSE c \in signed : c.key = polls[p] /\ c.serial = x[2]
           f == [x \in S |-> <<Of(x).to, Of(x).nth>>]
<1>1. ASSUME NEW x \in S
      PROVE  /\ Of(x) \in signed /\ Of(x).key = polls[p] /\ Of(x).serial = x[2]
             /\ Of(x) \in Credential
  <2>1. \E c \in signed : c.key = polls[p] /\ c.serial = x[2]
    BY DEF SpentIn, PlacesOK
  <2> QED BY <2>1 DEF SpeechTypeOK
<1>2. f \in [S -> T]
  BY <1>1 DEF Credential
<1>3. ASSUME NEW x \in S, NEW y \in S, f[x] = f[y] PROVE x = y
  <2>1. Of(x).to = Of(y).to /\ Of(x).nth = Of(y).nth
    BY <1>3
  <2>2. Of(x) = Of(y)
    BY <1>1, <2>1 DEF ServiceOK
  <2>3. x[2] = y[2]
    BY <1>1, <2>2
  <2>4. x \in Poll \X Serial /\ y \in Poll \X Serial /\ x[1] = p /\ y[1] = p
    BY DEF SpentIn, SpeechTypeOK
  <2> QED BY <2>3, <2>4
<1>4. f \in Injection(S, T)
  BY <1>2, <1>3 DEF Injection, IsInjective
<1>5. /\ IsFiniteSet(0..Quota-1) /\ Cardinality(0..Quota-1) = Quota
  BY FS_Interval
<1>6. IsFiniteSet(T) /\ Cardinality(T) = Cardinality(Wallet) * Quota
  BY <1>5, FS_Product
<1>7. Cardinality(S) <= Cardinality(T)
  BY <1>4, <1>6, FS_Injection
<1>8. Cardinality(Wallet) \in Nat
  BY FS_CardinalityType
<1>9. Cardinality(Wallet) * Quota = Quota * Cardinality(Wallet)
  BY <1>8
<1> QED BY <1>6, <1>7, <1>9 DEF PlacesOK

-----------------------------------------------------------------------------
(* What all wallets hold.                                                  *)

InAllHands(id) == Total(tokenBalances[id], Wallet)

\* UnitsConserved of one token.
Conserves(id) ==
  IF tokens[id] = None THEN \A w \in Wallet : tokenBalances[id][w] = 0
  ELSE /\ InAllHands(id) = tokens[id].minted - tokens[id].burned
       /\ tokens[id].decl.maxSupply > 0 => tokens[id].minted <= tokens[id].decl.maxSupply

LEMMA ConservesIff == (\A id \in TokenId : Conserves(id)) <=> UnitsConserved
BY DEF Conserves, UnitsConserved, InAllHands

\* Nobody holding anything, all hold nothing.
LEMMA NothingHeld ==
  ASSUME NEW held \in [Wallet -> Nat], \A w \in Wallet : held[w] = 0
  PROVE  Total(held, Wallet) = 0
<1> DEFINE W == {T \in SUBSET Wallet : SumFunctionOnSet(held, T) # 0}
<1>1. CASE W = {}
  BY <1>1 DEF Total
<1>2. CASE W # {}
  <2>1. PICK T \in W : IsFiniteSet(T) /\ \A t \in SUBSET T : t # T => t \notin W
    <3> HIDE DEF W
    <3>1. W \in SUBSET (SUBSET Wallet)
      BY DEF W
    <3> QED BY <1>2, <3>1, MinimalSubset, ExpressionsAssumption
  <2>2. PICK w : w \in T
    BY <2>1, SumEmpty
  <2>3. \A x \in T : held[x] \in Int
    BY <2>1
  <2>4. SumFunctionOnSet(held, T) = held[w] + SumFunctionOnSet(held, T \ {w})
    BY <2>1, <2>2, <2>3, SumRemove
  <2>5. SumFunctionOnSet(held, T \ {w}) = 0
    BY <2>1, <2>2
  <2> QED BY <2>1, <2>2, <2>4, <2>5
<1> QED BY <1>1, <1>2

\* One wallet's balance changes by n.
LEMMA OneHand ==
  ASSUME NEW held \in [Wallet -> Nat], NEW after \in [Wallet -> Nat], NEW w \in Wallet,
         NEW n \in Int, after[w] = held[w] + n, \A x \in Wallet \ {w} : after[x] = held[x]
  PROVE  Total(after, Wallet) = Total(held, Wallet) + n
<1>1. /\ IsFiniteSet(Wallet) /\ \A x \in Wallet : held[x] \in Int /\ after[x] \in Int
  BY ExpressionsAssumption
<1>2. SumFunctionOnSet(held, Wallet) \in Int
  BY <1>1, SumType
<1>3. SumFunctionOnSet(after, Wallet) = SumFunctionOnSet(held, Wallet) - held[w] + after[w]
  BY <1>1, SumExcept
<1> QED BY <1>1, <1>2, <1>3 DEF Total

\* What is moved is neither made nor lost, the sender being the recipient or not.
LEMMA MovedKeeps ==
  ASSUME NEW held \in [Wallet -> Nat], NEW from \in Wallet, NEW to \in Wallet,
         NEW n \in Nat, n <= held[from]
  PROVE  Total(Moved(held, from, to, n), Wallet) = Total(held, Wallet)
<1> DEFINE debited == [held EXCEPT ![from] = @ - n]
           moved == Moved(held, from, to, n)
<1>1. /\ debited \in [Wallet -> Nat] /\ debited[from] = held[from] - n
      /\ \A x \in Wallet \ {from} : debited[x] = held[x]
  OBVIOUS
<1>2. moved = [debited EXCEPT ![to] = @ + n]
  BY DEF Moved
<1> HIDE DEF debited, moved
<1>3. /\ moved \in [Wallet -> Nat] /\ moved[to] = debited[to] + n
      /\ \A x \in Wallet \ {to} : moved[x] = debited[x]
  BY <1>1, <1>2
<1>4. Total(debited, Wallet) = Total(held, Wallet) + (0 - n)
  <2>1. debited[from] = held[from] + (0 - n) /\ 0 - n \in Int
    BY <1>1
  <2> QED BY <1>1, <2>1, OneHand
<1>5. Total(moved, Wallet) = Total(debited, Wallet) + n
  BY <1>1, <1>3, OneHand
<1>6. Total(held, Wallet) \in Int
  BY SumType, ExpressionsAssumption DEF Total
<1>7. Total(moved, Wallet) = Total(held, Wallet)
  BY <1>4, <1>5, <1>6
<1> QED BY <1>7 DEF moved

LEMMA HandsNext == \A id : InAllHands(id)' = Total(tokenBalances'[id], Wallet)
BY DEF InAllHands, Total

LEMMA HandGains ==
  ASSUME NEW id, NEW w \in Wallet, NEW n \in Int,
         tokenBalances[id] \in [Wallet -> Nat], tokenBalances'[id] \in [Wallet -> Nat],
         tokenBalances'[id][w] = tokenBalances[id][w] + n,
         \A x \in Wallet \ {w} : tokenBalances'[id][x] = tokenBalances[id][x]
  PROVE  InAllHands(id)' = InAllHands(id) + n
<1>1. Total(tokenBalances'[id], Wallet) = Total(tokenBalances[id], Wallet) + n
  BY OneHand
<1> QED BY <1>1, HandsNext DEF InAllHands

LEMMA NextConserves ==
  ASSUME SpeechTypeOK, [Next]_vars, NEW id \in TokenId, Conserves(id)
  PROVE  Conserves(id)'
<1> USE ExpressionsAssumption
<1>1. /\ tokens \in [TokenId -> Record \cup {None}] /\ Amount \subseteq Nat
      /\ tokenBalances \in [TokenId -> [Wallet -> Nat]]
      /\ tokenBalances[id] \in [Wallet -> Nat]
      /\ InAllHands(id) \in Int
  <2>1. tokenBalances[id] \in [Wallet -> Nat]
    BY DEF SpeechTypeOK
  <2>2. InAllHands(id) \in Int
    BY <2>1, SumType DEF InAllHands, Total
  <2> QED BY <2>1, <2>2 DEF SpeechTypeOK
<1>2. ASSUME tokens'[id] = tokens[id], tokenBalances'[id] = tokenBalances[id]
      PROVE  Conserves(id)'
  BY <1>1, <1>2, HandsNext DEF Conserves, InAllHands
<1>3. ASSUME tokens'[id] # None, tokens'[id].decl = tokens[id].decl,
             InAllHands(id)' = tokens'[id].minted - tokens'[id].burned,
             tokens[id].decl.maxSupply > 0 => tokens'[id].minted <= tokens[id].decl.maxSupply
      PROVE  Conserves(id)'
  BY <1>3 DEF Conserves
<1>4. ASSUME NEW w \in Wallet, NEW title \in Title, NEW d \in Declaration, Create(w, title, d)
      PROVE  Conserves(id)'
  <2>1. <<w, title>> \in TokenId /\ d.initialSupply \in Nat
    BY DEF TokenId
  <2>2. CASE id # <<w, title>>
    BY <1>1, <1>2, <1>4, <2>1, <2>2 DEF Create
  <2>3. CASE id = <<w, title>>
    <3>1. /\ tokens'[id] = [decl |-> d, minted |-> d.initialSupply, burned |-> 0, expressions |-> 0]
          /\ tokens[id] = None /\ WellFormed(d)
          /\ tokenBalances'[id] = [tokenBalances[id] EXCEPT ![w] = d.initialSupply]
      BY <1>1, <1>4, <2>1, <2>3 DEF Create
    <3>2. \A x \in Wallet : tokenBalances[id][x] = 0
      BY <3>1 DEF Conserves
    <3>3. /\ tokenBalances'[id] \in [Wallet -> Nat] /\ d.initialSupply \in Int
          /\ tokenBalances'[id][w] = tokenBalances[id][w] + d.initialSupply
          /\ \A x \in Wallet \ {w} : tokenBalances'[id][x] = tokenBalances[id][x]
      BY <1>1, <2>1, <3>1, <3>2
    <3>4. InAllHands(id)' = InAllHands(id) + d.initialSupply
      BY <1>1, <3>3, HandGains
    <3>5. InAllHands(id) = 0
      BY <1>1, <3>2, NothingHeld DEF InAllHands
    <3>6. tokens'[id] # None
      <4>1. tokens'[id] \in Record
        BY <2>1, <3>1 DEF Record
      <4> QED BY <4>1
    <3>7. d.maxSupply > 0 => d.initialSupply <= d.maxSupply
      BY <3>1 DEF WellFormed
    <3> QED BY <2>1, <3>1, <3>4, <3>5, <3>6, <3>7 DEF Conserves
  <2> QED BY <2>2, <2>3
<1>5. ASSUME NEW w \in Wallet, NEW i \in TokenId, NEW to \in Wallet, NEW n \in Amount,
             Issue(w, i, to, n)
      PROVE  Conserves(id)'
  <2>1. CASE i # id
    BY <1>1, <1>2, <1>5, <2>1 DEF Issue
  <2>2. CASE i = id
    <3>1. /\ tokens[id] # None /\ Mintable(id, n) /\ n \in Nat
          /\ tokenBalances'[id] = [tokenBalances[id] EXCEPT ![to] = @ + n]
          /\ tokens'[id] = [tokens[id] EXCEPT !.minted = @ + n]
      BY <1>1, <1>5, <2>2 DEF Issue
    <3>2. tokens[id] \in Record /\ tokens'[id] \in Record
      BY <1>1, <3>1, MintedRecord
    <3>3. /\ tokens'[id].minted = tokens[id].minted + n /\ tokens'[id].burned = tokens[id].burned
          /\ tokens'[id].decl = tokens[id].decl
          /\ tokens[id].minted \in Nat /\ tokens[id].burned \in Nat
      BY <3>1, <3>2 DEF Record
    <3>4. InAllHands(id)' = InAllHands(id) + n
      <4>1. /\ tokenBalances'[id] \in [Wallet -> Nat] /\ n \in Int
            /\ tokenBalances'[id][to] = tokenBalances[id][to] + n
            /\ \A x \in Wallet \ {to} : tokenBalances'[id][x] = tokenBalances[id][x]
        BY <1>1, <3>1
      <4> QED BY <1>1, <4>1, HandGains
    <3>5. InAllHands(id) = tokens[id].minted - tokens[id].burned
      BY <3>1 DEF Conserves
    <3>6. InAllHands(id)' = tokens'[id].minted - tokens'[id].burned
      BY <1>1, <3>1, <3>3, <3>4, <3>5
    <3>7. tokens[id].decl.maxSupply > 0 => tokens'[id].minted <= tokens[id].decl.maxSupply
      BY <3>1, <3>3 DEF Mintable
    <3> QED BY <1>3, <3>2, <3>3, <3>6, <3>7
  <2> QED BY <2>1, <2>2
<1>6. ASSUME NEW i \in TokenId, NEW from \in Wallet, NEW to \in Wallet, NEW n \in Amount,
             Transfer(i, from, to, n)
      PROVE  Conserves(id)'
  <2>1. CASE i # id
    BY <1>1, <1>2, <1>6, <2>1 DEF Transfer
  <2>2. CASE i = id
    <3>1. /\ tokens' = tokens /\ tokens[id] # None
          /\ n \in Nat /\ n <= tokenBalances[id][from]
          /\ tokenBalances'[id] = Moved(tokenBalances[id], from, to, n)
      BY <1>1, <1>6, <2>2 DEF Transfer
    <3>2. InAllHands(id)' = InAllHands(id)
      BY <1>1, <3>1, MovedKeeps, HandsNext DEF InAllHands
    <3> QED BY <3>1, <3>2 DEF Conserves
  <2> QED BY <2>1, <2>2
<1>7. ASSUME NEW w \in Wallet, NEW i \in TokenId, NEW scope \in Scope, NEW n \in Amount,
             Express(w, i, scope, n)
      PROVE  Conserves(id)'
  <2>1. CASE i # id
    BY <1>1, <1>2, <1>7, <2>1 DEF Express, Burned
  <2>2. CASE i = id
    <3>1. /\ tokens[id] # None /\ n \in Nat /\ n <= tokenBalances[id][w]
          /\ tokenBalances'[id] = [tokenBalances[id] EXCEPT ![w] = @ - n]
          /\ tokens'[id] = Accounted(tokens[id], n)
      BY <1>1, <1>7, <2>2 DEF Express, Burned
    <3>2. tokens[id] \in Record /\ tokens'[id] \in Record
      BY <1>1, <3>1 DEF Record, Accounted
    <3>3. /\ tokens'[id].minted = tokens[id].minted /\ tokens'[id].burned = tokens[id].burned + n
          /\ tokens'[id].decl = tokens[id].decl
          /\ tokens[id].minted \in Nat /\ tokens[id].burned \in Nat
      BY <3>1, <3>2 DEF Record, Accounted
    <3>4. InAllHands(id)' = InAllHands(id) + (0 - n)
      <4>1. /\ tokenBalances'[id] \in [Wallet -> Nat] /\ 0 - n \in Int
            /\ tokenBalances'[id][w] = tokenBalances[id][w] + (0 - n)
            /\ \A x \in Wallet \ {w} : tokenBalances'[id][x] = tokenBalances[id][x]
        BY <1>1, <3>1
      <4> QED BY <1>1, <4>1, HandGains
    <3>5. InAllHands(id) = tokens[id].minted - tokens[id].burned
      BY <3>1 DEF Conserves
    <3>6. InAllHands(id)' = tokens'[id].minted - tokens'[id].burned
      BY <1>1, <3>1, <3>3, <3>4, <3>5
    <3>7. tokens[id].decl.maxSupply > 0 => tokens'[id].minted <= tokens[id].decl.maxSupply
      BY <3>1, <3>3 DEF Conserves
    <3> QED BY <1>3, <3>2, <3>3, <3>6, <3>7
  <2> QED BY <2>1, <2>2
<1>8. ASSUME UNCHANGED <<tokens, tokenBalances>> PROVE Conserves(id)'
  BY <1>2, <1>8
<1> QED BY <1>4, <1>5, <1>6, <1>7, <1>8, LedgerSteps DEF Vote, ledger

-----------------------------------------------------------------------------
LEMMA OneVoiceIff ==
  SpeechTypeOK /\ Voices /\ Counted => OneVoice
<1> SUFFICES ASSUME SpeechTypeOK, Voices, Counted PROVE OneVoice
  OBVIOUS
<1>1. \A a, b \in acts : Apart(a, b)
  BY DEF Voices
<1>2. ASSUME NEW id \in TokenId, NEW w \in Wallet, tokens[id] # None, Mode(id) = "capped"
      PROVE  Cardinality(By(w, id)) <= tokens[id].decl.cap
  BY <1>2 DEF Counted, Mode, Unique
<1> QED BY <1>1, <1>2 DEF OneVoice, Apart

Inv ==
  /\ SpeechTypeOK /\ Registered /\ StandingIsGranted
  /\ UnitsConserved /\ Remembered /\ Voices /\ Counted /\ TallyIsBurn
  /\ ServiceOK /\ PlacesOK

LEMMA InitInv == Init => Inv
<1> SUFFICES ASSUME Init PROVE Inv
  OBVIOUS
<1> USE ExpressionsAssumption
<1>1. SpeechTypeOK
  BY DEF Init, SpeechTypeOK, Book, NoBook
<1>2. IsFiniteSet(acts) /\ acts = {} /\ IsFiniteSet(spentSerials) /\ spentSerials = {}
  BY FS_EmptySet DEF Init
<1>3. Registered /\ StandingIsGranted /\ UnitsConserved /\ Remembered /\ Voices /\ TallyIsBurn
  BY <1>2 DEF Init, Registered, StandingIsGranted, UnitsConserved, Remembered, Voices, TallyIsBurn
<1>4. Counted
  BY <1>2 DEF Init, Counted
<1>5. ServiceOK
  BY DEF Init, ServiceOK, NoBook
<1>6. PlacesOK
  <2>1. \A p \in Poll : SpentIn(p) = {}
    BY <1>2 DEF SpentIn
  <2> QED BY <1>2, <2>1, FS_EmptySet DEF Init, PlacesOK
<1> QED BY <1>1, <1>3, <1>4, <1>5, <1>6 DEF Inv

LEMMA NextInv == Inv /\ [Next]_vars => Inv'
<1> SUFFICES ASSUME Inv, [Next]_vars PROVE Inv'
  OBVIOUS
<1>1. SpeechTypeOK' /\ Remembered' /\ Voices' /\ ServiceOK' /\ PlacesOK'
  BY NextType, NextVoices, NextService, NextPlaces DEF Inv
<1>2. Registered' /\ StandingIsGranted'
  <2>1. \A id \in TokenId : Stands(id)'
    BY NextStands, StandsIff DEF Inv
  <2> QED BY <2>1 DEF Stands, Registered, StandingIsGranted
<1>4. UnitsConserved'
  <2>1. \A id \in TokenId : Conserves(id)'
    BY NextConserves, ConservesIff DEF Inv
  <2> QED BY <2>1 DEF Conserves, UnitsConserved, InAllHands
<1>3. Counted' /\ TallyIsBurn'
  <2>1. IsFiniteSet(acts') /\ \A id \in TokenId : Tallies(id)'
    BY NextTallies, FiniteActs, TalliesIff DEF Inv
  <2> QED BY <2>1 DEF Tallies, Counted, TallyIsBurn, Price
<1> QED BY <1>1, <1>2, <1>3, <1>4 DEF Inv

LEMMA InvHolds == Spec => []Inv
BY InitInv, NextInv, PTL DEF Spec

\* Types hold in every reachable state; no balance goes below zero and no
\* account is charged beyond the quota (state.js 137-211, publisher.js 127-148).
THEOREM SpeechTypes == Spec => []SpeechTypeOK
BY InvHolds, PTL DEF Inv

\* However votes and expressions are mixed, a wallet has one voice in a place
\* and on a single token, and its cap on a capped one (state.js 619-655).
THEOREM OneVoiceTheorem == Spec => []OneVoice
<1>1. Inv => OneVoice
  BY OneVoiceIff DEF Inv
<1> QED BY <1>1, InvHolds, PTL

\* No unit of a token on public matters reached a wallet but from its creator
\* (state.js 576-617, token.js 393-409).
THEOREM StandingTheorem == Spec => []StandingIsGranted
BY InvHolds, PTL DEF Inv

\* Units are neither made nor lost but by an issue and an expression, and an
\* issuer cannot get past the maximum it declared (state.js 155-187, 560-605).
THEOREM UnitsTheorem == Spec => []UnitsConserved
BY InvHolds, PTL DEF Inv

\* The burn is the tally, in every mode (state.js 189-197).
THEOREM TallyTheorem == Spec => []TallyIsBurn
BY InvHolds, PTL DEF Inv

\* Whatever the publisher's restarts, with a file or without one, a place of
\* its keys hears at most its quota of each account (publisher.js 112-150).
THEOREM QuotaTheorem == Spec => []QuotaHolds
<1>1. Inv => QuotaHolds
  BY SpentAreNumbered DEF Inv, QuotaHolds
<1> QED BY <1>1, InvHolds, PTL
=============================================================================
