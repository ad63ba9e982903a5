---------------------------- MODULE AnchorStore ----------------------------
(***************************************************************************)
(* src/anchor.js: the anchors read from Ethereum, the faults found among   *)
(* them, and the height below which they forbid a reorganisation.          *)
(*                                                                         *)
(* An anchor says "the block at this height has this hash and this         *)
(* cumulative work"; its digest is a hash of the three, so two anchors of  *)
(* one height have the same digest exactly when block and work agree.      *)
(***************************************************************************)
EXTENDS Integers, FiniteSets, FiniteSetsExt, Sequences

CONSTANTS
  Anchor,           \* well-formed anchors that may be read (see AnchorRecord)
  Publishers,       \* the allowlist
  EthConfirmations, \* Ethereum blocks that must bury an anchor
  EthBlocks         \* Ethereum heights the poller may report

AnchorRecord(a) ==
  /\ DOMAIN a = {"height", "block", "work", "ethBlock", "publisher"}
  /\ a.height \in Nat /\ a.work \in Nat \ {0} /\ a.ethBlock \in Nat \ {0}

ASSUME AnchorAssumption ==
  /\ \A a \in Anchor : AnchorRecord(a)
  /\ EthConfirmations \in Nat
  /\ EthBlocks \subseteq Nat

VARIABLES
  ethHead,       \* how far Ethereum has got
  byHeight,      \* height -> the anchor kept for it
  equivocations, \* heights that carry a fault
  seen           \* history: anchors of allowlisted publishers, as read

anchorVars == <<ethHead, byHeight, equivocations, seen>>

SameDigest(a, b) == a.height = b.height /\ a.block = b.block /\ a.work = b.work

AnchorTypeOK ==
  /\ ethHead \in EthBlocks \cup {0}
  /\ DOMAIN byHeight \subseteq {a.height : a \in Anchor}
  /\ \A h \in DOMAIN byHeight : byHeight[h] \in Anchor /\ byHeight[h].height = h
  /\ equivocations \subseteq {a.height : a \in Anchor}
  /\ seen \subseteq Anchor

AnchorInit ==
  /\ ethHead = 0
  /\ byHeight = [h \in {} |-> {}]
  /\ equivocations = {}
  /\ seen = {}

-----------------------------------------------------------------------------
\* A publisher contradicting an anchor already kept for that height.
DetectEquivocation(a) ==
  a.height \in DOMAIN byHeight /\ ~SameDigest(byHeight[a.height], a)

\* Work that does not exceed the work anchored at a lower height.
Regresses(a) ==
  \E h \in DOMAIN byHeight : h < a.height /\ byHeight[h].work >= a.work

\* An anchor from outside the allowlist is dropped before anything else looks
\* at it; a faulty one is recorded as a fault and not kept.
Add(a) ==
  /\ a.publisher \in Publishers
  /\ IF DetectEquivocation(a) \/ Regresses(a)
       THEN /\ equivocations' = equivocations \cup {a.height}
            /\ UNCHANGED byHeight
       ELSE /\ byHeight' = [h \in DOMAIN byHeight \cup {a.height} |->
                              IF h = a.height THEN a ELSE byHeight[h]]
            /\ UNCHANGED equivocations
  /\ seen' = seen \cup {a}
  /\ UNCHANGED ethHead

\* Ethereum may go backwards (a reorg there); the store follows.
SetEthereumHead(n) ==
  /\ ethHead' = n
  /\ UNCHANGED <<byHeight, equivocations, seen>>

-----------------------------------------------------------------------------
\* Mutant: a faulted height goes on settling history.
AttestedThoughFaulted ==
  {h \in DOMAIN byHeight : ethHead - byHeight[h].ethBlock >= EthConfirmations}

\* Heights whose anchor is not faulted and is buried deep enough.
Attested ==
  {h \in DOMAIN byHeight \ equivocations :
     ethHead - byHeight[h].ethBlock >= EthConfirmations}

\* Mutant: an anchor binds whatever the local chain holds.
BindingAnyway(local) == Attested

\* The attested heights at which the local canonical chain, a sequence that
\* starts with the block of height 0, has exactly the anchored block.
Binding(local) ==
  {h \in Attested : h < Len(local) /\ local[h + 1] = byHeight[h].block}

\* The height at or below which history is settled, -1 if none is.
FinalizedHeight(local) ==
  IF Binding(local) = {} THEN -1 ELSE Max(Binding(local))

\* A branch may not fork below the settled height, that is, below any height
\* that binds.
PermitsReorgFrom(local, forkHeight) == \A h \in Binding(local) : forkHeight >= h

AnchorNext ==
  \/ \E a \in Anchor : Add(a)
  \/ \E n \in EthBlocks : SetEthereumHead(n)

-----------------------------------------------------------------------------
\* A height two believed anchors contradict each other about never settles
\* history, whichever came first and whatever came between (anchor.js 169-191,
\* 249-256), while an outsider's anchor unsettles nothing (anchor.js 203-211).
ContradictedNeverBinds ==
  \A a, b \in seen :
    a.height = b.height /\ ~SameDigest(a, b) => a.height \notin Attested
=============================================================================
