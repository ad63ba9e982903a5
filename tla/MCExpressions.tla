--------------------------- MODULE MCExpressions ---------------------------
(***************************************************************************)
(* A question of each mode, an asset, and a purchase that could be sold,   *)
(* which must be refused; two of them are registered, by either wallet.    *)
(* Tokens and credentials share no variable, so a behaviour has the ones   *)
(* or the others, and plain votes with both.                               *)
(***************************************************************************)
EXTENDS Expressions, TLC

Question == [kind |-> "expression", voteMode |-> "quantum", purpose |-> "social",
             cap |-> 0, expressionCost |-> 1, initialSupply |-> 0, maxSupply |-> 2,
             issuable |-> TRUE, transferable |-> FALSE]

Questions == {
  Question,
  [Question EXCEPT !.voteMode = "single", !.purpose = "market",
                   !.initialSupply = 2, !.transferable = TRUE],
  [Question EXCEPT !.voteMode = "capped", !.cap = 1, !.purpose = "electoral"],
  [Question EXCEPT !.voteMode = "weighted", !.purpose = "behaviour", !.maxSupply = 0],
  [Question EXCEPT !.purpose = "purchase", !.transferable = TRUE],
  [Question EXCEPT !.kind = "asset", !.voteMode = None, !.purpose = None,
                   !.expressionCost = 0, !.initialSupply = 2,
                   !.issuable = FALSE, !.transferable = TRUE] }

Apart ==
  \/ \A id \in TokenId : tokens[id] = None
  \/ generated = {} /\ \A p \in Poll : polls[p] = None

Alike == Permutations(Wallet) \cup Permutations(Poll) \cup Permutations(Serial)
           \cup Permutations(PublisherKey)
=============================================================================
