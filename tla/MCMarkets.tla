------------------------------ MODULE MCMarkets ------------------------------
(***************************************************************************)
(* Money changing hands, in two parts that share no variable, each         *)
(* explored on its own: `part` says which.                                 *)
(*   payouts  the bot of MCFast                                            *)
(*   market   a sale of six units at a price that rises, beside a pool     *)
(*            small enough for rounding to matter; bob may also withdraw   *)
(***************************************************************************)
EXTENDS MCFast, Market

VARIABLE part

MarketsInit == Init /\ MarketInit /\ part \in {"payouts", "market"}

MarketsNext ==
  /\ \/ part = "payouts" /\ Next /\ UNCHANGED marketVars
     \/ part = "market" /\ MarketNext /\ UNCHANGED vars
  /\ UNCHANGED part

MarketsSpec == MarketsInit /\ [][MarketsNext]_<<vars, marketVars, part>>
=============================================================================
