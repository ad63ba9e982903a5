------------------------------- MODULE Market -------------------------------
(***************************************************************************)
(* The market of one token: the constant-product pool of MolibraPool.sol,  *)
(* and the sale of MoliSaleCurve.sol, which sells on a rising schedule and *)
(* puts what it is paid into the pool, locked until a date.                *)
(*                                                                         *)
(* A call is one step, up to the point where it pays MOLI to an account    *)
(* whose code may then run: that account may call anything that is not     *)
(* locked, and ends by taking the payment or by refusing it.  A call that  *)
(* would revert is not a step.  Slippage bounds, deadlines and approvals   *)
(* are left out: they only make a call revert.  The token has no hooks.    *)
(***************************************************************************)
EXTENDS Integers, FiniteSets, FiniteSetsExt, SequencesExt

CONSTANTS
  Trader, Beneficiary,        \* accounts, and the one that may withdraw
  Curve, Pool,                \* the two contracts
  SupplyForSale, StartPrice,
  One,                        \* token units a price is quoted for
  Band, BandUnit,             \* how far the pool may be from the schedule
  FeeNum, FeeDen, MinimumLiquidity,
  DustLimit,
  Purse, Bag,                 \* MOLI and tokens of each trader at first
  Offered,                     \* of MOLI, tokens or shares in a call
  MaxCalls, MaxNested         \* bounds

Account == Trader \cup {Curve, Pool}

ASSUME MarketAssumption ==
  /\ IsFiniteSet(Trader) /\ Beneficiary \in Trader
  /\ Curve \notin Trader /\ Pool \notin Trader /\ Curve # Pool
  /\ SupplyForSale \in Nat \ {0} /\ StartPrice \in Nat \ {0} /\ One \in Nat \ {0}
  /\ FeeDen \in Nat \ {0} /\ FeeNum \in 0 .. FeeDen /\ MinimumLiquidity \in Nat /\ DustLimit \in Nat
  /\ Purse \in Nat /\ Bag \in Nat /\ Offered \subseteq Nat \ {0}

VARIABLES
  market,    \* both contracts, and who holds what
  unlocked,  \* unlockAt is reached
  open,      \* the calls that wait for whom they paid, the outermost first
  calls

marketVars == <<market, unlocked, open, calls>>

MarketInit ==
  /\ market = [reserveMoli |-> 0, reserveToken |-> 0, totalShares |-> 0,
               shares |-> [a \in Account |-> 0], sold |-> 0,
               moli |-> [a \in Account |-> IF a \in Trader THEN Purse ELSE 0],
               token |-> [a \in Account |-> IF a \in Trader THEN Bag
                                            ELSE IF a = Curve THEN SupplyForSale ELSE 0]]
  /\ unlocked = FALSE /\ open = << >> /\ calls = 0

-----------------------------------------------------------------------------
(* Arithmetic                                                              *)

MulDiv(a, b, d) == (a * b) \div d
MulDivUp(a, b, d) == (a * b + d - 1) \div d
Sqrt(y) == Max({z \in 0 .. y : z * z <= y})
Least(a, b) == IF a < b THEN a ELSE b

PayMoli(w, from, to, n) == [w EXCEPT !.moli[from] = @ - n, !.moli[to] = @ + n]
PayToken(w, from, to, n) == [w EXCEPT !.token[from] = @ - n, !.token[to] = @ + n]

-----------------------------------------------------------------------------
(* MolibraPool                                                             *)

\* Mutant: the better side counts, and the excess of the other is given away.
MintedMore(w, m, t) ==
  Max({MulDiv(m, w.totalShares, w.reserveMoli), MulDiv(t, w.totalShares, w.reserveToken)})

\* The first deposit founds the price; a later one is counted by the worse side.
Minted(w, m, t) ==
  Least(MulDiv(m, w.totalShares, w.reserveMoli), MulDiv(t, w.totalShares, w.reserveToken))

\* "Allow one unit of rounding, refuse a real imbalance."
Balanced(w, m, t) ==
  MulDiv(m, w.totalShares, w.reserveMoli) - MulDiv(t, w.totalShares, w.reserveToken) \in -1 .. 1

MayAdd(w, m, t) ==
  IF w.totalShares = 0 THEN Sqrt(m * t) > MinimumLiquidity
  ELSE /\ w.reserveMoli > 0 /\ w.reserveToken > 0
       /\ Balanced(w, m, t) /\ Minted(w, m, t) > 0

Added(w, who, m, t) ==
  LET first == w.totalShares = 0
      minted == IF first THEN Sqrt(m * t) - MinimumLiquidity ELSE Minted(w, m, t)
  IN  [PayToken(PayMoli(w, who, Pool, m), who, Pool, t) EXCEPT
         !.reserveMoli = @ + m, !.reserveToken = @ + t,
         !.totalShares = @ + minted + IF first THEN MinimumLiquidity ELSE 0,
         !.shares[who] = @ + minted]

\* What `n` shares are of both reserves.
MoliOut(w, n) == MulDiv(n, w.reserveMoli, w.totalShares)
TokenOut(w, n) == MulDiv(n, w.reserveToken, w.totalShares)

Removed(w, who, n) ==
  [PayToken(PayMoli(w, Pool, who, MoliOut(w, n)), Pool, who, TokenOut(w, n)) EXCEPT
     !.reserveMoli = @ - MoliOut(w, n), !.reserveToken = @ - TokenOut(w, n),
     !.totalShares = @ - n, !.shares[who] = @ - n]

SwapQuote(in, reserveIn, reserveOut) ==
  IF reserveIn = 0 \/ reserveOut = 0 THEN 0
  ELSE (in * FeeNum * reserveOut) \div (reserveIn * FeeDen + in * FeeNum)

-----------------------------------------------------------------------------
(* MoliSaleCurve: prices                                                   *)

PriceAt(x) == (StartPrice * (SupplyForSale + 4 * x)) \div SupplyForSale
Cost(x, t) ==
  MulDivUp(StartPrice, t * (SupplyForSale + 4 * x + 2 * t), SupplyForSale * One)
PoolPrice(w) == IF w.reserveToken = 0 THEN 0 ELSE MulDiv(w.reserveMoli, One, w.reserveToken)
InBand(w) ==
  LET c == PriceAt(w.sold)
      p == PoolPrice(w) * BandUnit
  IN  c * (BandUnit - Band) <= p /\ p <= c * (BandUnit + Band)

\* Units the payment is enough for, by the root of a quadratic; then fewer
\* while they cost more than it.
Solve(x, left, moli) ==
  LET b == SupplyForSale + 4 * x
      c == MulDiv(moli, SupplyForSale * One, StartPrice)
      root == Least(left, (Sqrt(b * b + 8 * c) - b) \div 4)
  IN  IF moli >= Cost(x, left) THEN left ELSE Max({t \in 0 .. root : Cost(x, t) <= moli})

\* A deposit in proportion of at most `budget`: shares by the coarser side.
DepositFor(w, budget) ==
  LET tMax == MulDiv(budget, w.reserveToken, w.reserveMoli)
      s == IF w.reserveMoli <= w.reserveToken
           THEN MulDiv(budget, w.totalShares, w.reserveMoli)
           ELSE MulDiv(tMax, w.totalShares, w.reserveToken)
  IN  IF s = 0 THEN [s |-> 0, m |-> 0, t |-> 0]
      ELSE [s |-> s, m |-> MulDivUp(s, w.reserveMoli, w.totalShares),
                     t |-> MulDivUp(s, w.reserveToken, w.totalShares)]

\* The buyer's tokens and those of the deposit both come out of what is left.
Fits(w, out) == out + DepositFor(w, Cost(w.sold, out)).t <= SupplyForSale - w.sold

\* Mutant: the deposit's tokens are forgotten.
OutForAll(w, moli) == Solve(w.sold, SupplyForSale - w.sold, moli)

\* Near sell-out the largest purchase that fits is found by bisection.
OutFor(w, moli) ==
  LET solved == Solve(w.sold, SupplyForSale - w.sold, moli)
      fits[lo \in Nat] == [hi \in Nat |->
        LET mid == (lo + hi + 1) \div 2
        IN  IF lo >= hi THEN lo ELSE IF Fits(w, mid) THEN fits[mid][hi] ELSE fits[lo][mid - 1]]
  IN  IF Fits(w, solved) THEN solved ELSE fits[0][solved]

-----------------------------------------------------------------------------
(* MoliSaleCurve: a purchase                                               *)

MayBuy(w, v) ==
  /\ w.token[Curve] >= SupplyForSale - w.sold /\ InBand(w)
  /\ w.sold < SupplyForSale /\ w.totalShares > 0 /\ w.reserveMoli > 0 /\ w.reserveToken > 0
  /\ OutFor(w, v) > 0

\* What is put into the pool, with the dust of earlier deposits when it fits.
Deepening(w, out, v) ==
  LET paid == Cost(w.sold, out)
      left == SupplyForSale - w.sold - out
      bal == w.moli[Curve] + paid
      all == DepositFor(w, bal)
      d == IF all.t > left \/ bal - paid > DustLimit THEN DepositFor(w, paid) ELSE all
  IN  IF d.t > left THEN [s |-> 0, m |-> 0, t |-> 0] ELSE d

\* The sale, then the deposit, then the tokens; the refund is still to be paid.
Bought(w, who, v) ==
  LET out == OutFor(w, v)
      d == Deepening(w, out, v)
      paid == [PayMoli(w, who, Curve, v) EXCEPT !.sold = @ + out + d.t]
      deepened == IF d.s = 0 THEN paid ELSE Added(paid, Curve, d.m, d.t)
  IN  PayToken(deepened, Curve, who, out)

Refund(w, v) == v - Cost(w.sold, OutFor(w, v))

\* Mutant: everything the curve holds of the token, the unsold too.
WithdrawnAll(w, n) == w.token[Curve] + TokenOut(w, n)

Withdrawn(w, n) == TokenOut(w, n)

-----------------------------------------------------------------------------
(* Calls                                                                   *)

Locked(contract) == \E i \in DOMAIN open : open[i].lock = contract

\* A call that runs no other code,
Done(w) ==
  /\ calls < MaxCalls /\ calls' = calls + 1
  /\ market' = w
  /\ UNCHANGED <<unlocked, open>>

\* and one that is left waiting for the account it paid.
Paying(w, contract) ==
  /\ calls < MaxCalls /\ calls' = calls + 1 /\ Len(open) < MaxNested
  /\ market' = w
  /\ open' = Append(open, [lock |-> contract, saved |-> market])
  /\ UNCHANGED unlocked

AddLiquidity(who, m, t) ==
  /\ ~Locked(Pool) /\ m <= market.moli[who] /\ t <= market.token[who] /\ MayAdd(market, m, t)
  /\ Done(Added(market, who, m, t))

RemoveLiquidity(who, n) ==
  /\ ~Locked(Pool) /\ n <= market.shares[who]
  /\ Paying(Removed(market, who, n), Pool)

SwapMoliForToken(who, m) ==
  LET out == SwapQuote(m, market.reserveMoli, market.reserveToken) IN
  /\ ~Locked(Pool) /\ m <= market.moli[who] /\ out > 0
  /\ Done([PayToken(PayMoli(market, who, Pool, m), Pool, who, out) EXCEPT
             !.reserveMoli = @ + m, !.reserveToken = @ - out])

SwapTokenForMoli(who, t) ==
  LET out == SwapQuote(t, market.reserveToken, market.reserveMoli) IN
  /\ ~Locked(Pool) /\ t <= market.token[who] /\ out > 0
  /\ Paying([PayMoli(PayToken(market, who, Pool, t), Pool, who, out) EXCEPT
               !.reserveToken = @ + t, !.reserveMoli = @ - out], Pool)

\* A buyer is called only when there is something to give back.  The pool is
\* locked when somebody it paid calls this: then its deposit would revert, as
\* a sale of more than is left would.
Buy(who, v) ==
  LET out == OutFor(market, v)
      d == Deepening(market, out, v)
      w == Bought(market, who, v)
      refund == Refund(market, v)
  IN
  /\ ~Locked(Curve) /\ v <= market.moli[who] /\ MayBuy(market, v)
  /\ out \in 1 .. SupplyForSale - market.sold
  /\ d.s > 0 => ~Locked(Pool) /\ MayAdd(market, d.m, d.t) /\ Minted(market, d.m, d.t) >= d.s
  /\ IF refund = 0 THEN Done(w) ELSE Paying(PayMoli(w, Curve, who, refund), Curve)

WithdrawLiquidity(n) ==
  LET w == Removed(market, Curve, n)
  IN
  /\ unlocked /\ ~Locked(Curve) /\ ~Locked(Pool) /\ n <= market.shares[Curve]
  /\ Paying(PayMoli(PayToken(w, Curve, Beneficiary, Withdrawn(market, n)),
                    Curve, Beneficiary, MoliOut(market, n)), Curve)

\* A plain transfer of tokens to a contract moves no price.
SendToken(who, contract) ==
  market.token[who] > 0 /\ Done(PayToken(market, who, contract, 1))

\* Who was paid is content, or not: then nothing of the call ever happened.
Return ==
  /\ open # << >> /\ open' = Front(open)
  /\ UNCHANGED <<market, unlocked, calls>>

Reject ==
  /\ open # << >> /\ open' = Front(open)
  /\ market' = Last(open).saved
  /\ UNCHANGED <<unlocked, calls>>

Unlock ==
  /\ ~unlocked /\ open = << >> /\ unlocked' = TRUE
  /\ UNCHANGED <<market, open, calls>>

MarketNext ==
  \/ \E who \in Trader, n \in Offered :
       \/ \E m \in Offered : AddLiquidity(who, m, n)
       \/ RemoveLiquidity(who, n) \/ SwapMoliForToken(who, n) \/ SwapTokenForMoli(who, n)
       \/ Buy(who, n)
  \/ \E who \in Trader, contract \in {Curve, Pool} : SendToken(who, contract)
  \/ \E n \in Offered : WithdrawLiquidity(n)
  \/ Return \/ Reject \/ Unlock

MarketSpec == MarketInit /\ [][MarketNext]_marketVars

-----------------------------------------------------------------------------
(* Properties                                                              *)

\* The tokens still for sale are in the curve whatever is bought, withdrawn or
\* sent, and what the pool says it holds is there (MoliSaleCurve.sol: "The
\* UNSOLD sale tokens are never withdrawable").
SaleIsFunded ==
  /\ market.sold <= SupplyForSale /\ SupplyForSale - market.sold <= market.token[Curve]
  /\ market.reserveToken <= market.token[Pool] /\ market.reserveMoli = market.moli[Pool]

\* A share of the pool is never worth less than before, whoever adds, removes,
\* swaps or buys in whatever order, from inside a payment or not: the product of
\* the reserves to the square of the shares only rises (MolibraPool.sol).
ShareValueNeverFalls ==
  [][ Len(open') >= Len(open) /\ market.totalShares > 0 =>
        market'.reserveMoli * market'.reserveToken * market.totalShares * market.totalShares
          >= market.reserveMoli * market.reserveToken * market'.totalShares * market'.totalShares
    ]_marketVars

\* A purchase is the largest its payment is enough for that leaves the tokens its
\* own deposit needs, the pool takes that deposit as it is, and what remains of
\* the payment is worth less than one share and one token more (MoliSaleCurve.sol:
\* "Largest t with cost(x, t) <= moli", "Exact shares on both sides", _deepen).
PurchaseIsBest ==
  \A v \in Offered : MayBuy(market, v) =>
    LET out == OutFor(market, v)
        d == Deepening(market, out, v)
        kept == Max({0, Cost(market.sold, out) - d.m})
        Fair(o) == Cost(market.sold, o) <= v /\ Fits(market, o)
    IN  /\ Fair(out) /\ \A o \in out + 1 .. SupplyForSale - market.sold : ~Fair(o)
        /\ d.s > 0 => MayAdd(market, d.m, d.t) /\ Minted(market, d.m, d.t) = d.s
        /\ kept * market.totalShares * market.reserveToken
             < market.reserveMoli * (market.totalShares + market.reserveToken)
=============================================================================
