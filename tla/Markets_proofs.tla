--------------------------- MODULE Markets_proofs ---------------------------
(***************************************************************************)
(* What holds of the market of a token, and of the bot of the fast bridge, *)
(* for all constants.                                                      *)
(***************************************************************************)
EXTENDS Market, FastBridge, SetLemmas, SequenceTheorems, TLAPS

-----------------------------------------------------------------------------
(* Division, as the contracts round.                                       *)

LEMMA Divided ==
  ASSUME NEW x \in Nat, NEW d \in Nat \ {0}
  PROVE  /\ x \div d \in Nat
         /\ (x \div d) * d <= x
         /\ x < (x \div d) * d + d
OBVIOUS

LEMMA RoundedDown ==
  ASSUME NEW a \in Nat, NEW b \in Nat, NEW d \in Nat \ {0}
  PROVE  /\ MulDiv(a, b, d) \in Nat
         /\ MulDiv(a, b, d) * d <= a * b
<1>1. a * b \in Nat
  OBVIOUS
<1> QED BY <1>1, Divided DEF MulDiv

LEMMA RoundedUp ==
  ASSUME NEW a \in Nat, NEW b \in Nat, NEW d \in Nat \ {0}
  PROVE  /\ MulDivUp(a, b, d) \in Nat
         /\ a * b <= MulDivUp(a, b, d) * d
         /\ \A m \in Nat : a * b <= m * d => MulDivUp(a, b, d) <= m
<1> DEFINE x == a * b + d - 1
           q == x \div d
<1>1. a * b \in Nat
  OBVIOUS
<1>2. x \in Nat
  BY <1>1
<1> HIDE DEF x
<1>3. q \in Nat /\ q * d <= x /\ x < q * d + d
  BY <1>2, Divided
<1> HIDE DEF q
<1>4. a * b <= q * d
  BY <1>1, <1>3 DEF x
<1>5. ASSUME NEW m \in Nat, a * b <= m * d PROVE q <= m
  <2>1. SUFFICES ASSUME q >= m + 1 PROVE FALSE
    BY <1>3
  <2>2. q * d >= (m + 1) * d
    BY <1>3, <2>1
  <2>3. (m + 1) * d = m * d + d /\ m * d \in Nat /\ q * d \in Nat
    BY <1>3
  <2> QED BY <1>1, <1>3, <1>5, <2>2, <2>3 DEF x
<1>6. MulDivUp(a, b, d) = q
  BY DEF MulDivUp, q, x
<1> QED BY <1>3, <1>4, <1>5, <1>6

LEMMA ProductRises ==
  ASSUME NEW a \in Nat, NEW b \in Nat, NEW c \in Nat, NEW d \in Nat, a >= b, c >= d
  PROVE  a * c >= b * d
<1>1. a * c >= b * c
  OBVIOUS
<1>2. b * c >= b * d
  OBVIOUS
<1>3. a * c \in Nat /\ b * c \in Nat /\ b * d \in Nat
  OBVIOUS
<1> QED BY <1>1, <1>2, <1>3

LEMMA Cancelled ==
  ASSUME NEW a \in Nat, NEW b \in Nat, NEW c \in Nat \ {0}, a * c <= b * c
  PROVE  a <= b
<1> SUFFICES ASSUME a >= b + 1 PROVE FALSE
  OBVIOUS
<1>1. a * c >= (b + 1) * c
  BY ProductRises
<1>2. (b + 1) * c = b * c + c /\ b * c \in Nat /\ a * c \in Nat
  OBVIOUS
<1> QED BY <1>1, <1>2

\* Each reserve per share rises: so does their product to the square of the shares.
LEMMA ValueRises ==
  ASSUME NEW m \in Nat, NEW t \in Nat, NEW s \in Nat,
         NEW m2 \in Nat, NEW t2 \in Nat, NEW s2 \in Nat,
         m * s2 <= m2 * s, t * s2 <= t2 * s
  PROVE  m2 * t2 * s * s >= m * t * s2 * s2
<1>1. m * s2 \in Nat /\ t * s2 \in Nat /\ m2 * s \in Nat /\ t2 * s \in Nat
  OBVIOUS
<1>2. (m2 * s) * (t2 * s) >= (m * s2) * (t * s2)
  BY <1>1, ProductRises
<1>3. m2 * t2 * s * s = (m2 * s) * (t2 * s)
  OBVIOUS
<1>4. m * t * s2 * s2 = (m * s2) * (t * s2)
  OBVIOUS
<1> QED BY <1>2, <1>3, <1>4

\* A swap pays out less than would keep the product, by the fee and the rounding.
LEMMA ProductKept ==
  ASSUME NEW in \in Nat, NEW ri \in Nat \ {0}, NEW ro \in Nat \ {0}
  PROVE  /\ SwapQuote(in, ri, ro) \in Nat
         /\ SwapQuote(in, ri, ro) <= ro
         /\ (ri + in) * (ro - SwapQuote(in, ri, ro)) >= ri * ro
<1> DEFINE out == SwapQuote(in, ri, ro)
           f == in * FeeNum
           den == ri * FeeDen + f
<1>1. FeeDen \in Nat \ {0} /\ FeeNum \in Nat /\ FeeNum <= FeeDen
  BY MarketAssumption
<1>2. f \in Nat /\ ri * FeeDen \in Nat \ {0}
  BY <1>1
<1>3. out = (f * ro) \div den
  BY DEF SwapQuote
<1> HIDE DEF out, f
<1>4. f * ro \in Nat /\ den \in Nat \ {0}
  BY <1>2
<1> HIDE DEF den
<1>5. out \in Nat /\ out * den <= f * ro
  BY <1>3, <1>4, Divided
<1>6. out <= ro
  <2>1. f * ro <= den * ro
    BY <1>2, <1>4, ProductRises DEF den
  <2>2. out * den <= ro * den
    BY <1>4, <1>5, <2>1
  <2> QED BY <1>4, <1>5, <2>2, Cancelled
<1>7. out * (ri + in) <= in * ro
  <2> DEFINE left == ro - out
  <2>1. left \in Nat
    BY <1>5, <1>6
  <2>2. out * (ri * FeeDen) + out * f <= f * ro
    <3>1. out * den = out * (ri * FeeDen) + out * f
      BY <1>2, <1>5 DEF den
    <3> QED BY <1>5, <3>1
  <2>3. out * (ri * FeeDen) <= f * left
    <3>1. f * ro - out * f = f * left
      BY <1>2, <1>5
    <3>2. out * (ri * FeeDen) \in Nat /\ out * f \in Nat /\ f * ro \in Nat
      BY <1>2, <1>5
    <3> HIDE DEF left
    <3> QED BY <2>2, <3>1, <3>2
  <2> HIDE DEF left
  <2>4. f * left <= (in * FeeDen) * left
    BY <1>1, <1>2, <2>1, ProductRises DEF f
  <2>5. (out * ri) * FeeDen <= (in * left) * FeeDen
    <3>1. (out * ri) * FeeDen = out * (ri * FeeDen)
      BY <1>1, <1>5
    <3>2. (in * left) * FeeDen = (in * FeeDen) * left
      BY <1>1, <2>1
    <3>3. out * (ri * FeeDen) \in Nat /\ f * left \in Nat /\ (in * FeeDen) * left \in Nat
      BY <1>1, <1>2, <1>5, <2>1
    <3> QED BY <2>3, <2>4, <3>1, <3>2, <3>3
  <2>6. out * ri \in Nat /\ in * left \in Nat
    BY <1>5, <2>1
  <2>7. out * ri <= in * left
    BY <1>1, <2>5, <2>6, Cancelled
  <2>8. in * left = in * ro - in * out
    BY <1>5 DEF left
  <2>9. out * (ri + in) = out * ri + in * out /\ in * out \in Nat /\ in * ro \in Nat
    BY <1>5
  <2> QED BY <2>6, <2>7, <2>8, <2>9
<1>8. (ri + in) * (ro - out) = ri * ro + in * ro - out * (ri + in)
  BY <1>5
<1>9. ri * ro \in Nat /\ in * ro \in Nat /\ out * (ri + in) \in Nat
  BY <1>5
<1> QED BY <1>5, <1>6, <1>7, <1>8, <1>9 DEF out

-----------------------------------------------------------------------------
(* The market.                                                             *)

World == [reserveMoli : Nat, reserveToken : Nat, totalShares : Nat, shares : [Account -> Nat],
          sold : Nat, moli : [Account -> Int], token : [Account -> Int]]

\* What is for sale is held by the curve, the reserves by the pool, and no share
\* was given that is not counted.
Sound(w) ==
  /\ w \in World
  /\ w.sold <= SupplyForSale /\ SupplyForSale - w.sold <= w.token[Curve]
  /\ w.reserveToken <= w.token[Pool] /\ w.reserveMoli = w.moli[Pool]
  /\ w.moli[Curve] >= 0
  /\ SumFunctionOnSet(w.shares, Account) <= w.totalShares

\* What a refused payment would put back is sound as well.
Frame == [lock : {Curve, Pool}, saved : World]
MarketInv ==
  /\ Sound(market)
  /\ open \in Seq(Frame)
  /\ \A i \in DOMAIN open : Sound(open[i].saved)

LEMMA Accounts == IsFiniteSet(Account)
<1>1. Account = (Trader \cup {Curve}) \cup {Pool}
  BY DEF Account
<1> QED BY <1>1, MarketAssumption, FS_AddElement

\* Payments move what they say and nothing else.
LEMMA MoliMoved ==
  ASSUME NEW w \in World, NEW a \in Account, NEW b \in Account, a # b, NEW n \in Int
  PROVE  /\ PayMoli(w, a, b, n) \in World
         /\ PayMoli(w, a, b, n).moli = [w.moli EXCEPT ![a] = @ - n, ![b] = @ + n]
         /\ PayMoli(w, a, b, n).token = w.token /\ PayMoli(w, a, b, n).sold = w.sold
         /\ PayMoli(w, a, b, n).reserveMoli = w.reserveMoli
         /\ PayMoli(w, a, b, n).reserveToken = w.reserveToken
         /\ PayMoli(w, a, b, n).totalShares = w.totalShares
         /\ PayMoli(w, a, b, n).shares = w.shares
<1> DEFINE f == [w.moli EXCEPT ![a] = @ - n]
           g == [f EXCEPT ![b] = @ + n]
<1>1. w.moli \in [Account -> Int]
  BY DEF World
<1>2. f \in [Account -> Int] /\ g \in [Account -> Int]
  BY <1>1
<1>3. PayMoli(w, a, b, n) = [w EXCEPT !.moli = g]
  BY DEF PayMoli, World
<1>4. g = [w.moli EXCEPT ![a] = @ - n, ![b] = @ + n]
  OBVIOUS
<1> HIDE DEF f, g
<1> QED BY <1>2, <1>3, <1>4 DEF World


LEMMA TokenMoved ==
  ASSUME NEW w \in World, NEW a \in Account, NEW b \in Account, a # b, NEW n \in Int
  PROVE  /\ PayToken(w, a, b, n) \in World
         /\ PayToken(w, a, b, n).token = [w.token EXCEPT ![a] = @ - n, ![b] = @ + n]
         /\ PayToken(w, a, b, n).moli = w.moli /\ PayToken(w, a, b, n).sold = w.sold
         /\ PayToken(w, a, b, n).reserveMoli = w.reserveMoli
         /\ PayToken(w, a, b, n).reserveToken = w.reserveToken
         /\ PayToken(w, a, b, n).totalShares = w.totalShares
         /\ PayToken(w, a, b, n).shares = w.shares
<1> DEFINE f == [w.token EXCEPT ![a] = @ - n]
           g == [f EXCEPT ![b] = @ + n]
<1>1. w.token \in [Account -> Int]
  BY DEF World
<1>2. f \in [Account -> Int] /\ g \in [Account -> Int]
  BY <1>1
<1>3. PayToken(w, a, b, n) = [w EXCEPT !.token = g]
  BY DEF PayToken, World
<1>4. g = [w.token EXCEPT ![a] = @ - n, ![b] = @ + n]
  OBVIOUS
<1> HIDE DEF f, g
<1> QED BY <1>2, <1>3, <1>4 DEF World


\* The value of a share, without its divisions.
Risen(w, w2) ==
  w2.reserveMoli * w2.reserveToken * w.totalShares * w.totalShares
    >= w.reserveMoli * w.reserveToken * w2.totalShares * w2.totalShares

LEMMA SwapsMoli ==
  ASSUME NEW w, Sound(w), NEW who \in Trader, NEW m \in Nat,
         SwapQuote(m, w.reserveMoli, w.reserveToken) > 0
  PROVE  LET out == SwapQuote(m, w.reserveMoli, w.reserveToken)
             r == [PayToken(PayMoli(w, who, Pool, m), Pool, who, out) EXCEPT
                     !.reserveMoli = @ + m, !.reserveToken = @ - out]
         IN  Sound(r) /\ Risen(w, r)
<1> DEFINE out == SwapQuote(m, w.reserveMoli, w.reserveToken)
           p == PayMoli(w, who, Pool, m)
           q == PayToken(p, Pool, who, out)
           r == [q EXCEPT !.reserveMoli = @ + m, !.reserveToken = @ - out]
<1>1. w \in World /\ who \in Account /\ Pool \in Account /\ Curve \in Account
      /\ who # Pool /\ who # Curve /\ Curve # Pool
  BY MarketAssumption DEF Sound, Account
<1>2. w.reserveMoli \in Nat \ {0} /\ w.reserveToken \in Nat \ {0} /\ w.totalShares \in Nat
  BY <1>1 DEF SwapQuote, World
<1>3. /\ out \in Nat /\ out <= w.reserveToken
      /\ (w.reserveMoli + m) * (w.reserveToken - out) >= w.reserveMoli * w.reserveToken
  BY <1>2, ProductKept
<1> HIDE DEF out
<1>4. /\ p \in World /\ p.moli = [w.moli EXCEPT ![who] = @ - m, ![Pool] = @ + m]
      /\ p.token = w.token /\ p.sold = w.sold /\ p.reserveMoli = w.reserveMoli
      /\ p.reserveToken = w.reserveToken /\ p.totalShares = w.totalShares /\ p.shares = w.shares
  BY <1>1, MoliMoved
<1> HIDE DEF p
<1>5. /\ q \in World /\ q.token = [p.token EXCEPT ![Pool] = @ - out, ![who] = @ + out]
      /\ q.moli = p.moli /\ q.sold = p.sold /\ q.reserveMoli = p.reserveMoli
      /\ q.reserveToken = p.reserveToken /\ q.totalShares = p.totalShares /\ q.shares = p.shares
  BY <1>1, <1>3, <1>4, TokenMoved
<1> HIDE DEF q
<1>a. q \in World /\ q.reserveMoli + m \in Nat /\ q.reserveToken - out \in Nat
  BY <1>2, <1>3, <1>4, <1>5
<1>b. /\ r \in World /\ r.token = q.token /\ r.moli = q.moli /\ r.sold = q.sold
      /\ r.reserveMoli = q.reserveMoli + m /\ r.reserveToken = q.reserveToken - out
      /\ r.totalShares = q.totalShares /\ r.shares = q.shares
  BY <1>a DEF World
<1> HIDE DEF r
<1>6. /\ r \in World /\ r.token = q.token /\ r.moli = q.moli /\ r.sold = w.sold
      /\ r.reserveMoli = w.reserveMoli + m /\ r.reserveToken = w.reserveToken - out
      /\ r.totalShares = w.totalShares /\ r.shares = w.shares
  BY <1>b, <1>4, <1>5
<1>7. w.moli \in [Account -> Int] /\ w.token \in [Account -> Int]
  BY <1>1 DEF World
<1>8. /\ r.moli[Pool] = w.moli[Pool] + m /\ r.moli[Curve] = w.moli[Curve]
      /\ r.token[Pool] = w.token[Pool] - out /\ r.token[Curve] = w.token[Curve]
  BY <1>1, <1>4, <1>5, <1>6, <1>7
<1>9. Sound(r)
  <2>1. w.token[Pool] \in Int /\ w.token[Curve] \in Int /\ w.sold \in Nat
    BY <1>1, <1>7 DEF World
  <2> QED BY <1>2, <1>3, <1>6, <1>8, <2>1 DEF Sound
<1>10. Risen(w, r)
  <2> DEFINE kept == w.reserveMoli * w.reserveToken
             made == (w.reserveMoli + m) * (w.reserveToken - out)
             square == w.totalShares * w.totalShares
  <2>1. kept \in Nat /\ made \in Nat /\ square \in Nat /\ made >= kept
    BY <1>2, <1>3
  <2>2. made * square >= kept * square
    BY <2>1, ProductRises
  <2>3. made * square = r.reserveMoli * r.reserveToken * w.totalShares * w.totalShares
    BY <1>2, <1>3, <1>6
  <2>4. kept * square = w.reserveMoli * w.reserveToken * r.totalShares * r.totalShares
    BY <1>2, <1>4, <1>5, <1>6
  <2> QED BY <2>2, <2>3, <2>4 DEF Risen
<1> QED BY <1>9, <1>10 DEF r, q, p, out

LEMMA SwapsToken ==
  ASSUME NEW w, Sound(w), NEW who \in Trader, NEW t \in Nat,
         SwapQuote(t, w.reserveToken, w.reserveMoli) > 0
  PROVE  LET out == SwapQuote(t, w.reserveToken, w.reserveMoli)
             r == [PayMoli(PayToken(w, who, Pool, t), Pool, who, out) EXCEPT
                     !.reserveToken = @ + t, !.reserveMoli = @ - out]
         IN  Sound(r) /\ Risen(w, r)
<1> DEFINE out == SwapQuote(t, w.reserveToken, w.reserveMoli)
           p == PayToken(w, who, Pool, t)
           q == PayMoli(p, Pool, who, out)
           r == [q EXCEPT !.reserveToken = @ + t, !.reserveMoli = @ - out]
<1>1. w \in World /\ who \in Account /\ Pool \in Account /\ Curve \in Account
      /\ who # Pool /\ who # Curve /\ Curve # Pool
  BY MarketAssumption DEF Sound, Account
<1>2. w.reserveMoli \in Nat \ {0} /\ w.reserveToken \in Nat \ {0} /\ w.totalShares \in Nat
  BY <1>1 DEF SwapQuote, World
<1>3. /\ out \in Nat /\ out <= w.reserveMoli
      /\ (w.reserveToken + t) * (w.reserveMoli - out) >= w.reserveToken * w.reserveMoli
  BY <1>2, ProductKept
<1> HIDE DEF out
<1>4. /\ p \in World /\ p.token = [w.token EXCEPT ![who] = @ - t, ![Pool] = @ + t]
      /\ p.moli = w.moli /\ p.sold = w.sold /\ p.reserveMoli = w.reserveMoli
      /\ p.reserveToken = w.reserveToken /\ p.totalShares = w.totalShares /\ p.shares = w.shares
  BY <1>1, TokenMoved
<1> HIDE DEF p
<1>5. /\ q \in World /\ q.moli = [p.moli EXCEPT ![Pool] = @ - out, ![who] = @ + out]
      /\ q.token = p.token /\ q.sold = p.sold /\ q.reserveMoli = p.reserveMoli
      /\ q.reserveToken = p.reserveToken /\ q.totalShares = p.totalShares /\ q.shares = p.shares
  BY <1>1, <1>3, <1>4, MoliMoved
<1> HIDE DEF q
<1>a. q \in World /\ q.reserveMoli - out \in Nat /\ q.reserveToken + t \in Nat
  BY <1>2, <1>3, <1>4, <1>5
<1>b. /\ r \in World /\ r.token = q.token /\ r.moli = q.moli /\ r.sold = q.sold
      /\ r.reserveMoli = q.reserveMoli - out /\ r.reserveToken = q.reserveToken + t
      /\ r.totalShares = q.totalShares /\ r.shares = q.shares
  BY <1>a DEF World
<1> HIDE DEF r
<1>6. /\ r \in World /\ r.token = q.token /\ r.moli = q.moli /\ r.sold = w.sold
      /\ r.reserveMoli = w.reserveMoli - out /\ r.reserveToken = w.reserveToken + t
      /\ r.totalShares = w.totalShares /\ r.shares = w.shares
  BY <1>b, <1>4, <1>5
<1>7. w.moli \in [Account -> Int] /\ w.token \in [Account -> Int]
  BY <1>1 DEF World
<1>8. /\ r.moli[Pool] = w.moli[Pool] - out /\ r.moli[Curve] = w.moli[Curve]
      /\ r.token[Pool] = w.token[Pool] + t /\ r.token[Curve] = w.token[Curve]
  BY <1>1, <1>4, <1>5, <1>6, <1>7
<1>9. Sound(r)
  <2>1. w.token[Pool] \in Int /\ w.token[Curve] \in Int /\ w.sold \in Nat
    BY <1>1, <1>7 DEF World
  <2> QED BY <1>2, <1>3, <1>6, <1>8, <2>1 DEF Sound
<1>10. Risen(w, r)
  <2> DEFINE kept == w.reserveMoli * w.reserveToken
             made == (w.reserveToken + t) * (w.reserveMoli - out)
             square == w.totalShares * w.totalShares
  <2>1. kept \in Nat /\ made \in Nat /\ square \in Nat /\ made >= kept
    BY <1>2, <1>3
  <2>2. made * square >= kept * square
    BY <2>1, ProductRises
  <2>3. made * square = r.reserveMoli * r.reserveToken * w.totalShares * w.totalShares
    BY <1>2, <1>3, <1>6
  <2>4. kept * square = w.reserveMoli * w.reserveToken * r.totalShares * r.totalShares
    BY <1>2, <1>4, <1>5, <1>6
  <2> QED BY <2>2, <2>3, <2>4 DEF Risen
<1> QED BY <1>9, <1>10 DEF r, q, p, out

\* A deposit is counted by its worse side.
LEMMA MintedLittle ==
  ASSUME NEW w \in World, NEW m \in Nat, NEW t \in Nat, w.totalShares > 0,
         w.reserveMoli > 0, w.reserveToken > 0
  PROVE  /\ Minted(w, m, t) \in Nat
         /\ Minted(w, m, t) * w.reserveMoli <= m * w.totalShares
         /\ Minted(w, m, t) * w.reserveToken <= t * w.totalShares
<1> DEFINE a == MulDiv(m, w.totalShares, w.reserveMoli)
           b == MulDiv(t, w.totalShares, w.reserveToken)
<1>1. w.totalShares \in Nat /\ w.reserveMoli \in Nat \ {0} /\ w.reserveToken \in Nat \ {0}
  BY DEF World
<1>2. /\ a \in Nat /\ a * w.reserveMoli <= m * w.totalShares
      /\ b \in Nat /\ b * w.reserveToken <= t * w.totalShares
  BY <1>1, RoundedDown
<1>3. Minted(w, m, t) = Least(a, b)
  BY DEF Minted
<1> HIDE DEF a, b
<1>4. Least(a, b) \in Nat /\ Least(a, b) <= a /\ Least(a, b) <= b
  BY <1>2 DEF Least
<1>5. /\ Least(a, b) * w.reserveMoli <= a * w.reserveMoli
      /\ Least(a, b) * w.reserveToken <= b * w.reserveToken
  BY <1>1, <1>2, <1>4, ProductRises
<1>6. /\ Least(a, b) * w.reserveMoli \in Nat /\ a * w.reserveMoli \in Nat
      /\ Least(a, b) * w.reserveToken \in Nat /\ b * w.reserveToken \in Nat
      /\ m * w.totalShares \in Nat /\ t * w.totalShares \in Nat
  BY <1>1, <1>2, <1>4
<1> QED BY <1>2, <1>3, <1>4, <1>5, <1>6

LEMMA RootType == ASSUME NEW y \in Nat PROVE Sqrt(y) \in Nat
<1> DEFINE S == {z \in 0 .. y : z * z <= y}
<1>1. 0 \in S /\ S \in SUBSET Int /\ S # {} /\ S \subseteq Nat
  OBVIOUS
<1>2. IsFiniteSet(S)
  <2>1. IsFiniteSet(0 .. y) /\ S \subseteq 0 .. y
    BY FS_Interval
  <2> HIDE DEF S
  <2> QED BY <2>1, FS_Subset
<1>3. Max(S) \in S
  BY <1>1, <1>2, MaxIsGreatest
<1> QED BY <1>1, <1>3 DEF Sqrt

LEMMA AddedSays ==
  ASSUME NEW w \in World, NEW who \in Account, who # Pool, NEW m \in Nat, NEW t \in Nat,
         MayAdd(w, m, t)
  PROVE  LET r == Added(w, who, m, t)
         IN  /\ r \in World /\ r.sold = w.sold
             /\ r.moli = [w.moli EXCEPT ![who] = @ - m, ![Pool] = @ + m]
             /\ r.token = [w.token EXCEPT ![who] = @ - t, ![Pool] = @ + t]
             /\ r.reserveMoli = w.reserveMoli + m /\ r.reserveToken = w.reserveToken + t
             /\ \E minted \in Nat : /\ r.shares = [w.shares EXCEPT ![who] = @ + minted]
                                    /\ r.totalShares >= w.totalShares + minted
             /\ w.totalShares > 0 =>
                  /\ w.reserveMoli * r.totalShares <= r.reserveMoli * w.totalShares
                  /\ w.reserveToken * r.totalShares <= r.reserveToken * w.totalShares
<1> DEFINE first == w.totalShares = 0
           minted == IF first THEN Sqrt(m * t) - MinimumLiquidity ELSE Minted(w, m, t)
           burnt == IF first THEN MinimumLiquidity ELSE 0
           p == PayMoli(w, who, Pool, m)
           q == PayToken(p, who, Pool, t)
           r == Added(w, who, m, t)
<1>1. Pool \in Account /\ m * t \in Nat /\ MinimumLiquidity \in Nat /\ w.totalShares \in Nat
      /\ w.reserveMoli \in Nat /\ w.reserveToken \in Nat /\ w.shares \in [Account -> Nat]
  BY MarketAssumption DEF Account, World
<1>2. minted \in Nat /\ burnt \in Nat
  <2>1. CASE first
    BY <1>1, <2>1, RootType DEF MayAdd
  <2>2. CASE ~first
    BY <1>1, <2>2, MintedLittle DEF MayAdd
  <2> QED BY <2>1, <2>2
<1>3. ~first => /\ minted * w.reserveMoli <= m * w.totalShares
                /\ minted * w.reserveToken <= t * w.totalShares
                /\ burnt = 0
  BY <1>1, MintedLittle DEF MayAdd
<1>4. r = [q EXCEPT !.reserveMoli = @ + m, !.reserveToken = @ + t,
                    !.totalShares = @ + minted + burnt, !.shares[who] = @ + minted]
  BY DEF Added
<1>5. ~first <=> w.totalShares > 0
  BY <1>1
<1> HIDE DEF r, minted, burnt, first
<1>0. Pool \in Account /\ m \in Int /\ t \in Int
  BY <1>1
<1>6. /\ p \in World /\ p.moli = [w.moli EXCEPT ![who] = @ - m, ![Pool] = @ + m]
      /\ p.token = w.token /\ p.sold = w.sold /\ p.reserveMoli = w.reserveMoli
      /\ p.reserveToken = w.reserveToken /\ p.totalShares = w.totalShares /\ p.shares = w.shares
  BY <1>0, MoliMoved
<1> HIDE DEF p
<1>7. /\ q \in World /\ q.token = [w.token EXCEPT ![who] = @ - t, ![Pool] = @ + t]
      /\ q.moli = [w.moli EXCEPT ![who] = @ - m, ![Pool] = @ + m]
      /\ q.sold = w.sold /\ q.reserveMoli = w.reserveMoli
      /\ q.reserveToken = w.reserveToken /\ q.totalShares = w.totalShares /\ q.shares = w.shares
  BY <1>6, <1>0, TokenMoved
<1> HIDE DEF q
<1> DEFINE sh == [w.shares EXCEPT ![who] = @ + minted]
<1>8. sh \in [Account -> Nat]
  BY <1>1, <1>2
<1>9. r = [q EXCEPT !.reserveMoli = w.reserveMoli + m, !.reserveToken = w.reserveToken + t,
                    !.totalShares = w.totalShares + minted + burnt, !.shares = sh]
  <2>1. q.reserveMoli = w.reserveMoli /\ q.reserveToken = w.reserveToken
        /\ q.totalShares = w.totalShares /\ q.shares = w.shares /\ q \in World
    BY <1>7
  <2> QED BY <1>4, <2>1 DEF World
<1>10. w.reserveMoli + m \in Nat /\ w.reserveToken + t \in Nat
       /\ w.totalShares + minted + burnt \in Nat
  BY <1>1, <1>2
<1>11. q \in World
  BY <1>7
<1>12. /\ r \in World /\ r.sold = q.sold /\ r.moli = q.moli /\ r.token = q.token
       /\ r.reserveMoli = w.reserveMoli + m /\ r.reserveToken = w.reserveToken + t
       /\ r.totalShares = w.totalShares + minted + burnt /\ r.shares = sh
  <2> HIDE DEF sh
  <2> QED BY <1>8, <1>9, <1>10, <1>11 DEF World
<1>13. ASSUME w.totalShares > 0
       PROVE  /\ w.reserveMoli * r.totalShares <= r.reserveMoli * w.totalShares
              /\ w.reserveToken * r.totalShares <= r.reserveToken * w.totalShares
  <2>1. r.totalShares = w.totalShares + minted
    BY <1>1, <1>2, <1>3, <1>5, <1>12, <1>13
  <2>2. /\ minted * w.reserveMoli <= m * w.totalShares
        /\ minted * w.reserveToken <= t * w.totalShares
    BY <1>3, <1>5, <1>13
  <2>3. /\ w.reserveMoli * r.totalShares = w.reserveMoli * w.totalShares + minted * w.reserveMoli
        /\ w.reserveToken * r.totalShares = w.reserveToken * w.totalShares + minted * w.reserveToken
    BY <1>1, <1>2, <2>1
  <2>4. /\ r.reserveMoli * w.totalShares = w.reserveMoli * w.totalShares + m * w.totalShares
        /\ r.reserveToken * w.totalShares = w.reserveToken * w.totalShares + t * w.totalShares
    BY <1>1, <1>12
  <2>5. /\ w.reserveMoli * w.totalShares \in Nat /\ w.reserveToken * w.totalShares \in Nat
        /\ minted * w.reserveMoli \in Nat /\ minted * w.reserveToken \in Nat
        /\ m * w.totalShares \in Nat /\ t * w.totalShares \in Nat
    BY <1>1, <1>2
  <2> QED BY <2>2, <2>3, <2>4, <2>5
<1>14. minted \in Nat /\ r.shares = [w.shares EXCEPT ![who] = @ + minted]
       /\ r.totalShares >= w.totalShares + minted
  BY <1>1, <1>2, <1>12
<1>15. \E n \in Nat : r.shares = [w.shares EXCEPT ![who] = @ + n]
                      /\ r.totalShares >= w.totalShares + n
  BY <1>14
<1> HIDE DEF sh
<1>16. /\ r.sold = w.sold
       /\ r.moli = [w.moli EXCEPT ![who] = @ - m, ![Pool] = @ + m]
       /\ r.token = [w.token EXCEPT ![who] = @ - t, ![Pool] = @ + t]
  BY <1>7, <1>12
<1>17. /\ r \in World /\ r.reserveMoli = w.reserveMoli + m /\ r.reserveToken = w.reserveToken + t
  BY <1>12
<1> QED BY <1>13, <1>15, <1>16, <1>17 DEF r

\* Shares that are given out are counted, and those that are taken back were.
LEMMA SharesGiven ==
  ASSUME NEW f \in [Account -> Nat], NEW who \in Account, NEW n \in Nat
  PROVE  LET g == [f EXCEPT ![who] = @ + n]
         IN  SumFunctionOnSet(g, Account) = SumFunctionOnSet(f, Account) + n
<1> DEFINE g == [f EXCEPT ![who] = @ + n]
<1>1. \A x \in Account : f[x] \in Int /\ g[x] \in Int
  OBVIOUS
<1>2. \A x \in Account : x # who => g[x] = f[x]
  OBVIOUS
<1>3. g[who] = f[who] + n /\ f[who] \in Nat
  OBVIOUS
<1> HIDE DEF g
<1>4. SumFunctionOnSet(g, Account) = SumFunctionOnSet(f, Account) - f[who] + g[who]
  BY <1>1, <1>2, Accounts, SumExcept
<1>5. SumFunctionOnSet(f, Account) \in Int
  BY <1>1, Accounts, SumType
<1> QED BY <1>3, <1>4, <1>5 DEF g

LEMMA SharesTaken ==
  ASSUME NEW f \in [Account -> Nat], NEW who \in Account, NEW n \in Nat, n <= f[who]
  PROVE  LET g == [f EXCEPT ![who] = @ - n]
         IN  /\ g \in [Account -> Nat]
             /\ SumFunctionOnSet(g, Account) = SumFunctionOnSet(f, Account) - n
             /\ SumFunctionOnSet(f, Account) \in Nat
             /\ n <= SumFunctionOnSet(f, Account)
<1> DEFINE g == [f EXCEPT ![who] = @ - n]
<1>0. g \in [Account -> Nat]
  OBVIOUS
<1>1. \A x \in Account : f[x] \in Int /\ g[x] \in Int
  OBVIOUS
<1>2. \A x \in Account : x # who => g[x] = f[x]
  OBVIOUS
<1>3. g[who] = f[who] - n /\ f[who] \in Nat
  OBVIOUS
<1> HIDE DEF g
<1>4. SumFunctionOnSet(g, Account) = SumFunctionOnSet(f, Account) - f[who] + g[who]
  BY <1>1, <1>2, Accounts, SumExcept
<1>5. SumFunctionOnSet(f, Account) \in Nat
  BY Accounts, SumNat
<1>6. SumFunctionOnSet(g, Account) \in Nat
  BY <1>0, Accounts, SumNat
<1> QED BY <1>0, <1>3, <1>4, <1>5, <1>6 DEF g

LEMMA AddsSound ==
  ASSUME NEW w, Sound(w), NEW who \in Trader, NEW m \in Nat, NEW t \in Nat, MayAdd(w, m, t)
  PROVE  /\ Sound(Added(w, who, m, t))
         /\ w.totalShares > 0 => Risen(w, Added(w, who, m, t))
<1> DEFINE r == Added(w, who, m, t)
<1>1. /\ w \in World /\ who \in Account /\ who # Pool /\ who # Curve /\ Curve # Pool
      /\ Pool \in Account /\ Curve \in Account
      /\ w.moli \in [Account -> Int] /\ w.token \in [Account -> Int]
      /\ w.reserveMoli \in Nat /\ w.reserveToken \in Nat /\ w.totalShares \in Nat
      /\ w.shares \in [Account -> Nat] /\ w.sold \in Nat
  BY MarketAssumption DEF Sound, Account, World
<1>2. /\ r \in World /\ r.sold = w.sold
      /\ r.moli = [w.moli EXCEPT ![who] = @ - m, ![Pool] = @ + m]
      /\ r.token = [w.token EXCEPT ![who] = @ - t, ![Pool] = @ + t]
      /\ r.reserveMoli = w.reserveMoli + m /\ r.reserveToken = w.reserveToken + t
      /\ \E n \in Nat : /\ r.shares = [w.shares EXCEPT ![who] = @ + n]
                        /\ r.totalShares >= w.totalShares + n
      /\ w.totalShares > 0 => /\ w.reserveMoli * r.totalShares <= r.reserveMoli * w.totalShares
                              /\ w.reserveToken * r.totalShares <= r.reserveToken * w.totalShares
  BY <1>1, AddedSays
<1> HIDE DEF r
<1>3. PICK n \in Nat : /\ r.shares = [w.shares EXCEPT ![who] = @ + n]
                       /\ r.totalShares >= w.totalShares + n
  BY <1>2
<1>4. SumFunctionOnSet(r.shares, Account) = SumFunctionOnSet(w.shares, Account) + n
  BY <1>1, <1>3, SharesGiven
<1>5. SumFunctionOnSet(w.shares, Account) \in Nat /\ r.totalShares \in Nat
      /\ SumFunctionOnSet(w.shares, Account) <= w.totalShares
  BY <1>1, <1>2, Accounts, SumNat DEF World, Sound
<1>6. /\ r.moli[Pool] = w.moli[Pool] + m /\ r.moli[Curve] = w.moli[Curve]
      /\ r.token[Pool] = w.token[Pool] + t /\ r.token[Curve] = w.token[Curve]
  BY <1>1, <1>2
<1>7. w.token[Pool] \in Int /\ w.moli[Pool] \in Int
  BY <1>1
<1>8. SumFunctionOnSet(r.shares, Account) <= r.totalShares
  BY <1>1, <1>3, <1>4, <1>5
<1>9. Sound(r)
  BY <1>1, <1>2, <1>6, <1>7, <1>8 DEF Sound
<1>10. ASSUME w.totalShares > 0 PROVE Risen(w, r)
  <2>1. r.reserveMoli \in Nat /\ r.reserveToken \in Nat
    BY <1>1, <1>2
  <2> QED BY <1>1, <1>2, <1>5, <1>10, <2>1, ValueRises DEF Risen
<1> QED BY <1>9, <1>10 DEF r

\* A share is worth at most its part of both reserves.
LEMMA RemovedSays ==
  ASSUME NEW w, Sound(w), NEW who \in Account, who # Pool, NEW n \in Nat \ {0},
         n <= w.shares[who]
  PROVE  LET r == Removed(w, who, n)
         IN  /\ r \in World /\ r.sold = w.sold
             /\ MoliOut(w, n) \in Nat /\ TokenOut(w, n) \in Nat
             /\ r.moli = [w.moli EXCEPT ![Pool] = @ - MoliOut(w, n), ![who] = @ + MoliOut(w, n)]
             /\ r.token = [w.token EXCEPT ![Pool] = @ - TokenOut(w, n), ![who] = @ + TokenOut(w, n)]
             /\ r.reserveMoli = w.reserveMoli - MoliOut(w, n)
             /\ r.reserveToken = w.reserveToken - TokenOut(w, n)
             /\ SumFunctionOnSet(r.shares, Account) <= r.totalShares
             /\ Risen(w, r)
<1> DEFINE mo == MoliOut(w, n)
           to == TokenOut(w, n)
           sh == [w.shares EXCEPT ![who] = @ - n]
           p == PayMoli(w, Pool, who, mo)
           q == PayToken(p, Pool, who, to)
           r == Removed(w, who, n)
<1>1. /\ w \in World /\ Pool \in Account
      /\ w.moli \in [Account -> Int] /\ w.token \in [Account -> Int]
      /\ w.reserveMoli \in Nat /\ w.reserveToken \in Nat /\ w.totalShares \in Nat
      /\ w.shares \in [Account -> Nat] /\ w.sold \in Nat
      /\ SumFunctionOnSet(w.shares, Account) <= w.totalShares
  BY MarketAssumption DEF Sound, Account, World
<1>2. /\ sh \in [Account -> Nat]
      /\ SumFunctionOnSet(sh, Account) = SumFunctionOnSet(w.shares, Account) - n
      /\ SumFunctionOnSet(w.shares, Account) \in Nat
      /\ n <= SumFunctionOnSet(w.shares, Account)
  BY <1>1, SharesTaken
<1>3. n <= w.totalShares /\ w.totalShares \in Nat \ {0}
  BY <1>1, <1>2
<1>4. /\ mo \in Nat /\ mo * w.totalShares <= n * w.reserveMoli
      /\ to \in Nat /\ to * w.totalShares <= n * w.reserveToken
  BY <1>1, <1>3, RoundedDown DEF MoliOut, TokenOut
<1>5. r = [q EXCEPT !.reserveMoli = @ - mo, !.reserveToken = @ - to,
                    !.totalShares = @ - n, !.shares[who] = @ - n]
  BY DEF Removed
<1> HIDE DEF r, mo, to
<1>6. mo <= w.reserveMoli /\ to <= w.reserveToken
  <2>1. \A x, y \in Nat : x * w.totalShares <= n * y => x <= y
    <3> SUFFICES ASSUME NEW x \in Nat, NEW y \in Nat, x * w.totalShares <= n * y PROVE x <= y
      OBVIOUS
    <3>1. n * y <= w.totalShares * y
      BY <1>3, ProductRises
    <3>2. w.totalShares * y = y * w.totalShares
      BY <1>3
    <3>3. x * w.totalShares \in Nat /\ n * y \in Nat /\ y * w.totalShares \in Nat
      BY <1>3
    <3>4. x * w.totalShares <= y * w.totalShares
      BY <3>1, <3>2, <3>3
    <3> QED BY <1>3, <3>4, Cancelled
  <2> QED BY <1>1, <1>4, <2>1
<1>7. /\ p \in World /\ p.moli = [w.moli EXCEPT ![Pool] = @ - mo, ![who] = @ + mo]
      /\ p.token = w.token /\ p.sold = w.sold /\ p.reserveMoli = w.reserveMoli
      /\ p.reserveToken = w.reserveToken /\ p.totalShares = w.totalShares /\ p.shares = w.shares
  BY <1>1, <1>4, MoliMoved
<1> HIDE DEF p
<1>8. /\ q \in World /\ q.token = [w.token EXCEPT ![Pool] = @ - to, ![who] = @ + to]
      /\ q.moli = [w.moli EXCEPT ![Pool] = @ - mo, ![who] = @ + mo]
      /\ q.sold = w.sold /\ q.reserveMoli = w.reserveMoli
      /\ q.reserveToken = w.reserveToken /\ q.totalShares = w.totalShares /\ q.shares = w.shares
  BY <1>1, <1>4, <1>7, TokenMoved
<1> HIDE DEF q
<1>9. r = [q EXCEPT !.reserveMoli = w.reserveMoli - mo, !.reserveToken = w.reserveToken - to,
                    !.totalShares = w.totalShares - n, !.shares = sh]
  <2>1. q.reserveMoli = w.reserveMoli /\ q.reserveToken = w.reserveToken
        /\ q.totalShares = w.totalShares /\ q.shares = w.shares /\ q \in World
    BY <1>8
  <2> QED BY <1>5, <2>1 DEF World
<1>10. w.reserveMoli - mo \in Nat /\ w.reserveToken - to \in Nat /\ w.totalShares - n \in Nat
  BY <1>1, <1>3, <1>4, <1>6
<1>11. q \in World
  BY <1>8
<1>12. /\ r \in World /\ r.sold = q.sold /\ r.moli = q.moli /\ r.token = q.token
       /\ r.reserveMoli = w.reserveMoli - mo /\ r.reserveToken = w.reserveToken - to
       /\ r.totalShares = w.totalShares - n /\ r.shares = sh
  <2> HIDE DEF sh
  <2> QED BY <1>2, <1>9, <1>10, <1>11 DEF World
<1> HIDE DEF sh
<1>13. /\ w.reserveMoli * r.totalShares <= r.reserveMoli * w.totalShares
       /\ w.reserveToken * r.totalShares <= r.reserveToken * w.totalShares
  <2>1. /\ w.reserveMoli * r.totalShares = w.reserveMoli * w.totalShares - n * w.reserveMoli
        /\ w.reserveToken * r.totalShares = w.reserveToken * w.totalShares - n * w.reserveToken
    BY <1>1, <1>12
  <2>2. /\ r.reserveMoli * w.totalShares = w.reserveMoli * w.totalShares - mo * w.totalShares
        /\ r.reserveToken * w.totalShares = w.reserveToken * w.totalShares - to * w.totalShares
    BY <1>1, <1>4, <1>12
  <2>3. /\ w.reserveMoli * w.totalShares \in Nat /\ w.reserveToken * w.totalShares \in Nat
        /\ n * w.reserveMoli \in Nat /\ n * w.reserveToken \in Nat
        /\ mo * w.totalShares \in Nat /\ to * w.totalShares \in Nat
    BY <1>1, <1>4
  <2> QED BY <1>4, <2>1, <2>2, <2>3
<1>14. Risen(w, r)
  <2>1. r.reserveMoli \in Nat /\ r.reserveToken \in Nat /\ r.totalShares \in Nat
    BY <1>10, <1>12
  <2> QED BY <1>1, <1>13, <2>1, ValueRises DEF Risen
<1>15. SumFunctionOnSet(r.shares, Account) <= r.totalShares
  BY <1>1, <1>2, <1>12
<1>16. /\ r.sold = w.sold
       /\ r.moli = [w.moli EXCEPT ![Pool] = @ - mo, ![who] = @ + mo]
       /\ r.token = [w.token EXCEPT ![Pool] = @ - to, ![who] = @ + to]
  BY <1>8, <1>12
<1>17. /\ r \in World /\ r.reserveMoli = w.reserveMoli - mo /\ r.reserveToken = w.reserveToken - to
  BY <1>12
<1> QED BY <1>4, <1>14, <1>15, <1>16, <1>17 DEF r, mo, to

LEMMA RemovesSound ==
  ASSUME NEW w, Sound(w), NEW who \in Trader, NEW n \in Nat \ {0}, n <= w.shares[who]
  PROVE  Sound(Removed(w, who, n)) /\ Risen(w, Removed(w, who, n))
<1> DEFINE r == Removed(w, who, n)
           mo == MoliOut(w, n)
           to == TokenOut(w, n)
<1>1. /\ w \in World /\ who \in Account /\ who # Pool /\ who # Curve /\ Curve # Pool
      /\ Pool \in Account /\ Curve \in Account
      /\ w.moli \in [Account -> Int] /\ w.token \in [Account -> Int] /\ w.sold \in Nat
      /\ w.reserveMoli \in Nat /\ w.reserveToken \in Nat
  BY MarketAssumption DEF Sound, Account, World
<1>2. /\ r \in World /\ r.sold = w.sold /\ mo \in Nat /\ to \in Nat
      /\ r.moli = [w.moli EXCEPT ![Pool] = @ - mo, ![who] = @ + mo]
      /\ r.token = [w.token EXCEPT ![Pool] = @ - to, ![who] = @ + to]
      /\ r.reserveMoli = w.reserveMoli - mo /\ r.reserveToken = w.reserveToken - to
      /\ SumFunctionOnSet(r.shares, Account) <= r.totalShares /\ Risen(w, r)
  BY <1>1, RemovedSays
<1> HIDE DEF r, mo, to
<1>3. /\ r.moli[Pool] = w.moli[Pool] - mo /\ r.moli[Curve] = w.moli[Curve]
      /\ r.token[Pool] = w.token[Pool] - to /\ r.token[Curve] = w.token[Curve]
      /\ w.moli[Pool] \in Int /\ w.token[Pool] \in Int
  BY <1>1, <1>2
<1>4. Sound(r)
  BY <1>1, <1>2, <1>3 DEF Sound
<1> QED BY <1>2, <1>4 DEF r

\* What the curve gets for its shares it forwards, and no more.
LEMMA WithdrawsSound ==
  ASSUME NEW w, Sound(w), NEW n \in Nat \ {0}, n <= w.shares[Curve]
  PROVE  LET r == PayMoli(PayToken(Removed(w, Curve, n), Curve, Beneficiary, Withdrawn(w, n)),
                          Curve, Beneficiary, MoliOut(w, n))
         IN  Sound(r) /\ Risen(w, r)
<1> DEFINE a == Removed(w, Curve, n)
           mo == MoliOut(w, n)
           to == TokenOut(w, n)
           b == PayToken(a, Curve, Beneficiary, to)
           r == PayMoli(b, Curve, Beneficiary, mo)
<1>1. /\ w \in World /\ Beneficiary \in Account /\ Beneficiary # Pool /\ Beneficiary # Curve
      /\ Pool \in Account /\ Curve \in Account /\ Curve # Pool
      /\ w.moli \in [Account -> Int] /\ w.token \in [Account -> Int] /\ w.sold \in Nat
      /\ w.reserveMoli \in Nat /\ w.reserveToken \in Nat
  BY MarketAssumption DEF Sound, Account, World
<1>2. /\ a \in World /\ a.sold = w.sold /\ mo \in Nat /\ to \in Nat
      /\ a.moli = [w.moli EXCEPT ![Pool] = @ - mo, ![Curve] = @ + mo]
      /\ a.token = [w.token EXCEPT ![Pool] = @ - to, ![Curve] = @ + to]
      /\ a.reserveMoli = w.reserveMoli - mo /\ a.reserveToken = w.reserveToken - to
      /\ SumFunctionOnSet(a.shares, Account) <= a.totalShares /\ Risen(w, a)
  BY <1>1, RemovedSays
<1>3. r = PayMoli(PayToken(a, Curve, Beneficiary, Withdrawn(w, n)), Curve, Beneficiary, mo)
  BY DEF Withdrawn
<1> HIDE DEF a, mo, to
<1>a. a \in World /\ mo \in Int /\ to \in Int
      /\ Curve \in Account /\ Beneficiary \in Account /\ Curve # Beneficiary
  BY <1>1, <1>2
<1>4. /\ b \in World /\ b.token = [a.token EXCEPT ![Curve] = @ - to, ![Beneficiary] = @ + to]
      /\ b.moli = a.moli /\ b.sold = a.sold /\ b.reserveMoli = a.reserveMoli
      /\ b.reserveToken = a.reserveToken /\ b.totalShares = a.totalShares /\ b.shares = a.shares
  BY <1>a, TokenMoved
<1> HIDE DEF b
<1>b. b \in World
  BY <1>4
<1>5. /\ r \in World /\ r.moli = [b.moli EXCEPT ![Curve] = @ - mo, ![Beneficiary] = @ + mo]
      /\ r.token = b.token /\ r.sold = b.sold /\ r.reserveMoli = b.reserveMoli
      /\ r.reserveToken = b.reserveToken /\ r.totalShares = b.totalShares /\ r.shares = b.shares
  BY <1>a, <1>b, MoliMoved
<1> HIDE DEF r
<1>6. a.moli \in [Account -> Int] /\ a.token \in [Account -> Int]
  BY <1>2 DEF World
<1>7. /\ a.moli[Pool] = w.moli[Pool] - mo /\ a.moli[Curve] = w.moli[Curve] + mo
      /\ a.token[Pool] = w.token[Pool] - to /\ a.token[Curve] = w.token[Curve] + to
      /\ w.moli[Pool] \in Int /\ w.token[Pool] \in Int
      /\ w.moli[Curve] \in Int /\ w.token[Curve] \in Int
  BY <1>1, <1>2
<1>8. /\ r.moli[Pool] = w.moli[Pool] - mo /\ r.moli[Curve] = w.moli[Curve]
      /\ r.token[Pool] = w.token[Pool] - to /\ r.token[Curve] = w.token[Curve]
  BY <1>1, <1>2, <1>4, <1>5, <1>6, <1>7
<1>9. Sound(r)
  BY <1>1, <1>2, <1>4, <1>5, <1>7, <1>8 DEF Sound
<1>10. Risen(w, r)
  BY <1>2, <1>4, <1>5 DEF Risen
<1> QED BY <1>3, <1>9, <1>10 DEF a, mo

\* A deposit stays within its budget.
LEMMA DepositWithin ==
  ASSUME NEW w \in World, w.totalShares > 0, w.reserveMoli > 0, w.reserveToken > 0,
         NEW budget \in Nat
  PROVE  /\ DepositFor(w, budget).s \in Nat /\ DepositFor(w, budget).m \in Nat
         /\ DepositFor(w, budget).t \in Nat /\ DepositFor(w, budget).m <= budget
<1> DEFINE ts == w.totalShares
           rm == w.reserveMoli
           rt == w.reserveToken
           most == MulDiv(budget, rt, rm)
           s == IF rm <= rt THEN MulDiv(budget, ts, rm) ELSE MulDiv(most, ts, rt)
<1>1. ts \in Nat \ {0} /\ rm \in Nat \ {0} /\ rt \in Nat \ {0}
  BY DEF World
<1>2. DepositFor(w, budget) = IF s = 0 THEN [s |-> 0, m |-> 0, t |-> 0]
                              ELSE [s |-> s, m |-> MulDivUp(s, rm, ts), t |-> MulDivUp(s, rt, ts)]
  BY DEF DepositFor
<1> HIDE DEF ts, rm, rt
<1>3. most \in Nat /\ most * rm <= budget * rt
  BY <1>1, RoundedDown
<1> HIDE DEF most
<1>4. s \in Nat /\ s * rm <= budget * ts
  <2>1. CASE rm <= rt
    BY <1>1, <2>1, RoundedDown
  <2>2. CASE ~(rm <= rt)
    <3>1. s \in Nat /\ s * rt <= most * ts
      BY <1>1, <1>3, <2>2, RoundedDown
    <3> HIDE DEF s
    <3>2. s * rt \in Nat /\ most * ts \in Nat /\ most * rm \in Nat /\ budget * rt \in Nat
      BY <1>1, <1>3, <3>1
    <3>3. (s * rt) * rm <= (most * ts) * rm
      BY <1>1, <3>1, <3>2, ProductRises
    <3>4. (most * rm) * ts <= (budget * rt) * ts
      BY <1>1, <1>3, <3>2, ProductRises
    <3>5. /\ (s * rt) * rm = (s * rm) * rt /\ (most * ts) * rm = (most * rm) * ts
          /\ (budget * rt) * ts = (budget * ts) * rt
      BY <1>1, <1>3, <3>1
    <3>6. (s * rm) * rt \in Nat /\ (most * rm) * ts \in Nat /\ (budget * ts) * rt \in Nat
      BY <1>1, <1>3, <3>1
    <3>7. (s * rm) * rt <= (budget * ts) * rt
      BY <3>3, <3>4, <3>5, <3>6
    <3>8. s * rm \in Nat /\ budget * ts \in Nat
      BY <1>1, <3>1
    <3> QED BY <1>1, <3>1, <3>7, <3>8, Cancelled
  <2> QED BY <2>1, <2>2
<1> HIDE DEF s
<1>5. /\ MulDivUp(s, rm, ts) \in Nat /\ MulDivUp(s, rm, ts) <= budget
      /\ MulDivUp(s, rt, ts) \in Nat
  BY <1>1, <1>4, RoundedUp
<1> QED BY <1>2, <1>4, <1>5

LEMMA CostType ==
  ASSUME NEW x \in Nat, NEW t \in Nat
  PROVE  Cost(x, t) \in Nat
<1>1. SupplyForSale \in Nat \ {0} /\ One \in Nat \ {0} /\ StartPrice \in Nat
  BY MarketAssumption
<1>2. SupplyForSale + 4 * x + 2 * t \in Nat /\ SupplyForSale * One \in Nat \ {0}
  BY <1>1
<1>3. t * (SupplyForSale + 4 * x + 2 * t) \in Nat
  BY <1>2
<1> QED BY <1>1, <1>2, <1>3, RoundedUp DEF Cost

LEMMA DeepeningWithin ==
  ASSUME NEW w, Sound(w), w.totalShares > 0, w.reserveMoli > 0, w.reserveToken > 0,
         NEW v \in Nat, NEW out \in Nat, out <= SupplyForSale - w.sold
  PROVE  LET d == Deepening(w, out, v)
         IN  /\ d.s \in Nat /\ d.m \in Nat /\ d.t \in Nat
             /\ d.t <= SupplyForSale - w.sold - out
             /\ d.m <= w.moli[Curve] + Cost(w.sold, out)
<1> DEFINE paid == Cost(w.sold, out)
           left == SupplyForSale - w.sold - out
           bal == w.moli[Curve] + paid
           all == DepositFor(w, bal)
           some == DepositFor(w, paid)
           d == IF all.t > left \/ bal - paid > DustLimit THEN some ELSE all
<1>1. /\ w \in World /\ w.moli[Curve] \in Nat /\ paid \in Nat /\ left \in Nat
  <2>1. w \in World /\ w.sold \in Nat /\ w.moli[Curve] \in Int /\ w.moli[Curve] >= 0
    BY DEF Sound, World, Account
  <2>2. paid \in Nat
    BY <2>1, CostType
  <2>3. left \in Nat
    BY <2>1, MarketAssumption
  <2> QED BY <2>1, <2>2, <2>3
<1>2. Deepening(w, out, v) = IF d.t > left THEN [s |-> 0, m |-> 0, t |-> 0] ELSE d
  BY DEF Deepening
<1> HIDE DEF paid, left
<1>3. bal \in Nat /\ paid <= bal
  BY <1>1
<1> HIDE DEF bal
<1>4. /\ all.s \in Nat /\ all.m \in Nat /\ all.t \in Nat /\ all.m <= bal
      /\ some.s \in Nat /\ some.m \in Nat /\ some.t \in Nat /\ some.m <= paid
  BY <1>1, <1>3, DepositWithin
<1> HIDE DEF all, some
<1>5. d.s \in Nat /\ d.m \in Nat /\ d.t \in Nat /\ d.m <= bal
  BY <1>1, <1>3, <1>4
<1> HIDE DEF d
<1> QED BY <1>1, <1>2, <1>3, <1>5 DEF left, bal, paid

\* The sale, up to its deposit, and with it.
LEMMA BoughtSays ==
  ASSUME NEW w, Sound(w), NEW who \in Trader, NEW v \in Nat, NEW out \in Nat, NEW d,
         d.s \in Nat, d.m \in Nat, d.t \in Nat, d.t <= SupplyForSale - w.sold - out,
         w.totalShares > 0, d.s > 0 => MayAdd(w, d.m, d.t)
  PROVE  LET paid == [PayMoli(w, who, Curve, v) EXCEPT !.sold = @ + out + d.t]
             r == IF d.s = 0 THEN paid ELSE Added(paid, Curve, d.m, d.t)
         IN  /\ r \in World /\ r.sold = w.sold + out + d.t
             /\ \E m, t \in Nat :
                  /\ m <= d.m /\ t <= d.t
                  /\ r.moli = [[w.moli EXCEPT ![who] = @ - v, ![Curve] = @ + v]
                                 EXCEPT ![Curve] = @ - m, ![Pool] = @ + m]
                  /\ r.token = [w.token EXCEPT ![Curve] = @ - t, ![Pool] = @ + t]
                  /\ r.reserveMoli = w.reserveMoli + m /\ r.reserveToken = w.reserveToken + t
             /\ SumFunctionOnSet(r.shares, Account) <= r.totalShares
             /\ Risen(w, r)
<1> DEFINE p == PayMoli(w, who, Curve, v)
           paid == [p EXCEPT !.sold = @ + out + d.t]
           a == Added(paid, Curve, d.m, d.t)
           r == IF d.s = 0 THEN paid ELSE a
<1>1. /\ w \in World /\ who \in Account /\ who # Pool /\ who # Curve /\ Curve # Pool
      /\ Pool \in Account /\ Curve \in Account
      /\ w.moli \in [Account -> Int] /\ w.token \in [Account -> Int] /\ w.sold \in Nat
      /\ w.reserveMoli \in Nat /\ w.reserveToken \in Nat /\ w.totalShares \in Nat
      /\ w.shares \in [Account -> Nat]
      /\ SumFunctionOnSet(w.shares, Account) <= w.totalShares
  BY MarketAssumption DEF Sound, Account, World
<1>2. v \in Int
  OBVIOUS
<1>3. /\ p \in World /\ p.moli = [w.moli EXCEPT ![who] = @ - v, ![Curve] = @ + v]
      /\ p.token = w.token /\ p.sold = w.sold /\ p.reserveMoli = w.reserveMoli
      /\ p.reserveToken = w.reserveToken /\ p.totalShares = w.totalShares /\ p.shares = w.shares
  BY <1>1, <1>2, MoliMoved
<1> HIDE DEF p
<1>4. p \in World /\ p.sold + out + d.t \in Nat
  BY <1>1, <1>3
<1>5. /\ paid \in World /\ paid.sold = p.sold + out + d.t /\ paid.moli = p.moli
      /\ paid.token = p.token /\ paid.reserveMoli = p.reserveMoli
      /\ paid.reserveToken = p.reserveToken /\ paid.totalShares = p.totalShares
      /\ paid.shares = p.shares
  BY <1>4 DEF World
<1> HIDE DEF paid
<1>6. /\ paid \in World /\ paid.sold = w.sold + out + d.t /\ paid.token = w.token
      /\ paid.moli = [w.moli EXCEPT ![who] = @ - v, ![Curve] = @ + v]
      /\ paid.reserveMoli = w.reserveMoli /\ paid.reserveToken = w.reserveToken
      /\ paid.totalShares = w.totalShares /\ paid.shares = w.shares
  BY <1>3, <1>5
<1>7. CASE d.s = 0
  <2>1. r = paid
    BY <1>7
  <2>2. /\ r.moli = [[w.moli EXCEPT ![who] = @ - v, ![Curve] = @ + v]
                       EXCEPT ![Curve] = @ - 0, ![Pool] = @ + 0]
        /\ r.token = [w.token EXCEPT ![Curve] = @ - 0, ![Pool] = @ + 0]
    BY <1>1, <1>6, <2>1
  <2>3. Risen(w, r)
    <3>1. w.reserveMoli * w.reserveToken * w.totalShares * w.totalShares \in Nat
      BY <1>1
    <3> QED BY <1>6, <2>1, <3>1 DEF Risen
  <2>4. r \in World /\ r.sold = w.sold + out + d.t
        /\ SumFunctionOnSet(r.shares, Account) <= r.totalShares
    BY <1>1, <1>6, <2>1
  <2>5. r.reserveMoli = w.reserveMoli + 0 /\ r.reserveToken = w.reserveToken + 0
    BY <1>1, <1>6, <2>1
  <2> HIDE DEF r
  <2>6. 0 \in Nat /\ 0 <= d.m /\ 0 <= d.t
    OBVIOUS
  <2> QED BY <2>2, <2>3, <2>4, <2>5, <2>6 DEF r, paid, a, p
<1>8. CASE d.s # 0
  <2>1. MayAdd(paid, d.m, d.t)
    BY <1>6, <1>8 DEF MayAdd, Balanced, Minted
  <2>2. Curve \in Account /\ Curve # Pool /\ paid \in World
    BY <1>1, <1>6
  <2>3. /\ a \in World /\ a.sold = paid.sold
        /\ a.moli = [paid.moli EXCEPT ![Curve] = @ - d.m, ![Pool] = @ + d.m]
        /\ a.token = [paid.token EXCEPT ![Curve] = @ - d.t, ![Pool] = @ + d.t]
        /\ a.reserveMoli = paid.reserveMoli + d.m /\ a.reserveToken = paid.reserveToken + d.t
        /\ \E n \in Nat : /\ a.shares = [paid.shares EXCEPT ![Curve] = @ + n]
                          /\ a.totalShares >= paid.totalShares + n
        /\ paid.totalShares > 0 =>
             /\ paid.reserveMoli * a.totalShares <= a.reserveMoli * paid.totalShares
             /\ paid.reserveToken * a.totalShares <= a.reserveToken * paid.totalShares
    BY <2>1, <2>2, AddedSays
  <2> HIDE DEF a
  <2>4. PICK n \in Nat : /\ a.shares = [w.shares EXCEPT ![Curve] = @ + n]
                         /\ a.totalShares >= w.totalShares + n
    BY <1>6, <2>3
  <2>5. SumFunctionOnSet(a.shares, Account) = SumFunctionOnSet(w.shares, Account) + n
    BY <1>1, <2>4, SharesGiven
  <2>6. SumFunctionOnSet(w.shares, Account) \in Nat /\ a.totalShares \in Nat
    BY <1>1, <2>3, Accounts, SumNat DEF World
  <2>7. SumFunctionOnSet(a.shares, Account) <= a.totalShares
    BY <1>1, <2>4, <2>5, <2>6
  <2>8. Risen(w, a)
    <3>1. a.reserveMoli \in Nat /\ a.reserveToken \in Nat
      BY <1>1, <1>6, <2>3
    <3>2. /\ w.reserveMoli * a.totalShares <= a.reserveMoli * w.totalShares
          /\ w.reserveToken * a.totalShares <= a.reserveToken * w.totalShares
      BY <1>6, <2>3
    <3> QED BY <1>1, <2>6, <3>1, <3>2, ValueRises DEF Risen
  <2>9. /\ a.moli = [[w.moli EXCEPT ![who] = @ - v, ![Curve] = @ + v]
                       EXCEPT ![Curve] = @ - d.m, ![Pool] = @ + d.m]
        /\ a.token = [w.token EXCEPT ![Curve] = @ - d.t, ![Pool] = @ + d.t]
        /\ a.reserveMoli = w.reserveMoli + d.m /\ a.reserveToken = w.reserveToken + d.t
    BY <1>6, <2>3
  <2>10. a \in World /\ a.sold = w.sold + out + d.t
    BY <1>6, <2>3
  <2>11. d.m <= d.m /\ d.t <= d.t
    OBVIOUS
  <2>12. r = a
    BY <1>8
  <2> HIDE DEF r
  <2> QED BY <2>7, <2>8, <2>9, <2>10, <2>11, <2>12 DEF r, a, paid, p
<1> QED BY <1>7, <1>8

\* A whole purchase, with its refund paid or nothing to refund.
LEMMA BuysSound ==
  ASSUME NEW w, Sound(w), NEW who \in Trader, NEW v \in Nat, MayBuy(w, v),
         OutFor(w, v) <= SupplyForSale - w.sold, OutFor(w, v) \in Nat,
         LET d == Deepening(w, OutFor(w, v), v) IN d.s > 0 => MayAdd(w, d.m, d.t)
  PROVE  LET b == Bought(w, who, v)
             c == PayMoli(b, Curve, who, Refund(w, v))
         IN  Sound(IF Refund(w, v) = 0 THEN b ELSE c) /\ Risen(w, b) /\ Risen(w, c)
<1> DEFINE out == OutFor(w, v)
           d == Deepening(w, out, v)
           cost == Cost(w.sold, out)
           refund == Refund(w, v)
           paid == [PayMoli(w, who, Curve, v) EXCEPT !.sold = @ + out + d.t]
           r == IF d.s = 0 THEN paid ELSE Added(paid, Curve, d.m, d.t)
           b == Bought(w, who, v)
           c == PayMoli(b, Curve, who, refund)
<1>1. /\ w \in World /\ who \in Account /\ who # Pool /\ who # Curve /\ Curve # Pool
      /\ Pool \in Account /\ Curve \in Account
      /\ w.moli \in [Account -> Int] /\ w.token \in [Account -> Int] /\ w.sold \in Nat
      /\ w.reserveMoli \in Nat /\ w.reserveToken \in Nat
  BY MarketAssumption DEF Sound, Account, World
<1>2. w.totalShares > 0 /\ w.reserveMoli > 0 /\ w.reserveToken > 0
  BY DEF MayBuy
<1>3. /\ d.s \in Nat /\ d.m \in Nat /\ d.t \in Nat
      /\ d.t <= SupplyForSale - w.sold - out /\ d.m <= w.moli[Curve] + cost
  BY <1>2, DeepeningWithin
<1>4. cost \in Nat /\ refund = v - cost
  BY <1>1, CostType DEF Refund
<1>5. b = PayToken(r, Curve, who, out)
  BY DEF Bought
<1>6. d.s > 0 => MayAdd(w, d.m, d.t)
  OBVIOUS
<1>7. out \in Nat /\ out <= SupplyForSale - w.sold
  OBVIOUS
<1> HIDE DEF d, cost, refund, out
<1>8. /\ r \in World /\ r.sold = w.sold + out + d.t
      /\ \E m, t \in Nat :
           /\ m <= d.m /\ t <= d.t
           /\ r.moli = [[w.moli EXCEPT ![who] = @ - v, ![Curve] = @ + v]
                          EXCEPT ![Curve] = @ - m, ![Pool] = @ + m]
           /\ r.token = [w.token EXCEPT ![Curve] = @ - t, ![Pool] = @ + t]
           /\ r.reserveMoli = w.reserveMoli + m /\ r.reserveToken = w.reserveToken + t
      /\ SumFunctionOnSet(r.shares, Account) <= r.totalShares
      /\ Risen(w, r)
  BY <1>2, <1>3, <1>6, <1>7, BoughtSays
<1> HIDE DEF r, b
<1>9. PICK m \in Nat, t \in Nat :
           /\ m <= d.m /\ t <= d.t
           /\ r.moli = [[w.moli EXCEPT ![who] = @ - v, ![Curve] = @ + v]
                          EXCEPT ![Curve] = @ - m, ![Pool] = @ + m]
           /\ r.token = [w.token EXCEPT ![Curve] = @ - t, ![Pool] = @ + t]
           /\ r.reserveMoli = w.reserveMoli + m /\ r.reserveToken = w.reserveToken + t
  BY <1>8
<1>10. /\ r.moli[Curve] = w.moli[Curve] + v - m /\ r.moli[Pool] = w.moli[Pool] + m
       /\ r.token[Curve] = w.token[Curve] - t /\ r.token[Pool] = w.token[Pool] + t
       /\ w.moli[Curve] \in Int /\ w.moli[Pool] \in Int
       /\ w.token[Curve] \in Int /\ w.token[Pool] \in Int
       /\ r.moli \in [Account -> Int] /\ r.token \in [Account -> Int]
  BY <1>1, <1>9
<1>11. r \in World /\ out \in Int /\ refund \in Int
       /\ Curve \in Account /\ who \in Account /\ Curve # who
  BY <1>1, <1>4, <1>7, <1>8
<1>12. /\ b \in World /\ b.token = [r.token EXCEPT ![Curve] = @ - out, ![who] = @ + out]
       /\ b.moli = r.moli /\ b.sold = r.sold /\ b.reserveMoli = r.reserveMoli
       /\ b.reserveToken = r.reserveToken /\ b.totalShares = r.totalShares /\ b.shares = r.shares
  BY <1>5, <1>11, TokenMoved
<1>13. b \in World
  BY <1>12
<1>14. /\ c \in World /\ c.moli = [b.moli EXCEPT ![Curve] = @ - refund, ![who] = @ + refund]
       /\ c.token = b.token /\ c.sold = b.sold /\ c.reserveMoli = b.reserveMoli
       /\ c.reserveToken = b.reserveToken /\ c.totalShares = b.totalShares /\ c.shares = b.shares
  BY <1>11, <1>13, MoliMoved
<1> HIDE DEF c
<1>15. /\ b.token[Curve] = w.token[Curve] - t - out /\ b.token[Pool] = w.token[Pool] + t
       /\ b.moli[Curve] = w.moli[Curve] + v - m /\ b.moli[Pool] = w.moli[Pool] + m
  BY <1>1, <1>7, <1>10, <1>12
<1>16. /\ c.moli[Curve] = w.moli[Curve] + cost - m /\ c.moli[Pool] = w.moli[Pool] + m
  BY <1>1, <1>4, <1>10, <1>12, <1>14, <1>15
<1>17. Risen(w, b) /\ Risen(w, c)
  BY <1>8, <1>12, <1>14 DEF Risen
<1> DEFINE e == IF refund = 0 THEN b ELSE c
<1>18. /\ e \in World /\ e.sold = w.sold + out + d.t
       /\ e.token[Curve] = w.token[Curve] - t - out /\ e.token[Pool] = w.token[Pool] + t
       /\ e.moli[Curve] = w.moli[Curve] + cost - m /\ e.moli[Pool] = w.moli[Pool] + m
       /\ e.reserveMoli = w.reserveMoli + m /\ e.reserveToken = w.reserveToken + t
       /\ SumFunctionOnSet(e.shares, Account) <= e.totalShares
  <2>1. CASE refund = 0
    <3>1. v = cost
      BY <1>4, <2>1
    <3> QED BY <1>8, <1>9, <1>12, <1>15, <2>1, <3>1
  <2>2. CASE refund # 0
    BY <1>8, <1>9, <1>12, <1>14, <1>15, <1>16, <2>2
  <2> QED BY <2>1, <2>2
<1> HIDE DEF e
<1>19. Sound(e)
  <2>1. /\ w.sold <= SupplyForSale /\ SupplyForSale - w.sold <= w.token[Curve]
        /\ w.reserveToken <= w.token[Pool] /\ w.reserveMoli = w.moli[Pool]
        /\ w.moli[Curve] >= 0 /\ SupplyForSale \in Nat
    BY MarketAssumption DEF Sound
  <2>2. e.sold <= SupplyForSale
    BY <1>1, <1>3, <1>7, <1>18, <2>1
  <2>3. SupplyForSale - e.sold <= e.token[Curve]
    BY <1>1, <1>3, <1>7, <1>9, <1>10, <1>18, <2>1
  <2>4. e.reserveToken <= e.token[Pool] /\ e.reserveMoli = e.moli[Pool]
    BY <1>1, <1>10, <1>18, <2>1
  <2>5. e.moli[Curve] >= 0
    BY <1>3, <1>4, <1>9, <1>10, <1>18
  <2> QED BY <1>18, <2>2, <2>3, <2>4, <2>5 DEF Sound
<1> QED BY <1>17, <1>19 DEF e, b, c, refund

LEMMA SendsSound ==
  ASSUME NEW w, Sound(w), NEW who \in Trader, NEW contract \in {Curve, Pool}
  PROVE  Sound(PayToken(w, who, contract, 1)) /\ Risen(w, PayToken(w, who, contract, 1))
<1> DEFINE r == PayToken(w, who, contract, 1)
<1>1. /\ w \in World /\ who \in Account /\ who # contract /\ contract \in Account
      /\ who # Pool /\ who # Curve /\ Pool \in Account /\ Curve \in Account /\ 1 \in Int
  BY MarketAssumption DEF Sound, Account
<1>2. /\ w.token \in [Account -> Int] /\ w.sold \in Nat /\ w.reserveToken \in Nat
      /\ w.reserveMoli \in Nat /\ w.totalShares \in Nat
  BY <1>1 DEF World
<1>a. \A n \in Int : LET q == PayToken(w, who, contract, n) IN
        /\ q \in World /\ q.token = [w.token EXCEPT ![who] = @ - n, ![contract] = @ + n]
        /\ q.moli = w.moli /\ q.sold = w.sold /\ q.reserveMoli = w.reserveMoli
        /\ q.reserveToken = w.reserveToken /\ q.totalShares = w.totalShares
        /\ q.shares = w.shares
  BY <1>1, TokenMoved
<1>3. /\ r \in World /\ r.token = [w.token EXCEPT ![who] = @ - 1, ![contract] = @ + 1]
      /\ r.moli = w.moli /\ r.sold = w.sold /\ r.reserveMoli = w.reserveMoli
      /\ r.reserveToken = w.reserveToken /\ r.totalShares = w.totalShares /\ r.shares = w.shares
  BY <1>1, <1>a
<1> HIDE DEF r
<1>4. /\ r.token[Curve] >= w.token[Curve] /\ r.token[Pool] >= w.token[Pool]
      /\ r.token[Curve] \in Int /\ r.token[Pool] \in Int
      /\ w.token[Curve] \in Int /\ w.token[Pool] \in Int
  BY <1>1, <1>2, <1>3
<1>5. Sound(r)
  BY MarketAssumption, <1>2, <1>3, <1>4 DEF Sound
<1>6. Risen(w, r)
  <2>1. w.reserveMoli * w.reserveToken * w.totalShares * w.totalShares \in Nat
    BY <1>2
  <2> QED BY <1>3, <2>1 DEF Risen
<1> QED BY <1>5, <1>6 DEF r

\* A call that is made leaves the market sound, its shares worth no less, and
\* waits at most for whom it paid, with what it would put back.
Called(w) ==
  /\ Sound(w) /\ (market.totalShares > 0 => Risen(market, w))
  /\ market' = w
  /\ \/ open' = open
     \/ \E contract \in {Curve, Pool} :
          open' = Append(open, [lock |-> contract, saved |-> market])

LEMMA CallsSound ==
  ASSUME MarketInv, NEW who \in Trader, NEW n \in Offered,
         \/ \E m \in Offered : AddLiquidity(who, m, n)
         \/ RemoveLiquidity(who, n) \/ SwapMoliForToken(who, n) \/ SwapTokenForMoli(who, n)
         \/ Buy(who, n) \/ WithdrawLiquidity(n)
         \/ \E contract \in {Curve, Pool} : SendToken(who, contract)
  PROVE  \E w : Called(w)
<1>0. Sound(market) /\ n \in Nat \ {0} /\ Offered \subseteq Nat \ {0}
  BY MarketAssumption DEF MarketInv
<1>1. ASSUME NEW m \in Offered, AddLiquidity(who, m, n) PROVE Called(Added(market, who, m, n))
  BY <1>0, <1>1, AddsSound DEF AddLiquidity, Done, Called
<1>2. CASE RemoveLiquidity(who, n)
  <2>1. Called(Removed(market, who, n))
    BY <1>0, <1>2, RemovesSound DEF RemoveLiquidity, Paying, Called
  <2> QED BY <2>1
<1>3. CASE SwapMoliForToken(who, n)
  <2> DEFINE out == SwapQuote(n, market.reserveMoli, market.reserveToken)
             w == [PayToken(PayMoli(market, who, Pool, n), Pool, who, out) EXCEPT
                     !.reserveMoli = @ + n, !.reserveToken = @ - out]
  <2>1. out > 0 /\ Done(w)
    BY <1>3 DEF SwapMoliForToken
  <2>2. Sound(w) /\ Risen(market, w)
    BY <1>0, <2>1, SwapsMoli
  <2> HIDE DEF w
  <2> QED BY <2>1, <2>2 DEF Done, Called
<1>4. CASE SwapTokenForMoli(who, n)
  <2> DEFINE out == SwapQuote(n, market.reserveToken, market.reserveMoli)
             w == [PayMoli(PayToken(market, who, Pool, n), Pool, who, out) EXCEPT
                     !.reserveToken = @ + n, !.reserveMoli = @ - out]
  <2>1. out > 0 /\ Paying(w, Pool)
    BY <1>4 DEF SwapTokenForMoli
  <2>2. Sound(w) /\ Risen(market, w)
    BY <1>0, <2>1, SwapsToken
  <2> HIDE DEF w
  <2> QED BY <2>1, <2>2 DEF Paying, Called
<1>5. CASE Buy(who, n)
  <2> DEFINE b == Bought(market, who, n)
             c == PayMoli(b, Curve, who, Refund(market, n))
             w == IF Refund(market, n) = 0 THEN b ELSE c
  <2>1. /\ MayBuy(market, n) /\ OutFor(market, n) \in 1 .. SupplyForSale - market.sold
        /\ LET d == Deepening(market, OutFor(market, n), n) IN d.s > 0 => MayAdd(market, d.m, d.t)
        /\ IF Refund(market, n) = 0 THEN Done(b) ELSE Paying(c, Curve)
    BY <1>5 DEF Buy
  <2>a. SupplyForSale - market.sold \in Int
    BY MarketAssumption, <1>0 DEF Sound, World
  <2>b. OutFor(market, n) \in Nat /\ OutFor(market, n) <= SupplyForSale - market.sold
    BY <2>1, <2>a
  <2>2. Sound(w) /\ Risen(market, b) /\ Risen(market, c)
    BY <1>0, <2>1, <2>b, BuysSound
  <2> HIDE DEF b, c
  <2>3. Called(w)
    BY <2>1, <2>2 DEF Done, Paying, Called
  <2> QED BY <2>3
<1>6. CASE WithdrawLiquidity(n)
  <2> DEFINE w == PayMoli(PayToken(Removed(market, Curve, n), Curve, Beneficiary,
                                   Withdrawn(market, n)), Curve, Beneficiary, MoliOut(market, n))
  <2>1. n <= market.shares[Curve] /\ Paying(w, Curve)
    BY <1>6 DEF WithdrawLiquidity
  <2>2. Sound(w) /\ Risen(market, w)
    BY <1>0, <2>1, WithdrawsSound
  <2> HIDE DEF w
  <2> QED BY <2>1, <2>2 DEF Paying, Called
<1>7. ASSUME NEW contract \in {Curve, Pool}, SendToken(who, contract)
      PROVE  Called(PayToken(market, who, contract, 1))
  BY <1>0, <1>7, SendsSound DEF SendToken, Done, Called
<1> QED BY <1>1, <1>2, <1>3, <1>4, <1>5, <1>6, <1>7

LEMMA MarketInitInv == MarketInit => MarketInv
<1> SUFFICES ASSUME MarketInit PROVE MarketInv
  OBVIOUS
<1> DEFINE none == [a \in Account |-> 0]
           purses == [a \in Account |-> IF a \in Trader THEN Purse ELSE 0]
           bags == [a \in Account |-> IF a \in Trader THEN Bag
                                      ELSE IF a = Curve THEN SupplyForSale ELSE 0]
<1>1. market = [reserveMoli |-> 0, reserveToken |-> 0, totalShares |-> 0, shares |-> none,
                sold |-> 0, moli |-> purses, token |-> bags]
  BY DEF MarketInit
<1>2. none \in [Account -> Nat] /\ purses \in [Account -> Int] /\ bags \in [Account -> Int]
  BY MarketAssumption
<1>3. /\ purses[Pool] = 0 /\ purses[Curve] = 0 /\ bags[Pool] = 0 /\ bags[Curve] = SupplyForSale
      /\ \A a \in Account : none[a] = 0
  BY MarketAssumption DEF Account
<1> HIDE DEF none, purses, bags
<1>4. SumFunctionOnSet(none, Account) = 0
  BY <1>3, Accounts, SumZero
<1>5. Sound(market)
  BY <1>1, <1>2, <1>3, <1>4, MarketAssumption DEF Sound, World
<1> QED BY <1>5 DEF MarketInit, MarketInv

LEMMA MarketNextInv ==
  ASSUME MarketInv, [MarketNext]_marketVars
  PROVE  MarketInv' /\ ((Len(open') >= Len(open) /\ market.totalShares > 0)
                          => Risen(market, market'))
<1>0. /\ Sound(market) /\ open \in Seq(Frame)
      /\ \A i \in DOMAIN open : Sound(open[i].saved)
  BY DEF MarketInv
<1>1. Risen(market, market)
  <2>1. /\ market.reserveMoli \in Nat /\ market.reserveToken \in Nat
        /\ market.totalShares \in Nat
    BY <1>0 DEF Sound, World
  <2>2. market.reserveMoli * market.reserveToken * market.totalShares * market.totalShares \in Nat
    BY <2>1
  <2> QED BY <2>2 DEF Risen
<1>2. CASE \E w : Called(w)
  <2>1. PICK w : Called(w)
    BY <1>2
  <2>2. Sound(market') /\ (market.totalShares > 0 => Risen(market, market'))
    BY <2>1 DEF Called
  <2>3. CASE open' = open
    BY <1>0, <2>2, <2>3 DEF MarketInv
  <2>4. ASSUME NEW contract \in {Curve, Pool},
               open' = Append(open, [lock |-> contract, saved |-> market])
        PROVE  MarketInv'
    <3>1. [lock |-> contract, saved |-> market] \in Frame
      BY <1>0 DEF Sound, Frame
    <3>2. open' \in Seq(Frame)
      BY <1>0, <2>4, <3>1
    <3>3. \A i \in DOMAIN open' : Sound(open'[i].saved)
      BY <1>0, <2>4, <3>1
    <3> QED BY <2>2, <3>2, <3>3 DEF MarketInv
  <2> QED BY <2>1, <2>2, <2>3, <2>4 DEF Called
<1>3. CASE Return \/ Reject
  <2>1. open # << >> /\ open' = SubSeq(open, 1, Len(open) - 1)
    BY <1>3 DEF Return, Reject, Front
  <2>2. /\ open' \in Seq(Frame)
        /\ Len(open') = Len(open) - 1
        /\ \A i \in DOMAIN open' : i \in DOMAIN open /\ open'[i] = open[i]
    <3>1. Len(open) \in Nat \ {0} /\ DOMAIN open = 1 .. Len(open)
          /\ \A i \in 1 .. Len(open) : open[i] \in Frame
      BY <2>1, <1>0
    <3> DEFINE k == Len(open) - 1
    <3>2. k \in Nat /\ \A i \in 1 .. k : open[i] \in Frame
      BY <3>1
    <3>3. /\ open' \in Seq(Frame) /\ Len(open') = k
          /\ \A i \in 1 .. k : open'[i] = open[i]
      <4> HIDE DEF k
      <4>1. /\ SubSeq(open, 1, k) \in Seq(Frame)
            /\ Len(SubSeq(open, 1, k)) = IF 1 <= k THEN k - 1 + 1 ELSE 0
            /\ \A i \in 1 .. k - 1 + 1 : SubSeq(open, 1, k)[i] = open[1 + i - 1]
        BY <3>2, SubSeqProperties
      <4>2. open' = SubSeq(open, 1, k)
        BY <2>1 DEF k
      <4> QED BY <3>2, <4>1, <4>2
    <3>4. DOMAIN open' = 1 .. k
      BY <3>3
    <3> QED BY <3>1, <3>3, <3>4
  <2>3. Last(open) = open[Len(open)] /\ Len(open) \in DOMAIN open
    BY <1>0, <2>1 DEF Last
  <2>4. Sound(market')
    BY <1>0, <1>3, <2>3 DEF Return, Reject
  <2>5. ~(Len(open') >= Len(open))
    BY <1>0, <2>2
  <2> QED BY <1>0, <2>2, <2>4, <2>5 DEF MarketInv
<1>4. CASE Unlock \/ UNCHANGED marketVars
  <2>1. UNCHANGED <<market, open>>
    BY <1>4 DEF Unlock, marketVars
  <2> QED BY <1>0, <1>1, <2>1 DEF MarketInv
<1>5. ASSUME NEW who \in Trader, NEW n \in Offered,
             \/ \E m \in Offered : AddLiquidity(who, m, n)
             \/ RemoveLiquidity(who, n) \/ SwapMoliForToken(who, n) \/ SwapTokenForMoli(who, n)
             \/ Buy(who, n)
      PROVE  \E w : Called(w)
  BY <1>5, CallsSound
<1>6. ASSUME NEW who \in Trader, NEW contract \in {Curve, Pool}, SendToken(who, contract)
      PROVE  \E w : Called(w)
  <2>1. Called(PayToken(market, who, contract, 1))
    BY <1>0, <1>6, SendsSound DEF SendToken, Done, Called
  <2> QED BY <2>1
<1>7. ASSUME NEW n \in Offered, WithdrawLiquidity(n) PROVE \E w : Called(w)
  BY <1>7, CallsSound, MarketAssumption
<1>8. CASE MarketNext
  BY <1>2, <1>3, <1>4, <1>5, <1>6, <1>7, <1>8 DEF MarketNext
<1> QED BY <1>4, <1>8

\* Whatever is bought, added, removed, withdrawn, swapped or sent, from inside a
\* payment or not, accepted or refused, what is for sale and the reserves are there.
THEOREM SaleTheorem == MarketSpec => []SaleIsFunded
<1>1. MarketInv => SaleIsFunded
  BY DEF MarketInv, Sound, SaleIsFunded
<1>2. MarketInv /\ [MarketNext]_marketVars => MarketInv'
  BY MarketNextInv
<1> QED BY <1>1, <1>2, MarketInitInv, PTL DEF MarketSpec

\* No call makes a share of the pool worth less, whatever was called before it.
THEOREM ShareTheorem == MarketSpec => ShareValueNeverFalls
<1>1. MarketInv /\ [MarketNext]_marketVars =>
        [ (Len(open') >= Len(open) /\ market.totalShares > 0) => Risen(market, market') ]_marketVars
  BY MarketNextInv
<1>2. MarketInv /\ [MarketNext]_marketVars => MarketInv'
  BY MarketNextInv
<1>3. MarketSpec => [][ (Len(open') >= Len(open) /\ market.totalShares > 0)
                          => Risen(market, market') ]_marketVars
  BY <1>1, <1>2, MarketInitInv, PTL DEF MarketSpec
<1> QED BY <1>3 DEF ShareValueNeverFalls, Risen

-----------------------------------------------------------------------------
(* A purchase is the best there is.                                        *)

\* More is never rounded to less.
LEMMA DownRises ==
  ASSUME NEW a \in Nat, NEW a2 \in Nat, NEW b \in Nat, NEW d \in Nat \ {0}, a <= a2
  PROVE  MulDiv(a, b, d) <= MulDiv(a2, b, d)
<1> DEFINE q == MulDiv(a, b, d)
           r == MulDiv(a2, b, d)
<1>1. a * b \in Nat /\ a2 * b \in Nat
  OBVIOUS
<1>2. a * b <= a2 * b
  BY ProductRises
<1>3. q \in Nat /\ q * d <= a * b /\ r \in Nat /\ a2 * b < r * d + d
  BY <1>1, Divided DEF MulDiv
<1> HIDE DEF q, r
<1>4. q * d \in Nat /\ r * d \in Nat
  BY <1>3
<1>5. SUFFICES ASSUME q >= r + 1 PROVE FALSE
  BY <1>3 DEF q, r
<1>6. q * d >= (r + 1) * d
  BY <1>3, <1>5, ProductRises
<1>7. (r + 1) * d = r * d + d
  BY <1>3
<1> QED BY <1>1, <1>2, <1>3, <1>4, <1>6, <1>7

LEMMA UpRises ==
  ASSUME NEW a \in Nat, NEW b \in Nat, NEW b2 \in Nat, NEW d \in Nat \ {0}, b <= b2
  PROVE  MulDivUp(a, b, d) <= MulDivUp(a, b2, d)
<1>1. a * b \in Nat /\ a * b2 \in Nat /\ a * b <= a * b2
  BY ProductRises
<1>2. MulDivUp(a, b2, d) \in Nat /\ a * b2 <= MulDivUp(a, b2, d) * d
  BY RoundedUp
<1> HIDE DEF MulDivUp
<1>3. MulDivUp(a, b2, d) * d \in Nat
  BY <1>2
<1>4. a * b <= MulDivUp(a, b2, d) * d
  BY <1>1, <1>2, <1>3
<1> QED BY <1>2, <1>4, RoundedUp

LEMMA UpRisesLeft ==
  ASSUME NEW a \in Nat, NEW a2 \in Nat, NEW b \in Nat, NEW d \in Nat \ {0}, a <= a2
  PROVE  MulDivUp(a, b, d) <= MulDivUp(a2, b, d)
<1>1. MulDivUp(a, b, d) = MulDivUp(b, a, d) /\ MulDivUp(a2, b, d) = MulDivUp(b, a2, d)
  BY DEF MulDivUp
<1> QED BY <1>1, UpRises

\* The root is the root, rounded down.
LEMMA RootIs ==
  ASSUME NEW y \in Nat
  PROVE  /\ Sqrt(y) \in Nat /\ Sqrt(y) * Sqrt(y) <= y
         /\ \A z \in Nat : z * z <= y => z <= Sqrt(y)
<1> DEFINE S == {z \in 0 .. y : z * z <= y}
<1>1. 0 \in S /\ S \in SUBSET Int /\ S # {} /\ S \subseteq Nat
  OBVIOUS
<1>2. IsFiniteSet(S)
  <2>1. IsFiniteSet(0 .. y) /\ S \subseteq 0 .. y
    BY FS_Interval
  <2> HIDE DEF S
  <2> QED BY <2>1, FS_Subset
<1>3. Max(S) \in S /\ \A z \in S : z <= Max(S)
  BY <1>1, <1>2, MaxIsGreatest
<1>4. ASSUME NEW z \in Nat, z * z <= y PROVE z <= y
  <2>1. CASE z = 0
    BY <2>1
  <2>2. CASE z >= 1
    <3>1. z * z >= z * 1
      BY <2>2, ProductRises
    <3> QED BY <1>4, <3>1
  <2> QED BY <2>1, <2>2
<1>5. \A z \in Nat : z * z <= y => z \in S
  BY <1>4
<1> QED BY <1>1, <1>3, <1>5 DEF Sqrt

\* More tokens do not cost less,
LEMMA CostRises ==
  ASSUME NEW x \in Nat, NEW t \in Nat, NEW u \in Nat, t <= u
  PROVE  Cost(x, t) <= Cost(x, u)
<1> DEFINE a == SupplyForSale + 4 * x + 2 * t
           b == SupplyForSale + 4 * x + 2 * u
<1>1. SupplyForSale \in Nat \ {0} /\ One \in Nat \ {0} /\ StartPrice \in Nat
  BY MarketAssumption
<1>2. a \in Nat /\ b \in Nat /\ a <= b /\ SupplyForSale * One \in Nat \ {0}
  BY <1>1
<1> HIDE DEF a, b
<1>3. t * a \in Nat /\ u * b \in Nat /\ t * a <= u * b
  BY <1>2, ProductRises
<1>4. Cost(x, t) = MulDivUp(StartPrice, t * a, SupplyForSale * One)
      /\ Cost(x, u) = MulDivUp(StartPrice, u * b, SupplyForSale * One)
  BY DEF Cost, a, b
<1> DEFINE p == t * a
           q == u * b
           e == SupplyForSale * One
<1> HIDE DEF p, q, e
<1>5. p \in Nat /\ q \in Nat /\ p <= q /\ e \in Nat \ {0}
  BY <1>2, <1>3 DEF p, q, e
<1>6. MulDivUp(StartPrice, p, e) <= MulDivUp(StartPrice, q, e)
  BY <1>1, <1>5, UpRises
<1> QED BY <1>4, <1>6 DEF p, q, e

LEMMA NothingIsFree == ASSUME NEW x \in Nat PROVE Cost(x, 0) = 0
<1>1. SupplyForSale \in Nat \ {0} /\ One \in Nat \ {0} /\ StartPrice \in Nat
  BY MarketAssumption
<1>2. SupplyForSale * One \in Nat \ {0} /\ 0 * (SupplyForSale + 4 * x + 2 * 0) = 0
  BY <1>1
<1>3. MulDivUp(StartPrice, 0, SupplyForSale * One) <= 0
      /\ MulDivUp(StartPrice, 0, SupplyForSale * One) \in Nat
  <2> DEFINE e == SupplyForSale * One
  <2>1. e \in Nat \ {0}
    BY <1>2
  <2> HIDE DEF e
  <2>2. StartPrice * 0 <= 0 * e
    BY <1>1, <2>1
  <2>3. MulDivUp(StartPrice, 0, e) \in Nat /\ MulDivUp(StartPrice, 0, e) <= 0
    BY <1>1, <2>1, <2>2, RoundedUp
  <2> QED BY <2>3 DEF e
<1> QED BY <1>2, <1>3 DEF Cost

\* and a deposit of more takes no fewer tokens.
LEMMA DepositRises ==
  ASSUME NEW w \in World, w.totalShares > 0, w.reserveMoli > 0, w.reserveToken > 0,
         NEW b \in Nat, NEW b2 \in Nat, b <= b2
  PROVE  DepositFor(w, b).t <= DepositFor(w, b2).t
<1> DEFINE ts == w.totalShares
           rm == w.reserveMoli
           rt == w.reserveToken
           Tokens(n) == MulDiv(n, rt, rm)
           Shares(n) == IF rm <= rt THEN MulDiv(n, ts, rm) ELSE MulDiv(Tokens(n), ts, rt)
<1>1. ts \in Nat \ {0} /\ rm \in Nat \ {0} /\ rt \in Nat \ {0}
  BY DEF World
<1>2. \A n \in Nat : DepositFor(w, n).t = IF Shares(n) = 0 THEN 0 ELSE MulDivUp(Shares(n), rt, ts)
  BY DEF DepositFor
<1> HIDE DEF ts, rm, rt
<1>3. Tokens(b) \in Nat /\ Tokens(b2) \in Nat /\ Tokens(b) <= Tokens(b2)
  BY <1>1, RoundedDown, DownRises
<1>4. Shares(b) \in Nat /\ Shares(b2) \in Nat /\ Shares(b) <= Shares(b2)
  <2> HIDE DEF Tokens
  <2>1. CASE rm <= rt
    BY <1>1, <2>1, RoundedDown, DownRises
  <2>2. CASE ~(rm <= rt)
    BY <1>1, <1>3, <2>2, RoundedDown, DownRises
  <2> QED BY <2>1, <2>2
<1> HIDE DEF Shares
<1>5. MulDivUp(Shares(b), rt, ts) \in Nat /\ MulDivUp(Shares(b2), rt, ts) \in Nat
      /\ MulDivUp(Shares(b), rt, ts) <= MulDivUp(Shares(b2), rt, ts)
  BY <1>1, <1>4, RoundedUp, UpRisesLeft
<1> QED BY <1>2, <1>4, <1>5

LEMMA FitsFalls ==
  ASSUME NEW w \in World, w.totalShares > 0, w.reserveMoli > 0, w.reserveToken > 0,
         w.sold <= SupplyForSale
  PROVE  /\ Fits(w, 0)
         /\ \A o, p \in Nat : (o <= p /\ Fits(w, p)) => Fits(w, o)
<1>1. w.sold \in Nat /\ SupplyForSale \in Nat
  BY MarketAssumption DEF World
<1>2. Fits(w, 0)
  <2>1. Cost(w.sold, 0) = 0
    BY <1>1, NothingIsFree
  <2>2. DepositFor(w, 0).t = 0
    <3>1. DepositFor(w, 0).m <= 0 /\ DepositFor(w, 0).s \in Nat /\ DepositFor(w, 0).t \in Nat
          /\ DepositFor(w, 0).m \in Nat
      BY DepositWithin
    <3>2. CASE DepositFor(w, 0).s = 0
      <4>1. DepositFor(w, 0) = [s |-> 0, m |-> 0, t |-> 0]
            \/ \E s : s # 0 /\ DepositFor(w, 0).s = s
        BY DEF DepositFor
      <4> QED BY <3>2, <4>1
    <3>3. CASE DepositFor(w, 0).s # 0
      <4> DEFINE s == DepositFor(w, 0).s
      <4>1. DepositFor(w, 0).m = MulDivUp(s, w.reserveMoli, w.totalShares)
        BY <3>3 DEF DepositFor
      <4> HIDE DEF s
      <4>2. s \in Nat \ {0} /\ w.reserveMoli \in Nat \ {0} /\ w.totalShares \in Nat \ {0}
        BY <3>1, <3>3 DEF World, s
      <4>3. s * w.reserveMoli <= MulDivUp(s, w.reserveMoli, w.totalShares) * w.totalShares
        BY <4>2, RoundedUp
      <4>4. MulDivUp(s, w.reserveMoli, w.totalShares) = 0
        BY <3>1, <4>1
      <4>5. s * w.reserveMoli >= 1
        BY <4>2
      <4> QED BY <4>2, <4>3, <4>4, <4>5
    <3> QED BY <3>2, <3>3
  <2> QED BY <1>1, <2>1, <2>2 DEF Fits
<1>3. ASSUME NEW o \in Nat, NEW p \in Nat, o <= p, Fits(w, p) PROVE Fits(w, o)
  <2>1. Cost(w.sold, o) \in Nat /\ Cost(w.sold, p) \in Nat /\ Cost(w.sold, o) <= Cost(w.sold, p)
    BY <1>1, <1>3, CostType, CostRises
  <2>2. /\ DepositFor(w, Cost(w.sold, o)).t <= DepositFor(w, Cost(w.sold, p)).t
        /\ DepositFor(w, Cost(w.sold, o)).t \in Nat /\ DepositFor(w, Cost(w.sold, p)).t \in Nat
    BY <2>1, DepositRises, DepositWithin
  <2> QED BY <1>1, <1>3, <2>2 DEF Fits
<1> QED BY <1>2, <1>3

LEMMA DownIsGreatest ==
  ASSUME NEW a \in Nat, NEW b \in Nat, NEW d \in Nat \ {0}, NEW n \in Nat, n * d <= a * b
  PROVE  n <= MulDiv(a, b, d)
<1> DEFINE q == MulDiv(a, b, d)
<1>1. a * b \in Nat /\ n * d \in Nat
  OBVIOUS
<1>2. q \in Nat /\ a * b < q * d + d
  BY <1>1, Divided DEF MulDiv
<1> HIDE DEF q
<1>3. SUFFICES ASSUME n >= q + 1 PROVE FALSE
  BY <1>2 DEF q
<1>4. n * d >= (q + 1) * d
  BY <1>2, <1>3, ProductRises
<1>5. (q + 1) * d = q * d + d /\ q * d \in Nat
  BY <1>2
<1> QED BY <1>1, <1>2, <1>4, <1>5

\* The root of the quadratic bounds what a payment can be enough for.
LEMMA RootBounds ==
  ASSUME NEW x \in Nat, NEW moli \in Nat, NEW u \in Nat, Cost(x, u) <= moli
  PROVE  LET b == SupplyForSale + 4 * x
             c == MulDiv(moli, SupplyForSale * One, StartPrice)
         IN  /\ b * b + 8 * c \in Nat /\ (Sqrt(b * b + 8 * c) - b) \div 4 \in Nat
             /\ u <= (Sqrt(b * b + 8 * c) - b) \div 4
<1> DEFINE b == SupplyForSale + 4 * x
           e == SupplyForSale * One
           c == MulDiv(moli, e, StartPrice)
           z == u * (b + 2 * u)
           r == Sqrt(b * b + 8 * c)
<1>1. SupplyForSale \in Nat \ {0} /\ One \in Nat \ {0} /\ StartPrice \in Nat \ {0}
  BY MarketAssumption
<1>2. b \in Nat /\ e \in Nat \ {0}
  BY <1>1
<1>3. Cost(x, u) = MulDivUp(StartPrice, z, e)
  BY DEF Cost
<1> HIDE DEF b, e
<1>4. z \in Nat /\ c \in Nat
  BY <1>1, <1>2, RoundedDown
<1>5. z <= c
  <2> HIDE DEF z, c
  <2>1. Cost(x, u) \in Nat /\ StartPrice * z <= Cost(x, u) * e
    BY <1>1, <1>2, <1>3, <1>4, RoundedUp
  <2>2. Cost(x, u) * e <= moli * e
    BY <1>2, <2>1, ProductRises
  <2>3. StartPrice * z \in Nat /\ Cost(x, u) * e \in Nat /\ moli * e \in Nat
    BY <1>1, <1>2, <1>4, <2>1
  <2>4. z * StartPrice = StartPrice * z
    BY <1>1, <1>4
  <2>5. z * StartPrice <= moli * e
    BY <2>1, <2>2, <2>3, <2>4
  <2> QED BY <1>1, <1>2, <1>4, <2>5, DownIsGreatest DEF c
<1>6. b * b + 8 * c \in Nat /\ b * b <= b * b + 8 * c
  <2> HIDE DEF c
  <2>1. b * b \in Nat
    BY <1>2
  <2> QED BY <1>4, <2>1
<1>7. (4 * u + b) * (4 * u + b) <= b * b + 8 * c
  <2>1. (4 * u + b) * (4 * u + b) = b * b + 8 * z
    BY <1>2
  <2>2. b * b \in Nat
    BY <1>2
  <2> HIDE DEF z, c
  <2> QED BY <1>4, <1>5, <2>1, <2>2
<1> HIDE DEF c
<1>8. r \in Nat /\ b <= r /\ 4 * u + b <= r
  <2>1. 4 * u + b \in Nat
    BY <1>2
  <2> QED BY <1>2, <1>6, <1>7, <2>1, RootIs
<1> HIDE DEF r
<1>9. (r - b) \div 4 \in Nat /\ u <= (r - b) \div 4
  BY <1>2, <1>8
<1> QED BY <1>6, <1>9 DEF b, c, e, r

\* What a payment is enough for, and no more.
LEMMA SolveIs ==
  ASSUME NEW x \in Nat, NEW left \in Nat, NEW moli \in Nat
  PROVE  LET t == Solve(x, left, moli)
         IN  /\ t \in 0 .. left /\ Cost(x, t) <= moli
             /\ \A u \in t + 1 .. left : Cost(x, u) > moli
<1> DEFINE b == SupplyForSale + 4 * x
           c == MulDiv(moli, SupplyForSale * One, StartPrice)
           bound == (Sqrt(b * b + 8 * c) - b) \div 4
           root == Least(left, bound)
           S == {t \in 0 .. root : Cost(x, t) <= moli}
<1>1. Solve(x, left, moli) = IF moli >= Cost(x, left) THEN left ELSE Max(S)
  BY DEF Solve
<1>2. CASE moli >= Cost(x, left)
  BY <1>1, <1>2, CostType
<1>3. CASE ~(moli >= Cost(x, left))
  <2>1. Cost(x, 0) = 0 /\ 0 \in Nat
    BY NothingIsFree
  <2>2. bound \in Nat /\ \A u \in Nat : Cost(x, u) <= moli => u <= bound
    BY <2>1, RootBounds
  <2> HIDE DEF bound
  <2>3. root \in Nat /\ root <= left /\ \A u \in Nat : (u <= left /\ u <= bound) => u <= root
    BY <2>2 DEF Least
  <2> HIDE DEF root
  <2>4. 0 \in S /\ S \in SUBSET Int /\ S # {} /\ S \subseteq 0 .. root
    BY <2>1, <2>3
  <2>5. IsFiniteSet(S)
    <3> HIDE DEF S
    <3>1. IsFiniteSet(0 .. root)
      BY <2>3, FS_Interval
    <3> QED BY <2>4, <3>1, FS_Subset
  <2>6. Max(S) \in S /\ \A u \in S : Max(S) >= u
    BY <2>4, <2>5, MaxIsGreatest
  <2>7. Max(S) \in 0 .. left /\ Cost(x, Max(S)) <= moli
    BY <2>3, <2>6
  <2>8. ASSUME NEW u \in Max(S) + 1 .. left, Cost(x, u) <= moli PROVE FALSE
    <3>1. u \in Nat /\ u <= left /\ u > Max(S)
      BY <2>7
    <3>2. u \in S
      BY <2>2, <2>3, <2>8, <3>1
    <3> QED BY <2>6, <2>7, <3>1, <3>2
  <2>9. \A u \in Max(S) + 1 .. left : Cost(x, u) > moli
    <3>1. \A u \in Max(S) + 1 .. left : u \in Nat
      BY <2>7
    <3> HIDE DEF S
    <3> QED BY <2>8, <3>1, CostType
  <2> HIDE DEF S
  <2> QED BY <1>1, <1>3, <2>7, <2>9
<1> QED BY <1>2, <1>3

-----------------------------------------------------------------------------
(* The bisection.                                                          *)

Bisection(g, w) ==
  g = [lo \in Nat |-> [hi \in Nat |->
        IF lo >= hi THEN lo
        ELSE IF Fits(w, (lo + hi + 1) \div 2) THEN g[(lo + hi + 1) \div 2][hi]
        ELSE g[lo][((lo + hi + 1) \div 2) - 1]]]

LEMMA OutForUnfolded ==
  ASSUME NEW w, NEW moli
  PROVE  LET solved == Solve(w.sold, SupplyForSale - w.sold, moli)
         IN  OutFor(w, moli) = IF Fits(w, solved) THEN solved
                               ELSE (CHOOSE g : Bisection(g, w))[0][solved]
BY DEF OutFor, Bisection

\* Of lo, which is taken for granted, and those above up to hi, the greatest that fits.
Fitting(w, o, lo, hi) ==
  /\ o \in lo .. hi /\ (o = lo \/ Fits(w, o))
  /\ \A p \in o + 1 .. hi : ~Fits(w, p)

\* Halving a range keeps what is looked for.
LEMMA Halved ==
  ASSUME NEW w, \A o, p \in Nat : (o <= p /\ Fits(w, p)) => Fits(w, o),
         NEW lo \in Nat, NEW hi \in Nat, lo < hi
  PROVE  LET mid == (lo + hi + 1) \div 2
         IN  /\ mid \in lo + 1 .. hi
             /\ Fits(w, mid) => \A o : Fitting(w, o, mid, hi) => Fitting(w, o, lo, hi)
             /\ ~Fits(w, mid) => \A o : Fitting(w, o, lo, mid - 1) => Fitting(w, o, lo, hi)
<1> DEFINE mid == (lo + hi + 1) \div 2
<1>1. mid \in lo + 1 .. hi
  OBVIOUS
<1> HIDE DEF mid
<1>2. ASSUME Fits(w, mid), NEW o, Fitting(w, o, mid, hi) PROVE Fitting(w, o, lo, hi)
  BY <1>1, <1>2 DEF Fitting
<1>3. ASSUME ~Fits(w, mid), NEW o, Fitting(w, o, lo, mid - 1) PROVE Fitting(w, o, lo, hi)
  <2>1. \A p \in mid .. hi : ~Fits(w, p)
    BY <1>1, <1>3
  <2>2. \A p \in o + 1 .. hi : p \in o + 1 .. mid - 1 \/ p \in mid .. hi
    BY <1>1, <1>3 DEF Fitting
  <2> QED BY <1>1, <1>3, <2>1, <2>2 DEF Fitting
<1> QED BY <1>1, <1>2, <1>3 DEF mid

LEMMA SmallestOf ==
  ASSUME NEW B \in SUBSET Nat, NEW n \in B
  PROVE  \E k \in B : \A j \in B : k <= j
<1> DEFINE C == B \cap 0 .. n
<1>1. n \in Nat /\ C # {} /\ C \in SUBSET Int /\ C \subseteq 0 .. n
  OBVIOUS
<1>2. IsFiniteSet(C)
  <2> HIDE DEF C
  <2>1. IsFiniteSet(0 .. n)
    BY <1>1, FS_Interval
  <2> QED BY <1>1, <2>1, FS_Subset
<1>3. Min(C) \in C /\ \A j \in C : Min(C) <= j
  BY <1>1, <1>2, MinIsLeast
<1>4. \A j \in B : j \in C \/ j > n
  OBVIOUS
<1> QED BY <1>1, <1>3, <1>4

\* There is always such a number,
LEMMA SomeFits ==
  ASSUME NEW w, NEW lo \in Nat, NEW hi \in Nat, lo <= hi
  PROVE  \E o : Fitting(w, o, lo, hi)
<1> DEFINE S == {o \in lo .. hi : o = lo \/ Fits(w, o)}
<1>1. lo \in S /\ S # {} /\ S \in SUBSET Int /\ S \subseteq lo .. hi
  OBVIOUS
<1>2. IsFiniteSet(S)
  <2> HIDE DEF S
  <2>1. IsFiniteSet(lo .. hi)
    BY FS_Interval
  <2> QED BY <1>1, <2>1, FS_Subset
<1>3. Max(S) \in S /\ \A o \in S : Max(S) >= o
  BY <1>1, <1>2, MaxIsGreatest
<1> DEFINE top == Max(S)
<1>4. \A p \in top + 1 .. hi : p \notin S /\ p \in lo .. hi
  BY <1>1, <1>3
<1> HIDE DEF top
<1>5. top \in S
  BY <1>3 DEF top
<1>6. Fitting(w, top, lo, hi)
  BY <1>4, <1>5 DEF Fitting
<1> QED BY <1>6

\* and only one,
LEMMA OneFits ==
  ASSUME NEW w, NEW lo \in Nat, NEW hi \in Nat, NEW o, NEW p,
         Fitting(w, o, lo, hi), Fitting(w, p, lo, hi)
  PROVE  o = p
BY DEF Fitting

\* so that the search is defined
LEMMA BisectionExists ==
  ASSUME NEW w, \A o, p \in Nat : (o <= p /\ Fits(w, p)) => Fits(w, o)
  PROVE  \E g : Bisection(g, w)
<1> DEFINE Found(lo, hi) == IF lo >= hi THEN lo ELSE CHOOSE o : Fitting(w, o, lo, hi)
           g == [lo \in Nat |-> [hi \in Nat |-> Found(lo, hi)]]
           Step(lo, hi) == IF lo >= hi THEN lo
                           ELSE IF Fits(w, (lo + hi + 1) \div 2) THEN g[(lo + hi + 1) \div 2][hi]
                           ELSE g[lo][((lo + hi + 1) \div 2) - 1]
<1>1. ASSUME NEW lo \in Nat, NEW hi \in Nat, lo <= hi PROVE Fitting(w, Found(lo, hi), lo, hi)
  <2>1. CASE lo = hi
    BY <2>1 DEF Fitting
  <2>2. CASE lo < hi
    <3>1. \E o : Fitting(w, o, lo, hi)
      BY <1>1, SomeFits
    <3>2. Found(lo, hi) = CHOOSE o : Fitting(w, o, lo, hi)
      BY <2>2
    <3> HIDE DEF Found
    <3> QED BY <3>1, <3>2
  <2> QED BY <1>1, <2>1, <2>2
<1>2. \A lo, hi \in Nat : g[lo][hi] = Found(lo, hi)
  OBVIOUS
<1>3. ASSUME NEW lo \in Nat, NEW hi \in Nat PROVE Found(lo, hi) = Step(lo, hi)
  <2>1. CASE lo >= hi
    BY <2>1
  <2>2. CASE lo < hi
    <3> DEFINE mid == (lo + hi + 1) \div 2
    <3>1. /\ mid \in lo + 1 .. hi
          /\ Fits(w, mid) => \A o : Fitting(w, o, mid, hi) => Fitting(w, o, lo, hi)
          /\ ~Fits(w, mid) => \A o : Fitting(w, o, lo, mid - 1) => Fitting(w, o, lo, hi)
      BY <2>2, Halved
    <3>2. Step(lo, hi) = IF Fits(w, mid) THEN g[mid][hi] ELSE g[lo][mid - 1]
      BY <2>2
    <3> HIDE DEF mid, Step, g
    <3>3. mid \in Nat /\ mid - 1 \in Nat /\ mid <= hi /\ lo <= mid - 1
      BY <3>1
    <3>4. Step(lo, hi) = IF Fits(w, mid) THEN Found(mid, hi) ELSE Found(lo, mid - 1)
      <4> HIDE DEF Found
      <4> QED BY <1>2, <3>2, <3>3
    <3> HIDE DEF Found
    <3>5. Fitting(w, Step(lo, hi), lo, hi)
      <4>1. CASE Fits(w, mid)
        <5>1. Fitting(w, Found(mid, hi), mid, hi)
          BY <1>1, <3>3
        <5> QED BY <3>1, <3>4, <4>1, <5>1
      <4>2. CASE ~Fits(w, mid)
        <5>1. Fitting(w, Found(lo, mid - 1), lo, mid - 1)
          BY <1>1, <3>3
        <5> QED BY <3>1, <3>4, <4>2, <5>1
      <4> QED BY <4>1, <4>2
    <3>6. Fitting(w, Found(lo, hi), lo, hi)
      BY <1>1, <2>2
    <3> QED BY <3>5, <3>6, OneFits
  <2> QED BY <2>1, <2>2
<1>4. g = [lo \in Nat |-> [hi \in Nat |-> Step(lo, hi)]]
  <2> HIDE DEF Step, Found
  <2> QED BY <1>3
<1>5. Bisection(g, w)
  <2> HIDE DEF g
  <2> QED BY <1>4 DEF Bisection
<1> QED BY <1>5

\* and finds it.
LEMMA BisectionFinds ==
  ASSUME NEW w, \A o, p \in Nat : (o <= p /\ Fits(w, p)) => Fits(w, o),
         NEW g, Bisection(g, w), NEW lo \in Nat, NEW hi \in Nat, lo <= hi
  PROVE  Fitting(w, g[lo][hi], lo, hi)
<1> DEFINE Fails(k, l, h) == l <= h /\ h - l = k /\ ~Fitting(w, g[l][h], l, h)
           B == {k \in Nat : \E l, h \in Nat : Fails(k, l, h)}
<1> SUFFICES ASSUME B # {} PROVE FALSE
  <2>1. hi - lo \in Nat
    OBVIOUS
  <2> QED BY <2>1
<1>1. PICK k \in B : \A j \in B : k <= j
  <2> HIDE DEF B
  <2>1. B \in SUBSET Nat
    BY DEF B
  <2> QED BY <2>1, SmallestOf
<1>2. PICK l, h \in Nat : Fails(k, l, h)
  BY <1>1
<1>3. g[l][h] = IF l >= h THEN l
                ELSE IF Fits(w, (l + h + 1) \div 2) THEN g[(l + h + 1) \div 2][h]
                ELSE g[l][((l + h + 1) \div 2) - 1]
  <2>1. l \in Nat /\ h \in Nat
    BY <1>2
  <2>2. g[l] = [x \in Nat |->
                 IF l >= x THEN l
                 ELSE IF Fits(w, (l + x + 1) \div 2) THEN g[(l + x + 1) \div 2][x]
                 ELSE g[l][((l + x + 1) \div 2) - 1]]
    BY <2>1 DEF Bisection
  <2> QED BY <2>1, <2>2
<1>4. CASE l = h
  BY <1>2, <1>3, <1>4 DEF Fitting
<1>5. CASE l < h
  <2> DEFINE mid == (l + h + 1) \div 2
  <2>1. /\ mid \in l + 1 .. h
        /\ Fits(w, mid) => \A o : Fitting(w, o, mid, h) => Fitting(w, o, l, h)
        /\ ~Fits(w, mid) => \A o : Fitting(w, o, l, mid - 1) => Fitting(w, o, l, h)
    BY <1>2, <1>5, Halved
  <2>2. g[l][h] = IF Fits(w, mid) THEN g[mid][h] ELSE g[l][mid - 1]
    BY <1>2, <1>3, <1>5
  <2> HIDE DEF mid
  <2>3. /\ mid \in Nat /\ mid - 1 \in Nat /\ mid <= h /\ l <= mid - 1
        /\ h - mid \in Nat /\ h - mid < k /\ (mid - 1) - l \in Nat /\ (mid - 1) - l < k
    BY <1>2, <2>1
  <2>4. Fitting(w, g[mid][h], mid, h)
    <3>1. h - mid \notin B
      <4> HIDE DEF B
      <4>1. k \in Nat
        BY <1>1 DEF B
      <4> QED BY <1>1, <2>3, <4>1
    <3> QED BY <1>2, <2>3, <3>1
  <2>5. Fitting(w, g[l][mid - 1], l, mid - 1)
    <3>1. (mid - 1) - l \notin B
      <4> HIDE DEF B
      <4>1. k \in Nat
        BY <1>1 DEF B
      <4> QED BY <1>1, <2>3, <4>1
    <3> QED BY <1>2, <2>3, <3>1
  <2> QED BY <1>2, <2>1, <2>2, <2>4, <2>5
<1> QED BY <1>2, <1>4, <1>5

\* What is bought can be paid and leaves its deposit; nothing more does both.
LEMMA OutForIs ==
  ASSUME NEW w \in World, w.totalShares > 0, w.reserveMoli > 0, w.reserveToken > 0,
         w.sold <= SupplyForSale, NEW moli \in Nat
  PROVE  LET out == OutFor(w, moli)
         IN  /\ out \in 0 .. SupplyForSale - w.sold
             /\ Cost(w.sold, out) <= moli /\ Fits(w, out)
             /\ \A o \in out + 1 .. SupplyForSale - w.sold : ~(Cost(w.sold, o) <= moli /\ Fits(w, o))
<1> DEFINE left == SupplyForSale - w.sold
           t == Solve(w.sold, left, moli)
           out == OutFor(w, moli)
<1>1. w.sold \in Nat /\ left \in Nat
  BY MarketAssumption DEF World
<1> HIDE DEF left
<1>2. t \in 0 .. left /\ Cost(w.sold, t) <= moli /\ \A u \in t + 1 .. left : Cost(w.sold, u) > moli
  BY <1>1, SolveIs
<1>3. Fits(w, 0) /\ \A o, p \in Nat : (o <= p /\ Fits(w, p)) => Fits(w, o)
  BY FitsFalls
<1>4. out = IF Fits(w, t) THEN t ELSE (CHOOSE g : Bisection(g, w))[0][t]
  BY OutForUnfolded DEF left
<1> HIDE DEF t, out
<1>5. ASSUME NEW o \in t + 1 .. left PROVE ~(Cost(w.sold, o) <= moli /\ Fits(w, o))
  <2>1. o \in Nat
    BY <1>1, <1>2
  <2>2. Cost(w.sold, o) \in Nat
    BY <1>1, <2>1, CostType
  <2> QED BY <1>2, <2>2
<1>6. CASE Fits(w, t)
  BY <1>1, <1>2, <1>4, <1>5, <1>6 DEF left, out
<1>7. CASE ~Fits(w, t)
  <2>1. Fitting(w, out, 0, t)
    <3>1. \E g : Bisection(g, w)
      BY <1>3, BisectionExists
    <3> DEFINE g == CHOOSE g : Bisection(g, w)
    <3>2. Bisection(g, w) /\ out = g[0][t]
      BY <1>4, <1>7, <3>1
    <3> HIDE DEF g
    <3>3. t \in Nat /\ 0 <= t
      BY <1>1, <1>2
    <3> QED BY <1>3, <3>2, <3>3, BisectionFinds
  <2>2. out \in 0 .. t /\ Fits(w, out) /\ \A p \in out + 1 .. t : ~Fits(w, p)
    BY <1>3, <2>1 DEF Fitting
  <2>3. Cost(w.sold, out) <= moli
    <3>1. Cost(w.sold, out) <= Cost(w.sold, t) /\ Cost(w.sold, out) \in Nat /\ Cost(w.sold, t) \in Nat
      <4>1. out \in Nat /\ t \in Nat /\ out <= t
        BY <1>1, <1>2, <2>2
      <4> QED BY <1>1, <4>1, CostRises, CostType
    <3> QED BY <1>2, <3>1
  <2>4. ASSUME NEW o \in out + 1 .. left PROVE ~(Cost(w.sold, o) <= moli /\ Fits(w, o))
    <3>1. o \in out + 1 .. t \/ o \in t + 1 .. left
      BY <1>1, <1>2, <2>2
    <3> QED BY <1>5, <2>2, <3>1
  <2>5. out \in 0 .. left
    BY <1>1, <1>2, <2>2
  <2> QED BY <2>2, <2>3, <2>4, <2>5 DEF left, out
<1> QED BY <1>6, <1>7

-----------------------------------------------------------------------------
(* The deposit of a purchase.                                              *)

\* Rounded up, it is less than one too much.
LEMMA UpIsTight ==
  ASSUME NEW a \in Nat, NEW b \in Nat, NEW d \in Nat \ {0}
  PROVE  MulDivUp(a, b, d) * d < a * b + d
<1> DEFINE q == MulDivUp(a, b, d)
<1>1. a * b \in Nat
  OBVIOUS
<1>2. q \in Nat /\ \A m \in Nat : a * b <= m * d => q <= m
  BY RoundedUp
<1> HIDE DEF q
<1>3. CASE q = 0
  BY <1>1, <1>3 DEF q
<1>4. CASE q # 0
  <2> DEFINE p == q - 1
  <2>1. p \in Nat /\ ~(q <= p) /\ q = p + 1
    BY <1>2, <1>4
  <2> HIDE DEF p
  <2>2. ~(a * b <= p * d) /\ p * d \in Nat
    BY <1>2, <2>1
  <2>3. (p + 1) * d = p * d + d
    BY <2>1
  <2>4. q * d < a * b + d
    BY <1>1, <2>1, <2>2, <2>3
  <2> QED BY <2>4 DEF q
<1> QED BY <1>3, <1>4

\* A side whose reserve is no less than the shares is matched to them exactly,
LEMMA FineSide ==
  ASSUME NEW s \in Nat, NEW r \in Nat \ {0}, NEW ts \in Nat \ {0}, ts <= r
  PROVE  MulDiv(MulDivUp(s, r, ts), ts, r) = s
<1> DEFINE up == MulDivUp(s, r, ts)
<1>1. up \in Nat /\ s * r <= up * ts /\ up * ts < s * r + ts
  BY RoundedUp, UpIsTight
<1> HIDE DEF up
<1> DEFINE q == MulDiv(up, ts, r)
<1>2. q \in Nat /\ q * r <= up * ts /\ s <= q
  BY <1>1, RoundedDown, DownIsGreatest
<1> HIDE DEF q
<1>3. ASSUME q >= s + 1 PROVE FALSE
  <2>1. q * r >= (s + 1) * r
    BY <1>2, <1>3, ProductRises
  <2>2. (s + 1) * r = s * r + r /\ s * r \in Nat /\ q * r \in Nat /\ up * ts \in Nat
    BY <1>1, <1>2
  <2> QED BY <1>1, <1>2, <2>1, <2>2
<1>4. q = s
  BY <1>2, <1>3
<1> QED BY <1>4 DEF q, up

\* and so is the side the shares were counted by.
LEMMA CoarseSide ==
  ASSUME NEW b \in Nat, NEW r \in Nat \ {0}, NEW ts \in Nat \ {0}
  PROVE  LET s == MulDiv(b, ts, r) IN MulDiv(MulDivUp(s, r, ts), ts, r) = s
<1> DEFINE s == MulDiv(b, ts, r)
           up == MulDivUp(s, r, ts)
           q == MulDiv(up, ts, r)
<1>1. s \in Nat /\ s * r <= b * ts
  BY RoundedDown
<1> HIDE DEF s
<1>2. up \in Nat /\ s * r <= up * ts /\ up <= b
  BY <1>1, RoundedUp
<1> HIDE DEF up
<1>3. s <= q /\ q <= MulDiv(b, ts, r) /\ q \in Nat
  BY <1>2, <1>1, DownIsGreatest, DownRises, RoundedDown
<1>4. q = s
  BY <1>1, <1>3 DEF s
<1> QED BY <1>4 DEF s, up

\* The shares are at most the mean of the reserves, so at most the greater one.
Rooted(w) == w.totalShares * w.totalShares <= w.reserveMoli * w.reserveToken

LEMMA SquareBelow ==
  ASSUME NEW a \in Nat, NEW b \in Nat, NEW c \in Nat, a * a <= b * c, b <= c
  PROVE  a <= c
<1> SUFFICES ASSUME a >= c + 1 PROVE FALSE
  OBVIOUS
<1>1. a * a >= (c + 1) * (c + 1)
  BY ProductRises
<1>2. c * c >= b * c
  BY ProductRises
<1>3. (c + 1) * (c + 1) = c * c + 2 * c + 1
  OBVIOUS
<1>4. a * a \in Nat /\ c * c \in Nat /\ b * c \in Nat
  OBVIOUS
<1> QED BY <1>1, <1>2, <1>3, <1>4

\* The pool takes a deposit as it is, for exactly its shares.
LEMMA DepositExact ==
  ASSUME NEW w \in World, w.totalShares > 0, w.reserveMoli > 0, w.reserveToken > 0,
         Rooted(w), NEW b \in Nat, DepositFor(w, b).s > 0
  PROVE  LET d == DepositFor(w, b)
         IN  MayAdd(w, d.m, d.t) /\ Minted(w, d.m, d.t) = d.s
<1> DEFINE ts == w.totalShares
           rm == w.reserveMoli
           rt == w.reserveToken
           most == MulDiv(b, rt, rm)
           s == IF rm <= rt THEN MulDiv(b, ts, rm) ELSE MulDiv(most, ts, rt)
           d == DepositFor(w, b)
<1>1. ts \in Nat \ {0} /\ rm \in Nat \ {0} /\ rt \in Nat \ {0}
  BY DEF World
<1>2. d.s = s /\ d.m = MulDivUp(s, rm, ts) /\ d.t = MulDivUp(s, rt, ts)
  BY DEF DepositFor
<1>3. ts * ts <= rm * rt
  BY DEF Rooted
<1>4. ASSUME MulDiv(d.m, ts, rm) = s, MulDiv(d.t, ts, rt) = s, s \in Nat
      PROVE  MayAdd(w, d.m, d.t) /\ Minted(w, d.m, d.t) = d.s
  <2> HIDE DEF s, d
  <2>1. Minted(w, d.m, d.t) = s
    BY <1>4 DEF Minted, Least
  <2>2. Balanced(w, d.m, d.t)
    BY <1>4 DEF Balanced
  <2>3. s > 0
    BY <1>2 DEF d
  <2> QED BY <1>1, <1>2, <1>4, <2>1, <2>2, <2>3 DEF MayAdd
<1> HIDE DEF d, ts, rm, rt
<1>5. most \in Nat
  BY <1>1, RoundedDown
<1> HIDE DEF most
<1>6. s \in Nat
  BY <1>1, <1>5, RoundedDown
<1>7. CASE rm <= rt
  <2>1. s = MulDiv(b, ts, rm)
    BY <1>7
  <2>2. ts <= rt
    BY <1>1, <1>3, <1>7, SquareBelow
  <2>3. MulDiv(MulDivUp(s, rm, ts), ts, rm) = s
    BY <1>1, <2>1, CoarseSide
  <2>4. MulDiv(MulDivUp(s, rt, ts), ts, rt) = s
    <3> HIDE DEF s
    <3> QED BY <1>1, <1>6, <2>2, FineSide
  <2> HIDE DEF s
  <2> QED BY <1>2, <1>4, <1>6, <2>3, <2>4 DEF d
<1>8. CASE ~(rm <= rt)
  <2>1. s = MulDiv(most, ts, rt)
    BY <1>8
  <2>2. ts <= rm
    <3>1. rt <= rm /\ rm * rt = rt * rm
      BY <1>1, <1>8
    <3> QED BY <1>1, <1>3, <3>1, SquareBelow
  <2>3. MulDiv(MulDivUp(s, rt, ts), ts, rt) = s
    BY <1>1, <1>5, <2>1, CoarseSide
  <2>4. MulDiv(MulDivUp(s, rm, ts), ts, rm) = s
    <3> HIDE DEF s
    <3> QED BY <1>1, <1>6, <2>2, FineSide
  <2> HIDE DEF s
  <2> QED BY <1>2, <1>4, <1>6, <2>3, <2>4 DEF d
<1> QED BY <1>7, <1>8

\* It leaves less than a share and a token are worth.
LEMMA DepositLeaves ==
  ASSUME NEW w \in World, w.totalShares > 0, w.reserveMoli > 0, w.reserveToken > 0, NEW b \in Nat
  PROVE  (b - DepositFor(w, b).m) * w.totalShares * w.reserveToken
           < w.reserveMoli * (w.totalShares + w.reserveToken)
<1> DEFINE ts == w.totalShares
           rm == w.reserveMoli
           rt == w.reserveToken
           most == MulDiv(b, rt, rm)
           s == IF rm <= rt THEN MulDiv(b, ts, rm) ELSE MulDiv(most, ts, rt)
           m == DepositFor(w, b).m
           k == b - m
<1>1. ts \in Nat \ {0} /\ rm \in Nat \ {0} /\ rt \in Nat \ {0}
  BY DEF World
<1>2. m = IF s = 0 THEN 0 ELSE MulDivUp(s, rm, ts)
  BY DEF DepositFor
<1>3. m \in Nat /\ m <= b
  BY DepositWithin
<1> HIDE DEF ts, rm, rt
<1>4. most \in Nat /\ b * rt < most * rm + rm
  <2>1. b * rt \in Nat
    BY <1>1
  <2> QED BY <1>1, <2>1, Divided DEF MulDiv
<1>5. s \in Nat
  <2> HIDE DEF most
  <2> QED BY <1>1, <1>4, RoundedDown
<1>6. s * rm <= m * ts
  <2> HIDE DEF s, m
  <2>1. CASE s = 0
    BY <1>1, <1>3, <2>1
  <2>2. CASE s # 0
    BY <1>1, <1>2, <1>5, <2>2, RoundedUp
  <2> QED BY <2>1, <2>2
<1> HIDE DEF m
<1>7. k \in Nat /\ k * ts + m * ts = b * ts
  BY <1>1, <1>3
<1> HIDE DEF k
<1>8. k * ts \in Nat /\ m * ts \in Nat /\ s * rm \in Nat /\ b * ts \in Nat
      /\ k * ts + s * rm <= b * ts
  <2> HIDE DEF s
  <2>1. k * ts \in Nat /\ m * ts \in Nat /\ s * rm \in Nat /\ b * ts \in Nat
    BY <1>1, <1>3, <1>5, <1>7
  <2> QED BY <1>6, <1>7, <2>1
<1>9. CASE rm <= rt
  <2>1. b * ts < s * rm + rm
    <3>1. s = (b * ts) \div rm
      BY <1>9 DEF MulDiv
    <3> HIDE DEF s
    <3> QED BY <1>1, <1>8, <3>1, Divided
  <2> HIDE DEF s
  <2>2. k * ts + 1 <= rm
    BY <1>1, <1>8, <2>1
  <2>3. (k * ts + 1) * rt <= rm * rt
    BY <1>1, <1>8, <2>2, ProductRises
  <2>4. (k * ts + 1) * rt = k * ts * rt + rt /\ k * ts * rt \in Nat
    BY <1>1, <1>7
  <2>5. rm * (ts + rt) = rm * ts + rm * rt /\ rm * ts \in Nat /\ rm * rt \in Nat
    BY <1>1
  <2>6. k * ts * rt < rm * (ts + rt)
    BY <1>1, <2>3, <2>4, <2>5
  <2> QED BY <2>6 DEF k, m, ts, rm, rt
<1>10. CASE ~(rm <= rt)
  <2>1. most * ts < s * rt + rt /\ most * ts \in Nat
    <3>1. s = (most * ts) \div rt
      BY <1>10 DEF MulDiv
    <3> HIDE DEF s, most
    <3>2. most * ts \in Nat
      BY <1>1, <1>4
    <3> QED BY <1>1, <3>1, <3>2, Divided
  <2> HIDE DEF s, most
  <2> DEFINE A == k * ts * rt
             S == s * rm * rt
             M == most * ts * rm
  <2>1a. s * rt \in Nat /\ most * rm \in Nat /\ b * rt \in Nat
    BY <1>1, <1>4, <1>5
  <2>2. A + S <= b * ts * rt
    <3>1. (k * ts + s * rm) * rt <= (b * ts) * rt
      BY <1>1, <1>8, ProductRises
    <3>2. (k * ts + s * rm) * rt = A + S
      BY <1>1, <1>5, <1>7
    <3> QED BY <3>1, <3>2
  <2>3. b * ts * rt + ts <= M + rm * ts
    <3>1. b * rt + 1 <= most * rm + rm
      BY <1>1, <1>4, <2>1a
    <3>2. (b * rt + 1) * ts <= (most * rm + rm) * ts
      BY <1>1, <2>1a, <3>1, ProductRises
    <3>3. (b * rt + 1) * ts = b * ts * rt + ts
      BY <1>1
    <3>4. (most * rm + rm) * ts = M + rm * ts
      BY <1>1, <1>4
    <3> QED BY <3>2, <3>3, <3>4
  <2>4. M + rm <= S + rm * rt
    <3>1. most * ts + 1 <= s * rt + rt
      BY <1>1, <2>1, <2>1a
    <3>2. (most * ts + 1) * rm <= (s * rt + rt) * rm
      BY <1>1, <2>1, <2>1a, <3>1, ProductRises
    <3>3. (most * ts + 1) * rm = M + rm
      BY <1>1, <1>4
    <3>4. (s * rt + rt) * rm = S + rm * rt
      BY <1>1, <1>5
    <3> QED BY <3>2, <3>3, <3>4
  <2>5. A \in Nat /\ S \in Nat /\ M \in Nat /\ b * ts * rt \in Nat /\ rm * ts \in Nat
        /\ rm * rt \in Nat /\ rm * (ts + rt) = rm * ts + rm * rt
    BY <1>1, <1>4, <1>5, <1>7
  <2> HIDE DEF A, S, M
  <2>6. A < rm * (ts + rt)
    BY <1>1, <2>2, <2>3, <2>4, <2>5
  <2> QED BY <2>6 DEF A, k, m, ts, rm, rt
<1> QED BY <1>9, <1>10

LEMMA BestOf ==
  ASSUME NEW w, Sound(w), Rooted(w), NEW v \in Nat, MayBuy(w, v)
  PROVE  LET out == OutFor(w, v)
             d == Deepening(w, out, v)
             kept == Max({0, Cost(w.sold, out) - d.m})
             Fair(o) == Cost(w.sold, o) <= v /\ Fits(w, o)
         IN  /\ Fair(out) /\ \A o \in out + 1 .. SupplyForSale - w.sold : ~Fair(o)
             /\ d.s > 0 => MayAdd(w, d.m, d.t) /\ Minted(w, d.m, d.t) = d.s
             /\ kept * w.totalShares * w.reserveToken
                  < w.reserveMoli * (w.totalShares + w.reserveToken)
<1> DEFINE out == OutFor(w, v)
           paid == Cost(w.sold, out)
           left == SupplyForSale - w.sold - out
           bal == w.moli[Curve] + paid
           all == DepositFor(w, bal)
           some == DepositFor(w, paid)
           taken == IF all.t > left \/ bal - paid > DustLimit THEN some ELSE all
           d == Deepening(w, out, v)
           kept == Max({0, paid - d.m})
<1>1. /\ w \in World /\ w.totalShares > 0 /\ w.reserveMoli > 0 /\ w.reserveToken > 0
      /\ w.sold <= SupplyForSale /\ w.sold \in Nat /\ w.moli[Curve] \in Nat
      /\ w.totalShares \in Nat /\ w.reserveMoli \in Nat /\ w.reserveToken \in Nat
      /\ SupplyForSale \in Nat
  BY MarketAssumption DEF Sound, MayBuy, World, Account
<1>2. /\ out \in 0 .. SupplyForSale - w.sold /\ paid <= v /\ Fits(w, out)
      /\ \A o \in out + 1 .. SupplyForSale - w.sold : ~(Cost(w.sold, o) <= v /\ Fits(w, o))
  BY <1>1, OutForIs
<1>3. out \in Nat /\ paid \in Nat /\ left \in Nat
  <2>1. out \in Nat /\ left \in Nat
    BY <1>1, <1>2
  <2> QED BY <1>1, <2>1, CostType
<1>4. d = IF taken.t > left THEN [s |-> 0, m |-> 0, t |-> 0] ELSE taken
  BY DEF Deepening
<1>5. some.t <= left
  <2>1. out + some.t <= SupplyForSale - w.sold
    BY <1>2 DEF Fits
  <2>2. some.t \in Nat
    BY <1>1, <1>3, DepositWithin
  <2> QED BY <1>1, <1>3, <2>1, <2>2
<1>6. bal \in Nat /\ paid <= bal
  BY <1>1, <1>3
<1>7. /\ some.m \in Nat /\ some.t \in Nat /\ some.m <= paid
      /\ all.m \in Nat /\ all.t \in Nat /\ all.m <= bal
  BY <1>1, <1>3, <1>6, DepositWithin
<1>8. d = taken /\ (d = some \/ d = all)
  <2> HIDE DEF all, some, left, bal, d
  <2> QED BY <1>3, <1>4, <1>5, <1>7
<1>9. ASSUME d.s > 0 PROVE MayAdd(w, d.m, d.t) /\ Minted(w, d.m, d.t) = d.s
  <2>1. CASE d = some
    <3>1. some.s > 0
      BY <1>9, <2>1
    <3> HIDE DEF paid, d
    <3>2. MayAdd(w, some.m, some.t) /\ Minted(w, some.m, some.t) = some.s
      BY <1>1, <1>3, <3>1, DepositExact
    <3> QED BY <2>1, <3>2
  <2>2. CASE d = all
    <3>1. all.s > 0
      BY <1>9, <2>2
    <3> HIDE DEF bal, d
    <3>2. MayAdd(w, all.m, all.t) /\ Minted(w, all.m, all.t) = all.s
      BY <1>1, <1>6, <3>1, DepositExact
    <3> QED BY <2>2, <3>2
  <2> QED BY <1>8, <2>1, <2>2
<1> DEFINE unit == w.totalShares * w.reserveToken
           worth == w.reserveMoli * (w.totalShares + w.reserveToken)
<1>10. /\ (paid - some.m) * w.totalShares * w.reserveToken < worth
       /\ (bal - all.m) * w.totalShares * w.reserveToken < worth
  <2> HIDE DEF paid, bal
  <2> QED BY <1>1, <1>3, <1>6, DepositLeaves
<1>11. kept * w.totalShares * w.reserveToken < worth
  <2> HIDE DEF all, some, bal, d, paid
  <2>1. d.m \in Nat /\ paid - d.m \in Int
    BY <1>3, <1>7, <1>8
  <2>2. kept \in {0, paid - d.m} /\ kept >= 0 /\ kept >= paid - d.m
    <3>1. {0, paid - d.m} \in SUBSET Int /\ IsFiniteSet({0, paid - d.m}) /\ {0, paid - d.m} # {}
      <4>1. IsFiniteSet({0})
        BY FS_Singleton
      <4>2. {0, paid - d.m} = {0} \cup {paid - d.m}
        OBVIOUS
      <4> QED BY <2>1, <4>1, <4>2, FS_AddElement
    <3> QED BY <3>1, MaxIsGreatest
  <2> HIDE DEF kept
  <2>3. ASSUME NEW k \in Nat, kept <= k, k * w.totalShares * w.reserveToken < worth
        PROVE  kept * w.totalShares * w.reserveToken < worth
    <3>1. kept \in Nat
      BY <2>1, <2>2
    <3>2. k * unit >= kept * unit /\ unit \in Nat
      BY <1>1, <2>3, <3>1, ProductRises
    <3>3. k * unit = k * w.totalShares * w.reserveToken
          /\ kept * unit = kept * w.totalShares * w.reserveToken
          /\ k * unit \in Nat /\ kept * unit \in Nat /\ worth \in Nat
      BY <1>1, <3>1
    <3> HIDE DEF unit, worth
    <3> QED BY <2>3, <3>2, <3>3
  <2>4. CASE d = some
    <3>1. paid - some.m \in Nat /\ kept <= paid - some.m
      BY <1>3, <1>7, <2>2, <2>4
    <3> HIDE DEF unit, worth
    <3> QED BY <1>10, <2>3, <3>1
  <2>5. CASE d = all
    <3>1. bal - all.m \in Nat /\ kept <= bal - all.m
      BY <1>3, <1>6, <1>7, <2>2, <2>5
    <3> HIDE DEF unit, worth
    <3> QED BY <1>10, <2>3, <3>1
  <2> QED BY <1>8, <2>4, <2>5
<1> HIDE DEF d
<1> QED BY <1>2, <1>9, <1>11 DEF d

-----------------------------------------------------------------------------
(* The shares stay below the mean of the reserves.                         *)

BestInv == MarketInv /\ Rooted(market) /\ \A i \in DOMAIN open : Rooted(open[i].saved)

\* No share is held of an empty pool.
LEMMA NoShares ==
  ASSUME NEW w, Sound(w), w.totalShares = 0, NEW who \in Account
  PROVE  w.shares[who] = 0
<1>1. w.shares \in [Account -> Nat] /\ SumFunctionOnSet(w.shares, Account) <= 0
  BY DEF Sound, World
<1>2. w.shares[who] \in Nat /\ w.shares[who] <= w.shares[who]
  BY <1>1
<1>3. w.shares[who] <= SumFunctionOnSet(w.shares, Account) /\ SumFunctionOnSet(w.shares, Account) \in Nat
  BY <1>1, <1>2, SharesTaken
<1> QED BY <1>1, <1>2, <1>3

\* A payment leaves the reserves and the shares.
Payments(w, p) ==
  /\ p \in World /\ p.totalShares = w.totalShares
  /\ p.reserveMoli = w.reserveMoli /\ p.reserveToken = w.reserveToken

LEMMA PaysOnly ==
  ASSUME NEW w \in World, NEW a \in Account, NEW b \in Account, a # b, NEW n \in Int
  PROVE  Payments(w, PayMoli(w, a, b, n)) /\ Payments(w, PayToken(w, a, b, n))
<1>1. Payments(w, PayMoli(w, a, b, n))
  <2> DEFINE p == PayMoli(w, a, b, n)
  <2>1. /\ p \in World /\ p.moli = [w.moli EXCEPT ![a] = @ - n, ![b] = @ + n]
        /\ p.token = w.token /\ p.sold = w.sold /\ p.reserveMoli = w.reserveMoli
        /\ p.reserveToken = w.reserveToken /\ p.totalShares = w.totalShares
        /\ p.shares = w.shares
    BY MoliMoved
  <2> HIDE DEF p
  <2>2. Payments(w, p)
    BY <2>1 DEF Payments
  <2> QED BY <2>2 DEF p
<1>2. Payments(w, PayToken(w, a, b, n))
  <2> DEFINE p == PayToken(w, a, b, n)
  <2>1. /\ p \in World /\ p.token = [w.token EXCEPT ![a] = @ - n, ![b] = @ + n]
        /\ p.moli = w.moli /\ p.sold = w.sold /\ p.reserveMoli = w.reserveMoli
        /\ p.reserveToken = w.reserveToken /\ p.totalShares = w.totalShares
        /\ p.shares = w.shares
    BY TokenMoved
  <2> HIDE DEF p
  <2>2. Payments(w, p)
    BY <2>1 DEF Payments
  <2> QED BY <2>2 DEF p
<1> QED BY <1>1, <1>2

\* The first deposit gives no more shares than the root of it,
LEMMA FirstRooted ==
  ASSUME NEW w, Sound(w), w.totalShares = 0, NEW who \in Trader, NEW m \in Nat, NEW t \in Nat
  PROVE  Rooted(Added(w, who, m, t))
<1> DEFINE p == PayMoli(w, who, Pool, m)
           q == PayToken(p, who, Pool, t)
           minted == Sqrt(m * t) - MinimumLiquidity
           r == Added(w, who, m, t)
<1>1. /\ w \in World /\ who \in Account /\ Pool \in Account /\ who # Pool
      /\ w.reserveMoli \in Nat /\ w.reserveToken \in Nat /\ MinimumLiquidity \in Nat
      /\ m \in Int /\ t \in Int
  BY MarketAssumption DEF Sound, Account, World
<1>2. Payments(w, p)
  BY <1>1, PaysOnly
<1>3. r = [q EXCEPT !.reserveMoli = @ + m, !.reserveToken = @ + t,
                    !.totalShares = @ + minted + MinimumLiquidity, !.shares[who] = @ + minted]
  BY DEF Added
<1> HIDE DEF p, r, minted
<1>4. q \in World /\ q.totalShares = w.totalShares
      /\ q.reserveMoli = w.reserveMoli /\ q.reserveToken = w.reserveToken
  <2>1. p \in World
    BY <1>2 DEF Payments
  <2>2. Payments(p, q)
    BY <1>1, <2>1, PaysOnly
  <2> HIDE DEF q
  <2> QED BY <1>2, <2>2 DEF Payments
<1> HIDE DEF q
<1>5. /\ r.reserveMoli = q.reserveMoli + m /\ r.reserveToken = q.reserveToken + t
      /\ r.totalShares = q.totalShares + minted + MinimumLiquidity
  BY <1>3, <1>4 DEF World
<1>6. m * t \in Nat
  OBVIOUS
<1>7. Sqrt(m * t) \in Nat /\ Sqrt(m * t) * Sqrt(m * t) <= m * t
  BY <1>6, RootIs
<1>8. r.totalShares = Sqrt(m * t)
  BY <1>1, <1>4, <1>5, <1>7 DEF minted
<1>9. m * t <= r.reserveMoli * r.reserveToken
  <2>1. /\ r.reserveMoli \in Nat /\ r.reserveToken \in Nat
        /\ r.reserveMoli >= m /\ r.reserveToken >= t
    BY <1>1, <1>4, <1>5
  <2> QED BY <2>1, ProductRises
<1>10. r.reserveMoli * r.reserveToken \in Nat /\ Sqrt(m * t) * Sqrt(m * t) \in Nat
  <2>1. r.reserveMoli \in Nat /\ r.reserveToken \in Nat
    BY <1>1, <1>4, <1>5
  <2> QED BY <2>1, <1>7
<1> QED BY <1>6, <1>7, <1>8, <1>9, <1>10 DEF Rooted, r

\* without shares there is nothing to bound,
LEMMA NoneRooted == ASSUME NEW w, Sound(w), w.totalShares = 0 PROVE Rooted(w)
<1>1. w.reserveMoli \in Nat /\ w.reserveToken \in Nat
  BY DEF Sound, World
<1>2. w.reserveMoli * w.reserveToken \in Nat
  BY <1>1
<1> QED BY <1>2 DEF Rooted

\* and a share that is worth no less leaves the bound.
LEMMA RisenRooted ==
  ASSUME NEW w, Sound(w), w.totalShares > 0, Rooted(w), NEW w2, Sound(w2), Risen(w, w2)
  PROVE  Rooted(w2)
<1> DEFINE s == w.totalShares * w.totalShares
           k == w.reserveMoli * w.reserveToken
           s2 == w2.totalShares * w2.totalShares
           k2 == w2.reserveMoli * w2.reserveToken
<1>1. /\ w.totalShares \in Nat \ {0} /\ w.reserveMoli \in Nat /\ w.reserveToken \in Nat
      /\ w2.totalShares \in Nat /\ w2.reserveMoli \in Nat /\ w2.reserveToken \in Nat
  BY DEF Sound, World
<1>2. s \in Nat \ {0} /\ k \in Nat /\ s2 \in Nat /\ k2 \in Nat
  BY <1>1
<1>3. k2 * s >= k * s2
  <2>1. /\ k2 * s = w2.reserveMoli * w2.reserveToken * w.totalShares * w.totalShares
        /\ k * s2 = w.reserveMoli * w.reserveToken * w2.totalShares * w2.totalShares
    BY <1>1
  <2> QED BY <2>1 DEF Risen
<1>4. s <= k
  BY DEF Rooted
<1> HIDE DEF s, k, s2, k2
<1>5. k * s2 >= s * s2
  BY <1>2, <1>4, ProductRises
<1>6. s2 * s <= k2 * s
  <2>1. s2 * s = s * s2 /\ s * s2 \in Nat /\ k * s2 \in Nat /\ k2 * s \in Nat
    BY <1>2
  <2> QED BY <1>3, <1>5, <2>1
<1>7. s2 <= k2
  BY <1>2, <1>6, Cancelled
<1> QED BY <1>7 DEF Rooted, s2, k2

\* What a call does to a pool without shares.
LEMMA EmptyPool ==
  ASSUME MarketInv, market.totalShares = 0, Sound(market'), NEW who \in Trader, NEW n \in Offered,
         \/ \E m \in Offered : AddLiquidity(who, m, n)
         \/ RemoveLiquidity(who, n) \/ SwapMoliForToken(who, n) \/ SwapTokenForMoli(who, n)
         \/ Buy(who, n) \/ WithdrawLiquidity(n)
  PROVE  Rooted(market')
<1>0. /\ Sound(market) /\ n \in Nat \ {0} /\ Offered \subseteq Nat \ {0} /\ market \in World
      /\ who \in Account /\ Curve \in Account /\ Pool \in Account /\ who # Pool /\ who # Curve
      /\ n \in Int
  BY MarketAssumption DEF MarketInv, Sound, Account
<1>1. ASSUME NEW m \in Offered, AddLiquidity(who, m, n) PROVE Rooted(market')
  <2>1. market' = Added(market, who, m, n) /\ m \in Nat
    BY <1>0, <1>1 DEF AddLiquidity, Done
  <2> QED BY <1>0, <2>1, FirstRooted
<1>2. ~RemoveLiquidity(who, n) /\ ~WithdrawLiquidity(n)
  <2>1. market.shares[who] = 0 /\ market.shares[Curve] = 0
    BY <1>0, NoShares
  <2> QED BY <1>0, <2>1 DEF RemoveLiquidity, WithdrawLiquidity
<1>3. ~Buy(who, n)
  BY <1>0 DEF Buy, MayBuy
<1>4. ASSUME SwapMoliForToken(who, n) PROVE market'.totalShares = 0
  <2> DEFINE out == SwapQuote(n, market.reserveMoli, market.reserveToken)
             p == PayMoli(market, who, Pool, n)
             q == PayToken(p, Pool, who, out)
  <2>1. out \in Nat
    <3>1. out > 0 /\ market.reserveMoli \in Nat /\ market.reserveToken \in Nat
      BY <1>0, <1>4 DEF SwapMoliForToken, World
    <3>2. market.reserveMoli # 0 /\ market.reserveToken # 0
      BY <3>1 DEF SwapQuote
    <3> QED BY <1>0, <3>1, <3>2, ProductKept
  <2>2. market' = [q EXCEPT !.reserveMoli = @ + n, !.reserveToken = @ - out]
    BY <1>4 DEF SwapMoliForToken, Done
  <2>3. p \in World /\ p.totalShares = 0
    <3>1. Payments(market, p)
      BY <1>0, PaysOnly
    <3> QED BY <1>0, <3>1 DEF Payments
  <2> HIDE DEF out, p
  <2>4. q \in World /\ q.totalShares = 0
    <3>1. out \in Int
      BY <2>1
    <3>2. Payments(p, q)
      BY <1>0, <2>3, <3>1, PaysOnly
    <3> QED BY <2>3, <3>2 DEF Payments
  <2> HIDE DEF q
  <2> QED BY <2>2, <2>4 DEF World
<1>5. ASSUME SwapTokenForMoli(who, n) PROVE market'.totalShares = 0
  <2> DEFINE out == SwapQuote(n, market.reserveToken, market.reserveMoli)
             p == PayToken(market, who, Pool, n)
             q == PayMoli(p, Pool, who, out)
  <2>1. out \in Nat
    <3>1. out > 0 /\ market.reserveMoli \in Nat /\ market.reserveToken \in Nat
      BY <1>0, <1>5 DEF SwapTokenForMoli, World
    <3>2. market.reserveMoli # 0 /\ market.reserveToken # 0
      BY <3>1 DEF SwapQuote
    <3> QED BY <1>0, <3>1, <3>2, ProductKept
  <2>2. market' = [q EXCEPT !.reserveToken = @ + n, !.reserveMoli = @ - out]
    BY <1>5 DEF SwapTokenForMoli, Paying
  <2>3. p \in World /\ p.totalShares = 0
    <3>1. Payments(market, p)
      BY <1>0, PaysOnly
    <3> QED BY <1>0, <3>1 DEF Payments
  <2> HIDE DEF out, p
  <2>4. q \in World /\ q.totalShares = 0
    <3>1. out \in Int
      BY <2>1
    <3>2. Payments(p, q)
      BY <1>0, <2>3, <3>1, PaysOnly
    <3> QED BY <2>3, <3>2 DEF Payments
  <2> HIDE DEF q
  <2> QED BY <2>2, <2>4 DEF World
<1> QED BY <1>1, <1>2, <1>3, <1>4, <1>5, NoneRooted

LEMMA BestNextInv ==
  ASSUME BestInv, [MarketNext]_marketVars
  PROVE  BestInv'
<1>0. /\ MarketInv /\ MarketInv' /\ Rooted(market)
      /\ \A i \in DOMAIN open : Rooted(open[i].saved)
  BY MarketNextInv DEF BestInv
<1>1. Sound(market) /\ Sound(market') /\ open \in Seq(Frame)
  BY <1>0 DEF MarketInv
<1>2. ASSUME NEW who \in Trader, NEW n \in Offered,
             \/ \E m \in Offered : AddLiquidity(who, m, n)
             \/ RemoveLiquidity(who, n) \/ SwapMoliForToken(who, n) \/ SwapTokenForMoli(who, n)
             \/ Buy(who, n) \/ WithdrawLiquidity(n)
      PROVE  BestInv'
  <2>1. PICK w : Called(w)
    BY <1>0, <1>2, CallsSound
  <2>2. Rooted(market')
    <3>1. CASE market.totalShares = 0
      BY <1>0, <1>1, <1>2, <3>1, EmptyPool
    <3>2. CASE market.totalShares > 0
      <4>1. Risen(market, market')
        BY <2>1, <3>2 DEF Called
      <4> QED BY <1>0, <1>1, <3>2, <4>1, RisenRooted
    <3>3. market.totalShares \in Nat
      BY <1>1 DEF Sound, World
    <3> QED BY <3>1, <3>2, <3>3
  <2>3. CASE open' = open
    BY <1>0, <2>2, <2>3 DEF BestInv
  <2>4. ASSUME NEW contract \in {Curve, Pool},
               open' = Append(open, [lock |-> contract, saved |-> market])
        PROVE  BestInv'
    <3>1. \A i \in DOMAIN open' : Rooted(open'[i].saved)
      BY <1>0, <1>1, <2>4
    <3> QED BY <1>0, <2>2, <3>1 DEF BestInv
  <2> QED BY <2>1, <2>3, <2>4 DEF Called
<1>3. CASE Return \/ Reject
  <2>1. open # << >> /\ open' = SubSeq(open, 1, Len(open) - 1)
    BY <1>3 DEF Return, Reject, Front
  <2> DEFINE k == Len(open) - 1
  <2>2. Len(open) \in Nat \ {0} /\ DOMAIN open = 1 .. Len(open)
        /\ \A i \in 1 .. Len(open) : open[i] \in Frame
    BY <1>1, <2>1
  <2>3. k \in Nat /\ \A i \in 1 .. k : open[i] \in Frame
    BY <2>2
  <2>4. /\ open' \in Seq(Frame) /\ Len(open') = k
        /\ \A i \in 1 .. k : open'[i] = open[i]
    <3>1. open' = SubSeq(open, 1, k)
      BY <2>1
    <3> HIDE DEF k
    <3>2. /\ SubSeq(open, 1, k) \in Seq(Frame)
          /\ Len(SubSeq(open, 1, k)) = IF 1 <= k THEN k - 1 + 1 ELSE 0
          /\ \A i \in 1 .. k - 1 + 1 : SubSeq(open, 1, k)[i] = open[1 + i - 1]
      BY <2>3, SubSeqProperties
    <3> QED BY <2>3, <3>1, <3>2
  <2>5. DOMAIN open' = 1 .. k /\ \A i \in 1 .. k : i \in DOMAIN open
    BY <2>2, <2>4
  <2>6. \A i \in DOMAIN open' : Rooted(open'[i].saved)
    <3> HIDE DEF k
    <3> QED BY <1>0, <2>4, <2>5
  <2>7. Last(open) = open[Len(open)] /\ Len(open) \in DOMAIN open
    BY <2>2 DEF Last
  <2>8. Rooted(market')
    BY <1>0, <1>3, <2>7 DEF Return, Reject
  <2> QED BY <1>0, <2>6, <2>8 DEF BestInv
<1>4. CASE Unlock \/ UNCHANGED marketVars
  <2>1. UNCHANGED <<market, open>>
    BY <1>4 DEF Unlock, marketVars
  <2> QED BY <1>0, <2>1 DEF BestInv
<1>5. ASSUME NEW n \in Offered, WithdrawLiquidity(n) PROVE BestInv'
  BY <1>2, <1>5, MarketAssumption
<1>6. ASSUME NEW who \in Trader, NEW contract \in {Curve, Pool}, SendToken(who, contract)
      PROVE  BestInv'
  <2> DEFINE w == PayToken(market, who, contract, 1)
  <2>1. market' = w /\ open' = open
    BY <1>6 DEF SendToken, Done
  <2>2. who \in Account /\ contract \in Account /\ who # contract /\ 1 \in Int
        /\ market \in World
    BY <1>1, MarketAssumption DEF Account, Sound
  <2>3. Payments(market, w)
    BY <2>2, PaysOnly
  <2>4. Risen(market, w)
    BY <1>1, SendsSound
  <2> HIDE DEF w
  <2>5. Rooted(w)
    <3>1. w.totalShares = market.totalShares /\ market.totalShares \in Nat
      BY <2>2, <2>3 DEF Payments, World
    <3>2. CASE market.totalShares = 0
      BY <1>1, <2>1, <3>1, <3>2, NoneRooted
    <3>3. CASE market.totalShares > 0
      BY <1>0, <1>1, <2>1, <2>4, <3>3, RisenRooted
    <3> QED BY <3>1, <3>2, <3>3
  <2> QED BY <1>0, <2>1, <2>5 DEF BestInv
<1> QED BY <1>2, <1>3, <1>4, <1>5, <1>6 DEF MarketNext

\* Whenever somebody may buy, what he gets is the most that his payment is enough
\* for and that leaves the tokens of its own deposit; the pool takes the deposit
\* for exactly its shares, whatever was rounded; and what is kept of the payment
\* is worth less than one share and one token.
THEOREM PurchaseTheorem == MarketSpec => []PurchaseIsBest
<1>1. MarketInit => BestInv
  <2> SUFFICES ASSUME MarketInit PROVE BestInv
    OBVIOUS
  <2>1. MarketInv /\ market.totalShares = 0 /\ open = << >>
    BY MarketInitInv DEF MarketInit
  <2> QED BY <2>1, NoneRooted DEF BestInv, MarketInv
<1>2. BestInv /\ [MarketNext]_marketVars => BestInv'
  BY BestNextInv
<1>3. BestInv => PurchaseIsBest
  <2> SUFFICES ASSUME BestInv PROVE PurchaseIsBest
    OBVIOUS
  <2>1. Sound(market) /\ Rooted(market) /\ \A v \in Offered : v \in Nat
    BY MarketAssumption DEF BestInv, MarketInv
  <2> QED BY <2>1, BestOf DEF PurchaseIsBest
<1> QED BY <1>1, <1>2, <1>3, PTL DEF MarketSpec

-----------------------------------------------------------------------------
(* The bot of the fast bridge.                                             *)

Sent(s) == {t \in known : t.for = s}

Row == [tx : known, height : Nat, ok : BOOLEAN]

\* The payouts sent and mined, and the transfers, as the chains hold them.
Chained ==
  /\ transfer \in [Transfer -> [dir : Dir, amount : Amount, from : Sender]]
  /\ tip \in [Chain -> Nat] /\ at \in [Transfer -> Nat]
  /\ \A s \in Transfer : at[s] <= tip[Home(s)]
  /\ known \subseteq Tx /\ IsFiniteSet(known)
  /\ \A t \in known : t.for \in Transfer => t.chain = Away(t.for)
  /\ mined \in [Chain -> Seq(Row)]
  /\ \A c \in Chain : \A i \in 1..Len(mined[c]) :
       /\ mined[c][i].tx.chain = c /\ mined[c][i].tx.nonce = i - 1
       /\ mined[c][i].height <= tip[c]

\* A tick knows tips that were, and works on items that are still open.
Ticking ==
  tick # None =>
    /\ tick \in Tick /\ book.next \in [Chain -> Nat]
    /\ \A c \in Chain : tick.tips[c] <= tip[c]
    /\ tick.queue \subseteq Open(book)
    /\ (tick.item \in Transfer => tick.item \in tick.queue)

\* What an item says of the chains.
Linked(b) ==
  \A s \in Transfer : Has(b, s) =>
    /\ b.items[s].checkFrom <= tip[Away(s)]
    /\ (b.items[s].status = "sent" => b.items[s].tx \in Sent(s))
    /\ (b.items[s].age < Day => Sent(s) # {})

\* The cursors start behind a tip.
Begun(b) == \A c \in Chain : b.next[c] # 0

FastTyped ==
  /\ Chained /\ book \in Book /\ disk \in Book /\ Ticking
  /\ Linked(book) /\ Linked(disk) /\ Begun(book) /\ Begun(disk)

\* What is in flight is in the book, and young in the file is as young in it.
Counted == Forgotten(book, known) \subseteq unrecorded
OneNonce ==
  \A s \in Transfer \ unrecorded : DirOf(s) = "m2b" => \A t, u \in Sent(s) : t.nonce = u.nonce
Saved ==
  \A s \in Transfer \ unrecorded :
    (Has(disk, s) /\ disk.items[s].age < Day) => (Has(book, s) /\ book.items[s].age <= disk.items[s].age)
Limited == Counted /\ OneNonce /\ Saved /\ LimitsHeld

\* A transfer to Molibra of which nothing was raced, taken back or forgotten.
Sure(s) ==
  /\ s \in Transfer /\ DirOf(s) = "b2m" /\ s \notin raced /\ "molibra" \notin undone
  /\ ~(s \in unrecorded /\ "eth" \in undone)

Quiet ==
  "molibra" \notin undone => \A t \in known : t.chain = "molibra" => t.nonce <= Len(mined["molibra"])
Spent ==
  \A s \in Transfer : (Sure(s) /\ Payouts(s) # {}) => \A t \in Sent(s) : t.nonce < Len(mined["molibra"])
Once == \A s \in Transfer : Sure(s) => \A i, j \in Payouts(s) : i = j
AboutToPay == (tick # None /\ tick.at = "pay" /\ Sure(tick.item)) => Payouts(tick.item) = {}
InTips ==
  tick # None => \A s \in Transfer : Sure(s) =>
    \A i \in Payouts(s) : mined["molibra"][i].height <= tick.tips["molibra"]
Searched(b) ==
  \A s \in Transfer : (Sure(s) /\ Has(b, s)) =>
    \A i \in Payouts(s) : b.items[s].checkFrom <= mined["molibra"][i].height
Passed(b) ==
  \A s \in Transfer : (Sure(s) /\ Sent(s) # {} /\ ~Has(b, s)) =>
    (b.next["eth"] = None \/ b.next["eth"] > at[s])
Deep ==
  \A s \in Transfer : (Home(s) \notin undone /\ (Sent(s) # {} \/ Has(book, s) \/ Has(disk, s))) =>
    (at[s] # 0 /\ at[s] <= tip[Home(s)] - Confirmations[Home(s)])
Filed == \A s \in Transfer : Has(book, s) => Has(disk, s)
Guarded ==
  /\ Quiet /\ Spent /\ Once /\ AboutToPay /\ InTips /\ Searched(book) /\ Searched(disk)
  /\ Passed(book) /\ Passed(disk) /\ Deep /\ Filed

FastInv == FastTyped /\ Limited /\ Guarded

-----------------------------------------------------------------------------
LEMMA Directions ==
  ASSUME Chained, NEW s \in Transfer
  PROVE  /\ DirOf(s) \in {"m2b", "b2m"} /\ DirOf(s) \in Dir
         /\ Home(s) \in Chain /\ Away(s) \in Chain
         /\ (DirOf(s) = "m2b" => Home(s) = "molibra" /\ Away(s) = "eth")
         /\ (DirOf(s) = "b2m" => Home(s) = "eth" /\ Away(s) = "molibra")
         /\ transfer[s].amount \in Nat /\ at[s] \in Nat
  BY FastAssumption DEF Chained, DirOf, Home, Away, SourceOf, TargetOf, Chain

LEMMA Chains == /\ Chain = {"molibra", "eth"} /\ "molibra" \in Chain /\ "eth" \in Chain
                /\ IsFiniteSet(Chain)
<1>1. /\ IsFiniteSet({}) /\ IsFiniteSet({} \cup {"molibra"})
      /\ IsFiniteSet(({} \cup {"molibra"}) \cup {"eth"})
  BY FS_EmptySet, FS_AddElement
<1>2. Chain = ({} \cup {"molibra"}) \cup {"eth"}
  BY DEF Chain
<1> QED BY <1>1, <1>2 DEF Chain

LEMMA ItemOf ==
  ASSUME NEW b \in Book, NEW s \in Transfer, Has(b, s)
  PROVE  /\ b.items[s] \in Item /\ b.items[s].status \in Status /\ b.items[s].age \in 0..Day
         /\ b.items[s].seen \in Nat /\ b.items[s].checkFrom \in Nat /\ b.items[s].block \in Nat
         /\ b.items[s].fee \in Nat \cup {None} /\ b.items[s].tx \in Tx \cup {None}
<1>1. b.items[s] \in Item
  BY DEF Book, Has
<1> QED BY <1>1 DEF Item

LEMMA MinedRow ==
  ASSUME Chained, NEW c \in Chain, NEW i \in 1..Len(mined[c])
  PROVE  /\ mined[c][i].tx \in known /\ mined[c][i].tx.chain = c /\ mined[c][i].tx.nonce = i - 1
         /\ mined[c][i].height \in Nat /\ mined[c][i].height <= tip[c] /\ mined[c][i].ok \in BOOLEAN
         /\ i \in Nat
<1>1. mined[c] \in Seq(Row)
  BY DEF Chained
<1>2. mined[c][i] \in Row
  BY <1>1, ElementOfSeq
<1>3. Len(mined[c]) \in Nat
  BY <1>1, LenProperties
<1> QED BY <1>2, <1>3 DEF Chained, Row

LEMMA PayoutsSay ==
  ASSUME Chained, NEW s \in Transfer, NEW i \in Payouts(s)
  PROVE  /\ i \in 1..Len(mined[Away(s)]) /\ i \in Nat
         /\ mined[Away(s)][i].tx \in Sent(s) /\ mined[Away(s)][i].tx.nonce = i - 1
         /\ mined[Away(s)][i].height \in Nat /\ mined[Away(s)][i].height <= tip[Away(s)]
<1>1. Away(s) \in Chain
  BY Directions
<1>2. mined[Away(s)] \in Seq(Row)
  BY <1>1 DEF Chained
<1>3. DOMAIN mined[Away(s)] = 1..Len(mined[Away(s)])
  BY <1>2, LenProperties
<1>4. i \in 1..Len(mined[Away(s)]) /\ mined[Away(s)][i].tx.for = s
  BY <1>3 DEF Payouts
<1> QED BY <1>1, <1>4, MinedRow DEF Sent

LEMMA AtMostOne ==
  ASSUME NEW S, \A i, j \in S : i = j
  PROVE  ~(Cardinality(S) > 1)
<1>1. CASE S = {}
  BY <1>1, FS_EmptySet
<1>2. CASE S # {}
  <2>1. PICK x \in S : TRUE
    BY <1>2
  <2>2. S = {x}
    BY <2>1
  <2> QED BY <2>2, FS_Singleton
<1> QED BY <1>1, <1>2

\* What the bot promises follows from what it keeps.
LEMMA PaidOnce == FastInv => PaidTwiceOnlyIf
<1> SUFFICES ASSUME FastInv, NEW s \in Transfer, Cardinality(Payouts(s)) > 1
             PROVE  IF DirOf(s) = "m2b" THEN s \in unrecorded
                    ELSE s \in raced \/ "molibra" \in undone \/ (s \in unrecorded /\ "eth" \in undone)
  BY DEF PaidTwiceOnlyIf
<1>1. Chained /\ OneNonce /\ Once
  BY DEF FastInv, FastTyped, Limited, Guarded
<1>2. CASE DirOf(s) = "m2b" /\ s \notin unrecorded
  <2>1. \A i, j \in Payouts(s) : i = j
    BY <1>1, <1>2, PayoutsSay DEF OneNonce
  <2> QED BY <2>1, AtMostOne
<1>3. CASE DirOf(s) = "b2m" /\ Sure(s)
  <2>1. \A i, j \in Payouts(s) : i = j
    BY <1>1, <1>3 DEF Once
  <2> QED BY <2>1, AtMostOne
<1> QED BY <1>1, <1>2, <1>3, Directions DEF Sure

-----------------------------------------------------------------------------
(* Amounts.                                                                *)

LEMMA AmountsAdd ==
  ASSUME Chained, NEW S \in SUBSET Transfer
  PROVE  /\ AmountOf(S) \in Nat
         /\ \A T \in SUBSET S : AmountOf(T) <= AmountOf(S)
         /\ \A s \in Transfer : AmountOf(S \cup {s}) <= AmountOf(S) + transfer[s].amount
<1> DEFINE f == [s \in Transfer |-> transfer[s].amount]
<1>1. \A s \in Transfer : f[s] \in Nat
  BY Directions
<1>2. \A T : AmountOf(T) = SumFunctionOnSet(f, T)
  BY DEF AmountOf
<1> HIDE DEF f
<1>3. IsFiniteSet(S)
  BY FastAssumption, FS_Subset
<1>4. SumFunctionOnSet(f, S) \in Nat
  BY <1>1, <1>3, SumNat
<1>5. ASSUME NEW T \in SUBSET S PROVE SumFunctionOnSet(f, T) <= SumFunctionOnSet(f, S)
  BY <1>1, <1>3, SumSubset
<1>6. ASSUME NEW s \in Transfer, s \notin S
      PROVE  SumFunctionOnSet(f, S \cup {s}) = f[s] + SumFunctionOnSet(f, S)
  <2>1. \A x \in S \cup {s} : f[x] \in Int
    BY <1>1
  <2> QED BY <1>3, <1>6, <2>1, SumInsert
<1>7. ASSUME NEW s \in Transfer
      PROVE  SumFunctionOnSet(f, S \cup {s}) <= SumFunctionOnSet(f, S) + transfer[s].amount
  <2>1. f[s] = transfer[s].amount /\ f[s] \in Nat
    BY <1>1 DEF f
  <2>2. CASE s \in S
    <3>1. S \cup {s} = S
      BY <2>2
    <3>2. SumFunctionOnSet(f, S \cup {s}) = SumFunctionOnSet(f, S)
      BY <3>1
    <3> QED BY <2>1, <3>2, <1>4
  <2>3. CASE s \notin S
    BY <2>1, <2>3, <1>4, <1>6
  <2> QED BY <2>2, <2>3
<1> QED BY <1>2, <1>4, <1>5, <1>7

-----------------------------------------------------------------------------
(* Steps of the chains, which the bot does not see.                        *)

WorldStep ==
  /\ UNCHANGED <<book, disk, tick, known, unrecorded, transfer>>
  /\ \A c \in Chain : tip[c] <= tip'[c]
  /\ raced \subseteq raced' /\ undone \subseteq undone'

LEMMA WorldTyped ==
  ASSUME FastInv, WorldStep, Chained'
  PROVE  FastTyped' /\ Limited' /\ Filed'
<1>1. Chained /\ Chained'
  BY DEF FastInv, FastTyped
<1>2. UNCHANGED <<book, disk, tick, known, unrecorded, transfer>>
  BY DEF WorldStep
<1>3. tip \in [Chain -> Nat] /\ tip' \in [Chain -> Nat] /\ \A c \in Chain : tip[c] <= tip'[c]
  BY <1>1 DEF WorldStep, Chained
<1>4. book' \in Book /\ disk' \in Book
  BY <1>2 DEF FastInv, FastTyped
<1>5. Ticking'
  <2>1. Ticking
    BY DEF FastInv, FastTyped
  <2>2. Open(book)' = Open(book)
    BY <1>2 DEF Open, Has
  <2>3. tick # None => tick.tips \in [Chain -> Nat]
    BY <2>1 DEF Ticking, Tick
  <2>4. tick # None => \A c \in Chain : tick.tips[c] <= tip'[c]
    BY <1>3, <2>1, <2>3 DEF Ticking
  <2> QED BY <1>2, <2>1, <2>2, <2>4 DEF Ticking
<1>6. \A s \in Transfer : Away(s)' = Away(s) /\ DirOf(s)' = DirOf(s) /\ Away(s) \in Chain
  BY <1>1, <1>2, Directions DEF Away, DirOf
<1>7. ASSUME NEW b, NEW b2, b2 = b, b \in Book, Linked(b)
      PROVE  \A s \in Transfer : Has(b2, s) =>
               /\ b2.items[s].checkFrom <= tip'[Away(s)]
               /\ (b2.items[s].status = "sent" => b2.items[s].tx \in Sent(s))
               /\ (b2.items[s].age < Day => Sent(s) # {})
  <2> SUFFICES ASSUME NEW s \in Transfer, Has(b, s)
               PROVE  b.items[s].checkFrom <= tip'[Away(s)]
    BY <1>7 DEF Linked
  <2>1. b.items[s].checkFrom \in Nat /\ b.items[s].checkFrom <= tip[Away(s)]
    BY <1>7, ItemOf DEF Linked
  <2> QED BY <1>3, <1>6, <2>1
<1>8. \A s \in Transfer : Sent(s)' = Sent(s)
  BY <1>2 DEF Sent
<1>9. Linked(book)' /\ Linked(disk)'
  <2>1. Linked(book) /\ Linked(disk) /\ book \in Book /\ disk \in Book
    BY DEF FastInv, FastTyped
  <2>2. \A s \in Transfer : Has(book', s) =>
               /\ book'.items[s].checkFrom <= tip'[Away(s)]
               /\ (book'.items[s].status = "sent" => book'.items[s].tx \in Sent(s))
               /\ (book'.items[s].age < Day => Sent(s) # {})
    BY <1>2, <1>7, <2>1
  <2>3. \A s \in Transfer : Has(disk', s) =>
               /\ disk'.items[s].checkFrom <= tip'[Away(s)]
               /\ (disk'.items[s].status = "sent" => disk'.items[s].tx \in Sent(s))
               /\ (disk'.items[s].age < Day => Sent(s) # {})
    BY <1>2, <1>7, <2>1
  <2> QED BY <1>6, <1>8, <2>2, <2>3 DEF Linked, Has
<1>10. Limited'
  <2>1. Counted /\ OneNonce /\ Saved /\ LimitsHeld
    BY DEF FastInv, Limited
  <2>2. Counted'
    BY <1>2, <2>1 DEF Counted, Forgotten, StatusIn, Has
  <2>3. OneNonce'
    BY <1>2, <1>6, <1>8, <2>1 DEF OneNonce
  <2>4. Saved'
    BY <1>2, <2>1 DEF Saved, Has
  <2>5. LimitsHeld'
    BY <1>2, <2>1 DEF LimitsHeld, Has, DirOf, AmountOf
  <2> QED BY <2>2, <2>3, <2>4, <2>5 DEF Limited
<1>11. Filed'
  BY <1>2 DEF FastInv, Guarded, Filed, Has
<1>12. Begun(book)' /\ Begun(disk)'
  BY <1>2 DEF FastInv, FastTyped, Begun
<1> QED BY <1>1, <1>4, <1>5, <1>9, <1>10, <1>11, <1>12 DEF FastTyped

\* A transfer that is sure to be paid once stays so only as long as it was.
LEMMA StillSure ==
  ASSUME UNCHANGED transfer, raced \subseteq raced', undone \subseteq undone', unrecorded \subseteq unrecorded',
         NEW s \in Transfer, Sure(s)'
  PROVE  /\ Sure(s) /\ DirOf(s) = "b2m" /\ Away(s) = "molibra" /\ Away(s)' = "molibra"
         /\ Home(s) = "eth" /\ Home(s)' = "eth"
BY DEF Sure, DirOf, Away, Home, TargetOf, SourceOf

LEMMA SurePayouts ==
  ASSUME NEW s \in Transfer, Sure(s)
  PROVE  /\ Away(s) = "molibra" /\ Home(s) = "eth" /\ DirOf(s) = "b2m"
         /\ Payouts(s) = {i \in DOMAIN mined["molibra"] : mined["molibra"][i].tx.for = s /\ mined["molibra"][i].ok}
BY DEF Sure, DirOf, Away, Home, TargetOf, SourceOf, Payouts

LEMMA WorldGuards ==
  ASSUME FastInv, WorldStep, mined'["molibra"] = mined["molibra"] \/ "molibra" \in undone'
  PROVE  Quiet' /\ Spent' /\ Once' /\ AboutToPay' /\ InTips' /\ Searched(book)' /\ Searched(disk)'
<1>1. /\ UNCHANGED <<book, disk, tick, known, unrecorded, transfer>>
      /\ raced \subseteq raced' /\ undone \subseteq undone'
  BY DEF WorldStep
<1>2. CASE "molibra" \in undone'
  <2>1. \A s \in Transfer : ~Sure(s)'
    BY <1>2 DEF Sure
  <2>2. Sure(tick.item)' => (tick.item)' \in Transfer
    BY DEF Sure
  <2>3. ~Sure(tick.item)'
    BY <1>2 DEF Sure
  <2> QED BY <1>2, <2>1, <2>3 DEF Quiet, Spent, Once, AboutToPay, InTips, Searched
<1>3. CASE "molibra" \notin undone' /\ mined'["molibra"] = mined["molibra"]
  <2>1. ASSUME NEW s \in Transfer, Sure(s)'
        PROVE  Sure(s) /\ Payouts(s)' = Payouts(s) /\ Sent(s)' = Sent(s)
    <3>1. /\ Sure(s)
          /\ Payouts(s) = {i \in DOMAIN mined["molibra"] : mined["molibra"][i].tx.for = s /\ mined["molibra"][i].ok}
      BY <1>1, <2>1, StillSure, SurePayouts
    <3>2. Away(s)' = "molibra"
      BY <1>1, <2>1, StillSure
    <3> QED BY <1>1, <1>3, <3>1, <3>2 DEF Payouts, Sent
  <2>2. Quiet'
    BY <1>1, <1>3 DEF FastInv, Guarded, Quiet
  <2>3. Spent'
    BY <1>3, <2>1 DEF FastInv, Guarded, Spent
  <2>4. Once'
    BY <2>1 DEF FastInv, Guarded, Once
  <2>5. AboutToPay'
    <3>1. Sure(tick.item)' => (tick.item)' \in Transfer /\ (tick.item)' = tick.item
      BY <1>1 DEF Sure
    <3>2. AboutToPay
      BY DEF FastInv, Guarded
    <3>3. SUFFICES ASSUME tick # None, tick.at = "pay", Sure(tick.item)' PROVE Payouts(tick.item)' = {}
      BY <1>1 DEF AboutToPay
    <3>4. tick.item \in Transfer
      BY <3>1, <3>3
    <3>5. Sure(tick.item) /\ Payouts(tick.item)' = Payouts(tick.item)
      BY <1>1, <2>1, <3>3, <3>4
    <3> QED BY <3>2, <3>3, <3>5 DEF AboutToPay
  <2>6. InTips'
    BY <1>1, <1>3, <2>1 DEF FastInv, Guarded, InTips
  <2>7. Searched(book)' /\ Searched(disk)'
    BY <1>1, <1>3, <2>1 DEF FastInv, Guarded, Searched, Has
  <2> QED BY <2>2, <2>3, <2>4, <2>5, <2>6, <2>7
<1> QED BY <1>1, <1>2, <1>3

\* A transfer that was recorded stays where it was, as far as anything rests on it.
LEMMA Anchored ==
  ASSUME FastInv, NEW s \in Transfer, NEW b \in {book, disk}, Sure(s), Sent(s) # {}, ~Has(b, s)
  PROVE  /\ "eth" \notin undone /\ at[s] # 0 /\ at[s] <= tip["eth"] - Confirmations["eth"]
         /\ b.next["eth"] = None \/ b.next["eth"] > at[s]
<1>1. Counted /\ Filed /\ Passed(book) /\ Passed(disk) /\ Deep
  BY DEF FastInv, Limited, Guarded
<1>2. Home(s) = "eth"
  BY SurePayouts
<1>3. s \notin unrecorded => Has(book, s)
  BY <1>1 DEF Counted, Forgotten, StatusIn, Sent
<1>4. "eth" \notin undone
  BY <1>1, <1>3 DEF Filed, Sure
<1> QED BY <1>1, <1>2, <1>4 DEF Deep, Passed

LEMMA WorldPassed ==
  ASSUME FastInv, WorldStep,
         "eth" \notin undone' =>
           \A s \in Transfer : Sure(s) =>
             (at[s] # 0 /\ at[s] <= tip["eth"] - Confirmations["eth"] => at'[s] = at[s])
  PROVE  Passed(book)' /\ Passed(disk)'
<1>1. /\ UNCHANGED <<book, disk, tick, known, unrecorded, transfer>>
      /\ raced \subseteq raced' /\ undone \subseteq undone'
  BY DEF WorldStep
<1>2. ASSUME NEW s \in Transfer, NEW b \in {book, disk}, Sure(s)', Sent(s) # {}, ~Has(b, s)
      PROVE  b.next["eth"] = None \/ b.next["eth"] > at'[s]
  <2>1. Sure(s)
    BY <1>1, <1>2, StillSure
  <2>2. /\ "eth" \notin undone /\ at[s] # 0 /\ at[s] <= tip["eth"] - Confirmations["eth"]
        /\ b.next["eth"] = None \/ b.next["eth"] > at[s]
    BY <1>2, <2>1, Anchored
  <2>3. "eth" \notin undone'
    <3>1. Counted /\ Filed
      BY DEF FastInv, Limited, Guarded
    <3>2. s \in unrecorded
      BY <1>2, <3>1 DEF Counted, Forgotten, StatusIn, Sent, Filed
    <3> QED BY <1>1, <1>2, <3>2 DEF Sure
  <2> QED BY <2>1, <2>2, <2>3
<1>3. \A s \in Transfer : Sent(s)' = Sent(s)
  BY <1>1 DEF Sent
<1> QED BY <1>1, <1>2, <1>3 DEF Passed, Has

LEMMA BlockSays ==
  ASSUME Chained, NEW c \in Chain, Block(c)
  PROVE  tip' \in [Chain -> Nat] /\ tip'[c] = tip[c] + 1 /\ \A d \in Chain : tip[d] <= tip'[d]
BY DEF Chained, Block

LEMMA Places ==
  ASSUME Chained, NEW s \in Transfer
  PROVE  /\ Home(s) \in Chain /\ at[s] \in Nat /\ tip[Home(s)] \in Nat /\ at[s] <= tip[Home(s)]
         /\ Confirmations[Home(s)] \in Nat
<1>1. Home(s) \in Chain
  BY Directions
<1> QED BY <1>1, FastAssumption DEF Chained

LEMMA EmptyBlocks ==
  ASSUME FastInv, NEW c \in Chain, EmptyBlock(c)
  PROVE  FastInv'
<1>1. Chained /\ Deep
  BY DEF FastInv, FastTyped, Guarded
<1>2. UNCHANGED <<book, disk, tick, transfer, at, known, mined, unrecorded, raced, undone>>
  BY DEF EmptyBlock, history
<1>3. tip' \in [Chain -> Nat] /\ \A d \in Chain : tip[d] <= tip'[d]
  BY <1>1, BlockSays DEF EmptyBlock
<1>4. WorldStep
  BY <1>2, <1>3 DEF WorldStep
<1>5. \A s \in Transfer : Home(s) \in Chain /\ Home(s)' = Home(s) /\ Away(s)' = Away(s) /\ Sent(s)' = Sent(s)
  BY <1>1, <1>2, Directions DEF Home, Away, DirOf, Sent
<1>6. Chained'
  <2>1. \A s \in Transfer : at'[s] <= tip'[Home(s)']
    BY <1>1, <1>2, <1>3, <1>5 DEF Chained
  <2>2. \A d \in Chain : \A i \in 1..Len(mined[d]) : mined[d][i].height <= tip'[d]
    <3> TAKE d \in Chain
    <3> TAKE i \in 1..Len(mined[d])
    <3>1. /\ mined[d][i].height \in Nat /\ mined[d][i].height <= tip[d] /\ tip[d] \in Nat
          /\ tip'[d] \in Nat
      BY <1>1, <1>3, MinedRow DEF Chained
    <3> QED BY <1>3, <3>1
  <2>3. Row' = Row
    BY <1>2 DEF Row
  <2> QED BY <1>1, <1>2, <1>3, <1>5, <2>1, <2>2, <2>3 DEF Chained
<1>7. FastTyped' /\ Limited' /\ Filed'
  BY <1>4, <1>6, WorldTyped
<1>8. Quiet' /\ Spent' /\ Once' /\ AboutToPay' /\ InTips' /\ Searched(book)' /\ Searched(disk)'
  BY <1>2, <1>4, WorldGuards
<1>9. Passed(book)' /\ Passed(disk)'
  BY <1>2, <1>4, WorldPassed
<1>10. Deep'
  <2>1. ASSUME NEW s \in Transfer, at[s] # 0, at[s] <= tip[Home(s)] - Confirmations[Home(s)]
        PROVE  at[s] <= tip'[Home(s)] - Confirmations[Home(s)]
    <3>1. /\ Home(s) \in Chain /\ at[s] \in Nat /\ tip[Home(s)] \in Nat
          /\ Confirmations[Home(s)] \in Nat
          /\ tip'[Home(s)] \in Nat /\ tip[Home(s)] <= tip'[Home(s)]
      BY <1>1, <1>3, Places
    <3> QED BY <2>1, <3>1
  <2> QED BY <1>1, <1>2, <1>5, <2>1 DEF Deep, Has
<1> QED BY <1>7, <1>8, <1>9, <1>10 DEF FastInv, Guarded

LEMMA Arrivals ==
  ASSUME FastInv, NEW x \in Transfer, Arrive(x)
  PROVE  FastInv'
<1>1. Chained /\ Deep
  BY DEF FastInv, FastTyped, Guarded
<1>2. UNCHANGED <<book, disk, tick, transfer, known, mined, unrecorded, raced, undone>>
  BY DEF Arrive, history
<1>3. tip' \in [Chain -> Nat] /\ \A d \in Chain : tip[d] <= tip'[d]
  BY <1>1, BlockSays, Directions DEF Arrive
<1>4. WorldStep
  BY <1>2, <1>3 DEF WorldStep
<1>5. \A s \in Transfer : Home(s) \in Chain /\ Home(s)' = Home(s) /\ Away(s)' = Away(s) /\ Sent(s)' = Sent(s)
  BY <1>1, <1>2, Directions DEF Home, Away, DirOf, Sent
<1>6. /\ at' \in [Transfer -> Nat] /\ at[x] = 0 /\ at'[x] = tip'[Home(x)]
      /\ \A s \in Transfer \ {x} : at'[s] = at[s]
  BY <1>1, <1>3, <1>5 DEF Arrive, Chained
<1>7. Chained'
  <2>1. \A s \in Transfer : at'[s] <= tip'[Home(s)]
    <3> TAKE s \in Transfer
    <3>1. /\ at[s] \in Nat /\ tip[Home(s)] \in Nat /\ at[s] <= tip[Home(s)]
          /\ tip'[Home(s)] \in Nat /\ tip[Home(s)] <= tip'[Home(s)]
      BY <1>1, <1>3, Places
    <3>2. s = x \/ at'[s] = at[s]
      BY <1>6
    <3> QED BY <1>6, <3>1, <3>2
  <2>2. \A d \in Chain : \A i \in 1..Len(mined[d]) : mined[d][i].height <= tip'[d]
    <3> TAKE d \in Chain
    <3> TAKE i \in 1..Len(mined[d])
    <3>1. /\ mined[d][i].height \in Nat /\ mined[d][i].height <= tip[d] /\ tip[d] \in Nat
          /\ tip'[d] \in Nat
      BY <1>1, <1>3, MinedRow DEF Chained
    <3> QED BY <1>3, <3>1
  <2>3. Row' = Row
    BY <1>2 DEF Row
  <2> QED BY <1>1, <1>2, <1>3, <1>5, <1>6, <2>1, <2>2, <2>3 DEF Chained
<1>8. FastTyped' /\ Limited' /\ Filed'
  BY <1>4, <1>7, WorldTyped
<1>9. Quiet' /\ Spent' /\ Once' /\ AboutToPay' /\ InTips' /\ Searched(book)' /\ Searched(disk)'
  BY <1>2, <1>4, WorldGuards
<1>10. Passed(book)' /\ Passed(disk)'
  BY <1>2, <1>4, <1>6, WorldPassed
<1>11. Deep'
  <2>1. ASSUME NEW s \in Transfer, at[s] # 0, at[s] <= tip[Home(s)] - Confirmations[Home(s)]
        PROVE  at'[s] = at[s] /\ at'[s] <= tip'[Home(s)] - Confirmations[Home(s)]
    <3>1. /\ Home(s) \in Chain /\ at[s] \in Nat /\ tip[Home(s)] \in Nat
          /\ Confirmations[Home(s)] \in Nat
          /\ tip'[Home(s)] \in Nat /\ tip[Home(s)] <= tip'[Home(s)]
      BY <1>1, <1>3, Places
    <3>2. at'[s] = at[s]
      BY <1>6, <2>1
    <3> QED BY <2>1, <3>1, <3>2
  <2> QED BY <1>1, <1>2, <1>5, <2>1 DEF Deep, Has
<1> QED BY <1>8, <1>9, <1>10, <1>11 DEF FastInv, Guarded

LEMMA Vanishings ==
  ASSUME FastInv, NEW x \in Transfer, Vanish(x)
  PROVE  FastInv'
<1>1. Chained /\ Deep
  BY DEF FastInv, FastTyped, Guarded
<1>2. UNCHANGED <<book, disk, tick, transfer, tip, known, mined, unrecorded, raced>>
  BY DEF Vanish
<1>3. undone \subseteq undone' /\ (at[x] <= tip[Home(x)] - Confirmations[Home(x)] => Home(x) \in undone')
  <2>1. Home(x) \in Chain
    BY <1>1, Directions
  <2>2. at[x] \in Nat /\ tip[Home(x)] \in Nat /\ Confirmations[Home(x)] \in Nat
    BY <1>1, <2>1, FastAssumption DEF Chained
  <2> QED BY <2>2 DEF Vanish
<1>4. WorldStep
  BY <1>1, <1>2, <1>3 DEF WorldStep, Chained
<1>5. \A s \in Transfer : Home(s) \in Chain /\ Home(s)' = Home(s) /\ Away(s)' = Away(s) /\ Sent(s)' = Sent(s)
  BY <1>1, <1>2, Directions DEF Home, Away, DirOf, Sent
<1>6. at' \in [Transfer -> Nat] /\ at'[x] = 0 /\ \A s \in Transfer \ {x} : at'[s] = at[s]
  BY <1>1 DEF Vanish, Chained
<1>7. Chained'
  <2>1. \A s \in Transfer : at'[s] <= tip[Home(s)]
    <3> TAKE s \in Transfer
    <3>1. at[s] \in Nat /\ tip[Home(s)] \in Nat /\ at[s] <= tip[Home(s)]
      BY <1>1, Places
    <3>2. at'[s] = 0 \/ at'[s] = at[s]
      BY <1>6
    <3> QED BY <3>1, <3>2
  <2>2. Row' = Row
    BY <1>2 DEF Row
  <2> QED BY <1>1, <1>2, <1>5, <1>6, <2>1, <2>2 DEF Chained
<1>8. FastTyped' /\ Limited' /\ Filed'
  BY <1>4, <1>7, WorldTyped
<1>9. Quiet' /\ Spent' /\ Once' /\ AboutToPay' /\ InTips' /\ Searched(book)' /\ Searched(disk)'
  BY <1>2, <1>4, WorldGuards
<1>10. Passed(book)' /\ Passed(disk)'
  <2>1. ASSUME "eth" \notin undone', NEW s \in Transfer, Sure(s), at[s] <= tip["eth"] - Confirmations["eth"]
        PROVE  at'[s] = at[s]
    <3>1. Home(s) = "eth"
      BY <2>1, SurePayouts
    <3> QED BY <1>3, <1>6, <2>1, <3>1
  <2> QED BY <1>4, <2>1, WorldPassed
<1>11. Deep'
  <2>1. ASSUME NEW s \in Transfer, Home(s) \notin undone', at[s] # 0,
               at[s] <= tip[Home(s)] - Confirmations[Home(s)]
        PROVE  at'[s] = at[s]
    BY <1>3, <1>6, <2>1
  <2> QED BY <1>1, <1>2, <1>3, <1>5, <2>1 DEF Deep, Has
<1> QED BY <1>8, <1>9, <1>10, <1>11 DEF FastInv, Guarded

\* A payout is mined behind those before it.
LEMMA MineSays ==
  ASSUME Chained, NEW t, Mine(t)
  PROVE  LET c == t.chain
             n == Len(mined[c])
         IN /\ t \in known /\ c \in Chain /\ n \in Nat /\ t.nonce = n
            /\ tip' \in [Chain -> Nat] /\ \A d \in Chain : tip[d] <= tip'[d]
            /\ mined' \in [Chain -> Seq(Row)] /\ \A d \in Chain \ {c} : mined'[d] = mined[d]
            /\ Len(mined'[c]) = n + 1 /\ \A i \in 1..n : mined'[c][i] = mined[c][i]
            /\ mined'[c][n + 1].tx = t /\ mined'[c][n + 1].height = tip'[c]
            /\ raced \subseteq raced' /\ (tick # None /\ t.for \in Transfer => t.for \in raced')
            /\ UNCHANGED <<book, disk, tick, transfer, at, known, unrecorded, undone>>
<1> DEFINE c == t.chain
           n == Len(mined[c])
           row == [tx |-> t, height |-> tip'[c], ok |-> Stock(c) >= t.value]
<1>1. t \in known /\ c \in Chain /\ t.nonce = n
  BY DEF Mine, Chained, Tx
<1>2. tip' \in [Chain -> Nat] /\ \A d \in Chain : tip[d] <= tip'[d]
  BY <1>1, BlockSays DEF Mine
<1>3. mined[c] \in Seq(Row) /\ mined \in [Chain -> Seq(Row)]
  BY <1>1 DEF Chained
<1>4. row \in Row
  BY <1>1, <1>2 DEF Row
<1>5. row.tx = t /\ row.height = tip'[c]
  OBVIOUS
<1>6. mined' = [mined EXCEPT ![c] = Append(mined[c], row)]
  BY DEF Mine
<1>7. /\ raced \subseteq raced' /\ (tick # None /\ t.for \in Transfer => t.for \in raced')
      /\ UNCHANGED <<book, disk, tick, transfer, at, known, unrecorded, undone>>
  BY DEF Mine
<1> HIDE DEF row
<1>8. /\ Append(mined[c], row) \in Seq(Row) /\ Len(Append(mined[c], row)) = n + 1
      /\ \A i \in 1..n : Append(mined[c], row)[i] = mined[c][i]
      /\ Append(mined[c], row)[n + 1] = row
  BY <1>3, <1>4, AppendProperties
<1>9. n \in Nat
  BY <1>3, LenProperties
<1>10. mined'[c] = Append(mined[c], row) /\ \A d \in Chain \ {c} : mined'[d] = mined[d]
  BY <1>1, <1>3, <1>6
<1>11. mined' \in [Chain -> Seq(Row)]
  BY <1>1, <1>3, <1>6, <1>8
<1> QED BY <1>1, <1>2, <1>5, <1>7, <1>8, <1>9, <1>10, <1>11

LEMMA MinesChained ==
  ASSUME FastInv, NEW t, Mine(t)
  PROVE  WorldStep /\ Chained'
<1>1. Chained
  BY DEF FastInv, FastTyped
<1> DEFINE c == t.chain
           n == Len(mined[c])
<1>2. /\ t \in known /\ c \in Chain /\ n \in Nat /\ t.nonce = n
      /\ tip' \in [Chain -> Nat] /\ \A d \in Chain : tip[d] <= tip'[d]
      /\ mined' \in [Chain -> Seq(Row)] /\ \A d \in Chain \ {c} : mined'[d] = mined[d]
      /\ Len(mined'[c]) = n + 1 /\ \A i \in 1..n : mined'[c][i] = mined[c][i]
      /\ mined'[c][n + 1].tx = t /\ mined'[c][n + 1].height = tip'[c] /\ raced \subseteq raced'
      /\ UNCHANGED <<book, disk, tick, transfer, at, known, unrecorded, undone>>
  BY <1>1, MineSays
<1>3. WorldStep
  BY <1>2 DEF WorldStep
<1>4. \A s \in Transfer : Home(s) \in Chain /\ Home(s)' = Home(s) /\ Away(s)' = Away(s)
  BY <1>1, <1>2, Directions DEF Home, Away, DirOf
<1>5. \A s \in Transfer : at'[s] <= tip'[Home(s)]
  <2> TAKE s \in Transfer
  <2>1. /\ at[s] \in Nat /\ tip[Home(s)] \in Nat /\ at[s] <= tip[Home(s)]
        /\ tip'[Home(s)] \in Nat /\ tip[Home(s)] <= tip'[Home(s)] /\ at'[s] = at[s]
    BY <1>1, <1>2, Places
  <2> QED BY <2>1
<1>6. ASSUME NEW d \in Chain, NEW i \in 1..Len(mined'[d])
      PROVE  /\ mined'[d][i].tx.chain = d /\ mined'[d][i].tx.nonce = i - 1
             /\ mined'[d][i].height <= tip'[d]
  <2>1. ASSUME i \in 1..Len(mined[d]), mined'[d][i] = mined[d][i]
        PROVE  /\ mined'[d][i].tx.chain = d /\ mined'[d][i].tx.nonce = i - 1
               /\ mined'[d][i].height <= tip'[d]
    <3>1. /\ mined[d][i].tx.chain = d /\ mined[d][i].tx.nonce = i - 1
          /\ mined[d][i].height \in Nat /\ mined[d][i].height <= tip[d]
      BY <1>1, <2>1, MinedRow
    <3>2. tip[d] \in Nat /\ tip'[d] \in Nat /\ tip[d] <= tip'[d]
      BY <1>1, <1>2 DEF Chained
    <3> QED BY <2>1, <3>1, <3>2
  <2>2. CASE d # c
    BY <1>2, <1>6, <2>1, <2>2
  <2>3. CASE d = c /\ i \in 1..n
    BY <1>2, <2>1, <2>3
  <2>4. CASE d = c /\ i = n + 1
    <3>1. tip'[d] \in Nat
      BY <1>2
    <3> QED BY <1>2, <2>4, <3>1
  <2>5. d = c => i \in 1..(n + 1)
    BY <1>2, <1>6
  <2> QED BY <1>2, <2>2, <2>3, <2>4, <2>5
<1>7. Row' = Row
  BY <1>2 DEF Row
<1> QED BY <1>1, <1>2, <1>3, <1>4, <1>5, <1>6, <1>7 DEF Chained

LEMMA MinesGuarded ==
  ASSUME FastInv, NEW t, Mine(t), t.chain = "molibra"
  PROVE  Quiet' /\ Spent' /\ Once' /\ AboutToPay' /\ InTips' /\ Searched(book)' /\ Searched(disk)'
<1> DEFINE n == Len(mined["molibra"])
<1>1. Chained /\ Chained' /\ WorldStep
  BY MinesChained DEF FastInv, FastTyped
<1>2. Quiet /\ Spent /\ Once /\ AboutToPay /\ InTips /\ Searched(book) /\ Searched(disk)
  BY DEF FastInv, Guarded
<1>3. /\ t \in known /\ n \in Nat /\ t.nonce = n
      /\ tip' \in [Chain -> Nat] /\ \A d \in Chain : tip[d] <= tip'[d]
      /\ Len(mined'["molibra"]) = n + 1 /\ \A i \in 1..n : mined'["molibra"][i] = mined["molibra"][i]
      /\ mined'["molibra"][n + 1].tx = t /\ mined'["molibra"][n + 1].height = tip'["molibra"]
      /\ raced \subseteq raced' /\ (tick # None /\ t.for \in Transfer => t.for \in raced')
      /\ UNCHANGED <<book, disk, tick, transfer, at, known, unrecorded, undone>>
  BY <1>1, MineSays
<1>4. mined["molibra"] \in Seq(Row) /\ mined'["molibra"] \in Seq(Row')
  BY <1>1, Chains DEF Chained
<1>5. DOMAIN mined["molibra"] = 1..n /\ DOMAIN mined'["molibra"] = 1..(n + 1)
  BY <1>3, <1>4, LenProperties
<1>6. \A u \in known : u.nonce \in Nat
  BY <1>1 DEF Chained, Tx
<1>7. ASSUME NEW s \in Transfer, Sure(s)'
      PROVE  Sure(s) /\ Sent(s)' = Sent(s) /\ Away(s)' = "molibra" /\ Away(s) = "molibra"
  BY <1>3, <1>7, StillSure DEF Sent
<1>8. ASSUME NEW s \in Transfer, Sure(s)', NEW i \in Payouts(s)'
      PROVE  \/ i \in Payouts(s) /\ i \in 1..n /\ mined'["molibra"][i] = mined["molibra"][i]
             \/ i = n + 1 /\ t.for = s /\ tick = None
  <2>1. i \in 1..(n + 1) /\ mined'["molibra"][i].tx.for = s /\ mined'["molibra"][i].ok
    BY <1>5, <1>7, <1>8 DEF Payouts
  <2>2. CASE i \in 1..n
    <3>1. mined'["molibra"][i] = mined["molibra"][i]
      BY <1>3, <2>2
    <3> QED BY <1>5, <1>7, <1>8, <2>1, <2>2, <3>1 DEF Payouts
  <2>3. CASE i = n + 1
    <3>1. t.for = s
      BY <1>3, <2>1, <2>3
    <3>2. s \notin raced'
      BY <1>8 DEF Sure
    <3> QED BY <1>3, <1>8, <2>3, <3>1, <3>2
  <2> QED BY <1>3, <2>1, <2>2, <2>3
<1>9. Quiet'
  <2>1. ASSUME "molibra" \notin undone, NEW u \in known, u.chain = "molibra" PROVE u.nonce <= n + 1
    BY <1>2, <1>3, <1>6, <2>1 DEF Quiet
  <2> QED BY <1>3, <2>1 DEF Quiet
<1>10. ASSUME NEW s \in Transfer, Sure(s)', t.for = s PROVE Payouts(s) = {}
  <2>1. Sure(s) /\ t \in Sent(s)
    BY <1>3, <1>7, <1>10 DEF Sent
  <2> QED BY <1>2, <1>3, <2>1 DEF Spent
<1>11. Spent'
  <2>1. ASSUME NEW s \in Transfer, Sure(s)', Payouts(s)' # {}, NEW u \in Sent(s) PROVE u.nonce < n + 1
    <3>1. Sure(s) /\ u \in known /\ u.nonce \in Nat /\ u.for = s
      BY <1>6, <1>7, <2>1 DEF Sent
    <3>2. CASE Payouts(s) # {}
      <4>1. u.nonce < n
        BY <1>2, <2>1, <3>1, <3>2 DEF Spent
      <4> QED BY <1>3, <3>1, <4>1
    <3>3. CASE Payouts(s) = {}
      <4>1. u.chain = "molibra"
        BY <1>1, <1>7, <2>1, <3>1 DEF Chained
      <4>2. "molibra" \notin undone
        BY <3>1 DEF Sure
      <4>3. u.nonce <= n
        BY <1>2, <3>1, <4>1, <4>2 DEF Quiet
      <4> QED BY <1>3, <3>1, <4>3
    <3> QED BY <3>2, <3>3
  <2> QED BY <1>3, <1>7, <2>1 DEF Spent
<1>12. Once'
  <2>1. ASSUME NEW s \in Transfer, Sure(s)', NEW i \in Payouts(s)', NEW j \in Payouts(s)' PROVE i = j
    <3>1. CASE t.for = s
      BY <1>8, <1>10, <2>1, <3>1
    <3>2. CASE t.for # s
      <4>1. i \in Payouts(s) /\ j \in Payouts(s) /\ Sure(s)
        BY <1>7, <1>8, <2>1, <3>2
      <4> QED BY <1>2, <4>1 DEF Once
    <3> QED BY <3>1, <3>2
  <2> QED BY <2>1 DEF Once
<1>13. AboutToPay'
  <2>1. SUFFICES ASSUME tick # None, tick.at = "pay", Sure(tick.item)', NEW i \in Payouts(tick.item)'
                 PROVE  FALSE
    BY <1>3 DEF AboutToPay
  <2>2. tick.item \in Transfer /\ Sure(tick.item)
    BY <1>3, <1>7, <2>1 DEF Sure
  <2>3. i \in Payouts(tick.item)
    BY <1>3, <1>8, <2>1, <2>2
  <2> QED BY <1>2, <2>1, <2>2, <2>3 DEF AboutToPay
<1>14. InTips'
  <2>1. ASSUME tick # None, NEW s \in Transfer, Sure(s)', NEW i \in Payouts(s)'
        PROVE  mined'["molibra"][i].height <= tick.tips["molibra"]
    BY <1>2, <1>7, <1>8, <2>1 DEF InTips
  <2> QED BY <1>3, <2>1 DEF InTips
<1>15. ASSUME NEW b \in Book, Searched(b), Linked(b),
              NEW s \in Transfer, Sure(s)', Has(b, s), NEW i \in Payouts(s)'
       PROVE  b.items[s].checkFrom <= mined'["molibra"][i].height
  <2>1. Sure(s) /\ Away(s) = "molibra"
    BY <1>7, <1>15
  <2>2. CASE i \in Payouts(s) /\ mined'["molibra"][i] = mined["molibra"][i]
    BY <1>15, <2>1, <2>2 DEF Searched
  <2>3. CASE i = n + 1
    <3>1. b.items[s].checkFrom \in Nat /\ b.items[s].checkFrom <= tip["molibra"]
      BY <1>15, <2>1, ItemOf DEF Linked
    <3>2. tip["molibra"] \in Nat /\ tip'["molibra"] \in Nat /\ tip["molibra"] <= tip'["molibra"]
      BY <1>1, <1>3, Chains DEF Chained
    <3> QED BY <1>3, <2>3, <3>1, <3>2
  <2> QED BY <1>8, <1>15, <2>2, <2>3
<1>16. Searched(book)' /\ Searched(disk)'
  <2>1. book \in Book /\ disk \in Book /\ Linked(book) /\ Linked(disk)
    BY DEF FastInv, FastTyped
  <2>2. \A s \in Transfer : Sure(s)' /\ Has(book, s) =>
          \A i \in Payouts(s)' : book.items[s].checkFrom <= mined'["molibra"][i].height
    BY <1>2, <1>15, <2>1
  <2>3. \A s \in Transfer : Sure(s)' /\ Has(disk, s) =>
          \A i \in Payouts(s)' : disk.items[s].checkFrom <= mined'["molibra"][i].height
    BY <1>2, <1>15, <2>1
  <2> QED BY <1>3, <2>2, <2>3 DEF Searched, Has
<1> QED BY <1>9, <1>11, <1>12, <1>13, <1>14, <1>16

LEMMA Mines ==
  ASSUME FastInv, NEW t, Mine(t)
  PROVE  FastInv'
<1>1. Chained /\ Chained' /\ WorldStep
  BY MinesChained DEF FastInv, FastTyped
<1>2. /\ t.chain \in Chain /\ \A d \in Chain \ {t.chain} : mined'[d] = mined[d]
      /\ tip' \in [Chain -> Nat] /\ \A d \in Chain : tip[d] <= tip'[d]
      /\ UNCHANGED <<book, disk, tick, transfer, at, known, unrecorded, undone>>
  BY <1>1, MineSays
<1>3. FastTyped' /\ Limited' /\ Filed'
  BY <1>1, WorldTyped
<1>4. Quiet' /\ Spent' /\ Once' /\ AboutToPay' /\ InTips' /\ Searched(book)' /\ Searched(disk)'
  <2>1. CASE t.chain = "molibra"
    BY <2>1, MinesGuarded
  <2>2. CASE t.chain # "molibra"
    <3>1. mined'["molibra"] = mined["molibra"]
      BY <1>2, <2>2, Chains
    <3> QED BY <1>1, <3>1, WorldGuards
  <2> QED BY <2>1, <2>2
<1>5. Passed(book)' /\ Passed(disk)'
  BY <1>1, <1>2, WorldPassed
<1>6. Deep'
  <2>1. ASSUME NEW s \in Transfer, at[s] # 0, at[s] <= tip[Home(s)] - Confirmations[Home(s)]
        PROVE  at[s] <= tip'[Home(s)] - Confirmations[Home(s)]
    <3>1. /\ Home(s) \in Chain /\ at[s] \in Nat /\ tip[Home(s)] \in Nat
          /\ Confirmations[Home(s)] \in Nat
          /\ tip'[Home(s)] \in Nat /\ tip[Home(s)] <= tip'[Home(s)]
      BY <1>1, <1>2, Places
    <3> QED BY <2>1, <3>1
  <2>2. \A s \in Transfer : Home(s)' = Home(s) /\ Sent(s)' = Sent(s)
    BY <1>2 DEF Home, DirOf, Sent
  <2>3. Deep
    BY DEF FastInv, Guarded
  <2> QED BY <1>2, <2>1, <2>2, <2>3 DEF Deep, Has
<1> QED BY <1>3, <1>4, <1>5, <1>6 DEF FastInv, Guarded

LEMMA Undoings ==
  ASSUME FastInv, NEW c \in Chain, Undo(c)
  PROVE  FastInv'
<1>1. Chained /\ Deep
  BY DEF FastInv, FastTyped, Guarded
<1>2. /\ UNCHANGED <<book, disk, tick, transfer, tip, at, known, unrecorded, raced>>
      /\ undone' = undone \cup {c}
  BY DEF Undo
<1>3. mined[c] \in Seq(Row) /\ mined \in [Chain -> Seq(Row)] /\ mined[c] # << >>
  BY <1>1 DEF Chained, Undo
<1> DEFINE n == Len(mined[c])
           rest == SubSeq(mined[c], 1, n - 1)
<1>4. n \in Nat /\ n >= 1 /\ \A i \in 1..n : mined[c][i] \in Row
  BY <1>3, LenProperties, ElementOfSeq, EmptySeq
<1>5. rest \in Seq(Row) /\ Len(rest) = n - 1 /\ \A i \in 1..(n - 1) : rest[i] = mined[c][i]
  <2> DEFINE k == n - 1
  <2>1. k \in Nat /\ \A i \in 1..k : mined[c][i] \in Row
    BY <1>4
  <2> HIDE DEF k
  <2>2. /\ SubSeq(mined[c], 1, k) \in Seq(Row)
        /\ Len(SubSeq(mined[c], 1, k)) = IF 1 <= k THEN k - 1 + 1 ELSE 0
        /\ \A i \in 1 .. k - 1 + 1 : SubSeq(mined[c], 1, k)[i] = mined[c][1 + i - 1]
    BY <2>1, SubSeqProperties
  <2>3. SubSeq(mined[c], 1, k) \in Seq(Row) /\ Len(SubSeq(mined[c], 1, k)) = k
        /\ \A i \in 1..k : SubSeq(mined[c], 1, k)[i] = mined[c][i]
    BY <2>1, <2>2
  <2> QED BY <2>3 DEF k
<1>6. mined' = [mined EXCEPT ![c] = rest]
  BY DEF Undo, Front
<1> HIDE DEF rest
<1>7. /\ mined' \in [Chain -> Seq(Row)] /\ mined'[c] = rest
      /\ \A d \in Chain \ {c} : mined'[d] = mined[d]
  BY <1>3, <1>5, <1>6
<1>8. WorldStep
  BY <1>1, <1>2 DEF WorldStep, Chained
<1>9. \A s \in Transfer : Home(s)' = Home(s) /\ Away(s)' = Away(s) /\ Sent(s)' = Sent(s)
  BY <1>2 DEF Home, Away, DirOf, Sent
<1>10. ASSUME NEW d \in Chain, NEW i \in 1..Len(mined'[d])
       PROVE  /\ mined'[d][i].tx.chain = d /\ mined'[d][i].tx.nonce = i - 1
              /\ mined'[d][i].height <= tip'[d]
  <2>1. i \in 1..Len(mined[d]) /\ mined'[d][i] = mined[d][i]
    <3>1. CASE d = c
      BY <1>4, <1>5, <1>7, <1>10, <3>1
    <3>2. CASE d # c
      BY <1>7, <1>10, <3>2
    <3> QED BY <3>1, <3>2
  <2> QED BY <1>1, <1>2, <2>1, MinedRow
<1>11. Row' = Row
  BY <1>2 DEF Row
<1>12. Chained'
  BY <1>1, <1>2, <1>7, <1>9, <1>10, <1>11 DEF Chained
<1>13. FastTyped' /\ Limited' /\ Filed'
  BY <1>8, <1>12, WorldTyped
<1>14. Quiet' /\ Spent' /\ Once' /\ AboutToPay' /\ InTips' /\ Searched(book)' /\ Searched(disk)'
  <2>1. mined'["molibra"] = mined["molibra"] \/ "molibra" \in undone'
    BY <1>2, <1>7, Chains
  <2> QED BY <1>8, <2>1, WorldGuards
<1>15. Passed(book)' /\ Passed(disk)'
  BY <1>2, <1>8, WorldPassed
<1>16. Deep'
  BY <1>1, <1>2, <1>9 DEF Deep, Has
<1> QED BY <1>13, <1>14, <1>15, <1>16 DEF FastInv, Guarded

-----------------------------------------------------------------------------
(* Steps of the bot, during which the chains stand still.                  *)

BotStep ==
  /\ UNCHANGED <<transfer, tip, at, mined, raced, undone>>
  /\ known \subseteq known' /\ unrecorded \subseteq unrecorded'

LEMMA BotFrame ==
  ASSUME BotStep, NEW s \in Transfer
  PROVE  /\ DirOf(s)' = DirOf(s) /\ Home(s)' = Home(s) /\ Away(s)' = Away(s)
         /\ Payouts(s)' = Payouts(s) /\ Sent(s) \subseteq Sent(s)'
         /\ (Sure(s)' => Sure(s) /\ Home(s) = "eth" /\ Away(s) = "molibra" /\ DirOf(s) = "b2m")
<1>1. /\ UNCHANGED <<transfer, mined, raced, undone>> /\ known \subseteq known'
      /\ unrecorded \subseteq unrecorded'
  BY DEF BotStep
<1>2. DirOf(s)' = DirOf(s) /\ Home(s)' = Home(s) /\ Away(s)' = Away(s)
  BY <1>1 DEF DirOf, Home, Away
<1>3. Payouts(s)' = Payouts(s)
  BY <1>1, <1>2 DEF Payouts
<1>4. Sent(s) \subseteq Sent(s)'
  BY <1>1 DEF Sent
<1>5. Sure(s)' => Sure(s) /\ Home(s) = "eth" /\ Away(s) = "molibra" /\ DirOf(s) = "b2m"
  BY <1>1, StillSure
<1> QED BY <1>2, <1>3, <1>4, <1>5

LEMMA BotChained ==
  ASSUME Chained, BotStep, known' \subseteq Tx, IsFiniteSet(known'),
         \A t \in known' \ known : t.for \in Transfer => t.chain = Away(t.for)
  PROVE  Chained'
<1>1. UNCHANGED <<transfer, tip, at, mined, raced, undone>> /\ known \subseteq known'
  BY DEF BotStep
<1>2. \A s \in Transfer : Home(s)' = Home(s) /\ Away(s)' = Away(s)
  BY BotFrame
<1>3. ASSUME NEW c \in Chain PROVE mined[c] \in Seq(Row')
  <2>1. mined[c] \in Seq(Row)
    BY DEF Chained
  <2>2. Row \subseteq Row'
    BY <1>1 DEF Row
  <2> QED BY <2>1, <2>2
<1>4. mined' \in [Chain -> Seq(Row)']
  BY <1>1, <1>3 DEF Chained
<1>5. \A t \in known' : t.for \in Transfer => t.chain = Away(t.for)
  BY DEF Chained
<1>6. \A s \in Transfer : at'[s] <= tip'[Home(s)]
  BY <1>1 DEF Chained
<1>7. transfer' \in [Transfer -> [dir : Dir, amount : Amount, from : Sender]]
      /\ tip' \in [Chain -> Nat] /\ at' \in [Transfer -> Nat]
  BY <1>1 DEF Chained
<1>8. \A c \in Chain : \A i \in 1..Len(mined'[c]) :
        /\ mined'[c][i].tx.chain = c /\ mined'[c][i].tx.nonce = i - 1
        /\ mined'[c][i].height <= tip'[c]
  BY <1>1 DEF Chained
<1> QED BY <1>2, <1>4, <1>5, <1>6, <1>7, <1>8 DEF Chained

LEMMA Blanks == Blank \in Book /\ \A s \in Transfer : ~Has(Blank, s) /\ Blank.next = [c \in Chain |-> None]
BY DEF Blank, Book, Has

\* Where no item is younger, or spoken for, than before, the limits stay.
LEMMA LimitsStay ==
  ASSUME Chained, UNCHANGED transfer, LimitsHeld, book \in Book, book' \in Book,
         \A s \in Transfer : (s \notin unrecorded' /\ Has(book, s)' /\ book'.items[s].age < Day) =>
           (s \notin unrecorded /\ Has(book, s) /\ book.items[s].age <= book'.items[s].age)
  PROVE  LimitsHeld'
<1> DEFINE Recent(window, dirs) ==
      {s \in Transfer \ unrecorded : DirOf(s) \in dirs /\ Has(book, s) /\ book.items[s].age < window}
<1>1. ASSUME NEW window \in Nat, window <= Day, NEW dirs
      PROVE  Recent(window, dirs)' \subseteq Recent(window, dirs)
  <2> SUFFICES ASSUME NEW s \in Transfer, s \notin unrecorded', DirOf(s)' \in dirs, Has(book, s)',
                      book'.items[s].age < window
               PROVE  /\ s \notin unrecorded /\ DirOf(s) \in dirs /\ Has(book, s)
                      /\ book.items[s].age < window
    OBVIOUS
  <2>1. book'.items[s].age \in 0..Day
    <3>1. Has(book', s)
      BY DEF Has
    <3> QED BY <3>1, ItemOf
  <2>2. s \notin unrecorded /\ Has(book, s) /\ book.items[s].age <= book'.items[s].age
    BY <1>1, <2>1, FastAssumption
  <2>3. book.items[s].age \in 0..Day
    BY <2>2, ItemOf
  <2>4. DirOf(s)' = DirOf(s)
    BY DEF DirOf
  <2> QED BY <1>1, <2>1, <2>2, <2>3, <2>4, FastAssumption
<1>2. ASSUME NEW window \in Nat, window <= Day, NEW dirs
      PROVE  /\ AmountOf(Recent(window, dirs))' <= AmountOf(Recent(window, dirs))
             /\ AmountOf(Recent(window, dirs))' \in Nat /\ AmountOf(Recent(window, dirs)) \in Nat
  <2> DEFINE R == Recent(window, dirs)
             Q == Recent(window, dirs)'
  <2>1. Q \subseteq R /\ R \subseteq Transfer
    BY <1>1, <1>2
  <2> HIDE DEF R, Q
  <2>2. AmountOf(Q) <= AmountOf(R) /\ AmountOf(R) \in Nat /\ AmountOf(Q) \in Nat
    BY <2>1, AmountsAdd
  <2>3. AmountOf(R)' = AmountOf(R') /\ AmountOf(Recent(window, dirs))' = AmountOf(Q)
    BY DEF AmountOf, R, Q
  <2> QED BY <2>2, <2>3 DEF R
<1>4. \A dir \in Dir : AmountOf(Recent(Hour, {dir})) <= MaxPerHour
  BY DEF LimitsHeld
<1>5. AmountOf(Recent(Day, Dir)) <= MaxPerDay
  BY DEF LimitsHeld
<1>6. /\ Hour \in Nat /\ Hour <= Day /\ Day \in Nat /\ Day <= Day /\ MaxPerHour \in Nat
      /\ MaxPerDay \in Nat
  BY FastAssumption
<1> HIDE DEF Recent
<1>7. ASSUME NEW dir \in Dir PROVE AmountOf(Recent(Hour, {dir}))' <= MaxPerHour
  <2>1. /\ AmountOf(Recent(Hour, {dir}))' <= AmountOf(Recent(Hour, {dir}))
        /\ AmountOf(Recent(Hour, {dir}))' \in Nat /\ AmountOf(Recent(Hour, {dir})) \in Nat
    BY <1>2, <1>6
  <2> QED BY <1>4, <1>6, <2>1
<1>8. AmountOf(Recent(Day, Dir))' <= MaxPerDay
  <2>1. /\ AmountOf(Recent(Day, Dir))' <= AmountOf(Recent(Day, Dir))
        /\ AmountOf(Recent(Day, Dir))' \in Nat /\ AmountOf(Recent(Day, Dir)) \in Nat
    BY <1>2, <1>6
  <2> QED BY <1>5, <1>6, <2>1
<1> QED BY <1>7, <1>8 DEF LimitsHeld, Recent

\* Between ticks the book and the file say what one of them, or a new one, says.
Reloads(b) ==
  /\ BotStep /\ tick' = None
  /\ b \in Book /\ Linked(b) /\ Searched(b) /\ Passed(b) /\ Begun(b)
  /\ (b = book \/ b = disk \/ b = Blank)
  /\ book' \in Book /\ book'.items = b.items /\ book'.next = b.next
  /\ disk' \in Book /\ disk'.items = b.items /\ disk'.next = b.next
  /\ known' \subseteq Tx /\ IsFiniteSet(known')
  /\ \A t \in known' \ known : t.for = Cold /\ (t.chain = "molibra" => t.nonce = Len(mined["molibra"]))
  /\ Forgotten(book', known') \subseteq unrecorded'

LEMMA ReloadsKeep ==
  ASSUME FastInv, NEW b, Reloads(b)
  PROVE  FastInv'
<1>1. /\ BotStep /\ tick' = None /\ b \in Book /\ Linked(b) /\ Searched(b) /\ Passed(b) /\ Begun(b)
      /\ (b = book \/ b = disk \/ b = Blank)
      /\ book' \in Book /\ book'.items = b.items /\ book'.next = b.next
      /\ disk' \in Book /\ disk'.items = b.items /\ disk'.next = b.next
      /\ known' \subseteq Tx /\ IsFiniteSet(known')
  BY DEF Reloads
<1>2. \A t \in known' \ known : t.for = Cold /\ (t.chain = "molibra" => t.nonce = Len(mined["molibra"]))
  BY DEF Reloads
<1>3. /\ UNCHANGED <<transfer, tip, at, mined, raced, undone>> /\ known \subseteq known'
      /\ unrecorded \subseteq unrecorded'
  BY <1>1 DEF BotStep
<1>4. Chained /\ Limited /\ Guarded
  BY DEF FastInv, FastTyped
<1>5. \A s \in Transfer : Sent(s)' = Sent(s)
  BY <1>2, <1>3, FastAssumption DEF Sent
<1>6. \A s \in Transfer :
        /\ DirOf(s)' = DirOf(s) /\ Home(s)' = Home(s) /\ Away(s)' = Away(s)
        /\ Payouts(s)' = Payouts(s) /\ (Sure(s)' => Sure(s))
  BY <1>1, BotFrame
<1>7. \A s \in Transfer : (Has(book, s)' <=> Has(b, s)) /\ (Has(disk, s)' <=> Has(b, s))
  BY <1>1 DEF Has
<1>8. FastTyped'
  <2>1. Chained'
    BY <1>1, <1>2, <1>4, FastAssumption, BotChained
  <2>2. Linked(book)' /\ Linked(disk)'
    BY <1>1, <1>3, <1>5, <1>6, <1>7 DEF Linked
  <2>3. Ticking'
    BY <1>1 DEF Ticking
  <2>4. Begun(book)' /\ Begun(disk)'
    BY <1>1 DEF Begun
  <2> QED BY <1>1, <2>1, <2>2, <2>3, <2>4 DEF FastTyped
<1>9. Limited'
  <2>1. Counted'
    BY DEF Reloads, Counted, Forgotten, StatusIn, Has
  <2>2. OneNonce'
    BY <1>3, <1>4, <1>5, <1>6 DEF Limited, OneNonce
  <2>3. Saved'
    <3> SUFFICES ASSUME NEW s \in Transfer, Has(disk, s)'
                 PROVE  Has(book, s)' /\ book'.items[s].age <= disk'.items[s].age
      BY DEF Saved
    <3>1. Has(b, s) /\ b.items[s].age \in 0..Day
      BY <1>1, <1>7, ItemOf
    <3> QED BY <1>1, <1>7, <3>1, FastAssumption
  <2>4. LimitsHeld'
    <3>1. ASSUME NEW s \in Transfer, Has(b, s), b.items[s].age < Day, s \notin unrecorded
          PROVE  Has(book, s) /\ book.items[s].age <= b.items[s].age
      <4>1. CASE b = book
        <5>1. b.items[s].age \in 0..Day
          BY <1>1, <3>1, ItemOf
        <5> QED BY <3>1, <4>1, <5>1, FastAssumption
      <4>2. CASE b = disk
        BY <1>4, <3>1, <4>2 DEF Limited, Saved
      <4>3. CASE b = Blank
        BY <3>1, <4>3, Blanks
      <4> QED BY <1>1, <4>1, <4>2, <4>3
    <3>2. book \in Book /\ LimitsHeld /\ UNCHANGED transfer
      BY <1>3, <1>4 DEF FastInv, FastTyped, Limited
    <3> QED BY <1>1, <1>3, <1>4, <1>7, <3>1, <3>2, LimitsStay
  <2> QED BY <2>1, <2>2, <2>3, <2>4 DEF Limited
<1>10. Guarded'
  <2>1. Quiet'
    <3>1. ASSUME "molibra" \notin undone, NEW t \in known', t.chain = "molibra"
          PROVE  t.nonce <= Len(mined["molibra"])
      <4>1. CASE t \in known
        BY <1>4, <3>1, <4>1 DEF Guarded, Quiet
      <4>2. CASE t \notin known
        <5>1. t.nonce = Len(mined["molibra"])
          BY <1>2, <3>1, <4>2
        <5>2. t.nonce \in Nat
          BY <1>1, <3>1 DEF Tx
        <5> QED BY <5>1, <5>2
      <4> QED BY <4>1, <4>2
    <3> QED BY <1>3, <3>1 DEF Quiet
  <2>2. Spent' /\ Once'
    BY <1>3, <1>4, <1>5, <1>6 DEF Guarded, Spent, Once
  <2>3. AboutToPay' /\ InTips'
    BY <1>1 DEF AboutToPay, InTips
  <2>4. Searched(book)' /\ Searched(disk)'
    BY <1>1, <1>3, <1>6, <1>7 DEF Searched
  <2>5. Passed(book)' /\ Passed(disk)'
    BY <1>1, <1>3, <1>5, <1>6, <1>7 DEF Passed
  <2>6. Deep'
    <3>1. \A s \in Transfer : Has(b, s) => Has(book, s) \/ Has(disk, s)
      BY <1>1, Blanks
    <3> QED BY <1>3, <1>4, <1>5, <1>6, <1>7, <3>1 DEF Guarded, Deep
  <2>7. Filed'
    BY <1>7 DEF Filed
  <2> QED BY <2>1, <2>2, <2>3, <2>4, <2>5, <2>6, <2>7 DEF Guarded
<1> QED BY <1>8, <1>9, <1>10 DEF FastInv

LEMMA StockType ==
  ASSUME Chained, NEW c \in Chain
  PROVE  Stock(c) \in Int
<1> DEFINE values == [i \in DOMAIN mined[c] |-> mined[c][i].tx.value]
           S == {s \in Transfer : Home(s) = c /\ at[s] # 0}
           P == {i \in DOMAIN mined[c] : mined[c][i].ok}
<1>1. AmountOf(S) \in Nat
  BY AmountsAdd
<1>2. mined[c] \in Seq(Row)
  BY DEF Chained
<1>3. DOMAIN mined[c] = 1..Len(mined[c]) /\ Len(mined[c]) \in Nat
  BY <1>2, LenProperties
<1>4. IsFiniteSet(DOMAIN mined[c])
  BY <1>3, FS_Interval
<1>5. IsFiniteSet(P)
  BY <1>4, FS_Subset
<1>6. \A i \in P : values[i] \in Int
  <2> TAKE i \in P
  <2>1. mined[c][i].tx \in known
    BY <1>3, MinedRow
  <2> QED BY <2>1 DEF Chained, Tx
<1> HIDE DEF values, P
<1>7. SumFunctionOnSet(values, P) \in Int
  BY <1>5, <1>6, SumType
<1>8. Float[c] \in Nat
  BY FastAssumption
<1> QED BY <1>1, <1>7, <1>8 DEF Stock, values, P

LEMMA NonceType ==
  ASSUME Chained, NEW c \in Chain
  PROVE  /\ Nonces(c) \subseteq Nat
         /\ (c = "molibra" => Nonces(c) = {Len(mined[c])})
<1>1. mined[c] \in Seq(Row)
  BY DEF Chained
<1>2. Len(mined[c]) \in Nat
  BY <1>1, LenProperties
<1>3. Cardinality(known) \in Nat
  BY FS_CardinalityType DEF Chained
<1> QED BY <1>2, <1>3 DEF Nonces

LEMMA ReadFails ==
  ASSUME FastInv, ReadFailed
  PROVE  FastInv'
<1>1. /\ book \in Book /\ Linked(book) /\ Searched(book) /\ Passed(book) /\ Begun(book)
      /\ Chained /\ Counted
  BY DEF FastInv, FastTyped, Guarded, Limited
<1>2. UNCHANGED <<transfer, tip, at, mined, raced, undone, known, unrecorded>> /\ tick' = None
  BY DEF ReadFailed, chains, history
<1>3. book' \in Book /\ book'.items = book.items /\ book'.next = book.next
  <2> DEFINE m == Min({book.failures + 1, ReadFailPause})
             p == book.failures + 1 >= ReadFailPause
  <2>1. book.failures \in Nat /\ ReadFailPause \in Nat
    BY <1>1, FastAssumption DEF Book
  <2>2. {book.failures + 1, ReadFailPause} \in SUBSET Nat /\ {book.failures + 1, ReadFailPause} # {}
    BY <2>1
  <2>3. m \in {book.failures + 1, ReadFailPause}
    BY <2>2, MinIsLeast
  <2>4. m \in Nat /\ p \in BOOLEAN
    BY <2>2, <2>3
  <2>5. book' = [[book EXCEPT !.failures = m] EXCEPT !.paused = p]
    BY DEF ReadFailed
  <2> HIDE DEF m, p
  <2> QED BY <1>1, <2>4, <2>5 DEF Book
<1>4. disk' = book'
  BY DEF ReadFailed
<1>5. Forgotten(book', known') \subseteq unrecorded'
  BY <1>1, <1>2, <1>3 DEF Counted, Forgotten, StatusIn, Has
<1>6. known' \subseteq Tx /\ IsFiniteSet(known') /\ known' \ known = {}
  BY <1>1, <1>2 DEF Chained
<1>7. BotStep
  BY <1>2 DEF BotStep
<1>8. Reloads(book)
  BY <1>1, <1>2, <1>3, <1>4, <1>5, <1>6, <1>7 DEF Reloads
<1> QED BY <1>8, ReloadsKeep

LEMMA EndTicks ==
  ASSUME FastInv, EndTick
  PROVE  FastInv'
<1>1. book \in Book /\ Linked(book) /\ Searched(book) /\ Passed(book) /\ Begun(book) /\ Chained
  BY DEF FastInv, FastTyped, Guarded
<1>2. UNCHANGED <<transfer, tip, at, mined, raced, undone>> /\ tick' = None /\ disk' = book
  BY DEF EndTick, history
<1>3. PICK swept \in SUBSET {c \in Chain : MaySweep(c)}, eth \in Nonces("eth"), m \in Nonces("molibra") :
        Remember(book, {[for |-> Cold, chain |-> c, nonce |-> IF c = "eth" THEN eth ELSE m,
                         value |-> Excess(c)] : c \in swept})
  BY DEF EndTick
<1> DEFINE tx(c) == [for |-> Cold, chain |-> c, nonce |-> IF c = "eth" THEN eth ELSE m, value |-> Excess(c)]
           f == [c \in swept |-> tx(c)]
           new == {tx(c) : c \in swept}
<1>4. eth \in Nat /\ m \in Nat /\ m = Len(mined["molibra"])
  BY <1>1, Chains, NonceType
<1>5. ASSUME NEW c \in swept
      PROVE  /\ tx(c) \in Tx /\ tx(c).for = Cold
             /\ (tx(c).chain = "molibra" => tx(c).nonce = Len(mined["molibra"]))
  <2>1. c \in Chain /\ Excess(c) > 0
    BY DEF MaySweep
  <2>2. Stock(c) \in Int /\ MaxStock[c] \in Nat
    BY <1>1, <2>1, StockType, FastAssumption
  <2>3. Excess(c) \in Nat
    BY <2>1, <2>2 DEF Excess
  <2> QED BY <1>4, <2>1, <2>3 DEF Tx
<1>6. IsFiniteSet(new)
  <2>1. IsFiniteSet(swept)
    BY Chains, FS_Subset
  <2>2. new = {f[c] : c \in swept}
    OBVIOUS
  <2> HIDE DEF f, new
  <2> QED BY <2>1, <2>2, ImageFinite
<1>7. new \subseteq Tx /\ \A t \in new : t.for = Cold /\ (t.chain = "molibra" => t.nonce = Len(mined["molibra"]))
  BY <1>5
<1>8. /\ book' = book /\ known' = known \cup new
      /\ unrecorded' = unrecorded \cup Forgotten(book, known')
  BY <1>3 DEF Remember
<1> HIDE DEF new
<1>9. known' \subseteq Tx /\ IsFiniteSet(known')
  BY <1>1, <1>6, <1>7, <1>8, FS_Union DEF Chained
<1>10. BotStep
  BY <1>2, <1>8 DEF BotStep
<1>11. Reloads(book)
  BY <1>1, <1>2, <1>7, <1>8, <1>9, <1>10 DEF Reloads
<1> QED BY <1>11, ReloadsKeep

\* A crash, a lost file or a person: what was remembered is what a file says.
LEMMA Restarts ==
  ASSUME FastInv, Crash \/ LoseFile \/ Resume
  PROVE  FastInv'
<1>1. /\ book \in Book /\ disk \in Book /\ Linked(disk) /\ Searched(disk) /\ Passed(disk)
      /\ Begun(disk) /\ Chained
  BY DEF FastInv, FastTyped, Guarded
<1>2. UNCHANGED <<transfer, tip, at, mined, raced, undone>> /\ tick' = None
  BY DEF Crash, LoseFile, Resume, history
<1>3. Remember(book', {})
  BY DEF Crash, LoseFile, Resume, Remember
<1>4. known' = known /\ unrecorded' = unrecorded \cup Forgotten(book', known')
  BY <1>3 DEF Remember
<1>5. known' \subseteq Tx /\ IsFiniteSet(known') /\ known' \ known = {} /\ BotStep
  BY <1>1, <1>2, <1>4 DEF Chained, BotStep
<1>6. CASE LoseFile
  <2>1. book' = Blank /\ disk' = Blank
    BY <1>6 DEF LoseFile, Remember
  <2>2. Linked(Blank) /\ Searched(Blank) /\ Passed(Blank) /\ Begun(Blank)
    <3>1. \A c \in Chain : Blank.next[c] = None
      BY DEF Blank
    <3>2. None # 0
      BY FastAssumption
    <3> QED BY Blanks, Chains, <3>1, <3>2 DEF Linked, Searched, Passed, Begun
  <2>3. Reloads(Blank)
    BY <1>2, <1>4, <1>5, <2>1, <2>2, Blanks DEF Reloads
  <2> QED BY <2>3, ReloadsKeep
<1>7. CASE Crash \/ Resume
  <2>1. /\ book' \in Book /\ book'.items = disk.items /\ book'.next = disk.next
        /\ disk' \in Book /\ disk'.items = disk.items /\ disk'.next = disk.next
    <3> DEFINE again == [disk EXCEPT !.paused = FALSE]
    <3>1. again \in Book /\ again.items = disk.items /\ again.next = disk.next
      BY <1>1 DEF Book
    <3>2. (book' = disk /\ disk' = disk) \/ (book' = again /\ disk' = again)
      BY <1>7 DEF Crash, Resume, Remember
    <3> HIDE DEF again
    <3> QED BY <1>1, <3>1, <3>2
  <2>2. Reloads(disk)
    BY <1>1, <1>2, <1>4, <1>5, <2>1 DEF Reloads
  <2> QED BY <2>2, ReloadsKeep
<1> QED BY <1>6, <1>7

-----------------------------------------------------------------------------
(* What a tick is about.                                                   *)

LEMMA FirstSays ==
  ASSUME NEW b \in Book, NEW queue \in SUBSET Open(b), queue # {}
  PROVE  First(b, queue) \in queue
<1> DEFINE N == {b.items[s].seen : s \in queue}
<1>1. \A s \in queue : b.items[s].seen \in Nat
  BY ItemOf DEF Open
<1>2. N \in SUBSET Nat /\ N # {}
  BY <1>1
<1>3. Min(N) \in N /\ \A n \in N : Min(N) <= n
  BY <1>2, MinIsLeast
<1>4. PICK s \in queue : Min(N) = b.items[s].seen
  BY <1>3
<1>5. \A r \in queue : b.items[s].seen <= b.items[r].seen
  BY <1>3, <1>4
<1> HIDE DEF N
<1>6. \E x \in queue : \A r \in queue : b.items[x].seen <= b.items[r].seen
  BY <1>5
<1> QED BY <1>6 DEF First

LEMMA AtSays ==
  ASSUME NEW t \in Tick, NEW b \in Book, NEW legs, DOMAIN legs \in SUBSET Nat,
         \A i \in DOMAIN legs : legs[i] \in Leg, \E i \in DOMAIN legs : legs[i] = "sweep"
  PROVE  LET u == At(t, legs, b)
         IN /\ u \in Tick /\ u.tips = t.tips /\ u.gas = t.gas /\ u.sent = t.sent /\ u.at = "receipt"
            /\ u.queue \subseteq Open(b) /\ (u.item \in Transfer => u.item \in u.queue)
            /\ (\A i \in DOMAIN legs : legs[i] = "sweep") => u.queue = {}
<1> DEFINE work == {i \in DOMAIN legs :
                      IF legs[i] \in Chain THEN b.next[legs[i]] <= Safe(legs[i], t.tips)
                      ELSE legs[i] = "payouts" => Open(b) # {}}
           leg == legs[Min(work)]
           queue == IF leg = "payouts" THEN Open(b) ELSE {}
           item == IF queue = {} THEN None ELSE First(b, queue)
<1>1. PICK i \in DOMAIN legs : legs[i] = "sweep"
  OBVIOUS
<1>2. i \in work
  BY <1>1 DEF Chain
<1>3. work \in SUBSET Nat /\ work # {}
  BY <1>2
<1> HIDE DEF work
<1>4. Min(work) \in work
  BY <1>3, MinIsLeast
<1>5. leg \in Leg /\ Min(work) \in DOMAIN legs
  BY <1>4 DEF work
<1>6. queue \in SUBSET Transfer /\ queue \subseteq Open(b)
  BY DEF Open
<1>7. item \in Transfer \cup {None} /\ (item \in Transfer => item \in queue)
  BY <1>6, FirstSays, FastAssumption
<1>8. (\A j \in DOMAIN legs : legs[j] = "sweep") => queue = {}
  BY <1>5
<1>9. At(t, legs, b) = [[[[t EXCEPT !.leg = leg] EXCEPT !.at = "receipt"] EXCEPT !.queue = queue] EXCEPT !.item = item]
  BY DEF At, work
<1> HIDE DEF leg, queue, item
<1> DEFINE t1 == [t EXCEPT !.leg = leg]
           t2 == [t1 EXCEPT !.at = "receipt"]
           t3 == [t2 EXCEPT !.queue = queue]
           t4 == [t3 EXCEPT !.item = item]
<1>10. t1 \in Tick /\ t1.tips = t.tips /\ t1.gas = t.gas /\ t1.sent = t.sent
  BY <1>5 DEF Tick
<1> HIDE DEF t1
<1>11. t2 \in Tick /\ t2.tips = t.tips /\ t2.gas = t.gas /\ t2.sent = t.sent /\ t2.at = "receipt"
  BY <1>10 DEF Tick
<1> HIDE DEF t2
<1>12. /\ t3 \in Tick /\ t3.tips = t.tips /\ t3.gas = t.gas /\ t3.sent = t.sent /\ t3.at = "receipt"
       /\ t3.queue = queue
  BY <1>6, <1>11 DEF Tick
<1> HIDE DEF t3
<1>13. /\ t4 \in Tick /\ t4.tips = t.tips /\ t4.gas = t.gas /\ t4.sent = t.sent /\ t4.at = "receipt"
       /\ t4.queue = queue /\ t4.item = item
  BY <1>7, <1>12 DEF Tick
<1>14. At(t, legs, b) = t4
  BY <1>9 DEF t1, t2, t3, t4
<1> HIDE DEF t4
<1> QED BY <1>6, <1>7, <1>8, <1>13, <1>14

LEMMA LegsSay ==
  /\ DOMAIN <<"sweep">> = {1} /\ <<"sweep">>[1] = "sweep"
  /\ DOMAIN <<"payouts", "sweep">> = {1, 2}
  /\ <<"payouts", "sweep">>[1] = "payouts" /\ <<"payouts", "sweep">>[2] = "sweep"
  /\ DOMAIN <<"eth", "payouts", "sweep">> = {1, 2, 3} /\ <<"eth", "payouts", "sweep">>[1] = "eth"
  /\ <<"eth", "payouts", "sweep">>[2] = "payouts" /\ <<"eth", "payouts", "sweep">>[3] = "sweep"
  /\ DOMAIN <<"molibra", "eth", "payouts", "sweep">> = {1, 2, 3, 4}
  /\ <<"molibra", "eth", "payouts", "sweep">>[1] = "molibra" /\ <<"molibra", "eth", "payouts", "sweep">>[2] = "eth"
  /\ <<"molibra", "eth", "payouts", "sweep">>[3] = "payouts" /\ <<"molibra", "eth", "payouts", "sweep">>[4] = "sweep"
OBVIOUS

LEMMA LegsFit ==
  ASSUME NEW legs \in {<<"sweep">>, <<"payouts", "sweep">>, <<"eth", "payouts", "sweep">>,
                       <<"molibra", "eth", "payouts", "sweep">>}
  PROVE  /\ DOMAIN legs \in SUBSET Nat /\ \A i \in DOMAIN legs : legs[i] \in Leg
         /\ \E i \in DOMAIN legs : legs[i] = "sweep"
<1>1. CASE legs = <<"sweep">>
  BY <1>1, LegsSay DEF Leg, Chain
<1>2. CASE legs = <<"payouts", "sweep">>
  BY <1>2, LegsSay DEF Leg, Chain
<1>3. CASE legs = <<"eth", "payouts", "sweep">>
  BY <1>3, LegsSay DEF Leg, Chain
<1>4. CASE legs = <<"molibra", "eth", "payouts", "sweep">>
  BY <1>4, LegsSay DEF Leg, Chain
<1> QED BY <1>1, <1>2, <1>3, <1>4

\* The tick goes on to another item, or to none.
GoesOn(u) ==
  /\ u \in Tick /\ u.tips = tick.tips /\ u.at = "receipt"
  /\ u.queue \subseteq Open(book) \ {tick.item} /\ (u.item \in Transfer => u.item \in u.queue)

LEMMA ItemsDone ==
  ASSUME FastInv, tick # None
  PROVE  /\ GoesOn(ItemDone) /\ GoesOn(TickOver)
         /\ \A c \in Chain : GoesOn([ItemDone EXCEPT !.sent = @ \cup {c}])
<1>1. tick \in Tick /\ book \in Book /\ tick.queue \subseteq Open(book)
  BY DEF FastInv, FastTyped, Ticking
<1> DEFINE legs == <<"sweep">>
           left == tick.queue \ {tick.item}
<1>2. /\ DOMAIN legs \in SUBSET Nat /\ \A i \in DOMAIN legs : legs[i] \in Leg
      /\ \E i \in DOMAIN legs : legs[i] = "sweep"
  BY LegsFit
<1>3. \A i \in DOMAIN legs : legs[i] = "sweep"
  BY LegsSay
<1>4. TickOver = At(tick, legs, book)
  BY DEF TickOver
<1> HIDE DEF legs
<1>5. GoesOn(TickOver)
  BY <1>1, <1>2, <1>3, <1>4, AtSays DEF GoesOn
<1>6. ASSUME left = {} PROVE GoesOn(ItemDone)
  BY <1>4, <1>5, <1>6 DEF ItemDone, legs
<1>7. ASSUME left # {} PROVE GoesOn(ItemDone)
  <2> DEFINE item == First(book, left)
  <2>1. left \in SUBSET Open(book)
    BY <1>1
  <2>2. item \in left
    BY <1>1, <1>7, <2>1, FirstSays
  <2>3. ItemDone = [[[tick EXCEPT !.queue = left] EXCEPT !.item = item] EXCEPT !.at = "receipt"]
    BY <1>7 DEF ItemDone
  <2> HIDE DEF item
  <2>4. left \in SUBSET Transfer /\ left \subseteq Open(book) \ {tick.item}
    BY <2>1 DEF Open
  <2> HIDE DEF left
  <2> DEFINE t1 == [tick EXCEPT !.queue = left]
             t2 == [t1 EXCEPT !.item = item]
             t3 == [t2 EXCEPT !.at = "receipt"]
  <2>5. t1 \in Tick /\ t1.tips = tick.tips /\ t1.queue = left
    BY <1>1, <2>4 DEF Tick
  <2> HIDE DEF t1
  <2>6. t2 \in Tick /\ t2.tips = tick.tips /\ t2.queue = left /\ t2.item = item
    BY <2>2, <2>4, <2>5 DEF Tick
  <2> HIDE DEF t2
  <2>7. t3 \in Tick /\ t3.tips = tick.tips /\ t3.queue = left /\ t3.item = item /\ t3.at = "receipt"
    BY <2>6 DEF Tick
  <2>8. ItemDone = t3
    BY <2>3 DEF t1, t2, t3
  <2> HIDE DEF t3
  <2> QED BY <2>2, <2>4, <2>7, <2>8 DEF GoesOn
<1>8. GoesOn(ItemDone)
  BY <1>6, <1>7
<1>9. ASSUME NEW c \in Chain PROVE GoesOn([ItemDone EXCEPT !.sent = @ \cup {c}])
  <2> DEFINE u == ItemDone
             more == u.sent \cup {c}
  <2>1. GoesOn(u)
    BY <1>8
  <2>2. [ItemDone EXCEPT !.sent = @ \cup {c}] = [u EXCEPT !.sent = more]
    OBVIOUS
  <2> HIDE DEF u
  <2>3. more \in SUBSET Chain
    BY <2>1 DEF GoesOn, Tick
  <2> HIDE DEF more
  <2>4. GoesOn([u EXCEPT !.sent = more])
    BY <2>1, <2>3 DEF GoesOn, Tick
  <2> QED BY <2>2, <2>4
<1> QED BY <1>5, <1>8, <1>9

LEMMA Starts ==
  ASSUME FastInv, NEW gas \in Gas \cup {None}, StartTick(gas)
  PROVE  FastInv'
<1> DEFINE next2 == [c \in Chain |-> IF book.next[c] = None THEN tip[c] + 1 ELSE book.next[c]]
           t == [tips |-> tip, gas |-> gas, leg |-> "sweep", queue |-> {}, item |-> None,
                 at |-> "receipt", sent |-> {}]
           legs == <<"molibra", "eth", "payouts", "sweep">>
<1>1. /\ Chained /\ book \in Book /\ disk \in Book /\ Linked(book) /\ Linked(disk)
      /\ Limited /\ Guarded
  BY DEF FastInv, FastTyped
<1>2. UNCHANGED <<disk, transfer, tip, at, known, mined, unrecorded, raced, undone>>
  BY DEF StartTick, chains, history
<1>3. next2 \in [Chain -> Nat] /\ \A c \in Chain : next2[c] # 0
  <2>1. \A c \in Chain : tip[c] \in Nat /\ book.next[c] \in Nat \cup {None} /\ book.next[c] # 0
    BY <1>1 DEF FastInv, FastTyped, Chained, Book, Begun
  <2> QED BY <2>1
<1>4. book' = [[book EXCEPT !.failures = 0] EXCEPT !.next = next2]
  BY <1>1 DEF StartTick, Book
<1>5. book' \in Book /\ book'.items = book.items /\ book'.next = next2
  <2> HIDE DEF next2
  <2> QED BY <1>1, <1>3, <1>4 DEF Book
<1>6. tick' = At(t, legs, book')
  BY DEF StartTick
<1>7. t \in Tick /\ t.tips = tip
  BY <1>1 DEF Tick, Leg, Chained
<1> HIDE DEF t
<1>8. /\ DOMAIN legs \in SUBSET Nat /\ \A i \in DOMAIN legs : legs[i] \in Leg
      /\ \E i \in DOMAIN legs : legs[i] = "sweep"
  BY LegsFit
<1> HIDE DEF legs
<1>9. /\ tick' \in Tick /\ tick'.tips = tip /\ tick'.at = "receipt"
      /\ tick'.queue \subseteq Open(book') /\ (tick'.item \in Transfer => tick'.item \in tick'.queue)
  BY <1>5, <1>6, <1>7, <1>8, AtSays
<1>10. BotStep
  BY <1>2 DEF BotStep
<1>11. \A s \in Transfer :
         /\ DirOf(s)' = DirOf(s) /\ Home(s)' = Home(s) /\ Away(s)' = Away(s)
         /\ Payouts(s)' = Payouts(s) /\ (Sure(s)' => Sure(s) /\ Home(s) = "eth" /\ Away(s) = "molibra")
  BY <1>10, BotFrame
<1>12. \A s \in Transfer : /\ (Has(book, s)' <=> Has(book, s)) /\ (Has(disk, s)' <=> Has(disk, s))
                           /\ Sent(s)' = Sent(s)
  BY <1>2, <1>5 DEF Has, Sent
<1>13. FastTyped'
  <2>1. Chained'
    BY <1>1, <1>2, <1>10, BotChained DEF Chained
  <2>2. Linked(book)' /\ Linked(disk)'
    BY <1>1, <1>2, <1>5, <1>11, <1>12 DEF Linked
  <2>3. Ticking'
    <3>1. \A c \in Chain : tip[c] <= tip[c]
      BY <1>1 DEF Chained
    <3>2. Open(book)' = Open(book')
      BY DEF Open, Has
    <3> QED BY <1>2, <1>3, <1>5, <1>9, <3>1, <3>2 DEF Ticking
  <2>4. Begun(book)' /\ Begun(disk)'
    <3>1. Begun(disk)
      BY DEF FastInv, FastTyped
    <3> QED BY <1>2, <1>3, <1>5, <3>1 DEF Begun
  <2> QED BY <1>1, <1>2, <1>5, <2>1, <2>2, <2>3, <2>4 DEF FastTyped
<1>14. Limited'
  <2>1. Counted'
    BY <1>1, <1>2, <1>5 DEF Limited, Counted, Forgotten, StatusIn, Has
  <2>2. OneNonce'
    BY <1>1, <1>2, <1>11, <1>12 DEF Limited, OneNonce
  <2>3. Saved'
    BY <1>1, <1>2, <1>5, <1>12 DEF Limited, Saved
  <2>4. LimitsHeld'
    <3>1. ASSUME NEW s \in Transfer, Has(book, s) PROVE book.items[s].age <= book.items[s].age
      <4>1. book.items[s].age \in 0..Day
        BY <1>1, <3>1, ItemOf
      <4> QED BY <4>1, FastAssumption
    <3> QED BY <1>1, <1>2, <1>5, <1>12, <3>1, LimitsStay DEF Limited
  <2> QED BY <2>1, <2>2, <2>3, <2>4 DEF Limited
<1>15. Guarded'
  <2>1. Quiet' /\ Spent' /\ Once'
    BY <1>1, <1>2, <1>11, <1>12 DEF Guarded, Quiet, Spent, Once
  <2>2. AboutToPay'
    BY <1>9 DEF AboutToPay
  <2>3. InTips'
    <3>1. ASSUME NEW s \in Transfer, Sure(s)', NEW i \in Payouts(s)
          PROVE  mined["molibra"][i].height <= tip["molibra"]
      BY <1>1, <1>11, <3>1, PayoutsSay
    <3> QED BY <1>2, <1>9, <1>11, <3>1 DEF InTips
  <2>4. Searched(book)' /\ Searched(disk)'
    BY <1>1, <1>2, <1>5, <1>11, <1>12 DEF Guarded, Searched
  <2>5. Passed(book)' /\ Passed(disk)'
    <3>1. Passed(disk)'
      BY <1>1, <1>2, <1>11, <1>12 DEF Guarded, Passed
    <3>2. ASSUME NEW s \in Transfer, Sure(s)', Sent(s) # {}, ~Has(book, s)
          PROVE  next2["eth"] > at[s]
      <4>1. Home(s) = "eth" /\ Sure(s)
        BY <1>11, <3>2
      <4>2. book.next["eth"] = None \/ book.next["eth"] > at[s]
        BY <1>1, <3>2, <4>1 DEF Guarded, Passed
      <4>3. at[s] \in Nat /\ tip["eth"] \in Nat /\ at[s] <= tip["eth"]
        BY <1>1, <4>1, Places
      <4> QED BY <4>2, <4>3, Chains
    <3>3. Passed(book)'
      BY <1>2, <1>5, <1>12, <3>2 DEF Passed
    <3> QED BY <3>1, <3>3
  <2>6. Deep' /\ Filed'
    BY <1>1, <1>2, <1>11, <1>12 DEF Guarded, Deep, Filed
  <2> QED BY <2>1, <2>2, <2>3, <2>4, <2>5, <2>6 DEF Guarded
<1> QED BY <1>13, <1>14, <1>15 DEF FastInv

LEMMA OlderSays ==
  ASSUME NEW b \in Book
  PROVE  /\ Older(b) \in Book /\ Older(b).next = b.next
         /\ \A s \in Transfer : (Has(Older(b), s) <=> Has(b, s))
         /\ \A s \in Transfer : Has(b, s) =>
              /\ Older(b).items[s].status = b.items[s].status /\ Older(b).items[s].tx = b.items[s].tx
              /\ Older(b).items[s].checkFrom = b.items[s].checkFrom
              /\ Older(b).items[s].age = Min({b.items[s].age + 1, Day})
              /\ b.items[s].age <= Older(b).items[s].age
<1> DEFINE f(s) == IF b.items[s] = None THEN None ELSE [b.items[s] EXCEPT !.age = Min({@ + 1, Day})]
           g == [s \in Transfer |-> f(s)]
<1>1. ASSUME NEW s \in Transfer, Has(b, s)
      PROVE  /\ g[s] \in Item /\ g[s].status = b.items[s].status /\ g[s].tx = b.items[s].tx
             /\ g[s].checkFrom = b.items[s].checkFrom
             /\ g[s].age = Min({b.items[s].age + 1, Day}) /\ b.items[s].age <= g[s].age
  <2> DEFINE it == b.items[s]
             n == Min({it.age + 1, Day})
  <2>1. it \in Item /\ it.age \in 0..Day
    BY <1>1, ItemOf
  <2>2. {it.age + 1, Day} \in SUBSET Nat /\ {it.age + 1, Day} # {}
    BY <2>1, FastAssumption
  <2>3. n \in {it.age + 1, Day} /\ n <= it.age + 1 /\ n <= Day
    BY <2>2, MinIsLeast
  <2>4. n \in 0..Day /\ it.age <= n
    BY <2>1, <2>3, FastAssumption
  <2>5. g[s] = [it EXCEPT !.age = n]
    BY <1>1 DEF Has
  <2>6. Min({b.items[s].age + 1, Day}) = n
    OBVIOUS
  <2> HIDE DEF it, n, g, f
  <2>7. [it EXCEPT !.age = n] \in Item /\ [it EXCEPT !.age = n].age = n
        /\ [it EXCEPT !.age = n].status = it.status /\ [it EXCEPT !.age = n].tx = it.tx
        /\ [it EXCEPT !.age = n].checkFrom = it.checkFrom
    BY <2>1, <2>4 DEF Item
  <2> QED BY <2>4, <2>5, <2>6, <2>7 DEF it
<1>2. \A s \in Transfer : ~Has(b, s) => g[s] = None
  BY DEF Has
<1>3. Older(b) = [b EXCEPT !.items = g]
  BY DEF Older
<1>4. g \in [Transfer -> Item \cup {None}]
  <2>1. \A s \in Transfer : f(s) \in Item \cup {None}
    BY <1>1, <1>2
  <2> QED BY <2>1
<1> HIDE DEF g
<1>5. Older(b) \in Book /\ Older(b).items = g /\ Older(b).next = b.next
  BY <1>3, <1>4 DEF Book
<1>6. \A s \in Transfer : (Has(Older(b), s) <=> Has(b, s))
  <2>1. \A s \in Transfer : Has(Older(b), s) <=> g[s] # None
    BY <1>5 DEF Has
  <2>2. \A s \in Transfer : Has(b, s) => g[s] # None
    BY <1>1, FastAssumption
  <2> QED BY <1>2, <2>1, <2>2
<1> QED BY <1>1, <1>5, <1>6

LEMMA Elapses ==
  ASSUME FastInv, Elapse
  PROVE  FastInv'
<1>1. /\ Chained /\ book \in Book /\ disk \in Book /\ Linked(book) /\ Linked(disk)
      /\ Limited /\ Guarded /\ Ticking
  BY DEF FastInv, FastTyped
<1>2. UNCHANGED <<tick, transfer, tip, at, known, mined, unrecorded, raced, undone>>
  BY DEF Elapse, chains, history
<1>3. book' = Older(book) /\ disk' = Older(disk)
  BY DEF Elapse
<1>4. BotStep
  BY <1>2 DEF BotStep
<1>5. \A s \in Transfer :
        /\ DirOf(s)' = DirOf(s) /\ Home(s)' = Home(s) /\ Away(s)' = Away(s)
        /\ Payouts(s)' = Payouts(s) /\ (Sure(s)' => Sure(s)) /\ Sent(s)' = Sent(s)
  BY <1>2, <1>4, BotFrame DEF Sent
<1>6. /\ book' \in Book /\ disk' \in Book /\ book'.next = book.next /\ disk'.next = disk.next
      /\ \A s \in Transfer : (Has(book, s)' <=> Has(book, s)) /\ (Has(disk, s)' <=> Has(disk, s))
  BY <1>1, <1>3, OlderSays DEF Has
<1>7. \A s \in Transfer : Has(book, s) =>
         /\ book'.items[s].status = book.items[s].status /\ book'.items[s].tx = book.items[s].tx
         /\ book'.items[s].checkFrom = book.items[s].checkFrom
         /\ book'.items[s].age = Min({book.items[s].age + 1, Day})
         /\ book.items[s].age <= book'.items[s].age
  BY <1>1, <1>3, OlderSays
<1>8. \A s \in Transfer : Has(disk, s) =>
         /\ disk'.items[s].status = disk.items[s].status /\ disk'.items[s].tx = disk.items[s].tx
         /\ disk'.items[s].checkFrom = disk.items[s].checkFrom
         /\ disk'.items[s].age = Min({disk.items[s].age + 1, Day})
         /\ disk.items[s].age <= disk'.items[s].age
  BY <1>1, <1>3, OlderSays
<1>9. ASSUME NEW s \in Transfer
      PROVE  /\ (Has(book, s) => book.items[s].age \in 0..Day /\ book'.items[s].age \in 0..Day)
             /\ (Has(disk, s) => disk.items[s].age \in 0..Day /\ disk'.items[s].age \in 0..Day)
  <2>1. (Has(book, s) => Has(book', s)) /\ (Has(disk, s) => Has(disk', s))
    BY <1>6 DEF Has
  <2> QED BY <1>1, <1>6, <2>1, ItemOf
<1>10. FastTyped'
  <2>1. Chained'
    BY <1>1, <1>2, <1>4, BotChained DEF Chained
  <2>2. Linked(book)'
    <3>1. ASSUME NEW s \in Transfer, Has(book, s), book'.items[s].age < Day PROVE book.items[s].age < Day
      <4> DEFINE m == book.items[s].age
                 n == book'.items[s].age
      <4>1. m <= n /\ m \in 0..Day /\ n \in 0..Day /\ n < Day
        BY <1>7, <1>9, <3>1
      <4> HIDE DEF m, n
      <4>2. m < Day
        BY <4>1, FastAssumption
      <4> QED BY <4>2 DEF m
    <3> QED BY <1>1, <1>2, <1>5, <1>6, <1>7, <3>1 DEF Linked
  <2>3. Linked(disk)'
    <3>1. ASSUME NEW s \in Transfer, Has(disk, s), disk'.items[s].age < Day PROVE disk.items[s].age < Day
      <4> DEFINE m == disk.items[s].age
                 n == disk'.items[s].age
      <4>1. m <= n /\ m \in 0..Day /\ n \in 0..Day /\ n < Day
        BY <1>8, <1>9, <3>1
      <4> HIDE DEF m, n
      <4>2. m < Day
        BY <4>1, FastAssumption
      <4> QED BY <4>2 DEF m
    <3> QED BY <1>1, <1>2, <1>5, <1>6, <1>8, <3>1 DEF Linked
  <2>4. Ticking'
    <3>1. Open(book)' = Open(book)
      BY <1>6, <1>7 DEF Open, Has
    <3> QED BY <1>1, <1>2, <1>6, <3>1 DEF Ticking
  <2>5. Begun(book)' /\ Begun(disk)'
    BY <1>6 DEF FastInv, FastTyped, Begun
  <2> QED BY <1>6, <2>1, <2>2, <2>3, <2>4, <2>5 DEF FastTyped
<1>11. Limited'
  <2>1. Counted'
    <3>1. \A s \in Transfer : StatusIn(book', s, {"sent", "paid"}) <=> StatusIn(book, s, {"sent", "paid"})
      BY <1>6, <1>7 DEF StatusIn, Has
    <3>2. Forgotten(book', known) = Forgotten(book, known)
      BY <3>1 DEF Forgotten
    <3> QED BY <1>1, <1>2, <3>2 DEF Limited, Counted, Forgotten, StatusIn, Has
  <2>2. OneNonce'
    BY <1>1, <1>2, <1>5 DEF Limited, OneNonce
  <2>3. Saved'
    <3> SUFFICES ASSUME NEW s \in Transfer, s \notin unrecorded, Has(disk, s), disk'.items[s].age < Day
                 PROVE  Has(book, s) /\ book'.items[s].age <= disk'.items[s].age
      BY <1>2, <1>6 DEF Saved
    <3>1. disk.items[s].age < Day /\ disk.items[s].age \in 0..Day
      <4> DEFINE m == disk.items[s].age
                 n == disk'.items[s].age
      <4>1. m <= n /\ m \in 0..Day /\ n \in 0..Day /\ n < Day
        BY <1>8, <1>9
      <4> HIDE DEF m, n
      <4>2. m < Day
        BY <4>1, FastAssumption
      <4> QED BY <4>1, <4>2 DEF m
    <3>2. Has(book, s) /\ book.items[s].age <= disk.items[s].age /\ book.items[s].age \in 0..Day
      BY <1>1, <1>9, <3>1 DEF Limited, Saved
    <3> DEFINE m == book.items[s].age
               n == disk.items[s].age
    <3>3. Min({m + 1, Day}) \in {m + 1, Day} /\ Min({m + 1, Day}) <= m + 1
      <4>1. {m + 1, Day} \in SUBSET Nat /\ {m + 1, Day} # {}
        BY <3>2, FastAssumption
      <4> QED BY <4>1, MinIsLeast
    <3>4. Min({n + 1, Day}) \in {n + 1, Day}
      <4>1. {n + 1, Day} \in SUBSET Nat /\ {n + 1, Day} # {}
        BY <3>1, FastAssumption
      <4> QED BY <4>1, MinIsLeast
    <3>5. book'.items[s].age = Min({m + 1, Day}) /\ disk'.items[s].age = Min({n + 1, Day})
      BY <1>7, <1>8, <3>2
    <3>6. m \in Nat /\ n \in Nat /\ m <= n
      BY <3>1, <3>2, FastAssumption
    <3> HIDE DEF m, n
    <3> QED BY <3>2, <3>3, <3>4, <3>5, <3>6, FastAssumption
  <2>4. LimitsHeld'
    BY <1>1, <1>2, <1>6, <1>7, LimitsStay DEF Limited
  <2> QED BY <2>1, <2>2, <2>3, <2>4 DEF Limited
<1>12. Guarded'
  <2>1. Quiet' /\ Spent' /\ Once'
    BY <1>1, <1>2, <1>5 DEF Guarded, Quiet, Spent, Once
  <2>2. AboutToPay'
    <3> SUFFICES ASSUME tick # None, tick.at = "pay", Sure(tick.item)' PROVE Payouts(tick.item)' = {}
      BY <1>2 DEF AboutToPay
    <3>1. tick.item \in Transfer
      BY <1>2 DEF Sure
    <3> QED BY <1>1, <1>2, <1>5, <3>1 DEF Guarded, AboutToPay
  <2>3. InTips'
    BY <1>1, <1>2, <1>5 DEF Guarded, InTips
  <2>4. Searched(book)' /\ Searched(disk)'
    BY <1>1, <1>2, <1>5, <1>6, <1>7, <1>8 DEF Guarded, Searched
  <2>5. Passed(book)' /\ Passed(disk)'
    BY <1>1, <1>2, <1>5, <1>6 DEF Guarded, Passed
  <2>6. Deep' /\ Filed'
    BY <1>1, <1>2, <1>5, <1>6 DEF Guarded, Deep, Filed
  <2> QED BY <2>1, <2>2, <2>3, <2>4, <2>5, <2>6 DEF Guarded
<1> QED BY <1>10, <1>11, <1>12 DEF FastInv

LEMMA QuoteType ==
  ASSUME tick \in Tick, NEW s \in Transfer
  PROVE  Quote(s) \in Nat \cup {None} /\ (tick.gas # None => Quote(s) \in Nat)
<1>1. tick.gas \in Nat \cup {None} /\ MinFee \in Nat
  BY FastAssumption DEF Tick
<1>2. ASSUME tick.gas # None PROVE Max({tick.gas, MinFee}) \in Nat
  <2> DEFINE S == {tick.gas, MinFee}
  <2>1. S \in SUBSET Int /\ S # {} /\ S \subseteq Nat
    BY <1>1, <1>2
  <2>2. IsFiniteSet(S)
    <3>1. /\ IsFiniteSet({}) /\ IsFiniteSet({} \cup {tick.gas})
          /\ IsFiniteSet(({} \cup {tick.gas}) \cup {MinFee})
      BY FS_EmptySet, FS_AddElement
    <3>2. S = ({} \cup {tick.gas}) \cup {MinFee}
      OBVIOUS
    <3> QED BY <3>1, <3>2
  <2> HIDE DEF S
  <2>3. Max(S) \in S
    BY <2>1, <2>2, MaxIsGreatest
  <2> QED BY <2>1, <2>3 DEF S
<1> QED BY <1>1, <1>2 DEF Quote

LEMMA NewItemSays ==
  ASSUME Chained, tick \in Tick, NEW s \in Transfer
  PROVE  /\ NewItem(s) \in Item /\ NewItem(s).status # "sent" /\ NewItem(s).age = Day
         /\ NewItem(s).checkFrom = tick.tips[Away(s)]
<1>1. Quote(s) \in Nat \cup {None}
  BY QuoteType
<1>2. Cardinality({r \in Transfer : Has(book, r)}) \in Nat
  <2>1. IsFiniteSet({r \in Transfer : Has(book, r)})
    BY FastAssumption, FS_Subset
  <2> QED BY <2>1, FS_CardinalityType
<1>3. at[s] \in Nat /\ Away(s) \in Chain
  BY Directions
<1>4. tick.tips[Away(s)] \in Nat
  BY <1>3 DEF Tick
<1>5. Day \in Nat
  BY FastAssumption
<1> QED BY <1>1, <1>2, <1>3, <1>4, <1>5 DEF NewItem, Item, Status, Terminal, Refused

\* What a scan leaves in the book: the old items, the new, and a cursor behind them.
LEMMA ScanSays ==
  ASSUME FastInv, NEW c \in Chain, NEW to \in Nat, Scan(c, to)
  PROVE  /\ UNCHANGED <<transfer, tip, at, mined, raced, undone, known>>
         /\ unrecorded' = unrecorded \cup Forgotten(book', known')
         /\ book' \in Book /\ tick # None
         /\ book'.next \in [Chain -> Nat] /\ \A d \in Chain : book.next[d] \in Nat /\ book.next[d] <= book'.next[d]
         /\ \A s \in Transfer : Has(book, s) => book'.items[s] = book.items[s]
         /\ \A s \in Transfer : (Has(book, s)' /\ ~Has(book, s)) =>
              /\ Home(s) = c /\ book.next[c] <= at[s] /\ at[s] <= tip[c] - Confirmations[c]
              /\ book.next[c] <= to
              /\ book'.items[s].status # "sent" /\ book'.items[s].age = Day
              /\ book'.items[s].checkFrom <= tip[Away(s)]
         /\ (disk' = book' \/ (disk' = disk /\ ~(book.next[c] <= to)))
         /\ tick' \in Tick /\ tick'.tips = tick.tips /\ tick'.at = "receipt"
         /\ tick'.queue \subseteq Open(book') /\ (tick'.item \in Transfer => tick'.item \in tick'.queue)
<1> DEFINE next == book.next[c]
           found == {s \in Transfer : Home(s) = c /\ at[s] \in next..to /\ ~Has(book, s)}
           items == [s \in Transfer |-> IF s \in found THEN NewItem(s) ELSE book.items[s]]
           m == Max({next, to + 1})
           cursors == [book.next EXCEPT ![c] = m]
           b == [[book EXCEPT !.items = items] EXCEPT !.next = cursors]
           legs == IF c = "molibra" THEN <<"eth", "payouts", "sweep">> ELSE <<"payouts", "sweep">>
<1>1. Chained /\ book \in Book /\ Ticking
  BY DEF FastInv, FastTyped
<1>2. tick # None /\ tick \in Tick /\ book.next \in [Chain -> Nat] /\ \A d \in Chain : tick.tips[d] <= tip[d]
  BY <1>1 DEF Scan, Ticking
<1>3. UNCHANGED <<transfer, tip, at, mined, raced, undone>> /\ to <= Safe(c, tick.tips)
  <2>1. tick.tips[c] \in Nat /\ Confirmations[c] \in Nat
    BY <1>2, FastAssumption DEF Tick
  <2> QED BY <2>1 DEF Scan, history, Safe
<1>4. Remember(b, {}) /\ disk' = (IF to < next THEN disk ELSE b) /\ tick' = At(tick, legs, b)
  BY <1>1 DEF Scan, Book
<1>5. next \in Nat
  BY <1>2
<1>6. m \in Nat /\ next <= m
  <2> DEFINE S == {next, to + 1}
  <2>1. S \in SUBSET Int /\ S # {} /\ S \subseteq Nat
    BY <1>5
  <2>2. IsFiniteSet(S)
    <3>1. /\ IsFiniteSet({}) /\ IsFiniteSet({} \cup {next})
          /\ IsFiniteSet(({} \cup {next}) \cup {to + 1})
      BY FS_EmptySet, FS_AddElement
    <3>2. S = ({} \cup {next}) \cup {to + 1}
      OBVIOUS
    <3> QED BY <3>1, <3>2
  <2>3. next \in S
    OBVIOUS
  <2> HIDE DEF S
  <2>4. Max(S) \in S /\ Max(S) >= next
    BY <2>1, <2>2, <2>3, MaxIsGreatest
  <2>5. m = Max(S)
    BY DEF S
  <2> QED BY <1>5, <2>1, <2>4, <2>5
<1>7. cursors \in [Chain -> Nat] /\ \A d \in Chain : book.next[d] <= cursors[d]
  <2> HIDE DEF m
  <2>1. cursors \in [Chain -> Nat] /\ cursors[c] = m /\ \A d \in Chain \ {c} : cursors[d] = book.next[d]
    BY <1>2, <1>6
  <2>2. \A d \in Chain : book.next[d] <= book.next[d]
    BY <1>2
  <2> QED BY <1>6, <2>1, <2>2
<1>8. items \in [Transfer -> Item \cup {None}]
  <2>1. \A s \in Transfer : NewItem(s) \in Item
    BY <1>1, <1>2, NewItemSays
  <2>2. \A s \in Transfer : book.items[s] \in Item \cup {None}
    BY <1>1 DEF Book
  <2> QED BY <2>1, <2>2
<1>9. ASSUME NEW s \in found
      PROVE  /\ items[s] = NewItem(s) /\ Home(s) = c /\ next <= at[s] /\ at[s] <= tip[c] - Confirmations[c]
             /\ next <= to
             /\ NewItem(s).status # "sent" /\ NewItem(s).age = Day /\ NewItem(s).checkFrom <= tip[Away(s)]
  <2>1. s \in Transfer /\ at[s] \in next..to /\ Home(s) = c /\ items[s] = NewItem(s)
    OBVIOUS
  <2>2. /\ NewItem(s).status # "sent" /\ NewItem(s).age = Day
        /\ NewItem(s).checkFrom = tick.tips[Away(s)]
    BY <1>1, <1>2, <2>1, NewItemSays
  <2>3. tick.tips[Away(s)] <= tip[Away(s)]
    BY <1>1, <1>2, <2>1, Directions
  <2>4. /\ tick.tips[c] \in Nat /\ tip[c] \in Nat /\ Confirmations[c] \in Nat
        /\ tick.tips[c] <= tip[c] /\ at[s] \in Nat
    BY <1>1, <1>2, <2>1, FastAssumption DEF Tick, Chained
  <2>5. at[s] <= tip[c] - Confirmations[c] /\ next <= at[s] /\ next <= to
    BY <1>3, <1>5, <2>1, <2>4 DEF Safe
  <2> QED BY <2>1, <2>2, <2>3, <2>5
<1>10. \A s \in Transfer \ found : items[s] = book.items[s]
  OBVIOUS
<1>11. \A s \in found : s \in Transfer /\ ~Has(book, s)
  OBVIOUS
<1> HIDE DEF items, cursors, m, found
<1>12. b \in Book /\ b.items = items /\ b.next = cursors
  BY <1>1, <1>7, <1>8 DEF Book
<1> HIDE DEF b
<1>13. book' = b /\ known' = known /\ unrecorded' = unrecorded \cup Forgotten(b, known')
  BY <1>4 DEF Remember
<1>14. /\ tick' \in Tick /\ tick'.tips = tick.tips /\ tick'.at = "receipt"
       /\ tick'.queue \subseteq Open(b) /\ (tick'.item \in Transfer => tick'.item \in tick'.queue)
  <2>1. legs \in {<<"sweep">>, <<"payouts", "sweep">>, <<"eth", "payouts", "sweep">>,
                  <<"molibra", "eth", "payouts", "sweep">>}
    OBVIOUS
  <2> HIDE DEF legs
  <2>2. /\ DOMAIN legs \in SUBSET Nat /\ \A i \in DOMAIN legs : legs[i] \in Leg
        /\ \E i \in DOMAIN legs : legs[i] = "sweep"
    BY <2>1, LegsFit
  <2> QED BY <1>2, <1>4, <1>12, <2>2, AtSays
<1>15. \A s \in Transfer : Has(book, s) => book'.items[s] = book.items[s]
  BY <1>10, <1>11, <1>12, <1>13
<1>16. ASSUME NEW s \in Transfer, Has(book, s)', ~Has(book, s) PROVE s \in found /\ book'.items[s] = NewItem(s)
  <2>1. items[s] # None /\ book.items[s] = None
    BY <1>12, <1>13, <1>16 DEF Has
  <2>2. s \in found
    BY <1>10, <2>1
  <2> QED BY <1>9, <1>12, <1>13, <2>2
<1>17. disk' = book' \/ (disk' = disk /\ ~(next <= to))
  BY <1>4, <1>5, <1>13
<1> QED BY <1>2, <1>3, <1>7, <1>9, <1>12, <1>13, <1>14, <1>15, <1>16, <1>17

LEMMA Scans ==
  ASSUME FastInv, NEW c \in Chain, NEW to \in Nat, Scan(c, to)
  PROVE  FastInv'
<1>1. /\ Chained /\ book \in Book /\ disk \in Book /\ Linked(book) /\ Linked(disk)
      /\ Begun(book) /\ Begun(disk) /\ Limited /\ Guarded /\ Ticking
  BY DEF FastInv, FastTyped
<1>2. UNCHANGED <<transfer, tip, at, mined, raced, undone, known>>
  BY ScanSays
<1>3. unrecorded' = unrecorded \cup Forgotten(book', known')
  BY ScanSays
<1>4. book' \in Book /\ tick # None
  BY ScanSays
<1>5. /\ book'.next \in [Chain -> Nat]
      /\ \A d \in Chain : book.next[d] \in Nat /\ book.next[d] <= book'.next[d]
  BY ScanSays
<1>6. \A s \in Transfer : Has(book, s) => book'.items[s] = book.items[s]
  BY ScanSays
<1>7. \A s \in Transfer : (Has(book, s)' /\ ~Has(book, s)) =>
        /\ Home(s) = c /\ book.next[c] <= at[s] /\ at[s] <= tip[c] - Confirmations[c]
        /\ book.next[c] <= to
        /\ book'.items[s].status # "sent" /\ book'.items[s].age = Day
        /\ book'.items[s].checkFrom <= tip[Away(s)]
  BY ScanSays
<1>8. disk' = book' \/ (disk' = disk /\ ~(book.next[c] <= to))
  BY ScanSays
<1>9. /\ tick' \in Tick /\ tick'.tips = tick.tips /\ tick'.at = "receipt"
      /\ tick'.queue \subseteq Open(book') /\ (tick'.item \in Transfer => tick'.item \in tick'.queue)
  BY ScanSays
<1>10. BotStep
  BY <1>2, <1>3 DEF BotStep
<1>11. \A s \in Transfer :
         /\ DirOf(s)' = DirOf(s) /\ Home(s)' = Home(s) /\ Away(s)' = Away(s) /\ Sent(s)' = Sent(s)
         /\ Payouts(s)' = Payouts(s) /\ (Sure(s)' => Sure(s) /\ Home(s) = "eth" /\ Away(s) = "molibra")
  BY <1>2, <1>10, BotFrame DEF Sent
<1>12. \A s \in Transfer : Has(book, s) => Has(book, s)'
  BY <1>6 DEF Has
<1>13. \A s \in Transfer : Has(book, s) => book.items[s].age \in 0..Day
  BY <1>1, ItemOf
<1>14. ASSUME NEW s \in Transfer, Has(book, s)'
       PROVE  /\ book'.items[s].checkFrom <= tip[Away(s)]
              /\ (book'.items[s].status = "sent" => book'.items[s].tx \in Sent(s))
              /\ (book'.items[s].age < Day => Sent(s) # {})
  <2>1. CASE Has(book, s)
    BY <1>1, <1>6, <1>14, <2>1 DEF Linked
  <2>2. CASE ~Has(book, s)
    BY <1>7, <1>14, <2>2, FastAssumption
  <2> QED BY <2>1, <2>2
<1>15. \A s \in Transfer : Has(disk, s)' =>
              /\ disk'.items[s].checkFrom <= tip[Away(s)]
              /\ (disk'.items[s].status = "sent" => disk'.items[s].tx \in Sent(s))
              /\ (disk'.items[s].age < Day => Sent(s) # {})
  <2>1. CASE disk' = book'
    <3>1. \A s \in Transfer : Has(disk, s)' <=> Has(book, s)'
      BY <2>1 DEF Has
    <3> QED BY <1>14, <2>1, <3>1
  <2>2. CASE disk' = disk
    <3>1. \A s \in Transfer : Has(disk, s)' <=> Has(disk, s)
      BY <2>2 DEF Has
    <3> QED BY <1>1, <2>2, <3>1 DEF Linked
  <2> QED BY <1>8, <2>1, <2>2
<1>16. FastTyped'
  <2>1. Chained'
    BY <1>1, <1>2, <1>10, BotChained DEF Chained
  <2>2. Linked(book)' /\ Linked(disk)'
    BY <1>2, <1>11, <1>14, <1>15 DEF Linked
  <2>3. Ticking'
    <3>1. \A d \in Chain : tick.tips[d] <= tip[d]
      BY <1>1, <1>4 DEF Ticking
    <3>2. Open(book)' = Open(book')
      BY DEF Open, Has
    <3> QED BY <1>2, <1>5, <1>9, <3>1, <3>2 DEF Ticking
  <2>4. \A d \in Chain : book'.next[d] # 0
    <3> TAKE d \in Chain
    <3>1. /\ book.next[d] \in Nat /\ book.next[d] <= book'.next[d] /\ book.next[d] # 0
          /\ book'.next[d] \in Nat
      BY <1>1, <1>5 DEF Begun
    <3> QED BY <3>1
  <2>5. Begun(book)' /\ Begun(disk)'
    BY <1>1, <1>8, <2>4 DEF Begun
  <2>6. disk' \in Book
    BY <1>1, <1>4, <1>8
  <2> QED BY <1>4, <2>1, <2>2, <2>3, <2>5, <2>6 DEF FastTyped
<1>17. Limited'
  <2>1. Counted'
    BY <1>3 DEF Counted, Forgotten, StatusIn, Has
  <2>2. OneNonce'
    BY <1>1, <1>3, <1>11 DEF Limited, OneNonce
  <2>3. Saved'
    <3> SUFFICES ASSUME NEW s \in Transfer, s \notin unrecorded', Has(disk, s)', disk'.items[s].age < Day
                 PROVE  Has(book, s)' /\ book'.items[s].age <= disk'.items[s].age
      BY DEF Saved
    <3>1. CASE disk' = book'
      <4>1. Has(book, s)' /\ Has(book', s)
        BY <3>1 DEF Has
      <4>2. book'.items[s].age \in 0..Day
        BY <1>4, <4>1, ItemOf
      <4> QED BY <3>1, <4>1, <4>2, FastAssumption
    <3>2. CASE disk' = disk
      <4>1. Has(disk, s) /\ s \notin unrecorded
        BY <1>3, <3>2 DEF Has
      <4>2. Has(book, s) /\ book.items[s].age <= disk.items[s].age
        BY <1>1, <3>2, <4>1 DEF Limited, Saved
      <4> QED BY <1>6, <1>12, <3>2, <4>2
    <3> QED BY <1>8, <3>1, <3>2
  <2>4. LimitsHeld'
    <3>1. ASSUME NEW s \in Transfer, s \notin unrecorded', Has(book, s)', book'.items[s].age < Day
          PROVE  s \notin unrecorded /\ Has(book, s) /\ book.items[s].age <= book'.items[s].age
      <4>1. Has(book, s)
        BY <1>7, <3>1, FastAssumption
      <4>2. book.items[s].age \in 0..Day
        BY <1>13, <4>1
      <4> QED BY <1>3, <1>6, <3>1, <4>1, <4>2, FastAssumption
    <3>2. LimitsHeld /\ UNCHANGED transfer
      BY <1>1, <1>2 DEF Limited
    <3> QED BY <1>1, <1>4, <3>1, <3>2, LimitsStay
  <2> QED BY <2>1, <2>2, <2>3, <2>4 DEF Limited
<1>18. ASSUME NEW s \in Transfer, Sure(s), Sent(s) # {}, ~Has(book, s)
       PROVE  ~Has(book, s)' /\ book'.next["eth"] > at[s]
  <2>1. Home(s) = "eth"
    BY <1>18, SurePayouts
  <2>2. /\ book.next["eth"] \in Nat /\ book.next["eth"] <= book'.next["eth"]
        /\ book'.next["eth"] \in Nat
    BY <1>5, Chains
  <2>3. book.next["eth"] > at[s] /\ at[s] \in Nat
    <3>1. book.next["eth"] = None \/ book.next["eth"] > at[s]
      BY <1>1, <1>18 DEF Guarded, Passed
    <3> QED BY <1>1, <2>2, <3>1, FastAssumption DEF Chained
  <2>4. ~Has(book, s)'
    BY <1>7, <1>18, <2>1, <2>2, <2>3
  <2> QED BY <2>2, <2>3, <2>4
<1>19. Guarded'
  <2>1. Quiet' /\ Spent' /\ Once'
    BY <1>1, <1>2, <1>11 DEF Guarded, Quiet, Spent, Once
  <2>2. AboutToPay'
    BY <1>9 DEF AboutToPay
  <2>3. InTips'
    BY <1>1, <1>2, <1>4, <1>9, <1>11 DEF Guarded, InTips
  <2>4. ASSUME NEW s \in Transfer, Sure(s), Has(book, s)', NEW i \in Payouts(s)
        PROVE  book'.items[s].checkFrom <= mined["molibra"][i].height
    <3>1. Sent(s) # {}
      BY <1>1, PayoutsSay
    <3>2. Has(book, s)
      BY <1>18, <2>4, <3>1
    <3> QED BY <1>1, <1>6, <2>4, <3>2 DEF Guarded, Searched
  <2>5. Searched(book)'
    BY <1>2, <1>11, <2>4 DEF Searched
  <2>6. Searched(disk)'
    <3>1. CASE disk' = book'
      BY <2>5, <3>1 DEF Searched, Has
    <3>2. CASE disk' = disk
      <4>1. Searched(disk)
        BY <1>1 DEF Guarded
      <4> QED BY <1>2, <1>11, <3>2, <4>1 DEF Searched, Has
    <3> QED BY <1>8, <3>1, <3>2
  <2>7. Passed(book)'
    <3>1. ASSUME NEW s \in Transfer, Sure(s)', Sent(s)' # {}, ~Has(book, s)'
          PROVE  book'.next["eth"] > at[s]
      BY <1>11, <1>12, <1>18, <3>1
    <3> QED BY <1>2, <3>1 DEF Passed
  <2>8. Passed(disk)'
    <3>1. CASE disk' = book'
      BY <2>7, <3>1 DEF Passed, Has
    <3>2. CASE disk' = disk
      BY <1>1, <1>2, <1>11, <3>2 DEF Guarded, Passed, Has
    <3> QED BY <1>8, <3>1, <3>2
  <2>9. Deep'
    <3> SUFFICES ASSUME NEW s \in Transfer, Home(s) \notin undone,
                        Sent(s) # {} \/ Has(book, s)' \/ Has(disk, s)'
                 PROVE  at[s] # 0 /\ at[s] <= tip[Home(s)] - Confirmations[Home(s)]
      BY <1>2, <1>11 DEF Deep
    <3>1. CASE Sent(s) # {} \/ Has(book, s) \/ Has(disk, s)
      BY <1>1, <3>1 DEF Guarded, Deep
    <3>2. CASE Has(book, s)' /\ ~Has(book, s)
      <4>1. Home(s) = c /\ book.next[c] <= at[s] /\ at[s] <= tip[c] - Confirmations[c]
        BY <1>7, <3>2
      <4>2. book.next[c] \in Nat /\ book.next[c] # 0 /\ at[s] \in Nat
        BY <1>1, <1>5 DEF Begun, Chained
      <4> QED BY <4>1, <4>2
    <3>3. Has(disk, s)' => Has(disk, s) \/ Has(book, s)'
      BY <1>8 DEF Has
    <3> QED BY <3>1, <3>2, <3>3
  <2>10. Filed'
    <3> SUFFICES ASSUME NEW s \in Transfer, Has(book, s)' PROVE Has(disk, s)'
      BY DEF Filed
    <3>1. CASE disk' = book'
      BY <3>1 DEF Has
    <3>2. CASE disk' = disk /\ ~(book.next[c] <= to)
      <4>1. Has(book, s)
        BY <1>7, <3>2
      <4>2. Has(disk, s)
        BY <1>1, <4>1 DEF Guarded, Filed
      <4> QED BY <3>2, <4>2 DEF Has
    <3> QED BY <1>8, <3>1, <3>2
  <2> QED BY <2>1, <2>2, <2>3, <2>5, <2>6, <2>7, <2>8, <2>9, <2>10 DEF Guarded
<1> QED BY <1>16, <1>17, <1>19 DEF FastInv

-----------------------------------------------------------------------------
(* The payouts.                                                            *)

\* A payout within the limits: what is young is what was counted, and this one.
LEMMA LimitsPaid ==
  ASSUME FastInv, UNCHANGED transfer, book' \in Book, unrecorded \subseteq unrecorded', NEW s \in Transfer,
         \A r \in Transfer \ {s} : book'.items[r] = book.items[r],
         UsedSince(Hour, {DirOf(s)}) + transfer[s].amount <= MaxPerHour,
         UsedSince(Day, Dir) + transfer[s].amount <= MaxPerDay
  PROVE  LimitsHeld'
<1> DEFINE Recent(window, dirs) ==
      {r \in Transfer \ unrecorded : DirOf(r) \in dirs /\ Has(book, r) /\ book.items[r].age < window}
           Used(window, dirs) ==
      {r \in Transfer : /\ StatusIn(book, r, {"sent", "paid"})
                        /\ book.items[r].age < window /\ DirOf(r) \in dirs}
<1>1. Chained /\ book \in Book /\ Linked(book) /\ Counted /\ LimitsHeld
  BY DEF FastInv, FastTyped, Limited
<1>2. \A r \in Transfer : DirOf(r)' = DirOf(r)
  BY DEF DirOf
<1>3. /\ Hour \in Nat /\ Hour <= Day /\ Day \in Nat /\ Day <= Day /\ MaxPerHour \in Nat
      /\ MaxPerDay \in Nat
  BY FastAssumption
<1>4. ASSUME NEW window \in Nat, window <= Day, NEW dirs, NEW r \in Recent(window, dirs)', r # s
      PROVE  r \in Recent(window, dirs) /\ r \in Used(window, dirs)
  <2>1. /\ r \in Transfer /\ r \notin unrecorded /\ DirOf(r) \in dirs /\ Has(book, r)
        /\ book.items[r].age < window
    BY <1>2, <1>4 DEF Has
  <2>2. book.items[r].age \in 0..Day
    BY <1>1, <2>1, ItemOf
  <2>3. Sent(r) # {}
    BY <1>1, <1>4, <2>1, <2>2, FastAssumption DEF Linked
  <2>4. StatusIn(book, r, {"sent", "paid"})
    BY <1>1, <2>1, <2>3 DEF Counted, Forgotten, Sent
  <2> QED BY <2>1, <2>4
<1>5. \A S : AmountOf(S)' = AmountOf(S')
  BY DEF AmountOf
<1>6. ASSUME NEW window \in Nat, window <= Day, NEW dirs, NEW most \in Nat,
             AmountOf(Used(window, dirs)) + transfer[s].amount <= most
      PROVE  AmountOf(Recent(window, dirs))' <= most
  <2> DEFINE Q == Recent(window, dirs)'
             U == Used(window, dirs)
  <2>1. Q \subseteq U \cup {s} /\ U \subseteq Transfer /\ U \cup {s} \subseteq Transfer
    BY <1>4, <1>6
  <2>2. AmountOf(Recent(window, dirs))' = AmountOf(Q)
    BY DEF AmountOf
  <2> HIDE DEF Q, U
  <2>3. AmountOf(U) \in Nat /\ AmountOf(U \cup {s}) <= AmountOf(U) + transfer[s].amount
    BY <1>1, <2>1, AmountsAdd
  <2>4. AmountOf(U \cup {s}) \in Nat /\ AmountOf(Q) <= AmountOf(U \cup {s})
    BY <1>1, <2>1, AmountsAdd
  <2>5. AmountOf(Q) \in Nat
    <3>1. Q \in SUBSET Transfer
      BY <2>1
    <3> QED BY <1>1, <3>1, AmountsAdd
  <2>6. AmountOf(U) + transfer[s].amount <= most /\ transfer[s].amount \in Nat
    BY <1>1, <1>6, Directions DEF U
  <2> QED BY <2>2, <2>3, <2>4, <2>5, <2>6
<1>7. AmountOf(Used(Hour, {DirOf(s)})) + transfer[s].amount <= MaxPerHour
  BY DEF UsedSince
<1>8. AmountOf(Used(Day, Dir)) + transfer[s].amount <= MaxPerDay
  BY DEF UsedSince
<1>9. ASSUME NEW dir \in Dir PROVE AmountOf(Recent(Hour, {dir}))' <= MaxPerHour
  <2>1. CASE dir = DirOf(s)
    <3> DEFINE dirs == {dir}
    <3>1. AmountOf(Used(Hour, dirs)) + transfer[s].amount <= MaxPerHour
      BY <1>7, <2>1
    <3> HIDE DEF dirs, Used, Recent
    <3>2. AmountOf(Recent(Hour, dirs))' <= MaxPerHour
      BY <1>3, <1>6, <3>1
    <3> QED BY <3>2 DEF dirs
  <2>2. CASE dir # DirOf(s)
    <3> DEFINE dirs == {dir}
               Q == Recent(Hour, dirs)'
               R == Recent(Hour, dirs)
    <3>1. s \notin Q
      BY <1>2, <2>2
    <3>2. Q \subseteq R /\ R \subseteq Transfer
      BY <1>3, <1>4, <3>1
    <3>3. AmountOf(Recent(Hour, dirs))' = AmountOf(Q)
      BY DEF AmountOf
    <3>4. AmountOf(R) <= MaxPerHour
      BY <1>1 DEF LimitsHeld
    <3> HIDE DEF Q, R
    <3>5. AmountOf(Q) <= AmountOf(R) /\ AmountOf(R) \in Nat /\ AmountOf(Q) \in Nat
      BY <1>1, <3>2, AmountsAdd
    <3>6. AmountOf(Recent(Hour, dirs))' <= MaxPerHour
      BY <1>3, <3>3, <3>4, <3>5
    <3> QED BY <3>6
  <2> QED BY <2>1, <2>2
<1>10. AmountOf(Recent(Day, Dir))' <= MaxPerDay
  BY <1>3, <1>6, <1>8
<1> HIDE DEF Recent
<1> QED BY <1>9, <1>10 DEF LimitsHeld, Recent

\* The item at hand is advanced, and at most one payout of it is sent.
Advances(s, new) ==
  /\ BotStep /\ disk' = disk /\ tick # None /\ s \in Transfer /\ s = tick.item
  /\ book' \in Book /\ book'.next = book.next /\ Has(book', s)
  /\ \A r \in Transfer \ {s} : book'.items[r] = book.items[r]
  /\ book'.items[s].checkFrom = book.items[s].checkFrom
  /\ (book'.items[s].status = "sent" =>
        book'.items[s].tx \in new \/ (book.items[s].status = "sent" /\ book'.items[s].tx = book.items[s].tx))
  /\ \/ book'.items[s].age = book.items[s].age
     \/ /\ book'.items[s].age = 0 /\ new # {}
        /\ UsedSince(Hour, {DirOf(s)}) + transfer[s].amount <= MaxPerHour
        /\ UsedSince(Day, Dir) + transfer[s].amount <= MaxPerDay
  /\ known' = known \cup new /\ new \subseteq Tx /\ IsFiniteSet(new)
  /\ \A t, u \in new : t = u
  /\ \A t \in new :
       /\ t.for = s /\ t.chain = Away(s) /\ tick.at = "pay"
       /\ (t.chain = "molibra" => t.nonce = Len(mined["molibra"]))
       /\ ((t.chain = "eth" /\ book.items[s].status = "sent") => t.nonce = book.items[s].tx.nonce)
  /\ Forgotten(book', known') \subseteq unrecorded'
  /\ tick' \in Tick /\ tick'.tips = tick.tips /\ tick'.queue \subseteq Open(book')
  /\ (tick'.item \in Transfer => tick'.item \in tick'.queue)
  /\ (tick'.at = "pay" => tick'.item = s /\ FoundOnChain(s) = {})

LEMMA AdvancesKeep ==
  ASSUME FastInv, NEW s, NEW new, Advances(s, new)
  PROVE  FastInv'
<1>1. /\ Chained /\ book \in Book /\ disk \in Book /\ Linked(book) /\ Linked(disk)
      /\ Begun(book) /\ Begun(disk) /\ Limited /\ Guarded /\ Ticking
  BY DEF FastInv, FastTyped
<1>2. BotStep /\ disk' = disk /\ tick # None /\ s \in Transfer /\ s = tick.item
  BY DEF Advances
<1>3. /\ book' \in Book /\ book'.next = book.next /\ Has(book', s)
      /\ \A r \in Transfer \ {s} : book'.items[r] = book.items[r]
      /\ book'.items[s].checkFrom = book.items[s].checkFrom
  BY DEF Advances
<1>4. book'.items[s].status = "sent" =>
        book'.items[s].tx \in new \/ (book.items[s].status = "sent" /\ book'.items[s].tx = book.items[s].tx)
  BY DEF Advances
<1>5. \/ book'.items[s].age = book.items[s].age
      \/ /\ book'.items[s].age = 0 /\ new # {}
         /\ UsedSince(Hour, {DirOf(s)}) + transfer[s].amount <= MaxPerHour
         /\ UsedSince(Day, Dir) + transfer[s].amount <= MaxPerDay
  BY DEF Advances
<1>6. known' = known \cup new /\ new \subseteq Tx /\ IsFiniteSet(new) /\ \A t, u \in new : t = u
  BY DEF Advances
<1>7. \A t \in new :
       /\ t.for = s /\ t.chain = Away(s) /\ tick.at = "pay"
       /\ (t.chain = "molibra" => t.nonce = Len(mined["molibra"]))
       /\ ((t.chain = "eth" /\ book.items[s].status = "sent") => t.nonce = book.items[s].tx.nonce)
  BY DEF Advances
<1>8. Forgotten(book', known') \subseteq unrecorded'
  BY DEF Advances
<1>9. /\ tick' \in Tick /\ tick'.tips = tick.tips /\ tick'.queue \subseteq Open(book')
      /\ (tick'.item \in Transfer => tick'.item \in tick'.queue)
      /\ (tick'.at = "pay" => tick'.item = s /\ FoundOnChain(s) = {})
  BY DEF Advances
<1>10. UNCHANGED <<transfer, tip, at, mined, raced, undone>> /\ unrecorded \subseteq unrecorded'
  BY <1>2 DEF BotStep
<1>11. \A r \in Transfer :
         /\ DirOf(r)' = DirOf(r) /\ Home(r)' = Home(r) /\ Away(r)' = Away(r) /\ Sent(r) \subseteq Sent(r)'
         /\ Payouts(r)' = Payouts(r)
         /\ (Sure(r)' => Sure(r) /\ Home(r) = "eth" /\ Away(r) = "molibra" /\ DirOf(r) = "b2m")
  BY <1>2, BotFrame
<1>12. Sent(s)' = Sent(s) \cup new /\ \A r \in Transfer \ {s} : Sent(r)' = Sent(r)
  BY <1>6, <1>7 DEF Sent
<1>13. Has(book, s) /\ book.items[s].status \notin Terminal
  BY <1>1, <1>2 DEF Ticking, Open
<1>14. \A r \in Transfer : (Has(book, r)' <=> Has(book, r)) /\ (Has(disk, r)' <=> Has(disk, r))
  BY <1>2, <1>3, <1>13 DEF Has
<1>15. book.items[s].age \in 0..Day
  BY <1>1, <1>2, <1>13, ItemOf
<1>16. FastTyped'
  <2>1. Chained'
    <3>1. known' \subseteq Tx /\ IsFiniteSet(known')
      BY <1>1, <1>6, FS_Union DEF Chained
    <3>2. \A t \in known' \ known : t.for \in Transfer => t.chain = Away(t.for)
      BY <1>6, <1>7
    <3> QED BY <1>1, <1>2, <3>1, <3>2, BotChained
  <2>2. Linked(book)'
    <3> SUFFICES ASSUME NEW r \in Transfer, Has(book, r)
                 PROVE  /\ book'.items[r].checkFrom <= tip[Away(r)]
                        /\ (book'.items[r].status = "sent" => book'.items[r].tx \in Sent(r)')
                        /\ (book'.items[r].age < Day => Sent(r)' # {})
      BY <1>10, <1>11, <1>14 DEF Linked
    <3>1. CASE r # s
      BY <1>1, <1>3, <1>12, <3>1 DEF Linked
    <3>2. CASE r = s
      <4>1. book'.items[s].checkFrom <= tip[Away(s)]
        BY <1>1, <1>2, <1>3, <1>13 DEF Linked
      <4>2. book'.items[s].status = "sent" => book'.items[s].tx \in Sent(s)'
        BY <1>1, <1>2, <1>4, <1>12, <1>13 DEF Linked
      <4>3. book'.items[s].age < Day => Sent(s)' # {}
        BY <1>1, <1>2, <1>5, <1>12, <1>13 DEF Linked
      <4> QED BY <3>2, <4>1, <4>2, <4>3
    <3> QED BY <3>1, <3>2
  <2>3. Linked(disk)'
    <3> SUFFICES ASSUME NEW r \in Transfer, Has(disk, r)
                 PROVE  /\ disk.items[r].checkFrom <= tip[Away(r)]
                        /\ (disk.items[r].status = "sent" => disk.items[r].tx \in Sent(r)')
                        /\ (disk.items[r].age < Day => Sent(r)' # {})
      BY <1>2, <1>10, <1>11, <1>14 DEF Linked
    <3> QED BY <1>1, <1>11 DEF Linked
  <2>4. Ticking'
    <3>1. Open(book)' = Open(book')
      BY DEF Open, Has
    <3> QED BY <1>1, <1>2, <1>3, <1>9, <1>10, <3>1 DEF Ticking
  <2>5. Begun(book)' /\ Begun(disk)'
    BY <1>1, <1>2, <1>3 DEF Begun
  <2> QED BY <1>1, <1>2, <1>3, <2>1, <2>2, <2>3, <2>4, <2>5 DEF FastTyped
<1>17. Limited'
  <2>1. Counted'
    BY <1>8 DEF Counted, Forgotten, StatusIn, Has
  <2>2. OneNonce'
    <3> SUFFICES ASSUME NEW r \in Transfer, r \notin unrecorded', DirOf(r) = "m2b",
                        NEW t \in Sent(r)', NEW u \in Sent(r)'
                 PROVE  t.nonce = u.nonce
      BY <1>11 DEF OneNonce
    <3>1. \A x, y \in Sent(r) : x.nonce = y.nonce
      BY <1>1, <1>10 DEF Limited, OneNonce
    <3>2. CASE r # s
      BY <1>12, <3>1, <3>2
    <3>3. CASE r = s
      <4>1. ASSUME NEW x \in new, NEW y \in Sent(s) PROVE x.nonce = y.nonce
        <5>1. StatusIn(book, s, {"sent", "paid"})
          BY <1>1, <1>10, <3>3, <4>1 DEF Limited, Counted, Forgotten, Sent
        <5>2. book.items[s].status = "sent"
          BY <1>13, <5>1 DEF StatusIn, Terminal
        <5>3. book.items[s].tx \in Sent(s)
          BY <1>1, <1>13, <3>3, <5>2 DEF Linked
        <5>4. x.chain = "eth"
          BY <1>1, <1>7, <3>3, <4>1, Directions
        <5> QED BY <1>7, <3>1, <3>3, <4>1, <5>2, <5>3, <5>4
      <4> QED BY <1>6, <1>12, <3>1, <3>3, <4>1
    <3> QED BY <3>2, <3>3
  <2>3. Saved'
    <3> SUFFICES ASSUME NEW r \in Transfer, r \notin unrecorded', Has(disk, r), disk.items[r].age < Day
                 PROVE  Has(book, r) /\ book'.items[r].age <= disk.items[r].age
      BY <1>2, <1>14 DEF Saved
    <3>1. Has(book, r) /\ book.items[r].age <= disk.items[r].age
      BY <1>1, <1>10 DEF Limited, Saved
    <3>2. disk.items[r].age \in 0..Day
      BY <1>1, ItemOf
    <3>3. book'.items[r].age = book.items[r].age \/ book'.items[r].age = 0
      BY <1>3, <1>5
    <3> QED BY <3>1, <3>2, <3>3, FastAssumption
  <2>4. LimitsHeld'
    <3>1. CASE book'.items[s].age = book.items[s].age
      <4>1. \A r \in Transfer : Has(book, r) => book.items[r].age <= book'.items[r].age
        <5> TAKE r \in Transfer
        <5> HAVE Has(book, r)
        <5>1. book.items[r].age \in 0..Day
          BY <1>1, ItemOf
        <5>2. book'.items[r].age = book.items[r].age
          BY <1>3, <3>1
        <5> QED BY <5>1, <5>2, FastAssumption
      <4>2. UNCHANGED transfer /\ book \in Book /\ book' \in Book /\ LimitsHeld /\ Chained
        BY <1>1, <1>3, <1>10 DEF Limited
      <4>3. \A r \in Transfer : (r \notin unrecorded' /\ Has(book, r)' /\ book'.items[r].age < Day) =>
              (r \notin unrecorded /\ Has(book, r) /\ book.items[r].age <= book'.items[r].age)
        BY <1>10, <1>14, <4>1
      <4> QED BY <4>2, <4>3, LimitsStay
    <3>2. CASE /\ UsedSince(Hour, {DirOf(s)}) + transfer[s].amount <= MaxPerHour
               /\ UsedSince(Day, Dir) + transfer[s].amount <= MaxPerDay
      <4>1. /\ UNCHANGED transfer /\ book' \in Book /\ unrecorded \subseteq unrecorded'
            /\ s \in Transfer
            /\ \A r \in Transfer \ {s} : book'.items[r] = book.items[r]
        BY <1>2, <1>3, <1>10
      <4> QED BY <3>2, <4>1, LimitsPaid
    <3> QED BY <1>5, <3>1, <3>2
  <2> QED BY <2>1, <2>2, <2>3, <2>4 DEF Limited
<1>18. Guarded'
  <2>1. Quiet'
    <3>1. ASSUME "molibra" \notin undone, NEW t \in known', t.chain = "molibra"
          PROVE  t.nonce <= Len(mined["molibra"])
      <4>1. CASE t \in known
        BY <1>1, <3>1, <4>1 DEF Guarded, Quiet
      <4>2. CASE t \in new
        <5>1. t.nonce = Len(mined["molibra"]) /\ t.nonce \in Nat
          BY <1>6, <1>7, <3>1, <4>2 DEF Tx
        <5> QED BY <5>1
      <4> QED BY <1>6, <3>1, <4>1, <4>2
    <3> QED BY <1>10, <3>1 DEF Quiet
  <2>2. ASSUME Sure(s), new # {} PROVE Payouts(s) = {}
    BY <1>1, <1>2, <1>7, <2>2 DEF Guarded, AboutToPay
  <2>3. Spent'
    <3> SUFFICES ASSUME NEW r \in Transfer, Sure(r), Payouts(r) # {}, NEW t \in Sent(r)'
                 PROVE  t.nonce < Len(mined["molibra"])
      BY <1>10, <1>11 DEF Spent
    <3>1. t \in Sent(r)
      BY <1>12, <2>2
    <3> QED BY <1>1, <3>1 DEF Guarded, Spent
  <2>4. Once'
    BY <1>1, <1>11 DEF Guarded, Once
  <2>5. AboutToPay'
    <3> SUFFICES ASSUME tick' # None, tick'.at = "pay", Sure(tick.item)', NEW i \in Payouts(tick.item)'
                 PROVE  FALSE
      BY DEF AboutToPay
    <3>1. tick'.item = s /\ FoundOnChain(s) = {} /\ Sure(s)' /\ i \in Payouts(s)'
      BY <1>9 DEF Sure, Payouts, DirOf, Away
    <3>2. Sure(s) /\ i \in Payouts(s) /\ Away(s) = "molibra"
      BY <1>2, <1>11, <3>1
    <3>3. mined["molibra"][i].height <= tick.tips["molibra"]
      BY <1>1, <1>2, <3>2 DEF Guarded, InTips
    <3>4. book.items[s].checkFrom <= mined["molibra"][i].height
      BY <1>1, <1>2, <1>13, <3>2 DEF Guarded, Searched
    <3>5. mined["molibra"][i].height \in Nat
      BY <1>1, <1>2, <3>2, PayoutsSay
    <3>6. book.items[s].checkFrom \in Nat
      BY <1>1, <1>2, <1>13, ItemOf
    <3>7. tick.tips["molibra"] \in Nat
      BY <1>1, <1>2, Chains DEF Ticking, Tick
    <3>8. i \in FoundOnChain(s)
      BY <3>2, <3>3, <3>4, <3>5, <3>6, <3>7 DEF FoundOnChain
    <3> QED BY <3>1, <3>8
  <2>6. InTips'
    BY <1>1, <1>2, <1>9, <1>10, <1>11 DEF Guarded, InTips
  <2>7. \A r \in Transfer : book'.items[r].checkFrom = book.items[r].checkFrom
    BY <1>3
  <2>8. Searched(book)' /\ Searched(disk)'
    BY <1>1, <1>2, <1>10, <1>11, <1>14, <2>7 DEF Guarded, Searched
  <2>9. \A r \in Transfer : ~Has(book, r) \/ ~Has(disk, r) => r # s
    BY <1>1, <1>13 DEF Guarded, Filed
  <2>10. Passed(book)' /\ Passed(disk)'
    BY <1>1, <1>2, <1>3, <1>10, <1>11, <1>12, <1>14, <2>9 DEF Guarded, Passed
  <2>11. Deep'
    <3> SUFFICES ASSUME NEW r \in Transfer, Home(r) \notin undone,
                        Sent(r)' # {} \/ Has(book, r) \/ Has(disk, r)
                 PROVE  at[r] # 0 /\ at[r] <= tip[Home(r)] - Confirmations[Home(r)]
      BY <1>10, <1>11, <1>14 DEF Deep
    <3>1. Sent(r) # {} \/ Has(book, r) \/ Has(disk, r)
      BY <1>12, <1>13
    <3> QED BY <1>1, <3>1 DEF Guarded, Deep
  <2>12. Filed'
    BY <1>1, <1>14 DEF Guarded, Filed
  <2> QED BY <2>1, <2>3, <2>4, <2>5, <2>6, <2>8, <2>10, <2>11, <2>12 DEF Guarded
<1> QED BY <1>16, <1>17, <1>18 DEF FastInv

-----------------------------------------------------------------------------
(* The steps that advance an item.                                         *)

\* A book with one item rewritten.
LEMMA AlterSays ==
  ASSUME NEW b \in Book, NEW s \in Transfer, NEW it \in Item
  PROVE  LET b2 == [b EXCEPT !.items[s] = it]
         IN /\ b2 \in Book /\ b2.next = b.next /\ b2.items[s] = it /\ Has(b2, s)
            /\ \A r \in Transfer \ {s} : b2.items[r] = b.items[r]
<1> DEFINE items == [b.items EXCEPT ![s] = it]
           b2 == [b EXCEPT !.items = items]
<1>1. /\ items \in [Transfer -> Item \cup {None}] /\ items[s] = it
      /\ \A r \in Transfer \ {s} : items[r] = b.items[r]
  BY DEF Book
<1> HIDE DEF items
<1>2. b2 \in Book /\ b2.next = b.next /\ b2.items = items
  BY <1>1 DEF Book
<1>3. [b EXCEPT !.items[s] = it] = b2
  BY DEF items
<1>4. it # None
  BY FastAssumption
<1> HIDE DEF b2
<1> QED BY <1>1, <1>2, <1>3, <1>4 DEF Has

\* The same item as before, as far as it does not say what becomes of it.
SameItem(b, s) ==
  /\ b \in Book /\ b.next = book.next /\ Has(b, s)
  /\ \A r \in Transfer \ {s} : b.items[r] = book.items[r]
  /\ b.items[s].checkFrom = book.items[s].checkFrom /\ b.items[s].age = book.items[s].age

LEMMA StatusSet ==
  ASSUME NEW s \in Transfer, NEW b, SameItem(b, s), NEW status \in Status
  PROVE  LET b2 == [b EXCEPT !.items[s].status = status]
         IN SameItem(b2, s) /\ b2.items[s].status = status /\ b2.items[s].tx = b.items[s].tx
<1> DEFINE it == [b.items[s] EXCEPT !.status = status]
           b2 == [b EXCEPT !.items[s] = it]
<1>1. b \in Book /\ b.items[s] \in Item
  BY ItemOf DEF SameItem
<1>2. /\ it \in Item /\ it.status = status /\ it.tx = b.items[s].tx
      /\ it.checkFrom = b.items[s].checkFrom /\ it.age = b.items[s].age
  BY <1>1 DEF Item
<1>3. [b EXCEPT !.items[s].status = status] = b2
  OBVIOUS
<1> HIDE DEF it
<1>4. /\ b2 \in Book /\ b2.next = b.next /\ b2.items[s] = it /\ Has(b2, s)
      /\ \A r \in Transfer \ {s} : b2.items[r] = b.items[r]
  BY <1>1, <1>2, AlterSays
<1> HIDE DEF b2
<1>5. SameItem(b2, s)
  BY <1>2, <1>4 DEF SameItem
<1> QED BY <1>2, <1>3, <1>4, <1>5

LEMMA TxSet ==
  ASSUME NEW s \in Transfer, NEW b, SameItem(b, s), NEW tx \in Tx
  PROVE  LET b2 == [b EXCEPT !.items[s].tx = tx]
         IN SameItem(b2, s) /\ b2.items[s].tx = tx /\ b2.items[s].status = b.items[s].status
<1> DEFINE it == [b.items[s] EXCEPT !.tx = tx]
           b2 == [b EXCEPT !.items[s] = it]
<1>1. b \in Book /\ b.items[s] \in Item
  BY ItemOf DEF SameItem
<1>2. /\ it \in Item /\ it.tx = tx /\ it.status = b.items[s].status
      /\ it.checkFrom = b.items[s].checkFrom /\ it.age = b.items[s].age
  BY <1>1 DEF Item
<1>3. [b EXCEPT !.items[s].tx = tx] = b2
  OBVIOUS
<1> HIDE DEF it
<1>4. /\ b2 \in Book /\ b2.next = b.next /\ b2.items[s] = it /\ Has(b2, s)
      /\ \A r \in Transfer \ {s} : b2.items[r] = b.items[r]
  BY <1>1, <1>2, AlterSays
<1> HIDE DEF b2
<1>5. SameItem(b2, s)
  BY <1>2, <1>4 DEF SameItem
<1> QED BY <1>2, <1>3, <1>4, <1>5

LEMMA FeeSet ==
  ASSUME NEW s \in Transfer, NEW b, SameItem(b, s), NEW fee \in Nat
  PROVE  LET b2 == [b EXCEPT !.items[s].fee = fee]
         IN SameItem(b2, s) /\ b2.items[s].tx = b.items[s].tx /\ b2.items[s].status = b.items[s].status
<1> DEFINE it == [b.items[s] EXCEPT !.fee = fee]
           b2 == [b EXCEPT !.items[s] = it]
<1>1. b \in Book /\ b.items[s] \in Item
  BY ItemOf DEF SameItem
<1>2. /\ it \in Item /\ it.tx = b.items[s].tx /\ it.status = b.items[s].status
      /\ it.checkFrom = b.items[s].checkFrom /\ it.age = b.items[s].age
  BY <1>1 DEF Item
<1>3. [b EXCEPT !.items[s].fee = fee] = b2
  OBVIOUS
<1> HIDE DEF it
<1>4. /\ b2 \in Book /\ b2.next = b.next /\ b2.items[s] = it /\ Has(b2, s)
      /\ \A r \in Transfer \ {s} : b2.items[r] = b.items[r]
  BY <1>1, <1>2, AlterSays
<1> HIDE DEF b2
<1>5. SameItem(b2, s)
  BY <1>2, <1>4 DEF SameItem
<1> QED BY <1>2, <1>3, <1>4, <1>5

LEMMA PauseSet ==
  ASSUME NEW s \in Transfer, NEW b, SameItem(b, s)
  PROVE  SameItem(Paused(b), s) /\ Paused(b).items[s] = b.items[s]
<1>1. b \in Book
  BY DEF SameItem
<1>2. Paused(b) \in Book /\ Paused(b).next = b.next /\ Paused(b).items = b.items
  BY <1>1 DEF Paused, Book
<1> QED BY <1>2 DEF SameItem, Has

\* An item in the hands of a tick.
LEMMA InHand ==
  ASSUME FastInv, NEW s \in Transfer, tick # None, tick.item = s
  PROVE  /\ tick \in Tick /\ Has(book, s) /\ book.items[s] \in Item /\ SameItem(book, s)
         /\ book.items[s].status \notin Terminal /\ book.items[s].age \in 0..Day
<1>1. Ticking /\ book \in Book
  BY DEF FastInv, FastTyped
<1>2. Has(book, s) /\ book.items[s].status \notin Terminal /\ tick \in Tick
  BY <1>1 DEF Ticking, Open
<1> QED BY <1>1, <1>2, ItemOf DEF SameItem

LEMMA PricedSays ==
  ASSUME FastInv, NEW s \in Transfer, tick # None, tick.item = s
  PROVE  /\ SameItem(Priced(s), s) /\ Priced(s).items[s].tx = book.items[s].tx
         /\ Priced(s).items[s].status = book.items[s].status
         /\ (tick.gas # None => Fee(s) \in Nat)
<1>1. /\ tick \in Tick /\ Has(book, s) /\ book.items[s] \in Item /\ SameItem(book, s)
      /\ book.items[s].fee \in Nat \cup {None}
  BY InHand DEF Item
<1>2. tick.gas # None => Fee(s) \in Nat
  BY <1>1, QuoteType DEF Fee
<1>3. CASE tick.gas = None \/ transfer[s].amount > MaxTransfer
  BY <1>1, <1>2, <1>3 DEF Priced
<1>4. CASE ~(tick.gas = None \/ transfer[s].amount > MaxTransfer)
  <2> DEFINE b2 == [book EXCEPT !.items[s].fee = Fee(s)]
  <2>1. Priced(s) = b2
    BY <1>4 DEF Priced
  <2>2. Fee(s) \in Nat
    BY <1>2, <1>4
  <2>3. /\ SameItem(b2, s) /\ b2.items[s].tx = book.items[s].tx
        /\ b2.items[s].status = book.items[s].status
    BY <1>1, <2>2, FeeSet
  <2> HIDE DEF b2
  <2> QED BY <1>2, <2>1, <2>3
<1> QED BY <1>3, <1>4

LEMMA Unpaid ==
  ASSUME FastInv, NEW s \in Transfer, tick # None, tick.item = s,
         UNCHANGED <<disk, transfer, tip, at, mined, raced, undone>>,
         known' = known, unrecorded \subseteq unrecorded', Forgotten(book', known') \subseteq unrecorded',
         SameItem(book', s),
         book'.items[s].status = "sent" => (book.items[s].status = "sent" /\ book'.items[s].tx = book.items[s].tx),
         \/ GoesOn(tick')
         \/ /\ tick' \in Tick /\ tick'.tips = tick.tips /\ tick'.queue = tick.queue /\ tick'.item = s
            /\ book' = book /\ (tick'.at = "pay" => FoundOnChain(s) = {})
  PROVE  FastInv'
<1>1. tick' \in Tick /\ tick'.tips = tick.tips /\ (tick'.at = "pay" => tick'.item = s /\ FoundOnChain(s) = {})
  BY DEF GoesOn
<1>2. tick'.queue \subseteq Open(book') /\ (tick'.item \in Transfer => tick'.item \in tick'.queue)
  <2>1. Ticking
    BY DEF FastInv, FastTyped
  <2>2. CASE GoesOn(tick')
    <3>1. \A r \in Transfer \ {s} : book'.items[r] = book.items[r]
      BY DEF SameItem
    <3> QED BY <2>2, <3>1 DEF GoesOn, Open, Has
  <2>3. CASE tick'.queue = tick.queue /\ tick'.item = s /\ book' = book
    BY <2>1, <2>3 DEF Ticking
  <2> QED BY <2>2, <2>3
<1>3. BotStep
  BY DEF BotStep
<1>4. /\ book' \in Book /\ book'.next = book.next /\ Has(book', s)
      /\ \A r \in Transfer \ {s} : book'.items[r] = book.items[r]
      /\ book'.items[s].checkFrom = book.items[s].checkFrom /\ book'.items[s].age = book.items[s].age
  BY DEF SameItem
<1> DEFINE new == {}
<1>5. known' = known \cup new /\ new \subseteq Tx /\ IsFiniteSet(new) /\ new = {}
  BY FS_EmptySet
<1> HIDE DEF new
<1>6. Advances(s, new)
  BY <1>1, <1>2, <1>3, <1>4, <1>5 DEF Advances
<1> QED BY <1>6, AdvancesKeep

\* The status of an item that is not sent now is no reason to send.
LEMMA Decided ==
  ASSUME FastInv, NEW s \in Transfer, tick # None, tick.item = s, NEW status \in Status \ {"sent"},
         NEW b, SameItem(b, s), NEW b2,
         b2 = [b EXCEPT !.items[s].status = status] \/ b2 = Paused([b EXCEPT !.items[s].status = status]),
         Remember(b2, {}), GoesOn(tick'),
         UNCHANGED <<disk, transfer, tip, at, mined, raced, undone>>
  PROVE  FastInv'
<1> DEFINE b1 == [b EXCEPT !.items[s].status = status]
<1>1. SameItem(b1, s) /\ b1.items[s].status = status
  BY StatusSet
<1>2. b2 = b1 \/ b2 = Paused(b1)
  OBVIOUS
<1> HIDE DEF b1
<1>3. SameItem(b2, s) /\ b2.items[s].status = status
  BY <1>1, <1>2, PauseSet
<1>4. book' = b2 /\ known' = known /\ unrecorded' = unrecorded \cup Forgotten(book', known')
  BY DEF Remember
<1>5. SameItem(book', s) /\ book'.items[s].status # "sent"
  BY <1>3, <1>4
<1>6. unrecorded \subseteq unrecorded' /\ Forgotten(book', known') \subseteq unrecorded'
  BY <1>4
<1> QED BY <1>4, <1>5, <1>6, Unpaid

LEMMA StatusesSay ==
  /\ {"paid", "payout-reverted", "reorged", "waiting"} \subseteq Status \ {"sent"}
  /\ {"over-limit", "below-fee", "contract-sender"} \subseteq Status \ {"sent"}
BY DEF Status, Terminal, Refused

LEMMA Receipts ==
  ASSUME FastInv, NEW s \in Transfer, Receipt(s)
  PROVE  FastInv'
<1>1. tick # None /\ tick.item = s /\ UNCHANGED <<disk, transfer, tip, at, mined, raced, undone>>
  BY DEF Receipt, Handling, history
<1>2. SameItem(book, s)
  BY <1>1, InHand
<1>3. GoesOn(ItemDone) /\ GoesOn(TickOver)
  BY <1>1, ItemsDone
<1> DEFINE paid == [book EXCEPT !.items[s].status = "paid"]
           reverted == [book EXCEPT !.items[s].status = "payout-reverted"]
<1>4. \/ Remember(paid, {}) /\ GoesOn(tick')
      \/ Remember(Paused(reverted), {}) /\ GoesOn(tick')
  BY <1>3 DEF Receipt, Set
<1>5. ASSUME Remember(paid, {}), GoesOn(tick') PROVE FastInv'
  BY <1>1, <1>2, <1>5, StatusesSay, Decided
<1>6. ASSUME Remember(Paused(reverted), {}), GoesOn(tick') PROVE FastInv'
  BY <1>1, <1>2, <1>6, StatusesSay, Decided
<1> QED BY <1>4, <1>5, <1>6

LEMMA NoReceipts ==
  ASSUME FastInv, NEW s \in Transfer, NoReceipt(s) \/ Unanswered(s)
  PROVE  FastInv'
<1>1. tick # None /\ tick.item = s /\ UNCHANGED <<disk, transfer, tip, at, mined, raced, undone>>
      /\ UNCHANGED <<book, known, unrecorded>>
  BY DEF NoReceipt, Unanswered, Handling, history, chains
<1>2. SameItem(book, s) /\ tick \in Tick
  BY <1>1, InHand
<1>3. GoesOn(ItemDone) /\ GoesOn([ItemDone EXCEPT !.sent = @ \cup {Away(s)}])
  <2>1. Away(s) \in Chain
    BY Directions DEF FastInv, FastTyped
  <2> QED BY <1>1, <2>1, ItemsDone
<1> DEFINE stale == [tick EXCEPT !.at = "source"]
<1>4. GoesOn(tick') \/ tick' = stale
  BY <1>3 DEF NoReceipt, Unanswered
<1>5. /\ stale \in Tick /\ stale.tips = tick.tips /\ stale.queue = tick.queue
      /\ stale.item = s /\ stale.at = "source"
  BY <1>1, <1>2 DEF Tick
<1> HIDE DEF stale
<1>6. Forgotten(book', known') \subseteq unrecorded'
  BY <1>1 DEF FastInv, Limited, Counted, Forgotten, StatusIn, Has
<1>7. SameItem(book', s)
  BY <1>1, <1>2
<1>8. \/ GoesOn(tick')
      \/ /\ tick' \in Tick /\ tick'.tips = tick.tips /\ tick'.queue = tick.queue /\ tick'.item = s
         /\ book' = book /\ (tick'.at = "pay" => FoundOnChain(s) = {})
  BY <1>1, <1>4, <1>5
<1> QED BY <1>1, <1>6, <1>7, <1>8, Unpaid

LEMMA Stops ==
  ASSUME FastInv, NEW s \in Transfer, SourceGone(s) \/ NodesDisagree(s)
  PROVE  FastInv'
<1>1. tick # None /\ tick.item = s /\ UNCHANGED <<disk, transfer, tip, at, mined, raced, undone>>
  BY DEF SourceGone, NodesDisagree, Starting, Handling, history
<1>2. SameItem(book, s) /\ GoesOn(TickOver)
  BY <1>1, InHand, ItemsDone
<1>3. ASSUME SourceGone(s) PROVE FastInv'
  <2> DEFINE gone == [book EXCEPT !.items[s].status = "reorged"]
  <2>1. Remember(Paused(gone), {}) /\ GoesOn(tick')
    BY <1>2, <1>3 DEF SourceGone, Set
  <2> QED BY <1>1, <1>2, <2>1, StatusesSay, Decided
<1>4. ASSUME NodesDisagree(s) PROVE FastInv'
  <2>1. Remember(Paused(book), {}) /\ GoesOn(tick')
    BY <1>2, <1>4 DEF NodesDisagree
  <2>2. SameItem(Paused(book), s) /\ Paused(book).items[s] = book.items[s]
    BY <1>2, PauseSet
  <2>3. /\ book' = Paused(book) /\ known' = known
        /\ unrecorded' = unrecorded \cup Forgotten(book', known')
    BY <2>1 DEF Remember
  <2>4. SameItem(book', s) /\ book'.items[s] = book.items[s]
    BY <2>2, <2>3
  <2>5. unrecorded \subseteq unrecorded' /\ Forgotten(book', known') \subseteq unrecorded'
    BY <2>3
  <2> QED BY <1>1, <2>1, <2>3, <2>4, <2>5, Unpaid
<1> QED BY <1>3, <1>4

\* A search finds a payout, or the tick is about to pay and no payout was found.
LEMMA Searches ==
  ASSUME FastInv, NEW s \in Transfer, Search(s)
  PROVE  FastInv'
<1>1. tick # None /\ tick.item = s /\ UNCHANGED <<disk, transfer, tip, at, mined, raced, undone>>
  BY DEF Search, Starting, Handling, history
<1>2. SameItem(book, s) /\ GoesOn(ItemDone) /\ tick \in Tick
  BY <1>1, InHand, ItemsDone
<1>3. ASSUME FoundOnChain(s) # {} PROVE FastInv'
  <2> DEFINE i == Min(FoundOnChain(s))
             tx == mined[Away(s)][i].tx
             paid == [book EXCEPT !.items[s].status = "paid"]
  <2>1. Chained
    BY DEF FastInv, FastTyped
  <2>2. FoundOnChain(s) \in SUBSET Nat
    BY <2>1, PayoutsSay DEF FoundOnChain
  <2>3. i \in FoundOnChain(s)
    BY <1>3, <2>2, MinIsLeast
  <2>4. tx \in Tx
    BY <2>1, <2>3, PayoutsSay DEF FoundOnChain, Sent, Chained
  <2>5. Remember([paid EXCEPT !.items[s].tx = tx], {}) /\ tick' = ItemDone
    BY <1>3 DEF Search, Set
  <2> HIDE DEF tx, paid
  <2>6. SameItem(paid, s) /\ paid.items[s].status = "paid"
    BY <1>2, StatusesSay, StatusSet DEF paid
  <2> DEFINE b2 == [paid EXCEPT !.items[s].tx = tx]
  <2>7. SameItem(b2, s) /\ b2.items[s].status = "paid"
    BY <2>4, <2>6, TxSet
  <2>8. Remember(b2, {}) /\ GoesOn(tick')
    BY <1>2, <2>5
  <2> HIDE DEF b2
  <2>9. book' = b2 /\ known' = known /\ unrecorded' = unrecorded \cup Forgotten(book', known')
    BY <2>8 DEF Remember
  <2>10. SameItem(book', s) /\ book'.items[s].status # "sent"
    BY <2>7, <2>9
  <2>11. unrecorded \subseteq unrecorded' /\ Forgotten(book', known') \subseteq unrecorded'
    BY <2>9
  <2> QED BY <1>1, <2>8, <2>9, <2>10, <2>11, Unpaid
<1>4. ASSUME FoundOnChain(s) = {} PROVE FastInv'
  <2> DEFINE pay == [tick EXCEPT !.at = "pay"]
  <2>1. tick' = pay /\ UNCHANGED <<book, known, unrecorded>>
    BY <1>4 DEF Search
  <2>2. pay \in Tick /\ pay.tips = tick.tips /\ pay.queue = tick.queue /\ pay.item = s
    BY <1>1, <1>2 DEF Tick
  <2> HIDE DEF pay
  <2>3. Forgotten(book', known') \subseteq unrecorded'
    BY <2>1 DEF FastInv, Limited, Counted, Forgotten, StatusIn, Has
  <2>4. SameItem(book', s)
    BY <1>2, <2>1
  <2>5. /\ tick' \in Tick /\ tick'.tips = tick.tips /\ tick'.queue = tick.queue /\ tick'.item = s
        /\ book' = book /\ (tick'.at = "pay" => FoundOnChain(s) = {})
    BY <1>4, <2>1, <2>2
  <2> QED BY <1>1, <2>1, <2>3, <2>4, <2>5, Unpaid
<1> QED BY <1>3, <1>4

\* What the rules say when they do not say to pay.
LEMMA VerdictSays ==
  ASSUME NEW s \in Transfer
  PROVE  /\ Verdict(s) \in (Status \ {"sent"}) \cup {"pay"}
         /\ (Verdict(s) = "pay" =>
              /\ tick.gas # None /\ ~(transfer[s].amount <= Fee(s))
              /\ ~(UsedSince(Hour, {DirOf(s)}) + transfer[s].amount > MaxPerHour)
              /\ ~(UsedSince(Day, Dir) + transfer[s].amount > MaxPerDay))
<1>1. Verdict(s) \in {"over-limit", "waiting", "below-fee", "contract-sender"} \cup {"pay"}
  BY DEF Verdict
<1>2. Verdict(s) = "pay" =>
              /\ tick.gas # None /\ ~(transfer[s].amount <= Fee(s))
              /\ ~(UsedSince(Hour, {DirOf(s)}) + transfer[s].amount > MaxPerHour)
              /\ ~(UsedSince(Day, Dir) + transfer[s].amount > MaxPerDay)
  BY DEF Verdict
<1> QED BY <1>1, <1>2, StatusesSay

LEMMA Refusals ==
  ASSUME FastInv, NEW s \in Transfer, Refuse(s) \/ GasTooHigh(s)
  PROVE  FastInv'
<1>1. PICK status \in Status \ {"sent"} : NotPaid(s, status)
  BY VerdictSays, StatusesSay DEF Refuse, GasTooHigh
<1>2. tick # None /\ tick.item = s
  BY DEF Refuse, GasTooHigh, Handling
<1>3. UNCHANGED <<disk, transfer, tip, at, mined, raced, undone>> /\ tick' = ItemDone
  BY <1>1 DEF NotPaid, history
<1> DEFINE b == Priced(s)
           b2 == [b EXCEPT !.items[s].status = status]
<1>4. SameItem(b, s)
  BY <1>2, PricedSays
<1>5. Remember(b2, {})
  BY <1>1 DEF NotPaid
<1>6. GoesOn(tick')
  BY <1>2, <1>3, ItemsDone
<1> HIDE DEF b
<1> QED BY <1>2, <1>3, <1>4, <1>5, <1>6, Decided

LEMMA PayoutsFit ==
  ASSUME FastInv, NEW s \in Transfer, Handling(s, "pay"), Verdict(s) = "pay", NEW nonce \in PayoutNonces(s)
  PROVE  LET t == Payout(s, nonce)
         IN /\ t \in Tx /\ t.for = s /\ t.chain = Away(s)
            /\ (t.chain = "molibra" => t.nonce = Len(mined["molibra"]))
            /\ ((t.chain = "eth" /\ book.items[s].status = "sent") => t.nonce = book.items[s].tx.nonce)
<1>1. tick # None /\ tick.item = s /\ Chained /\ Linked(book)
  BY DEF Handling, FastInv, FastTyped
<1>2. Has(book, s) /\ Away(s) \in Chain /\ transfer[s].amount \in Nat
  BY <1>1, InHand, Directions
<1>3. Fee(s) \in Nat /\ ~(transfer[s].amount <= Fee(s))
  BY <1>1, PricedSays, VerdictSays
<1> DEFINE value == transfer[s].amount - Fee(s)
<1>4. value \in Nat
  BY <1>2, <1>3
<1>5. /\ nonce \in Nat /\ (Away(s) = "molibra" => nonce = Len(mined["molibra"]))
      /\ ((Away(s) = "eth" /\ book.items[s].status = "sent") => nonce = book.items[s].tx.nonce)
  <2>1. CASE Away(s) = "eth" /\ book.items[s].status = "sent"
    <3>1. book.items[s].tx \in Tx
      BY <1>1, <1>2, <2>1 DEF Linked, Sent, Chained
    <3>2. nonce = book.items[s].tx.nonce
      BY <2>1 DEF PayoutNonces
    <3> QED BY <2>1, <3>1, <3>2 DEF Tx
  <2>2. CASE ~(Away(s) = "eth" /\ book.items[s].status = "sent")
    <3>1. nonce \in Nonces(Away(s))
      BY <2>2 DEF PayoutNonces
    <3> QED BY <1>1, <1>2, <2>2, <3>1, NonceType
  <2> QED BY <2>1, <2>2
<1>6. Payout(s, nonce) = [for |-> s, chain |-> Away(s), nonce |-> nonce, value |-> value]
  BY DEF Payout
<1> HIDE DEF value
<1> QED BY <1>2, <1>4, <1>5, <1>6 DEF Tx

LEMMA Pays ==
  ASSUME FastInv, NEW s \in Transfer, Pay(s) \/ PayUnheard(s)
  PROVE  FastInv'
<1>1. tick # None /\ tick.item = s /\ tick.at = "pay" /\ Handling(s, "pay") /\ Verdict(s) = "pay"
  BY DEF Pay, PayUnheard, Handling
<1>2. UNCHANGED <<disk, transfer, tip, at, mined, raced, undone>>
  BY DEF Pay, PayUnheard, history
<1> DEFINE p == Priced(s)
<1>3. PICK nonce \in PayoutNonces(s) :
        \/ Remember([p EXCEPT !.items[s].status = "sent", !.items[s].age = 0,
                              !.items[s].tx = Payout(s, nonce)], {Payout(s, nonce)})
        \/ Remember(p, {Payout(s, nonce)})
  BY DEF Pay, PayUnheard
<1> DEFINE t == Payout(s, nonce)
           it == [p.items[s] EXCEPT !.status = "sent", !.age = 0, !.tx = t]
           sent == [p EXCEPT !.items[s] = it]
<1>4. /\ t \in Tx /\ t.for = s /\ t.chain = Away(s)
      /\ (t.chain = "molibra" => t.nonce = Len(mined["molibra"]))
      /\ ((t.chain = "eth" /\ book.items[s].status = "sent") => t.nonce = book.items[s].tx.nonce)
  BY <1>1, PayoutsFit
<1>5. Remember(sent, {t}) \/ Remember(p, {t})
  BY <1>3
<1>6. SameItem(p, s) /\ p.items[s].tx = book.items[s].tx /\ p.items[s].status = book.items[s].status
  BY <1>1, PricedSays
<1> HIDE DEF p, t
<1>7. /\ it \in Item /\ it.status = "sent" /\ it.age = 0 /\ it.tx = t
      /\ it.checkFrom = p.items[s].checkFrom
  <2>1. p.items[s] \in Item
    BY <1>6, ItemOf DEF SameItem
  <2>2. 0 \in 0..Day /\ "sent" \in Status
    BY FastAssumption DEF Status
  <2> QED BY <1>4, <2>1, <2>2 DEF Item
<1> HIDE DEF it
<1>8. /\ sent \in Book /\ sent.next = p.next /\ sent.items[s] = it /\ Has(sent, s)
      /\ \A r \in Transfer \ {s} : sent.items[r] = p.items[r]
  BY <1>6, <1>7, AlterSays DEF SameItem
<1> HIDE DEF sent
<1>9. (book' = sent \/ book' = p) /\ known' = known \cup {t} /\ unrecorded' = unrecorded \cup Forgotten(book', known')
  BY <1>5 DEF Remember
<1>10. GoesOn(tick')
  <2>1. Away(s) \in Chain
    BY Directions DEF FastInv, FastTyped
  <2> QED BY <1>1, <2>1, ItemsDone DEF Pay, PayUnheard
<1>11. /\ UsedSince(Hour, {DirOf(s)}) + transfer[s].amount <= MaxPerHour
       /\ UsedSince(Day, Dir) + transfer[s].amount <= MaxPerDay
  <2>1. Chained
    BY DEF FastInv, FastTyped
  <2>2. transfer[s].amount \in Nat /\ MaxPerHour \in Nat /\ MaxPerDay \in Nat
    BY <2>1, Directions, FastAssumption
  <2>3. UsedSince(Hour, {DirOf(s)}) \in Nat /\ UsedSince(Day, Dir) \in Nat
    BY <2>1, AmountsAdd DEF UsedSince
  <2>4. /\ ~(UsedSince(Hour, {DirOf(s)}) + transfer[s].amount > MaxPerHour)
        /\ ~(UsedSince(Day, Dir) + transfer[s].amount > MaxPerDay)
    BY <1>1, VerdictSays
  <2> QED BY <2>2, <2>3, <2>4
<1>12. /\ p \in Book /\ p.next = book.next /\ Has(p, s)
       /\ \A r \in Transfer \ {s} : p.items[r] = book.items[r]
       /\ p.items[s].checkFrom = book.items[s].checkFrom /\ p.items[s].age = book.items[s].age
  BY <1>6 DEF SameItem
<1>13. /\ book' \in Book /\ book'.next = book.next /\ Has(book', s)
       /\ \A r \in Transfer \ {s} : book'.items[r] = book.items[r]
       /\ book'.items[s].checkFrom = book.items[s].checkFrom
  BY <1>7, <1>8, <1>9, <1>12
<1>14. \/ book'.items[s].tx = t /\ book'.items[s].age = 0
       \/ /\ book'.items[s].tx = book.items[s].tx /\ book'.items[s].status = book.items[s].status
          /\ book'.items[s].age = book.items[s].age
  BY <1>6, <1>7, <1>8, <1>9, <1>12
<1> DEFINE new == {t}
<1>15. known' = known \cup new /\ new \subseteq Tx /\ IsFiniteSet(new) /\ new # {} /\ t \in new
  BY <1>4, <1>9, FS_Singleton
<1>16. \A x \in new : x = t
  OBVIOUS
<1> HIDE DEF new
<1>17. BotStep
  BY <1>2, <1>9, <1>15 DEF BotStep
<1>18. /\ tick' \in Tick /\ tick'.tips = tick.tips /\ tick'.queue \subseteq Open(book')
       /\ (tick'.item \in Transfer => tick'.item \in tick'.queue) /\ tick'.at # "pay"
  <2>1. tick'.queue \subseteq Open(book')
    BY <1>1, <1>10, <1>13 DEF GoesOn, Open, Has
  <2> QED BY <1>10, <2>1 DEF GoesOn
<1>19. \A x \in new :
       /\ x.for = s /\ x.chain = Away(s) /\ tick.at = "pay"
       /\ (x.chain = "molibra" => x.nonce = Len(mined["molibra"]))
       /\ ((x.chain = "eth" /\ book.items[s].status = "sent") => x.nonce = book.items[s].tx.nonce)
  BY <1>1, <1>4, <1>16
<1>20. book'.items[s].status = "sent" =>
        book'.items[s].tx \in new \/ (book.items[s].status = "sent" /\ book'.items[s].tx = book.items[s].tx)
  BY <1>14, <1>15
<1>21. \/ book'.items[s].age = book.items[s].age
       \/ /\ book'.items[s].age = 0 /\ new # {}
          /\ UsedSince(Hour, {DirOf(s)}) + transfer[s].amount <= MaxPerHour
          /\ UsedSince(Day, Dir) + transfer[s].amount <= MaxPerDay
  BY <1>11, <1>14, <1>15
<1>22. Forgotten(book', known') \subseteq unrecorded' /\ disk' = disk /\ \A x, y \in new : x = y
  BY <1>2, <1>9, <1>16
<1>23. Advances(s, new)
  BY <1>1, <1>13, <1>15, <1>17, <1>18, <1>19, <1>20, <1>21, <1>22 DEF Advances
<1> QED BY <1>23, AdvancesKeep

LEMMA FastInitInv == Init => FastInv
<1> SUFFICES ASSUME Init PROVE FastInv
  OBVIOUS
<1>1. /\ book = Blank /\ disk = Blank /\ tick = None /\ known = {} /\ unrecorded = {}
      /\ raced = {} /\ undone = {}
      /\ transfer \in [Transfer -> [dir : Dir, amount : Amount, from : Sender]]
      /\ tip = [c \in Chain |-> 0] /\ at = [s \in Transfer |-> 0] /\ mined = [c \in Chain |-> << >>]
  BY DEF Init
<1>2. \A s \in Transfer : Home(s) \in Chain /\ Away(s) \in Chain
  BY DEF Home, Away, SourceOf, TargetOf, Chain
<1>3. \A s \in Transfer : ~Has(book, s) /\ ~Has(disk, s) /\ Sent(s) = {} /\ Payouts(s) = {}
  BY <1>1, <1>2, Blanks DEF Sent, Payouts
<1>4. Chained
  <2>1. \A c \in Chain : mined[c] = << >> /\ << >> \in Seq(Row) /\ Len(mined[c]) = 0
    BY <1>1, EmptySeq
  <2>2. IsFiniteSet(known)
    BY <1>1, FS_EmptySet
  <2>3. mined \in [Chain -> Seq(Row)]
    BY <1>1, <2>1
  <2>4. \A c \in Chain : 1..Len(mined[c]) = {}
    BY <2>1
  <2>5. /\ tip \in [Chain -> Nat] /\ at \in [Transfer -> Nat] /\ \A s \in Transfer : at[s] <= tip[Home(s)]
    BY <1>1, <1>2
  <2>6. known \subseteq Tx /\ \A t \in known : t.for \in Transfer => t.chain = Away(t.for)
    BY <1>1
  <2> QED BY <1>1, <2>2, <2>3, <2>4, <2>5, <2>6 DEF Chained
<1>5. FastTyped
  <2>1. book \in Book /\ disk \in Book
    BY <1>1, Blanks
  <2>2. Linked(book) /\ Linked(disk)
    BY <1>3 DEF Linked
  <2>3. Begun(book) /\ Begun(disk)
    <3>1. \A c \in Chain : book.next[c] = None /\ disk.next[c] = None
      BY <1>1 DEF Blank
    <3>2. None # 0
      BY FastAssumption
    <3> QED BY <3>1, <3>2 DEF Begun
  <2>4. Ticking
    BY <1>1 DEF Ticking
  <2> QED BY <1>4, <2>1, <2>2, <2>3, <2>4 DEF FastTyped
<1>6. Limited
  <2>1. Counted
    BY <1>1 DEF Counted, Forgotten
  <2>2. OneNonce /\ Saved
    BY <1>3 DEF OneNonce, Saved
  <2>3. LimitsHeld
    <3> DEFINE Recent(window, dirs) ==
          {s \in Transfer \ unrecorded : DirOf(s) \in dirs /\ Has(book, s) /\ book.items[s].age < window}
    <3>1. \A window, dirs : Recent(window, dirs) = {}
      BY <1>3
    <3>2. AmountOf({}) = 0
      BY SumEmpty DEF AmountOf
    <3>3. \A window, dirs : AmountOf(Recent(window, dirs)) = 0
      BY <3>1, <3>2
    <3> HIDE DEF Recent
    <3>4. (\A dir \in Dir : AmountOf(Recent(Hour, {dir})) <= MaxPerHour) /\ AmountOf(Recent(Day, Dir)) <= MaxPerDay
      BY <3>3, FastAssumption
    <3> QED BY <3>4 DEF LimitsHeld, Recent
  <2> QED BY <2>1, <2>2, <2>3 DEF Limited
<1>7. Guarded
  <2>1. Quiet /\ AboutToPay /\ InTips
    BY <1>1 DEF Quiet, AboutToPay, InTips
  <2>2. /\ Spent /\ Once /\ Searched(book) /\ Searched(disk) /\ Passed(book) /\ Passed(disk)
        /\ Deep /\ Filed
    BY <1>3 DEF Spent, Once, Searched, Passed, Deep, Filed
  <2> QED BY <2>1, <2>2 DEF Guarded
<1> QED BY <1>5, <1>6, <1>7 DEF FastInv

LEMMA FastNextInv == FastInv /\ [Next]_vars => FastInv'
<1> SUFFICES ASSUME FastInv, [Next]_vars PROVE FastInv'
  OBVIOUS
<1>1. CASE UNCHANGED vars
  <2>1. UNCHANGED <<book, disk, tick, transfer, tip, at, known, mined, unrecorded, raced, undone>>
    BY <1>1 DEF vars, chains, history
  <2>2. Chained /\ Deep
    BY DEF FastInv, FastTyped, Guarded
  <2>3. WorldStep
    BY <2>1, <2>2 DEF WorldStep, Chained
  <2>4. \A s \in Transfer : Home(s)' = Home(s) /\ Away(s)' = Away(s) /\ Sent(s)' = Sent(s)
    BY <2>1 DEF Home, Away, DirOf, Sent
  <2>5. Chained'
    <3>1. Row' = Row
      BY <2>1 DEF Row
    <3> QED BY <2>1, <2>2, <2>4, <3>1 DEF Chained
  <2>6. FastTyped' /\ Limited' /\ Filed'
    BY <2>3, <2>5, WorldTyped
  <2>7. Quiet' /\ Spent' /\ Once' /\ AboutToPay' /\ InTips' /\ Searched(book)' /\ Searched(disk)'
    BY <2>1, <2>3, WorldGuards
  <2>8. Passed(book)' /\ Passed(disk)'
    BY <2>1, <2>3, WorldPassed
  <2>9. Deep'
    BY <2>1, <2>2, <2>4 DEF Deep, Has
  <2> QED BY <2>6, <2>7, <2>8, <2>9 DEF FastInv, Guarded
<1>2. ASSUME NEW gas \in Gas \cup {None}, StartTick(gas) PROVE FastInv'
  BY <1>2, Starts
<1>3. CASE ReadFailed
  BY <1>3, ReadFails
<1>4. ASSUME NEW c \in Chain, NEW to \in 0..MaxTip, Scan(c, to) PROVE FastInv'
  <2>1. to \in Nat
    BY FastAssumption
  <2> QED BY <1>4, <2>1, Scans
<1>5. ASSUME NEW c \in Chain, EmptyBlock(c) \/ Undo(c) PROVE FastInv'
  BY <1>5, EmptyBlocks, Undoings
<1>6. ASSUME NEW s \in Transfer,
             \/ Receipt(s) \/ NoReceipt(s) \/ Unanswered(s) \/ SourceGone(s) \/ NodesDisagree(s)
             \/ Search(s) \/ Refuse(s) \/ GasTooHigh(s) \/ Pay(s) \/ PayUnheard(s)
      PROVE  FastInv'
  BY <1>6, Receipts, NoReceipts, Stops, Searches, Refusals, Pays
<1>7. ASSUME NEW s \in Transfer, Arrive(s) \/ Vanish(s) PROVE FastInv'
  BY <1>7, Arrivals, Vanishings
<1>8. CASE EndTick
  BY <1>8, EndTicks
<1>9. CASE Crash \/ LoseFile \/ Resume
  BY <1>9, Restarts
<1>10. CASE Elapse
  BY <1>10, Elapses
<1>11. ASSUME NEW t \in known, Mine(t) PROVE FastInv'
  BY <1>11, Mines
<1> QED BY <1>1, <1>2, <1>3, <1>4, <1>5, <1>6, <1>7, <1>8, <1>9, <1>10, <1>11 DEF Next

\* Two payouts of one transfer are mined only where the item had stopped
\* saying 'sent', where a payout was mined inside a tick, or where a chain took
\* something back: nothing else that a bot may do, over any number of ticks,
\* crashes, lost answers and lost files, pays twice.
THEOREM PaidTwiceTheorem == Spec => []PaidTwiceOnlyIf
<1>1. FastInv => PaidTwiceOnlyIf
  BY PaidOnce
<1> QED BY <1>1, FastInitInv, FastNextInv, PTL DEF Spec

\* What the items know to be in flight or mined stays within the limits of an
\* hour and of a day, also when the bot starts again from an older file.
THEOREM LimitsTheorem == Spec => []LimitsHeld
<1>1. FastInv => LimitsHeld
  BY DEF FastInv, Limited
<1> QED BY <1>1, FastInitInv, FastNextInv, PTL DEF Spec
=============================================================================
