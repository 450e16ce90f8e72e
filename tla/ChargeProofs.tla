---------------------------- MODULE ChargeProofs ---------------------------
(***************************************************************************)
(* What a request is charged for, and by what: what is proved about the    *)
(* prices (Prices) for every feed, every usage, any number of requests and *)
(* every fault, and about the usage and the cost of an answer (ChatStream) *)
(* for every chunk and any number of lines; with the lemmas about the      *)
(* arithmetic of PriceRules and about server-sent events they rest on.     *)
(***************************************************************************)
EXTENDS Prices, ChatStream, FiniteSetTheorems, WellFoundedInduction, SequenceTheorems, TLAPS

-----------------------------------------------------------------------------
(***************************************************************************)
(* Arithmetic.                                                             *)
(***************************************************************************)

(* Division rounds down.                                                   *)
LEMMA FloorDiv ==
    ASSUME NEW a \in Int, NEW b \in Nat \ {0}
    PROVE  a \div b \in Int /\ b * (a \div b) <= a /\ a < b * (a \div b) + b
OBVIOUS

(* Factors keep an order.                                                  *)
LEMMA Scale ==
    ASSUME NEW a \in Int, NEW b \in Int, NEW c \in Nat, a <= b
    PROVE  a * c \in Int /\ b * c \in Int /\ c * a \in Int /\ c * b \in Int
           /\ a * c <= b * c /\ c * a <= c * b
OBVIOUS

(* And they can be taken away.                                             *)
LEMMA Cancel ==
    ASSUME NEW a \in Int, NEW b \in Int, NEW c \in Nat \ {0}, c * a < c * b
    PROVE  a < b
OBVIOUS
-----------------------------------------------------------------------------
(***************************************************************************)
(* Discounts.                                                              *)
(***************************************************************************)

(* A model that is not free has a discount of less than all of its price;  *)
(* the user gets no more of it than the provider grants, if that much.     *)
LEMMA DiscountRange ==
    ASSUME NEW q \in Quote, Listed(q)
    PROVE  /\ DiscountPct(q) \in Int /\ DiscountPct(q) < 100
           /\ q.directIn * DiscountPct(q) <= 100 * (q.directIn - q.bestIn)
           /\ UserDiscount(q) \in 0 .. 99
           /\ UserDiscount(q) = 0 \/ UserDiscount(q) = DiscountPct(q) - SpreadPP
<1>1. q.directIn \in Nat \ {0} /\ 100 * (q.directIn - q.bestIn) \in Int /\ q.bestIn \in Nat \ {0}
  BY DEF Quote, Listed
<1>2. DiscountPct(q) = (100 * (q.directIn - q.bestIn)) \div q.directIn
  BY <1>1 DEF DiscountPct
<1>3. DiscountPct(q) \in Int /\ q.directIn * DiscountPct(q) <= 100 * (q.directIn - q.bestIn)
  BY <1>1, <1>2, FloorDiv
<1>4. 100 * (q.directIn - q.bestIn) < q.directIn * 100
  BY <1>1
<1>5. q.directIn * DiscountPct(q) < q.directIn * 100
  BY <1>1, <1>3, <1>4
<1>6. DiscountPct(q) < 100
  BY <1>1, <1>3, <1>5, Cancel
<1> QED
  BY <1>3, <1>6, SpreadAssumption DEF UserDiscount, AtLeast0, SpreadAssumption

(* What a discount leaves of an amount.                                    *)
LEMMA DiscountedRange ==
    ASSUME NEW q \in Quote, Listed(q), NEW amount \in Nat
    PROVE  Discounted(amount, q) \in Nat /\ Discounted(amount, q) <= amount
<1>1. UserDiscount(q) \in 0 .. 99
  BY DiscountRange
<1> DEFINE left == amount * (100 - UserDiscount(q))
<1>2. left \in Nat /\ left <= amount * 100
  BY <1>1
<1> HIDE DEF left
<1>3. 100 * (left \div 100) <= left /\ left < 100 * (left \div 100) + 100 /\ left \div 100 \in Int
  BY <1>2, FloorDiv
<1> QED
  BY <1>2, <1>3 DEF Discounted, left

(* The price of input tokens is not rounded down to nothing.               *)
LEMMA InputNotFree ==
    ASSUME NEW q \in Quote, Listed(q)
    PROVE  Discounted(q.directIn, q) > 0
<1>1. q.directIn \in Nat \ {0} /\ q.bestIn \in Nat \ {0}
  BY DEF Quote, Listed
<1>2. DiscountPct(q) \in Int /\ UserDiscount(q) \in 0 .. 99
  BY DiscountRange
<1> DEFINE left == q.directIn * (100 - UserDiscount(q))
<1>3. left \in Int /\ left >= 100
  <2>1. CASE UserDiscount(q) = 0
    BY <1>1, <2>1
  <2>2. CASE UserDiscount(q) = DiscountPct(q) - SpreadPP
    <3>1. UserDiscount(q) <= DiscountPct(q)
      BY <1>2, <2>2, SpreadAssumption DEF SpreadAssumption
    <3>2. q.directIn * UserDiscount(q) <= q.directIn * DiscountPct(q)
      BY <1>1, <1>2, <3>1, Scale
    <3>3. q.directIn * UserDiscount(q) <= 100 * (q.directIn - q.bestIn)
      BY <1>1, <1>2, <3>2, DiscountRange
    <3> QED
      BY <1>1, <1>2, <3>3
  <2> QED
    BY <2>1, <2>2, DiscountRange
<1> HIDE DEF left
<1>4. left < 100 * (left \div 100) + 100 /\ left \div 100 \in Int
  BY <1>3, FloorDiv
<1> QED
  BY <1>3, <1>4 DEF Discounted, left

(* The reference price of a cached token.                                  *)
LEMMA RefCacheReadType ==
    ASSUME NEW q \in Quote, Listed(q)
    PROVE  RefCacheRead(q) \in Nat
<1>1. CASE q.bestCache > 0 /\ DiscountPct(q) \in 1 .. 99
  <2> DEFINE x == 100 * q.bestCache
             y == 100 - DiscountPct(q)
  <2>1. x \in Nat /\ y \in Nat \ {0}
    BY <1>1 DEF Quote
  <2>2. RefCacheRead(q) = x \div y
    BY <1>1 DEF RefCacheRead
  <2> HIDE DEF x, y
  <2>3. x \div y \in Int /\ x < y * (x \div y) + y
    BY <2>1, FloorDiv
  <2>4. x \div y >= 0
    <3> SUFFICES ASSUME x \div y <= -1 PROVE FALSE
      BY <2>3
    <3>1. y * (x \div y) <= y * (-1)
      BY <2>1, <2>3, Scale
    <3> QED
      BY <2>1, <2>3, <3>1
  <2> QED
    BY <2>2, <2>3, <2>4
<1>2. CASE ~(q.bestCache > 0 /\ DiscountPct(q) \in 1 .. 99)
  BY <1>2 DEF RefCacheRead
<1> QED
  BY <1>1, <1>2

(***************************************************************************)
(* Every quote that is listed makes a price, for which the model is not    *)
(* sold or bought for nothing.                                             *)
(***************************************************************************)
LEMMA QuoteMakesPrice ==
    ASSUME NEW q \in Quote, Listed(q)
    PROVE  IsPrice(calculateUserPrice(q))
<1>1. RefCacheRead(q) \in Nat
  BY RefCacheReadType
<1>2. /\ Discounted(q.directIn, q) \in Nat /\ Discounted(q.directOut, q) \in Nat
      /\ Discounted(RefCacheRead(q), q) \in Nat
  BY <1>1, DiscountedRange DEF Quote
<1>3. Discounted(q.directIn, q) > 0
  BY InputNotFree
<1> QED
  BY <1>1, <1>2, <1>3
     DEF calculateUserPrice, IsPrice, Prices, RateSet, Rates, Quote, Listed
-----------------------------------------------------------------------------
(***************************************************************************)
(* Costs.                                                                  *)
(***************************************************************************)

(* What a request costs at some rates is as large as the rates are, in any *)
(* proportion k : l.                                                       *)
LEMMA CostScales ==
    ASSUME NEW x \in RateSet, NEW y \in RateSet, NEW u \in Usage,
           NEW k \in Nat, NEW l \in Nat,
           k * x.in <= l * y.in, k * x.out <= l * y.out, k * CacheRate(x) <= l * CacheRate(y)
    PROVE  /\ Cost(x, u) \in Nat /\ Cost(y, u) \in Nat
           /\ k * Cost(x, u) <= l * Cost(y, u)
<1> DEFINE cached == clampCacheRead(u)
           fresh == AtLeast0(u.prompt - cached)
<1>1. u.prompt \in Nat /\ u.completion \in Nat /\ u.cacheRead \in Int
  BY DEF Usage
<1>2. cached \in Nat /\ fresh \in Nat
  BY <1>1 DEF clampCacheRead, AtLeast0
<1> HIDE DEF cached, fresh
<1>3. /\ x.in \in Nat /\ x.out \in Nat /\ CacheRate(x) \in Nat
      /\ y.in \in Nat /\ y.out \in Nat /\ CacheRate(y) \in Nat
  BY DEF RateSet, CacheRate
<1>4. ASSUME NEW n \in Nat, NEW a \in Nat, NEW b \in Nat, k * a <= l * b
      PROVE  n * a \in Nat /\ n * b \in Nat /\ k * (n * a) <= l * (n * b)
  <2>1. n * (k * a) <= n * (l * b)
    BY <1>4, Scale
  <2> QED
    BY <2>1
<1>5. /\ Cost(x, u) = fresh * x.in + cached * CacheRate(x) + u.completion * x.out
      /\ Cost(y, u) = fresh * y.in + cached * CacheRate(y) + u.completion * y.out
  BY DEF Cost, cached, fresh
<1> DEFINE fx == fresh * x.in           fy == fresh * y.in
           cx == cached * CacheRate(x)  cy == cached * CacheRate(y)
           ox == u.completion * x.out   oy == u.completion * y.out
<1>6. /\ fx \in Nat /\ fy \in Nat /\ k * fx <= l * fy
      /\ cx \in Nat /\ cy \in Nat /\ k * cx <= l * cy
      /\ ox \in Nat /\ oy \in Nat /\ k * ox <= l * oy
  BY <1>1, <1>2, <1>3, <1>4
<1>7. Cost(x, u) = fx + cx + ox /\ Cost(y, u) = fy + cy + oy
  BY <1>5
<1> HIDE DEF fx, fy, cx, cy, ox, oy
<1>8. /\ k * (fx + cx + ox) = k * fx + k * cx + k * ox
      /\ l * (fy + cy + oy) = l * fy + l * cy + l * oy
  BY <1>6
<1> QED
  BY <1>6, <1>7, <1>8

(* Where no division rounds, a discount takes nothing whole.               *)
LEMMA DiscountedExact ==
    ASSUME NEW q \in Quote, Listed(q), NEW amount \in Nat,
           100 * Discounted(amount, q) = amount * (100 - UserDiscount(q))
    PROVE  Discounted(amount, q) = 0 => amount = 0
<1>1. UserDiscount(q) \in 0 .. 99
  BY DiscountRange
<1> QED
  BY <1>1

(***************************************************************************)
(* The user's rates are not above the reference.                           *)
(***************************************************************************)
LEMMA UserBelowReference ==
    ASSUME NEW q \in Quote, Listed(q), Exact(q), NEW u \in Usage
    PROVE  Cost(calculateUserPrice(q).user, u) <= Cost(calculateUserPrice(q).ref, u)
<1> DEFINE user == calculateUserPrice(q).user
           ref == calculateUserPrice(q).ref
<1>1. user \in RateSet /\ ref \in RateSet
  BY QuoteMakesPrice DEF IsPrice, Prices
<1>2. RefCacheRead(q) \in Nat
  BY RefCacheReadType
<1>3. user.in <= ref.in /\ user.out <= ref.out
  BY DiscountedRange DEF calculateUserPrice, Rates, Quote
<1>4. CacheRate(user) <= CacheRate(ref)
  <2>1. CASE RefCacheRead(q) = 0
    <3>1. user.cacheRead = 0 /\ ref.cacheRead = 0
      BY <2>1, DiscountedRange DEF calculateUserPrice, Rates
    <3> QED
      BY <1>3, <3>1 DEF CacheRate
  <2>2. CASE RefCacheRead(q) > 0
    <3>1. user.cacheRead <= ref.cacheRead /\ user.cacheRead > 0
      BY <1>2, <2>2, DiscountedRange, DiscountedExact DEF Exact, calculateUserPrice, Rates
    <3> QED
      BY <1>1, <3>1 DEF CacheRate, RateSet
  <2> QED
    BY <1>2, <2>1, <2>2
<1> HIDE DEF user, ref
<1>5. 1 * user.in <= 1 * ref.in /\ 1 * user.out <= 1 * ref.out
      /\ 1 * CacheRate(user) <= 1 * CacheRate(ref)
  BY <1>1, <1>3, <1>4 DEF RateSet, CacheRate
<1>6. /\ Cost(user, u) \in Nat /\ Cost(ref, u) \in Nat
      /\ 1 * Cost(user, u) <= 1 * Cost(ref, u)
  BY <1>1, <1>5, CostScales
<1> QED
  BY <1>6 DEF user, ref
-----------------------------------------------------------------------------
(***************************************************************************)
(* Margins.                                                                *)
(***************************************************************************)

(* The rate is the reference less the user's discount, and the provider    *)
(* takes no more than the reference less its own.                          *)
Covers(q, rate, market) ==
    \E R \in Nat : /\ 100 * rate = R * (100 - UserDiscount(q))
                   /\ 100 * market <= R * (100 - DiscountPct(q))

(* The provider's discount is half the spread or more.                     *)
HalfSpread(q) == 2 * DiscountPct(q) >= SpreadPP

(* Then the rate covers what the provider takes, and with a discount of    *)
(* half the spread it leaves half the spread of itself as a margin.        *)
LEMMA MarginOfRate ==
    ASSUME NEW q \in Quote, Listed(q), DiscountPct(q) >= 0,
           NEW rate \in Nat, NEW market \in Nat, Covers(q, rate, market)
    PROVE  /\ market <= rate
           /\ HalfSpread(q) => 200 - SpreadPP \in Nat /\ 200 * market <= (200 - SpreadPP) * rate
<1> DEFINE D == DiscountPct(q)
           U == UserDiscount(q)
           S == SpreadPP
<1>1. D \in 0 .. 99 /\ S \in Nat \ {0}
  BY DiscountRange, SpreadAssumption DEF SpreadAssumption
<1>2. U \in 0 .. 99 /\ ((U = 0 /\ D <= S) \/ (U = D - S /\ D >= S))
  BY <1>1, DiscountRange DEF UserDiscount, AtLeast0
<1>3. PICK R \in Nat : 100 * rate = R * (100 - U) /\ 100 * market <= R * (100 - D)
  BY DEF Covers
<1> HIDE DEF D, U, S
<1>4. market <= rate
  <2>1. R * (100 - D) <= R * (100 - U)
    <3>1. 100 - D <= 100 - U
      BY <1>1, <1>2
    <3> QED
      BY <1>1, <1>2, <3>1, Scale
  <2>2. R * (100 - D) \in Int /\ R * (100 - U) \in Int
    BY <1>1, <1>2
  <2> QED
    BY <1>3, <2>1, <2>2
<1>5. ASSUME 2 * D >= S
      PROVE  200 - S \in Nat /\ 200 * market <= (200 - S) * rate
  <2>1. 200 - S \in Nat
    BY <1>1, <1>5
  <2>2. 200 * (100 - D) <= (200 - S) * (100 - U)
    <3>1. CASE U = 0
      BY <1>1, <1>5, <3>1
    <3>2. CASE U = D - S /\ D >= S
      <4>1. S * (D - S) >= 0
        BY <1>1, <3>2
      <4>2. (200 - S) * (100 - (D - S)) = 200 * (100 - D) + 100 * S + S * (D - S)
        BY <1>1, <3>2
      <4> QED
        BY <1>1, <3>2, <4>1, <4>2
    <3> QED
      BY <1>2, <3>1, <3>2
  <2>3. R * (200 * (100 - D)) <= R * ((200 - S) * (100 - U))
    <3>1. 200 * (100 - D) \in Int /\ (200 - S) * (100 - U) \in Int
      BY <1>1, <1>2
    <3> QED
      BY <2>2, <3>1, Scale
  <2>4. R * (200 * (100 - D)) = 200 * (R * (100 - D))
    BY <1>1
  <2>5. R * ((200 - S) * (100 - U)) = (200 - S) * (R * (100 - U))
    BY <1>1, <1>2
  <2>6. (200 - S) * (R * (100 - U)) = 100 * ((200 - S) * rate)
    BY <1>1, <1>3
  <2>7. 200 * (100 * market) <= 200 * (R * (100 - D))
    BY <1>1, <1>3
  <2>8. (200 - S) * rate \in Int /\ 200 * (R * (100 - D)) \in Int
    BY <1>1
  <2>9. 100 * (200 * market) <= 100 * ((200 - S) * rate)
    BY <2>3, <2>4, <2>5, <2>6, <2>7, <2>8
  <2> QED
    BY <2>1, <2>8, <2>9
<1> QED
  BY <1>4, <1>5 DEF HalfSpread, D, S

(* A proportional price covers each rate of the provider's, the one for    *)
(* cached tokens included.                                                 *)
LEMMA RatesCovered ==
    ASSUME NEW q \in Quote, Listed(q), Exact(q), Proportional(calculateUserPrice(q))
    PROVE  LET p == calculateUserPrice(q)
           IN  /\ DiscountPct(q) >= 0
               /\ Covers(q, p.user.in, p.market.in)
               /\ Covers(q, p.user.out, p.market.out)
               /\ Covers(q, CacheRate(p.user), CacheRate(p.market))
<1> DEFINE p == calculateUserPrice(q)
           D == DiscountPct(q)
           U == UserDiscount(q)
           d == q.directIn
           b == q.bestIn
<1>1. /\ p.market.in = b /\ p.ref.in = d /\ p.market.out = q.bestOut /\ p.ref.out = q.directOut
      /\ p.market.cacheRead = q.bestCache /\ p.user.in = Discounted(d, q)
      /\ p.user.out = Discounted(q.directOut, q)
      /\ p.user.cacheRead = Discounted(RefCacheRead(q), q)
  BY DEF calculateUserPrice, Rates
<1>2. /\ d \in Nat \ {0} /\ b \in Nat \ {0} /\ q.bestOut \in Nat /\ q.directOut \in Nat
      /\ q.bestCache \in Nat /\ RefCacheRead(q) \in Nat
  BY RefCacheReadType DEF Quote, Listed
<1>3. D \in Int /\ D < 100 /\ U \in 0 .. 99
  BY DiscountRange
<1>4. d * D = 100 * (d - b)
  BY DEF Exact
<1>5. b <= d /\ q.bestCache <= b /\ q.bestOut * d <= b * q.directOut
  BY <1>1 DEF Proportional
<1> HIDE DEF p, D, U, d, b
<1>6. D >= 0
  <2> SUFFICES ASSUME D <= -1 PROVE FALSE
    BY <1>3
  <2>1. d * D <= d * (-1)
    BY <1>2, <1>3, Scale
  <2> QED
    BY <1>2, <1>4, <1>5, <2>1
<1>7. d * (100 - D) = 100 * b
  BY <1>2, <1>3, <1>4
<1>8. 100 * p.user.in = d * (100 - U) /\ 100 * p.user.out = q.directOut * (100 - U)
  BY <1>1 DEF Exact, U, d
<1>9. Covers(q, p.user.in, p.market.in)
  BY <1>1, <1>2, <1>7, <1>8 DEF Covers, D, U
<1>10. Covers(q, p.user.out, p.market.out)
  <2>1. 100 * q.bestOut <= q.directOut * (100 - D)
    <3> SUFFICES ASSUME q.directOut * (100 - D) < 100 * q.bestOut PROVE FALSE
      BY <1>2, <1>3
    <3>1. q.directOut * (100 - D) \in Int /\ 100 * q.bestOut \in Int
      BY <1>2, <1>3
    <3>2. d * (q.directOut * (100 - D)) < d * (100 * q.bestOut)
      BY <1>2, <3>1
    <3>3. d * (q.directOut * (100 - D)) = q.directOut * (d * (100 - D))
      BY <1>2, <1>3
    <3>4. q.directOut * (100 * b) = 100 * (b * q.directOut)
      BY <1>2
    <3>5. d * (100 * q.bestOut) = 100 * (q.bestOut * d)
      BY <1>2
    <3>6. b * q.directOut \in Int /\ q.bestOut * d \in Int
      BY <1>2
    <3> QED
      BY <1>5, <1>7, <3>2, <3>3, <3>4, <3>5, <3>6
  <2> QED
    BY <1>1, <1>2, <1>8, <2>1 DEF Covers, D, U
<1>11. Covers(q, CacheRate(p.user), CacheRate(p.market))
  <2>1. CASE q.bestCache > 0 /\ D > 0
    <3>1. RefCacheRead(q) * (100 - D) = 100 * q.bestCache
      BY <2>1 DEF Exact, D
    <3>2. RefCacheRead(q) > 0
      BY <1>2, <1>3, <2>1, <3>1
    <3>3. 100 * p.user.cacheRead = RefCacheRead(q) * (100 - U)
      BY <1>1 DEF Exact, U
    <3>4. p.user.cacheRead > 0 /\ p.user.cacheRead \in Nat
      BY <1>1, <1>2, <3>2, DiscountedRange, DiscountedExact DEF Exact
    <3>5. CacheRate(p.user) = p.user.cacheRead /\ CacheRate(p.market) = q.bestCache
      BY <1>1, <1>2, <2>1, <3>4 DEF CacheRate
    <3> QED
      BY <1>2, <3>1, <3>3, <3>5 DEF Covers, D, U
  <2>2. CASE ~(q.bestCache > 0 /\ D > 0)
    <3>1. RefCacheRead(q) = 0
      BY <2>2, <1>3, <1>6 DEF RefCacheRead, D
    <3>2. p.user.cacheRead = 0
      BY <1>1, <3>1, DiscountedRange
    <3>3. CacheRate(p.user) = p.user.in
      BY <3>2 DEF CacheRate
    <3>4. CacheRate(p.market) \in Nat /\ CacheRate(p.market) <= b
      BY <1>1, <1>2, <1>5 DEF CacheRate
    <3>5. 100 * CacheRate(p.market) <= d * (100 - D)
      BY <1>2, <1>7, <3>4
    <3> QED
      BY <1>2, <1>8, <3>3, <3>5 DEF Covers, D, U
  <2> QED
    BY <2>1, <2>2
<1> QED
  BY <1>6, <1>9, <1>10, <1>11 DEF p, D
-----------------------------------------------------------------------------
(***************************************************************************)
(* The inductive invariant: every price, wherever it is, was made from a   *)
(* quote that is listed, and Postgres had it before anybody else.          *)
(***************************************************************************)

Offered == {q \in Quotes : Listed(q)}
Sold == {calculateUserPrice(q) : q \in Offered}

PriceTypes ==
    /\ quote \in Quotes \cup {None}
    /\ row \in Sold \cup {None}
    /\ cache \in Sold \cup {None}
    /\ step \in {"rest", "upsert", "cache"}
    /\ offer \in Quotes \cup {None}
    /\ pc \in [Requests -> {"idle", "missed", "fill", "priced"}]
    /\ price \in [Requests -> Sold \cup {None}]

WorkerInv ==
    /\ step # "rest" => offer \in Offered
    /\ step = "cache" => calculateUserPrice(offer) \in posted
    /\ row # None => row \in posted

Priced == \A r \in Requests : pc[r] \in {"fill", "priced"} => price[r] # None

PriceInv == PriceTypes /\ WorkerInv /\ PricesPosted /\ Priced

(* Nothing is cached or priced at the start.                               *)
LEMMA PriceInit == Init => PriceInv
BY DEF Init, PriceInv, PriceTypes, WorkerInv, PricesPosted, Priced

(* The worker posts a price before it caches it.                           *)
LEMMA WorkerStep ==
    ASSUME PriceInv, updatePrices
    PROVE  PriceInv'
<1> USE DEF PriceInv, PriceTypes, WorkerInv, PricesPosted, Priced, request
<1>1. CASE FetchPricing
  BY <1>1 DEF FetchPricing, Offered
<1>2. CASE Upsert
  BY <1>2 DEF Upsert, Sold
<1>3. CASE UpsertFails
  BY <1>3 DEF UpsertFails, Rested
<1>4. CASE CachePrice
  BY <1>4 DEF CachePrice, Refresh, Rested, Sold
<1>5. CASE CachePriceFails
  BY <1>5 DEF CachePriceFails, Rested
<1> QED
  BY <1>1, <1>2, <1>3, <1>4, <1>5 DEF updatePrices

(* A request fills the cache with what Postgres has, and takes a price.    *)
LEMMA RequestStep ==
    ASSUME PriceInv, NEW r \in Requests, GetCachedPrice(r) \/ Charge(r)
    PROVE  PriceInv'
<1> USE DEF PriceInv, PriceTypes, WorkerInv, PricesPosted, Priced, worker, Take
<1>1. CASE Hit(r)
  BY <1>1 DEF Hit
<1>2. CASE Miss(r)
  BY <1>2 DEF Miss
<1>3. CASE ReadRow(r)
  BY <1>3 DEF ReadRow
<1>4. CASE NotFound(r)
  BY <1>4 DEF NotFound
<1>5. CASE Fill(r)
  BY <1>5 DEF Fill
<1>6. CASE Charge(r)
  BY <1>6 DEF Charge
<1> QED
  BY <1>1, <1>2, <1>3, <1>4, <1>5, <1>6 DEF GetCachedPrice

(* So do both, in any order.                                               *)
LEMMA PriceStep ==
    ASSUME PriceInv, [Next]_vars
    PROVE  PriceInv'
<1>1. CASE NewQuote \/ Expire \/ UNCHANGED vars
  BY <1>1 DEF NewQuote, Expire, vars, PriceInv, PriceTypes, WorkerInv, PricesPosted, Priced,
              worker, request
<1> QED
  BY <1>1, WorkerStep, RequestStep DEF Next

(* The invariant of the prices.                                            *)
LEMMA PriceInvariant == Spec => []PriceInv
<1>1. PriceInv /\ [Next]_vars => PriceInv'
  BY PriceStep
<1> QED
  BY <1>1, PriceInit, PTL DEF Spec
-----------------------------------------------------------------------------
(***************************************************************************)
(* Results.                                                                *)
(***************************************************************************)

(***************************************************************************)
(* What is stored, cached and charged by is a price, and none by which the *)
(* model would be free: rounding included, whatever the feed says.         *)
(***************************************************************************)
THEOREM TypeCorrect == Spec => []TypeOK
<1>1. PriceInv => TypeOK
  <2>1. \A p \in Sold : IsPrice(p)
    BY QuoteMakesPrice, ConstantsAssumption DEF Sold, Offered, ConstantsAssumption
  <2> QED
    BY <2>1 DEF PriceInv, PriceTypes, TypeOK
<1> QED
  BY <1>1, PriceInvariant, PTL

(***************************************************************************)
(* No request is charged by a price that Postgres has never had, with any  *)
(* number of requests that fill the cache while the worker and the stores  *)
(* fail at any point.                                                      *)
(***************************************************************************)
THEOREM PostedFirst == Spec => []PricesPosted
<1>1. PriceInv => PricesPosted
  BY DEF PriceInv
<1> QED
  BY <1>1, PriceInvariant, PTL

(* The quote behind the price of a request.                                *)
LEMMA PriceHasQuote ==
    ASSUME PriceInv, NEW r \in Requests, pc[r] = "priced"
    PROVE  \E q \in Quotes : /\ Listed(q) /\ q \in Quote /\ Exact(q)
                             /\ price[r] = calculateUserPrice(q)
<1>1. price[r] \in Sold
  BY DEF PriceInv, PriceTypes, Priced
<1> QED
  BY <1>1, ConstantsAssumption, ExactAssumption
     DEF Sold, Offered, ConstantsAssumption, ExactAssumption

(***************************************************************************)
(* The user never pays more than the reference price, whatever is used and *)
(* whatever the feed says.                                                 *)
(***************************************************************************)
THEOREM ReferenceIsCeiling == Spec => []NeverAboveReference
<1>1. PriceInv => NeverAboveReference
  <2> SUFFICES ASSUME PriceInv, NEW r \in Requests, pc[r] = "priced", NEW u \in Usages
               PROVE  Cost(price[r].user, u) <= Cost(price[r].ref, u)
    BY DEF NeverAboveReference
  <2>1. u \in Usage
    BY ConstantsAssumption DEF ConstantsAssumption
  <2> QED
    BY <2>1, PriceHasQuote, UserBelowReference
<1> QED
  BY <1>1, PriceInvariant, PTL

(* What a request brings in at a proportional price.                       *)
LEMMA ProportionalMargin ==
    ASSUME PriceInv, NEW r \in Requests, pc[r] = "priced", Proportional(price[r]),
           NEW u \in Usages
    PROVE  LET our == Cost(price[r].user, u)
               theirs == Cost(price[r].market, u)
           IN  /\ our \in Nat /\ theirs \in Nat
               /\ theirs <= our
               /\ 200 * (price[r].ref.in - price[r].market.in) >= SpreadPP * price[r].ref.in
                    => 200 * theirs <= (200 - SpreadPP) * our
<1>1. PICK q \in Quotes : Listed(q) /\ q \in Quote /\ Exact(q) /\ price[r] = calculateUserPrice(q)
  BY PriceHasQuote
<1> DEFINE user == price[r].user
           market == price[r].market
<1>2. user \in RateSet /\ market \in RateSet
  BY <1>1, QuoteMakesPrice DEF IsPrice, Prices
<1>3. u \in Usage
  BY ConstantsAssumption DEF ConstantsAssumption
<1>4. /\ DiscountPct(q) >= 0
      /\ Covers(q, user.in, market.in) /\ Covers(q, user.out, market.out)
      /\ Covers(q, CacheRate(user), CacheRate(market))
  BY <1>1, RatesCovered
<1>5. /\ user.in \in Nat /\ user.out \in Nat /\ CacheRate(user) \in Nat
      /\ market.in \in Nat /\ market.out \in Nat /\ CacheRate(market) \in Nat
  BY <1>2 DEF RateSet, CacheRate
<1> HIDE DEF user, market
<1>6. market.in <= user.in /\ market.out <= user.out /\ CacheRate(market) <= CacheRate(user)
  BY <1>1, <1>4, <1>5, MarginOfRate
<1>7. /\ Cost(user, u) \in Nat /\ Cost(market, u) \in Nat
      /\ Cost(market, u) <= Cost(user, u)
  <2>1. /\ 1 * market.in <= 1 * user.in /\ 1 * market.out <= 1 * user.out
        /\ 1 * CacheRate(market) <= 1 * CacheRate(user)
    BY <1>5, <1>6
  <2>2. /\ Cost(user, u) \in Nat /\ Cost(market, u) \in Nat
        /\ 1 * Cost(market, u) <= 1 * Cost(user, u)
    BY <1>2, <1>3, <2>1, CostScales
  <2> QED
    BY <2>2
<1>8. ASSUME 200 * (price[r].ref.in - price[r].market.in) >= SpreadPP * price[r].ref.in
      PROVE  200 * Cost(market, u) <= (200 - SpreadPP) * Cost(user, u)
  <2>1. HalfSpread(q)
    <3> DEFINE d == q.directIn
               D == DiscountPct(q)
    <3>1. d \in Nat \ {0} /\ D \in Int /\ SpreadPP \in Nat
      BY <1>1, DiscountRange, SpreadAssumption DEF Quote, Listed, SpreadAssumption
    <3>2. 200 * (d - q.bestIn) >= SpreadPP * d
      BY <1>1, <1>8 DEF calculateUserPrice, Rates
    <3>3. d * D = 100 * (d - q.bestIn)
      BY <1>1 DEF Exact
    <3> HIDE DEF d, D
    <3>4. d * (2 * D) >= d * SpreadPP
      <4>1. 200 * (d - q.bestIn) = d * (2 * D)
        BY <1>1, <3>1, <3>3 DEF Quote
      <4> QED
        BY <3>1, <3>2, <4>1
    <3>5. 2 * D >= SpreadPP
      <4> SUFFICES ASSUME 2 * D < SpreadPP PROVE FALSE
        BY <3>1
      <4>1. d * (2 * D) < d * SpreadPP
        BY <3>1
      <4> QED
        BY <3>1, <3>4, <4>1
    <3> QED
      BY <3>5 DEF HalfSpread, D
  <2>2. /\ 200 - SpreadPP \in Nat
        /\ 200 * market.in <= (200 - SpreadPP) * user.in
        /\ 200 * market.out <= (200 - SpreadPP) * user.out
        /\ 200 * CacheRate(market) <= (200 - SpreadPP) * CacheRate(user)
    BY <1>1, <1>4, <1>5, <2>1, MarginOfRate
  <2> QED
    BY <1>2, <1>3, <2>2, CostScales
<1> QED
  BY <1>7, <1>8 DEF user, market

(***************************************************************************)
(* At a proportional price the user pays at least what the provider takes. *)
(***************************************************************************)
THEOREM MarginIsKept == Spec => []MarginKept
<1>1. PriceInv => MarginKept
  BY ProportionalMargin DEF MarginKept
<1> QED
  BY <1>1, PriceInvariant, PTL

(***************************************************************************)
(* Reconciliation raises no alarm about proportional prices for which the  *)
(* provider grants half the spread: the threshold of reconcile.go agrees   *)
(* with the price rules for every spread and every mix of tokens.          *)
(***************************************************************************)
THEOREM NoAlarmIsFalse == Spec => []NoFalseAlarm
<1>1. PriceInv => NoFalseAlarm
  <2> SUFFICES ASSUME PriceInv, NEW r \in Requests, pc[r] = "priced", Proportional(price[r]),
                      200 * (price[r].ref.in - price[r].market.in) >= SpreadPP * price[r].ref.in,
                      NEW u \in Usages
               PROVE  evaluateMargin(Cost(price[r].user, u), Cost(price[r].market, u)) = "ok"
    BY DEF NoFalseAlarm
  <2> DEFINE our == Cost(price[r].user, u)
             theirs == Cost(price[r].market, u)
  <2>1. /\ our \in Nat /\ theirs \in Nat /\ theirs <= our
        /\ 200 * theirs <= (200 - SpreadPP) * our
    BY ProportionalMargin
  <2> HIDE DEF our, theirs
  <2>2. our - theirs >= 0
    BY <2>1
  <2>3. 200 * (our - theirs) >= SpreadPP * our
    BY <2>1, SpreadAssumption DEF SpreadAssumption
  <2>4. evaluateMargin(our, theirs) = "ok"
    BY <2>1, <2>2, <2>3, SpreadAssumption DEF evaluateMargin, SpreadAssumption
  <2> QED
    BY <2>4 DEF our, theirs
<1> QED
  BY <1>1, PriceInvariant, PTL
-----------------------------------------------------------------------------
(***************************************************************************)
(* Induction, and the least and the greatest of a set.                     *)
(***************************************************************************)

(***************************************************************************)
(* Induction up to N, for a set: what holds 0 and, with every number below *)
(* N, the next one, holds all numbers up to N.                             *)
(***************************************************************************)
LEMMA Induction ==
    ASSUME NEW N \in Nat, NEW S, 0 \in S,
           \A n \in 0 .. (N - 1) : n \in S => n + 1 \in S
    PROVE  0 .. N \subseteq S
<1> SUFFICES ASSUME (0 .. N) \ S # {} PROVE FALSE
  OBVIOUS
<1> DEFINE R == OpToRel(<, Nat)
           T == (0 .. N) \ S
<1>1. T \subseteq Nat /\ T # {}
  OBVIOUS
<1>2. IsWellFoundedOn(R, Nat)
  BY NatLessThanWellFounded
<1> HIDE DEF R, T
<1>3. PICK m \in T : \A y \in T : ~(<<y, m>> \in R)
  BY <1>1, <1>2, WFMin
<1>4. \A y \in T : ~(y < m)
  BY <1>1, <1>3 DEF R, OpToRel
<1>5. m \in 0 .. N /\ m \notin S /\ m # 0
  BY <1>3 DEF T
<1>6. m - 1 \in 0 .. (N - 1) /\ m - 1 < m /\ m - 1 \in 0 .. N
  BY <1>5
<1>7. m - 1 \in S
  BY <1>4, <1>6 DEF T
<1>8. (m - 1) + 1 = m
  BY <1>5
<1> QED
  BY <1>5, <1>6, <1>7, <1>8

(* The least of a set of numbers, once it is found.                        *)
LEMMA MinIs ==
    ASSUME NEW S \in SUBSET Int, NEW m \in S, \A x \in S : m <= x
    PROVE  Min(S) = m
<1>1. \E x \in S : \A y \in S : x <= y
  OBVIOUS
<1>2. Min(S) \in S /\ \A y \in S : Min(S) <= y
  BY <1>1, Zenon DEF Min
<1>3. Min(S) \in Int /\ m \in Int
  BY <1>2
<1>4. Min(S) <= m /\ m <= Min(S)
  BY <1>2
<1> QED
  BY <1>3, <1>4

(* And the greatest.                                                       *)
LEMMA MaxIs ==
    ASSUME NEW S \in SUBSET Int, NEW m \in S, \A x \in S : x <= m
    PROVE  Max(S) = m
<1>1. \E x \in S : \A y \in S : x >= y
  OBVIOUS
<1>2. Max(S) \in S /\ \A y \in S : Max(S) >= y
  BY <1>1, Zenon DEF Max
<1>3. Max(S) \in Int /\ m \in Int
  BY <1>2
<1>4. Max(S) >= m /\ m >= Max(S)
  BY <1>2
<1> QED
  BY <1>3, <1>4

-----------------------------------------------------------------------------
(***************************************************************************)
(* What a chunk says.                                                      *)
(***************************************************************************)

(* The first positive one of four amounts.                                 *)
LEMMA FirstOfFour ==
    ASSUME NEW a \in Int, NEW b \in Int, NEW c \in Int, NEW d \in Int
    PROVE  /\ FirstPositive(<<a, b, c, d>>) \in {0, a, b, c, d}
           /\ a > 0 \/ b > 0 \/ c > 0 \/ d > 0 => FirstPositive(<<a, b, c, d>>) > 0
<1> DEFINE s == <<a, b, c, d>>
           P == {i \in DOMAIN s : s[i] > 0}
<1>1. /\ DOMAIN s = 1 .. 4
      /\ s[1] = a /\ s[2] = b /\ s[3] = c /\ s[4] = d
  OBVIOUS
<1>2. FirstPositive(s) = IF P = {} THEN 0 ELSE s[Min(P)]
  BY DEF FirstPositive
<1> HIDE DEF s
<1>3. P \subseteq 1 .. 4 /\ \A i \in 1 .. 4 : i \in P <=> s[i] > 0
  BY <1>1
<1>4. P # {} => Min(P) \in P
  <2> HIDE DEF P
  <2>1. CASE 1 \in P
    BY <1>3, <2>1, MinIs
  <2>2. CASE 1 \notin P /\ 2 \in P
    BY <1>3, <2>2, MinIs
  <2>3. CASE 1 \notin P /\ 2 \notin P /\ 3 \in P
    BY <1>3, <2>3, MinIs
  <2>4. CASE 1 \notin P /\ 2 \notin P /\ 3 \notin P /\ 4 \in P
    BY <1>3, <2>4, MinIs
  <2>5. ASSUME NEW i \in P PROVE i = 1 \/ i = 2 \/ i = 3 \/ i = 4
    BY <1>3
  <2>6. P # {} => 1 \in P \/ 2 \in P \/ 3 \in P \/ 4 \in P
    BY <2>5, Zenon
  <2> QED
    BY <2>1, <2>2, <2>3, <2>4, <2>6, Zenon
<1> HIDE DEF P
<1>5. FirstPositive(s) \in {0, s[1], s[2], s[3], s[4]}
  <2>1. CASE P = {}
    BY <1>2, <2>1
  <2>2. CASE P # {}
    <3>1. Min(P) \in 1 .. 4
      BY <1>3, <1>4, <2>2
    <3> QED
      BY <1>2, <2>2, <3>1
  <2> QED
    BY <2>1, <2>2
<1>6. P # {} => FirstPositive(s) > 0
  BY <1>2, <1>3, <1>4
<1>7. s[1] > 0 \/ s[2] > 0 \/ s[3] > 0 \/ s[4] > 0 => P # {}
  BY <1>3
<1> QED
  BY <1>1, <1>5, <1>6, <1>7 DEF s

(* The fields of a chunk are there and of their types.                     *)
LEMMA ChunkType ==
    ASSUME NEW c \in Chunks
    PROVE  /\ \A f \in ChunkFields \ Flags : c[f] \in Int
           /\ \A f \in Flags : c[f] \in BOOLEAN
BY ChatAssumption DEF ChatAssumption, Flags, ChunkFields

(* Of what a chunk says it costs an amount of its own is taken, and none   *)
(* if it says none.                                                        *)
LEMMA CostOfChunk ==
    ASSUME NEW c \in Chunks
    PROVE  /\ UpstreamCost(c) \in Amounts /\ UpstreamCost(c) \in Int
           /\ Charges(c) => UpstreamCost(c) > 0
<1>1. /\ c.cost \in Int /\ c.costDetails \in Int
      /\ c.topCost \in Int /\ c.topCostDetails \in Int
  BY ChunkType DEF ChunkFields, Flags
<1>2. UpstreamCost(c) \in {0, c.cost, c.costDetails, c.topCost, c.topCostDetails}
  BY <1>1, FirstOfFour DEF UpstreamCost
<1>3. UpstreamCost(c) \in Amounts
  BY <1>2 DEF Amounts
<1>4. ASSUME Charges(c) PROVE UpstreamCost(c) > 0
  <2>1. c.cost > 0 \/ c.costDetails > 0 \/ c.topCost > 0 \/ c.topCostDetails > 0
    BY <1>1, <1>4 DEF Charges
  <2> QED
    BY <1>1, <2>1, FirstOfFour DEF UpstreamCost
<1> QED
  BY <1>1, <1>2, <1>3, <1>4

-----------------------------------------------------------------------------
(***************************************************************************)
(* Types.                                                                  *)
(***************************************************************************)

(* Which stage has what: nothing is billed before it is read, and only a   *)
(* whole body is answered.                                                 *)
Stages ==
    /\ phase = "reading" => ~complete
    /\ phase \in {"reading", "settling", "released"} => bill = Nothing
    /\ phase = "answering" => mode = "whole"

(* A whole body is one line, and what is billed is what it says.           *)
OneBody ==
    mode = "whole" =>
        /\ Len(sent) <= 1 /\ \A i \in DOMAIN sent : sent[i].kind = "data"
        /\ upstream = "closed" => sent # <<>>
        /\ phase \in {"settling", "answering", "settled"} =>
              Len(sent) = 1 /\ usage = BodyUsage(Body) /\ cost = BodyCost(Body)

ChatTypes == ChatTypeOK /\ Stages /\ OneBody

(* A request starts with its types, its stage and no body.                 *)
LEMMA ChatTypesInit == ChatInit => ChatTypes
<1> SUFFICES ASSUME ChatInit PROVE ChatTypes
  OBVIOUS
<1>1. sent \in Seq(Lines) /\ Len(sent) = 0 /\ DOMAIN sent = {}
  BY EmptySeq DEF ChatInit
<1>2. cost \in Amounts
  BY DEF ChatInit, Amounts
<1>3. ChatTypeOK
  <2> USE ChatAssumption DEF ChatAssumption
  <2>1. Len(sent) <= MaxLines /\ next \in 0 .. Len(sent)
    BY <1>1 DEF ChatInit
  <2>2. got \in Seq(Passed)
    BY EmptySeq DEF ChatInit
  <2> QED
    BY <1>1, <1>2, <2>1, <2>2 DEF ChatInit, ChatTypeOK
<1>4. Stages
  BY DEF ChatInit, Stages
<1>5. OneBody
  BY <1>1 DEF ChatInit, OneBody
<1> QED
  BY <1>3, <1>4, <1>5 DEF ChatTypes

(***************************************************************************)
(* The lines of an answer.                                                 *)
(***************************************************************************)
LEMMA LineKinds ==
    ASSUME NEW l \in Lines
    PROVE  /\ l.kind \in {"blank", "done", "data", "comment", "long"}
           /\ l.kind = "data" => l.chunk \in Chunks
           /\ l = Done <=> l.kind = "done"
           /\ l = Blank <=> l.kind = "blank"
<1>1. CASE l \in {Blank, Done}
  BY <1>1 DEF Blank, Done, Line
<1>2. CASE \E c \in Chunks : l = Data(c)
  BY <1>2 DEF Blank, Done, Data, Line
<1>3. CASE l \in {Line(k, Nothing) : k \in {"comment", "long"}}
  BY <1>3 DEF Blank, Done, Line
<1> QED
  BY <1>1, <1>2, <1>3 DEF Lines

(* A line that is passed on.                                               *)
LEMMA ForwardType ==
    ASSUME ChatTypes, NEW l \in Passed, Forward(l)
    PROVE  got' \in Seq(Passed)
<1>1. got \in Seq(Passed)
  BY DEF ChatTypes, ChatTypeOK
<1>2. Append(got, l) \in Seq(Passed)
  BY <1>1, AppendProperties
<1> QED
  BY <1>1, <1>2 DEF Forward

(* What a line says is captured as the usage of a chunk and an amount.     *)
LEMMA CapturedType ==
    ASSUME ChatTypes, NEW l \in Lines, Captured(l)
    PROVE  /\ usage' \in {UsageOf(c) : c \in Chunks} \cup {Nothing}
           /\ cost' \in Amounts
<1>1. CASE l.kind = "data" /\ l.chunk.usage /\ l.chunk.json
  <2>1. Parse(l.chunk) /\ l.chunk \in Chunks
    BY <1>1, LineKinds DEF Captured
  <2> QED
    BY <2>1, CostOfChunk DEF Parse, ChatTypes, ChatTypeOK
<1>2. CASE ~(l.kind = "data" /\ l.chunk.usage /\ l.chunk.json)
  BY <1>2 DEF Captured, capture, ChatTypes, ChatTypeOK
<1> QED
  BY <1>1, <1>2

(* Whatever happens to a stream or a body keeps them.                      *)
LEMMA ChatTypesStep == ChatTypes /\ [ChatNext]_chatVars => ChatTypes'
<1> SUFFICES ASSUME ChatTypes, [ChatNext]_chatVars PROVE ChatTypes'
  OBVIOUS
<1>0. /\ sent \in Seq(Lines) /\ Len(sent) \in Nat /\ DOMAIN sent = 1 .. Len(sent)
      /\ \A i \in 1 .. Len(sent) : sent[i] \in Lines
      /\ next \in 0 .. Len(sent) /\ Len(sent) <= MaxLines
  BY DEF ChatTypes, ChatTypeOK
<1>1. CASE UNCHANGED chatVars
  BY <1>1 DEF chatVars, remote, capture, outcome, ChatTypes, ChatTypeOK, Stages, OneBody, Body
<1>2. ASSUME NEW l \in Lines, Sends(l)
      PROVE  ChatTypes'
  <2>1. /\ sent' \in Seq(Lines) /\ Len(sent') = Len(sent) + 1 /\ Len(sent) < MaxLines
        /\ \A i \in 1 .. Len(sent) : sent'[i] = sent[i]
        /\ sent'[Len(sent) + 1] = l
    BY <1>0, <1>2, AppendProperties DEF Sends
  <2>2. phase = "reading" /\ upstream = "open"
    BY <1>2 DEF Sends, InFlight
  <2>3. ChatTypeOK'
    <3>1. Len(sent') <= MaxLines /\ next' \in 0 .. Len(sent')
      BY <1>0, <1>2, <2>1, ChatAssumption DEF Sends, ChatAssumption
    <3> QED
      BY <1>2, <2>1, <3>1 DEF Sends, capture, outcome, ChatTypes, ChatTypeOK
  <2>4. Stages'
    BY <1>2 DEF Sends, outcome, ChatTypes, Stages
  <2>5. OneBody'
    <3> SUFFICES ASSUME mode' = "whole" PROVE OneBody'
      BY DEF OneBody
    <3>1. mode = "whole" /\ upstream' = "open" /\ phase' = "reading"
      BY <1>2, <2>2 DEF Sends
    <3>2. Len(sent) = 0 /\ l.kind = "data"
      BY <1>0, <1>2, <3>1, EmptySeq DEF Sends
    <3>3. Len(sent') = 1 /\ sent'[1] = l /\ DOMAIN sent' = {1}
      BY <2>1, <3>2
    <3> QED
      BY <3>1, <3>2, <3>3 DEF OneBody
  <2> QED
    BY <2>3, <2>4, <2>5 DEF ChatTypes
<1>3. CASE UpstreamEnds
  BY <1>3 DEF UpstreamEnds, InFlight, capture, outcome, ChatTypes, ChatTypeOK, Stages, OneBody,
              Body
<1>4. CASE UpstreamBreaks
  BY <1>4 DEF UpstreamBreaks, InFlight, capture, outcome, ChatTypes, ChatTypeOK, Stages, OneBody,
              Body
<1>5. ASSUME NEW how \in {"gone", "deaf"}, ClientLeaves(how)
      PROVE  ChatTypes'
  BY <1>5 DEF ClientLeaves, remote, capture, outcome, ChatTypes, ChatTypeOK, Stages, OneBody,
              Body
<1>6. ASSUME NEW l \in Lines, ReadLine(l)
      PROVE  ChatTypes'
  <2>1. /\ phase = "reading" /\ mode = "stream" /\ next < Len(sent) /\ l.kind # "long"
        /\ phase' \in {"settling", "reading"} /\ mode' = "stream" /\ next' = next + 1
        /\ sent' = sent /\ upstream' = upstream /\ client' = client
        /\ bill' = bill /\ lastUsed' = lastUsed /\ complete' = (l = Done)
    BY <1>6 DEF ReadLine, Reads, remote, outcome
  <2>2. got' \in Seq(Passed)
    <3>1. CASE ~PassedOn(l)
      BY <1>6, <3>1 DEF ReadLine, ChatTypes, ChatTypeOK
    <3>2. CASE PassedOn(l)
      <4>1. Sanitized(l) \in Passed
        BY <2>1, <3>2, LineKinds DEF Passed, PassedOn
      <4> QED
        BY <1>6, <3>2, <4>1, ForwardType DEF ReadLine
    <3> QED
      BY <3>1, <3>2
  <2>3. /\ usage' \in {UsageOf(c) : c \in Chunks} \cup {Nothing}
        /\ cost' \in Amounts
    BY <1>6, CapturedType DEF ReadLine
  <2>4. bill = Nothing
    BY <2>1 DEF ChatTypes, Stages
  <2>5. next' \in 0 .. Len(sent')
    BY <1>0, <2>1
  <2>6. complete' \in BOOLEAN
    BY <2>1, Zenon
  <2>7. phase' = "reading" => ~complete'
    BY <1>6, Zenon DEF ReadLine
  <2>8. ChatTypeOK'
    BY <2>1, <2>2, <2>3, <2>4, <2>5, <2>6 DEF ChatTypes, ChatTypeOK
  <2>9. Stages' /\ OneBody'
    BY <2>1, <2>4, <2>7 DEF Stages, OneBody
  <2> QED
    BY <2>8, <2>9 DEF ChatTypes
<1>7. CASE ScanStops
  <2>1. /\ phase = "reading" /\ mode = "stream" /\ phase' = "settling" /\ mode' = mode
        /\ sent' = sent /\ upstream' = upstream /\ client' = client /\ next' = next
        /\ usage' = usage /\ cost' = cost /\ bill' = bill /\ lastUsed' = lastUsed
        /\ complete' = complete \/ complete' = TRUE
    BY <1>7 DEF ScanStops, remote, capture, outcome
  <2>2. got' \in Seq(Passed)
    <3>1. CASE got' = got
      BY <3>1 DEF ChatTypes, ChatTypeOK
    <3>2. CASE Forward(Line("cut", Nothing))
      BY <3>2, ForwardType DEF Passed
    <3> QED
      BY <1>7, <3>1, <3>2 DEF ScanStops
  <2>3. bill = Nothing
    BY <2>1 DEF ChatTypes, Stages
  <2>4. ChatTypeOK'
    BY <2>1, <2>2, <2>3 DEF ChatTypes, ChatTypeOK
  <2>5. Stages' /\ OneBody'
    BY <2>1, <2>3 DEF Stages, OneBody
  <2> QED
    BY <2>4, <2>5 DEF ChatTypes
<1>8. CASE Settle
  <2>1. /\ phase = "settling" /\ phase' = IF mode = "stream" THEN "settled" ELSE "answering"
        /\ bill' = [usage |-> usage, cost |-> cost] /\ lastUsed' = TRUE
        /\ mode' = mode /\ sent' = sent /\ upstream' = upstream /\ client' = client
        /\ next' = next /\ usage' = usage /\ cost' = cost /\ got' = got
        /\ complete' = complete
    BY <1>8 DEF Settle, Finalized, remote, capture
  <2>2. mode \in {"stream", "whole"}
    BY ChatAssumption DEF ChatAssumption, ChatTypes, ChatTypeOK
  <2>3. ChatTypeOK'
    BY <2>1 DEF ChatTypes, ChatTypeOK
  <2>4. Stages'
    BY <2>1, <2>2 DEF Stages
  <2>5. OneBody'
    BY <2>1, <2>2 DEF ChatTypes, OneBody, Body
  <2> QED
    BY <2>3, <2>4, <2>5 DEF ChatTypes
<1>9. CASE ReadBody
  <2>1. /\ phase = "reading" /\ mode = "whole" /\ upstream = "closed" /\ phase' = "settling"
        /\ usage' = BodyUsage(Body) /\ cost' = BodyCost(Body) /\ next' = 1 /\ complete' = TRUE
        /\ mode' = mode /\ sent' = sent /\ upstream' = upstream /\ client' = client
        /\ got' = got /\ bill' = bill /\ lastUsed' = lastUsed
    BY <1>9 DEF ReadBody, remote, outcome
  <2>2. Len(sent) = 1 /\ sent[1].kind = "data"
    BY <1>0, <2>1, EmptySeq DEF ChatTypes, OneBody
  <2>3. Body \in Chunks
    BY <1>0, <2>2, LineKinds DEF Body
  <2>4. /\ usage' \in {UsageOf(c) : c \in Chunks} \cup {Nothing}
        /\ cost' \in Amounts
    BY <2>1, <2>3, CostOfChunk DEF BodyUsage, BodyCost, Amounts
  <2>5. bill = Nothing
    BY <2>1 DEF ChatTypes, Stages
  <2>6. ChatTypeOK'
    BY <2>1, <2>2, <2>4, <2>5 DEF ChatTypes, ChatTypeOK
  <2>7. Stages'
    BY <2>1, <2>5 DEF Stages
  <2>8. OneBody'
    BY <2>1, <2>2 DEF ChatTypes, OneBody, Body
  <2> QED
    BY <2>6, <2>7, <2>8 DEF ChatTypes
<1>10. CASE ReadBodyFails
  BY <1>10 DEF ReadBodyFails, remote, capture, outcome, ChatTypes, ChatTypeOK, Stages, OneBody
<1>11. CASE Answer
  <2>1. /\ phase = "answering" /\ phase' = "settled" /\ Forward(Sanitized(sent[1]))
        /\ mode' = mode /\ sent' = sent /\ upstream' = upstream /\ client' = client
        /\ next' = next /\ usage' = usage /\ cost' = cost /\ bill' = bill
        /\ lastUsed' = lastUsed /\ complete' = complete
    BY <1>11 DEF Answer, remote, capture, outcome
  <2>2. mode = "whole" /\ Len(sent) = 1 /\ sent[1].kind = "data"
    BY <1>0, <2>1 DEF ChatTypes, Stages, OneBody
  <2>3. got' \in Seq(Passed)
    <3>1. Sanitized(sent[1]) \in Passed
      BY <1>0, <2>2 DEF Passed
    <3> QED
      BY <2>1, <3>1, ForwardType
  <2>4. ChatTypeOK'
    BY <2>1, <2>3 DEF ChatTypes, ChatTypeOK
  <2>5. Stages'
    BY <2>1 DEF Stages
  <2>6. OneBody'
    BY <2>1 DEF ChatTypes, OneBody, Body
  <2> QED
    BY <2>4, <2>5, <2>6 DEF ChatTypes
<1> QED
  BY <1>1, <1>2, <1>3, <1>4, <1>5, <1>6, <1>7, <1>8, <1>9, <1>10, <1>11
     DEF ChatNext, Gateway, Over

(***************************************************************************)
(* Whatever the upstream sends, and whenever it or the client goes away:   *)
(* the capture holds the usage of one chunk and a cost that was reported,  *)
(* the client receives whole lines, damaged or cut ones, and what was      *)
(* billed is what was captured.                                            *)
(***************************************************************************)
THEOREM ChatTypeCorrect == ChatSpec => []ChatTypeOK
<1>1. ChatSpec => []ChatTypes
  BY ChatTypesInit, ChatTypesStep, PTL DEF ChatSpec
<1>2. ChatTypes => ChatTypeOK
  BY DEF ChatTypes
<1> QED
  BY <1>1, <1>2, PTL

-----------------------------------------------------------------------------
(***************************************************************************)
(* What a stream is billed for.                                            *)
(***************************************************************************)

(* The line says something of usage or costs.                              *)
Tells(l) == l.kind = "data" /\ l.chunk.json /\ l.chunk.usage

(* Those of the first n lines that report tokens.                          *)
TokensUpTo(n) == {i \in 1 .. n : Tells(sent[i]) /\ HasTokens(sent[i].chunk)}

(* At any time, what was captured is what was reported last, and no cost   *)
(* that was reported is lost.                                              *)
UsageCaptured ==
    mode = "stream" =>
        \/ TokensUpTo(next) = {} /\ usage = Nothing
        \/ \E m \in TokensUpTo(next) : /\ usage = UsageOf(sent[m].chunk)
                                      /\ \A i \in TokensUpTo(next) : i <= m

CostCaptured ==
    mode = "stream" =>
        \A i \in 1 .. next : Tells(sent[i]) /\ Charges(sent[i].chunk) => cost > 0

(* After [DONE] nothing is reported; who read to the end left nothing else. *)
DoneLast == \A i, j \in DOMAIN sent : i < j /\ sent[i] = Done => sent[j] = Blank

ReadToEnd ==
    complete /\ mode = "stream" =>
        next = Len(sent) \/ (next \in DOMAIN sent /\ sent[next] = Done)

ChatInv == ChatTypes /\ UsageCaptured /\ CostCaptured /\ DoneLast /\ ReadToEnd

(* Before the first line nothing is captured.                              *)
LEMMA ChatInvInit == ChatInit => ChatInv
<1> SUFFICES ASSUME ChatInit PROVE ChatInv
  OBVIOUS
<1>1. ChatTypes
  BY ChatTypesInit
<1>2. next = 0 /\ usage = Nothing /\ 1 .. next = {} /\ DOMAIN sent = {}
  BY DEF ChatInit
<1>3. TokensUpTo(next) = {}
  BY <1>2 DEF TokensUpTo
<1> QED
  BY <1>1, <1>2, <1>3 DEF ChatInv, UsageCaptured, CostCaptured, DoneLast, ReadToEnd

(* The facts about the lines that the steps below use.                     *)
LEMMA SentType ==
    ASSUME ChatTypes
    PROVE  /\ sent \in Seq(Lines) /\ Len(sent) \in Nat /\ DOMAIN sent = 1 .. Len(sent)
           /\ \A i \in 1 .. Len(sent) : sent[i] \in Lines
           /\ next \in 0 .. Len(sent)
BY DEF ChatTypes, ChatTypeOK

(* A step that nothing is read in leaves what was captured correct.        *)
LEMMA NothingRead ==
    ASSUME ChatInv, next' = next, usage' = usage, cost' = cost, mode' = mode,
           \A i \in 1 .. next : sent'[i] = sent[i]
    PROVE  UsageCaptured' /\ CostCaptured'
<1>1. TokensUpTo(next)' = TokensUpTo(next)
  BY DEF TokensUpTo
<1>2. TokensUpTo(next) \subseteq 1 .. next
  BY DEF TokensUpTo
<1>3. UsageCaptured'
  BY <1>1, <1>2 DEF ChatInv, UsageCaptured
<1>4. CostCaptured'
  BY DEF ChatInv, CostCaptured
<1> QED
  BY <1>3, <1>4

(* The next line is read.                                                  *)
LEMMA LineRead ==
    ASSUME ChatInv, NEW l \in Lines, ReadLine(l)
    PROVE  UsageCaptured' /\ CostCaptured'
<1> DEFINE n == next + 1
<1>1. /\ mode = "stream" /\ mode' = mode /\ sent' = sent /\ next' = n /\ Captured(l)
      /\ l = sent[n] /\ next < Len(sent)
  BY DEF ReadLine, Reads, remote
<1>2. next \in Nat /\ n \in 1 .. Len(sent) /\ 1 .. n = (1 .. next) \cup {n} /\ n = next + 1
  BY <1>1, SentType DEF ChatInv
<1>5. TokensUpTo(next)' = {i \in 1 .. n : Tells(sent[i]) /\ HasTokens(sent[i].chunk)}
  BY <1>1 DEF TokensUpTo, Tells
<1> HIDE DEF n
<1>3. CASE Tells(l)
  <2>1. /\ l.chunk \in Chunks
        /\ usage' = IF HasTokens(l.chunk) THEN UsageOf(l.chunk) ELSE usage
        /\ cost' = IF UpstreamCost(l.chunk) > 0 THEN UpstreamCost(l.chunk) ELSE cost
    BY <1>1, <1>3, LineKinds DEF Tells, Captured, Parse
  <2>2. ASSUME HasTokens(l.chunk) PROVE UsageCaptured'
    <3>1. n \in TokensUpTo(next)' /\ \A i \in TokensUpTo(next)' : i <= n
      BY <1>1, <1>2, <1>3, <1>5, <2>2
    <3>2. usage' = UsageOf(sent'[n].chunk)
      BY <1>1, <2>1, <2>2
    <3> QED
      BY <1>1, <3>1, <3>2 DEF UsageCaptured
  <2>3. ASSUME ~HasTokens(l.chunk) PROVE UsageCaptured'
    <3>1. TokensUpTo(next)' = TokensUpTo(next)
      BY <1>1, <1>2, <1>5, <2>3 DEF TokensUpTo
    <3>2. usage' = usage
      BY <2>1, <2>3
    <3> QED
      BY <1>1, <3>1, <3>2 DEF ChatInv, UsageCaptured
  <2>4. UsageCaptured'
    BY <2>2, <2>3
  <2>5. CostCaptured'
    <3>1. ASSUME NEW i \in 1 .. n, Tells(sent[i]), Charges(sent[i].chunk)
          PROVE  cost' > 0
      <4>1. CASE i = n
        BY <1>1, <2>1, <3>1, <4>1, CostOfChunk
      <4>2. CASE i \in 1 .. next
        <5>1. cost > 0
          BY <1>1, <3>1, <4>2 DEF ChatInv, CostCaptured
        <5> QED
          BY <2>1, <5>1
      <4> QED
        BY <1>2, <4>1, <4>2
    <3> QED
      BY <1>1, <3>1 DEF CostCaptured, Tells
  <2> QED
    BY <2>4, <2>5
<1>4. CASE ~Tells(l)
  <2>1. usage' = usage /\ cost' = cost
    BY <1>1, <1>4 DEF Tells, Captured, capture
  <2>2. TokensUpTo(next)' = TokensUpTo(next)
    BY <1>1, <1>2, <1>4, <1>5 DEF TokensUpTo
  <2>3. UsageCaptured'
    BY <1>1, <2>1, <2>2 DEF ChatInv, UsageCaptured
  <2>4. CostCaptured'
    BY <1>1, <1>2, <1>4, <2>1 DEF ChatInv, CostCaptured
  <2> QED
    BY <2>3, <2>4
<1> QED
  BY <1>3, <1>4

(* Every step keeps what was captured the last that was reported.          *)
LEMMA ChatInvStep == ChatInv /\ ChatTypes' /\ [ChatNext]_chatVars => ChatInv'
<1> SUFFICES ASSUME ChatInv, ChatTypes', [ChatNext]_chatVars
             PROVE  UsageCaptured' /\ CostCaptured' /\ DoneLast' /\ ReadToEnd'
  BY DEF ChatInv
<1>0. /\ sent \in Seq(Lines) /\ Len(sent) \in Nat /\ DOMAIN sent = 1 .. Len(sent)
      /\ \A i \in 1 .. Len(sent) : sent[i] \in Lines
      /\ next \in 0 .. Len(sent)
  BY SentType DEF ChatInv
<1>1. ASSUME UNCHANGED <<mode, sent, next, usage, cost, complete>>
      PROVE  UsageCaptured' /\ CostCaptured' /\ DoneLast' /\ ReadToEnd'
  BY <1>1, NothingRead DEF ChatInv, DoneLast, ReadToEnd
<1>2. ASSUME NEW l \in Lines, Sends(l)
      PROVE  UsageCaptured' /\ CostCaptured' /\ DoneLast' /\ ReadToEnd'
  <2>1. /\ Len(sent') = Len(sent) + 1 /\ DOMAIN sent' = 1 .. (Len(sent) + 1)
        /\ \A i \in 1 .. Len(sent) : sent'[i] = sent[i]
        /\ sent'[Len(sent) + 1] = l
    BY <1>0, <1>2, AppendProperties DEF Sends
  <2>2. /\ phase = "reading" /\ next' = next /\ usage' = usage /\ cost' = cost
        /\ mode' = mode /\ complete' = complete
    BY <1>2 DEF Sends, InFlight, capture
  <2>3. UsageCaptured' /\ CostCaptured'
    BY <1>0, <2>1, <2>2, NothingRead
  <2>4. DoneLast'
    <3> SUFFICES ASSUME NEW i \in 1 .. (Len(sent) + 1), NEW j \in 1 .. (Len(sent) + 1),
                        i < j, sent'[i] = Done
                 PROVE  sent'[j] = Blank
      BY <2>1 DEF DoneLast
    <3>1. i \in 1 .. Len(sent) /\ sent[i] = Done
      BY <1>0, <2>1
    <3>2. CASE j \in 1 .. Len(sent)
      BY <1>0, <2>1, <3>1, <3>2 DEF ChatInv, DoneLast
    <3>3. CASE j = Len(sent) + 1
      <4>1. Done \in ToSet(sent)
        BY <1>0, <3>1 DEF ToSet
      <4> QED
        BY <1>2, <2>1, <3>3, <4>1 DEF Sends
    <3> QED
      BY <1>0, <3>2, <3>3
  <2>5. ReadToEnd'
    BY <2>2 DEF ReadToEnd, ChatInv, ChatTypes, Stages
  <2> QED
    BY <2>3, <2>4, <2>5
<1>3. CASE UpstreamEnds \/ UpstreamBreaks \/ Settle \/ ReadBodyFails \/ Answer
           \/ \E how \in {"gone", "deaf"} : ClientLeaves(how)
  BY <1>1, <1>3 DEF UpstreamEnds, UpstreamBreaks, Settle, ReadBodyFails, Answer, ClientLeaves,
                    remote, capture
<1>4. ASSUME NEW l \in Lines, ReadLine(l)
      PROVE  UsageCaptured' /\ CostCaptured' /\ DoneLast' /\ ReadToEnd'
  <2>1. UsageCaptured' /\ CostCaptured'
    BY <1>4, LineRead
  <2>2. /\ sent' = sent /\ next' = next + 1 /\ complete' = (l = Done) /\ l = sent[next + 1]
        /\ next < Len(sent)
    BY <1>4 DEF ReadLine, Reads, remote
  <2>3. DoneLast'
    BY <2>2 DEF ChatInv, DoneLast
  <2>4. next + 1 \in DOMAIN sent
    BY <1>0, <2>2
  <2>5. ReadToEnd'
    BY <2>2, <2>4, Zenon DEF ReadToEnd
  <2> QED
    BY <2>1, <2>3, <2>5
<1>5. CASE ScanStops
  <2>1. UNCHANGED <<mode, sent, next, usage, cost>>
    BY <1>5 DEF ScanStops, remote, capture
  <2>2. UsageCaptured' /\ CostCaptured' /\ DoneLast'
    BY <2>1, NothingRead DEF ChatInv, DoneLast
  <2>3. complete' = complete \/ next = Len(sent)
    BY <1>5 DEF ScanStops
  <2>4. CASE complete' = complete
    BY <2>1, <2>2, <2>4 DEF ChatInv, ReadToEnd
  <2>5. CASE next = Len(sent)
    BY <2>1, <2>2, <2>5 DEF ReadToEnd
  <2> QED
    BY <2>3, <2>4, <2>5
<1>6. CASE ReadBody
  <2>1. mode = "whole" /\ mode' = "whole" /\ sent' = sent
    BY <1>6 DEF ReadBody, remote
  <2> QED
    BY <2>1 DEF ChatInv, UsageCaptured, CostCaptured, DoneLast, ReadToEnd
<1>7. CASE UNCHANGED chatVars
  BY <1>1, <1>7 DEF chatVars, remote, capture
<1> QED
  BY <1>2, <1>3, <1>4, <1>5, <1>6, <1>7 DEF ChatNext, Gateway, Over

(***************************************************************************)
(* Who reads an answer to its end pays for what was reported.              *)
(***************************************************************************)
LEMMA StreamBilled ==
    ASSUME ChatInv, mode = "stream", complete, bill # Nothing
    PROVE  UsageAsReported /\ CostNotLost
<1>1. bill = [usage |-> usage, cost |-> cost]
  BY DEF ChatInv, ChatTypes, ChatTypeOK
<1>2. /\ sent \in Seq(Lines) /\ Len(sent) \in Nat /\ DOMAIN sent = 1 .. Len(sent)
      /\ next \in 0 .. Len(sent)
  BY SentType DEF ChatInv
<1>3. \A i \in DOMAIN sent : sent[i].kind = "data" => i \in 1 .. next
  <2> SUFFICES ASSUME NEW i \in 1 .. Len(sent), i > next PROVE sent[i] = Blank
    BY <1>2 DEF Blank, Line
  <2>1. next # Len(sent)
    <3>1. Len(sent) \in Int /\ next \in Int /\ i \in Int /\ i <= Len(sent)
      BY <1>2
    <3>2. ~(Len(sent) < i)
      BY <3>1
    <3> QED
      BY <3>1, <3>2
  <2>2. next \in DOMAIN sent /\ sent[next] = Done
    BY <2>1 DEF ChatInv, ReadToEnd
  <2> QED
    BY <1>2, <2>2 DEF ChatInv, DoneLast
<1> DEFINE R == Reporting(HasTokens)
<1>4. R = TokensUpTo(next)
  BY <1>2, <1>3 DEF Reporting, TokensUpTo, Tells
<1>5. UsageAsReported
  <2>1. CASE R = {}
    BY <1>1, <1>4, <2>1 DEF ChatInv, UsageCaptured, UsageAsReported
  <2>2. CASE R # {}
    <3>1. PICK m \in R : usage = UsageOf(sent[m].chunk) /\ \A i \in R : i <= m
      BY <1>4, <2>2 DEF ChatInv, UsageCaptured
    <3>2. R \subseteq Int /\ sent[m].chunk.json /\ HasTokens(sent[m].chunk)
      BY <1>4 DEF TokensUpTo, Tells
    <3>3. Max(R) = m
      BY <3>1, <3>2, MaxIs
    <3>4. BodyUsage(sent[m].chunk) = usage
      BY <3>1, <3>2 DEF BodyUsage
    <3> QED
      BY <1>1, <2>2, <3>3, <3>4 DEF UsageAsReported
  <2> QED
    BY <2>1, <2>2
<1>6. CostNotLost
  <2>1. ASSUME NEW i \in Reporting(Charges)
        PROVE  cost > 0
    <3>1. i \in 1 .. next /\ Tells(sent[i]) /\ Charges(sent[i].chunk)
      BY <1>3 DEF Reporting, Tells
    <3> QED
      BY <3>1 DEF ChatInv, CostCaptured
  <2> QED
    BY <1>1, <2>1 DEF CostNotLost
<1> QED
  BY <1>5, <1>6

(***************************************************************************)
(* The same for a body: it is billed for what it says.                     *)
(***************************************************************************)
LEMMA BodyBilled ==
    ASSUME ChatInv, mode = "whole", bill # Nothing
    PROVE  UsageAsReported /\ CostNotLost
<1>1. bill = [usage |-> usage, cost |-> cost] /\ phase \in {"answering", "settled"}
  BY DEF ChatInv, ChatTypes, ChatTypeOK, Stages
<1>2. Len(sent) = 1 /\ usage = BodyUsage(Body) /\ cost = BodyCost(Body)
  BY <1>1 DEF ChatInv, ChatTypes, OneBody
<1>3. DOMAIN sent = {1} /\ sent[1] \in Lines /\ sent[1].kind = "data"
  BY <1>2, SentType DEF ChatInv, ChatTypes, OneBody
<1>4. Body \in Chunks /\ Body = sent[1].chunk
  BY <1>3, LineKinds DEF Body
<1>5. UsageAsReported
  <2> DEFINE R == Reporting(HasTokens)
  <2>1. R = IF Body.json /\ HasTokens(Body) THEN {1} ELSE {}
    BY <1>3, <1>4 DEF Reporting
  <2>2. CASE R = {}
    BY <1>1, <1>2, <2>1, <2>2 DEF UsageAsReported, BodyUsage
  <2>3. CASE R = {1}
    <3>1. Max(R) = 1
      BY <2>3, MaxIs
    <3> QED
      BY <1>1, <1>2, <1>4, <2>3, <3>1 DEF UsageAsReported
  <2> QED
    BY <2>1, <2>2, <2>3
<1>6. CostNotLost
  <2>1. ASSUME Reporting(Charges) # {}
        PROVE  Body.json /\ Charges(Body)
    BY <1>3, <1>4, <2>1 DEF Reporting
  <2> QED
    BY <1>1, <1>2, <1>4, <2>1, CostOfChunk DEF CostNotLost, BodyCost
<1> QED
  BY <1>5, <1>6

(***************************************************************************)
(* Who reads an answer to its end pays for what was reported last, and no  *)
(* charge is recorded as zero: for any chunks, any number of lines and     *)
(* any moment at which the client goes away.                               *)
(***************************************************************************)
THEOREM AnswersBilled == ChatSpec => []BilledAsReported
<1>1. ChatSpec => []ChatTypes
  BY ChatTypesInit, ChatTypesStep, PTL DEF ChatSpec
<1>2. ChatSpec => []ChatInv
  BY <1>1, ChatInvInit, ChatInvStep, PTL DEF ChatSpec
<1>3. ChatInv => BilledAsReported
  <2> SUFFICES ASSUME ChatInv, complete, bill # Nothing
               PROVE  UsageAsReported /\ CostNotLost
    BY DEF BilledAsReported
  <2>1. mode \in {"stream", "whole"}
    BY ChatAssumption DEF ChatAssumption, ChatInv, ChatTypes, ChatTypeOK
  <2> QED
    BY <2>1, StreamBilled, BodyBilled
<1> QED
  BY <1>2, <1>3, PTL

-----------------------------------------------------------------------------
(***************************************************************************)
(* What a client takes from lines.                                         *)
(***************************************************************************)

(* f says what is taken from each of the first n lines.                    *)
IsTaking(f, lines, n) ==
    f = [k \in 0 .. n |-> IF k = 0 THEN NothingTaken ELSE Takes(f[k - 1], lines[k])]

(* There is such a function: one more line is one more step.               *)
LEMMA TakingExists ==
    ASSUME NEW lines, NEW N \in Nat
    PROVE  \E f : IsTaking(f, lines, N)
<1> DEFINE S == {n \in 0 .. N : \E f : IsTaking(f, lines, n)}
<1>1. 0 \in S
  <2> DEFINE f == [k \in 0 .. 0 |-> NothingTaken]
  <2>1. IsTaking(f, lines, 0)
    BY DEF IsTaking
  <2> QED
    BY <2>1
<1>2. ASSUME NEW n \in 0 .. (N - 1), n \in S
      PROVE  n + 1 \in S
  <2>1. PICK f : IsTaking(f, lines, n)
    BY <1>2
  <2> DEFINE g == [k \in 0 .. (n + 1) |-> IF k = n + 1 THEN Takes(f[n], lines[k]) ELSE f[k]]
             h == [k \in 0 .. (n + 1) |->
                      IF k = 0 THEN NothingTaken ELSE Takes(g[k - 1], lines[k])]
  <2>2. ASSUME NEW k \in 0 .. (n + 1)
        PROVE  g[k] = h[k]
    <3>1. CASE k = n + 1
      <4>1. k # 0 /\ k - 1 = n /\ n \in 0 .. (n + 1) /\ n # n + 1
        BY <3>1
      <4>2. g[k - 1] = f[n]
        BY <4>1
      <4> QED
        BY <3>1, <4>1, <4>2
    <3>2. CASE k = 0
      <4>1. f[0] = NothingTaken
        BY <2>1 DEF IsTaking
      <4> QED
        BY <3>2, <4>1
    <3>3. CASE k # 0 /\ k # n + 1
      <4>1. k \in 0 .. n /\ k - 1 \in 0 .. (n + 1) /\ k - 1 # n + 1
        BY <3>3
      <4>2. f[k] = Takes(f[k - 1], lines[k])
        BY <2>1, <3>3, <4>1 DEF IsTaking
      <4>3. g[k - 1] = f[k - 1]
        BY <4>1
      <4>4. g[k] = f[k] /\ h[k] = Takes(g[k - 1], lines[k])
        BY <3>3
      <4> QED
        BY <4>2, <4>3, <4>4
    <3> QED
      BY <3>1, <3>2, <3>3
  <2>3. g = h
    BY <2>2
  <2>4. IsTaking(g, lines, n + 1)
    BY <2>3 DEF IsTaking
  <2> HIDE DEF g, h
  <2> QED
    BY <2>4
<1> HIDE DEF S
<1>3. N \in S
  BY <1>1, <1>2, Induction
<1> QED
  BY <1>3 DEF S

(***************************************************************************)
(* Nothing is taken from no lines, and each line adds to what was taken.   *)
(***************************************************************************)
LEMMA TakingLines ==
    ASSUME NEW lines, Len(lines) \in Nat
    PROVE  /\ TakenUpTo(lines)[0] = NothingTaken
           /\ \A k \in 1 .. Len(lines) :
                 TakenUpTo(lines)[k] = Takes(TakenUpTo(lines)[k - 1], lines[k])
<1> DEFINE g == CHOOSE f : IsTaking(f, lines, Len(lines))
<1>1. IsTaking(g, lines, Len(lines))
  BY TakingExists
<1>2. TakenUpTo(lines) = g
  BY DEF TakenUpTo, IsTaking
<1> HIDE DEF g
<1>3. g[0] = NothingTaken
  BY <1>1 DEF IsTaking
<1>4. ASSUME NEW k \in 1 .. Len(lines)
      PROVE  g[k] = Takes(g[k - 1], lines[k])
  BY <1>1 DEF IsTaking
<1> QED
  BY <1>2, <1>3, <1>4

(* What is taken from lines of a set.                                      *)
Takings(S) == [events : Seq(Seq(S)), open : Seq(S)]

(* A line more keeps it.                                                   *)
LEMMA TakesType ==
    ASSUME NEW S, NEW acc \in Takings(S), NEW l \in S
    PROVE  Takes(acc, l) \in Takings(S)
<1>1. acc.events \in Seq(Seq(S)) /\ acc.open \in Seq(S) /\ DOMAIN acc = {"events", "open"}
  BY DEF Takings
<1>2. /\ Append(acc.events, acc.open) \in Seq(Seq(S))
      /\ Append(acc.open, l) \in Seq(S) /\ <<>> \in Seq(S)
  BY <1>1, AppendProperties, EmptySeq
<1> QED
  BY <1>1, <1>2 DEF Takes, Takings

(* So it is for the first k lines.                                         *)
LEMMA TakenType ==
    ASSUME NEW S, NEW lines \in Seq(S), NEW k \in 0 .. Len(lines)
    PROVE  TakenUpTo(lines)[k] \in Takings(S)
<1> DEFINE N == Len(lines)
           G == {n \in 0 .. N : TakenUpTo(lines)[n] \in Takings(S)}
<1>1. N \in Nat /\ \A n \in 1 .. N : lines[n] \in S
  BY LenProperties
<1>2. 0 \in G
  <2>1. NothingTaken \in Takings(S)
    BY EmptySeq DEF NothingTaken, Takings
  <2> QED
    BY <1>1, <2>1, TakingLines
<1>3. ASSUME NEW n \in 0 .. (N - 1), n \in G
      PROVE  n + 1 \in G
  <2>1. n + 1 \in 1 .. N /\ (n + 1) - 1 = n /\ n + 1 \in 0 .. N
    BY <1>1
  <2>2. TakenUpTo(lines)[n + 1] = Takes(TakenUpTo(lines)[n], lines[n + 1])
    BY <1>1, <2>1, TakingLines
  <2> QED
    BY <1>1, <1>3, <2>1, <2>2, TakesType
<1> HIDE DEF G
<1>4. 0 .. N \subseteq G
  BY <1>1, <1>2, <1>3, Induction
<1> QED
  BY <1>4 DEF G

(***************************************************************************)
(* A line more changes nothing about the lines before it.                  *)
(***************************************************************************)
LEMMA TakenAppend ==
    ASSUME NEW S, NEW lines \in Seq(S), NEW l \in S
    PROVE  /\ \A k \in 0 .. Len(lines) :
                 TakenUpTo(Append(lines, l))[k] = TakenUpTo(lines)[k]
           /\ TakenUpTo(Append(lines, l))[Len(lines) + 1]
                 = Takes(TakenUpTo(lines)[Len(lines)], l)
<1> DEFINE N == Len(lines)
           more == Append(lines, l)
           G == {n \in 0 .. N : TakenUpTo(more)[n] = TakenUpTo(lines)[n]}
<1>1. /\ N \in Nat /\ Len(more) = N + 1 /\ more[N + 1] = l
      /\ \A n \in 1 .. N : more[n] = lines[n]
  BY LenProperties, AppendProperties
<1> HIDE DEF more
<1>2. 0 \in G
  BY <1>1, TakingLines
<1>3. ASSUME NEW n \in 0 .. (N - 1), n \in G
      PROVE  n + 1 \in G
  <2>1. n + 1 \in 1 .. N /\ (n + 1) - 1 = n /\ n + 1 \in 0 .. N /\ n + 1 \in 1 .. Len(more)
    BY <1>1
  <2>2. TakenUpTo(lines)[n + 1] = Takes(TakenUpTo(lines)[n], lines[n + 1])
    BY <1>1, <2>1, TakingLines
  <2>3. more[n + 1] = lines[n + 1]
    BY <1>1, <2>1
  <2>4. TakenUpTo(more)[n + 1] = Takes(TakenUpTo(more)[n], more[n + 1])
    BY <1>1, <2>1, TakingLines
  <2> QED
    BY <1>3, <2>1, <2>2, <2>3, <2>4
<1>4. 0 .. N \subseteq G
  <2> HIDE DEF G
  <2> QED
    BY <1>1, <1>2, <1>3, Induction
<1>5. TakenUpTo(more)[N + 1] = Takes(TakenUpTo(lines)[N], l)
  <2>1. N + 1 \in 1 .. Len(more) /\ (N + 1) - 1 = N /\ N \in 0 .. N
    BY <1>1
  <2>2. TakenUpTo(more)[N + 1] = Takes(TakenUpTo(more)[N], l)
    BY <1>1, <2>1, TakingLines
  <2> QED
    BY <1>4, <2>1, <2>2
<1> QED
  BY <1>4, <1>5 DEF more

(***************************************************************************)
(* What was taken is not taken back: the events of the first k lines are   *)
(* the first events of all.                                                *)
(***************************************************************************)
Begins(a, b) == Len(a) <= Len(b) /\ \A i \in 1 .. Len(a) : b[i] = a[i]

(* One line only adds an event, or none.                                   *)
LEMMA TakesMore ==
    ASSUME NEW S, NEW acc \in Takings(S), NEW l \in S
    PROVE  Begins(acc.events, Takes(acc, l).events)
<1>1. acc.events \in Seq(Seq(S)) /\ acc.open \in Seq(S) /\ Len(acc.events) \in Nat
  BY LenProperties DEF Takings
<1>2. CASE Takes(acc, l).events = acc.events
  BY <1>1, <1>2 DEF Begins
<1>3. CASE Takes(acc, l).events = Append(acc.events, acc.open)
  BY <1>1, <1>3, AppendProperties DEF Begins
<1>4. DOMAIN acc = {"events", "open"}
  BY DEF Takings
<1>5. Takes(acc, l).events \in {acc.events, Append(acc.events, acc.open)}
  BY <1>4 DEF Takes
<1> QED
  BY <1>2, <1>3, <1>5

(* So do all lines after the first k.                                      *)
LEMMA TakenGrows ==
    ASSUME NEW S, NEW lines \in Seq(S), NEW k \in 0 .. Len(lines)
    PROVE  Begins(TakenUpTo(lines)[k].events, Dispatched(lines))
<1> DEFINE N == Len(lines)
           ev(n) == TakenUpTo(lines)[n].events
           G == {n \in 0 .. N : k <= n => Begins(ev(k), ev(n))}
<1>1. N \in Nat /\ k \in Nat /\ k <= N /\ \A n \in 1 .. N : lines[n] \in S
  BY LenProperties
<1>2. ASSUME NEW n \in 0 .. N
      PROVE  ev(n) \in Seq(Seq(S)) /\ Len(ev(n)) \in Nat
  <2>1. ev(n) \in Seq(Seq(S))
    BY TakenType DEF Takings
  <2> QED
    BY <2>1, LenProperties
<1>3. Begins(ev(k), ev(k))
  BY <1>2 DEF Begins
<1>4. ASSUME NEW n \in 0 .. (N - 1)
      PROVE  Begins(ev(n), ev(n + 1))
  <2>1. n + 1 \in 1 .. N /\ (n + 1) - 1 = n /\ n \in 0 .. N
    BY <1>1
  <2>2. TakenUpTo(lines)[n + 1] = Takes(TakenUpTo(lines)[n], lines[n + 1])
    BY <1>1, <2>1, TakingLines
  <2> QED
    BY <1>1, <2>1, <2>2, TakenType, TakesMore
<1>5. 0 \in G
  <2>1. k <= 0 => k = 0
    BY <1>1
  <2> QED
    BY <1>1, <1>3, <2>1
<1>6. ASSUME NEW n \in 0 .. (N - 1), n \in G
      PROVE  n + 1 \in G
  <2>1. n \in 0 .. N /\ n + 1 \in 0 .. N
    BY <1>1
  <2>2. CASE k <= n
    <3>1. Begins(ev(k), ev(n)) /\ Begins(ev(n), ev(n + 1))
      BY <1>4, <1>6, <2>2
    <3>2. Len(ev(k)) \in Nat /\ Len(ev(n)) \in Nat /\ Len(ev(n + 1)) \in Nat
      BY <1>2, <2>1
    <3> HIDE DEF ev
    <3>3. Begins(ev(k), ev(n + 1))
      BY <3>1, <3>2 DEF Begins
    <3> QED
      BY <2>1, <3>3
  <2>3. CASE k = n + 1
    BY <1>3, <2>1, <2>3
  <2>4. CASE k > n + 1
    BY <1>1, <2>1, <2>4
  <2> QED
    BY <1>1, <2>1, <2>2, <2>3, <2>4
<1> HIDE DEF G
<1>7. 0 .. N \subseteq G
  <2> HIDE DEF N
  <2> QED
    BY <1>1, <1>5, <1>6, Induction
<1>8. N \in G
  BY <1>1, <1>7
<1> QED
  BY <1>1, <1>8 DEF G, Dispatched

(* A sequence with one more element.                                       *)
LEMMA Appended ==
    ASSUME NEW S, NEW s \in Seq(S), NEW x \in S, NEW t, t = Append(s, x)
    PROVE  /\ t \in Seq(S) /\ Len(s) \in Nat /\ Len(t) = Len(s) + 1
           /\ \A i \in 1 .. Len(s) : t[i] = s[i]
           /\ t[Len(s) + 1] = x
BY AppendProperties, LenProperties

(***************************************************************************)
(* If there are only blank lines after [DONE], then the events that it is  *)
(* not in were there before it.                                            *)
(***************************************************************************)
LEMMA TakenAfterDone ==
    ASSUME NEW lines \in Seq(Lines), NEW d \in 1 .. Len(lines), lines[d] = Done,
           \A j \in 1 .. Len(lines) : d < j => lines[j] = Blank
    PROVE  \A i \in DOMAIN Dispatched(lines) :
              i > Len(TakenUpTo(lines)[d].events) => Done \in ToSet(Dispatched(lines)[i])
<1> DEFINE N == Len(lines)
           T(n) == TakenUpTo(lines)[n]
           c == Len(T(d).events)
           OnlyDone(n) == /\ T(n).open = <<>> \/ Done \in ToSet(T(n).open)
                          /\ \A i \in 1 .. Len(T(n).events) :
                                i > c => Done \in ToSet(T(n).events[i])
           G == {n \in 0 .. N : d <= n => OnlyDone(n)}
<1>1. /\ N \in Nat /\ d \in Nat /\ 1 <= d /\ d <= N /\ d \in 0 .. N
      /\ \A n \in 1 .. N : lines[n] \in Lines
  BY LenProperties
<1>2. ASSUME NEW n \in 0 .. N
      PROVE  /\ T(n) \in Takings(Lines)
             /\ T(n).events \in Seq(Seq(Lines)) /\ T(n).open \in Seq(Lines)
             /\ Len(T(n).events) \in Nat
  <2>1. T(n) \in Takings(Lines)
    BY TakenType
  <2>2. T(n).events \in Seq(Seq(Lines)) /\ T(n).open \in Seq(Lines)
    BY <2>1 DEF Takings
  <2> QED
    BY <2>1, <2>2, LenProperties
<1>3. OnlyDone(d)
  <2>1. d - 1 \in 0 .. N /\ d \in 1 .. N
    BY <1>1
  <2>2. T(d) = Takes(T(d - 1), Done)
    BY <1>1, <2>1, TakingLines
  <2>3. T(d).open = Append(T(d - 1).open, Done)
    BY <1>2, <2>1, <2>2 DEF Takes, Done, Line, Takings
  <2>4. Done \in ToSet(T(d).open)
    <3>1. Done \in Lines
      BY DEF Lines
    <3>2. T(d - 1).open \in Seq(Lines)
      BY <1>2, <2>1
    <3> HIDE DEF T
    <3>3. /\ T(d).open \in Seq(Lines) /\ Len(T(d).open) = Len(T(d - 1).open) + 1
          /\ T(d).open[Len(T(d - 1).open) + 1] = Done
      BY <2>3, <3>1, <3>2, AppendProperties
    <3>4. Len(T(d - 1).open) + 1 \in DOMAIN T(d).open
      BY <3>2, <3>3, LenProperties
    <3> QED
      BY <3>3, <3>4 DEF ToSet
  <2>5. \A i \in 1 .. Len(T(d).events) : ~(i > c)
    BY <1>1, <1>2
  <2> QED
    BY <2>4, <2>5
<1>4. ASSUME NEW n \in 0 .. (N - 1), d <= n, OnlyDone(n)
      PROVE  OnlyDone(n + 1)
  <2>1. n + 1 \in 1 .. N /\ (n + 1) - 1 = n /\ n \in 0 .. N /\ d < n + 1 /\ c \in Nat
    BY <1>1, <1>2, <1>4
  <2>2. T(n + 1) = Takes(T(n), Blank)
    BY <1>1, <2>1, TakingLines
  <2>3. /\ T(n + 1).open = <<>>
        /\ T(n + 1).events = IF T(n).open = <<>> THEN T(n).events
                             ELSE Append(T(n).events, T(n).open)
    BY <2>2 DEF Takes, Blank, Line
  <2>4. CASE T(n).open = <<>>
    BY <1>4, <2>3, <2>4
  <2>5. CASE T(n).open # <<>>
    <3>1. Done \in ToSet(T(n).open)
      BY <1>4, <2>5
    <3>2. T(n).events \in Seq(Seq(Lines)) /\ T(n).open \in Seq(Lines)
      BY <1>2, <2>1
    <3>3. T(n + 1).events = Append(T(n).events, T(n).open)
      BY <2>3, <2>5
    <3>4. /\ Len(T(n + 1).events) = Len(T(n).events) + 1 /\ Len(T(n).events) \in Nat
          /\ \A i \in 1 .. Len(T(n).events) : T(n + 1).events[i] = T(n).events[i]
          /\ T(n + 1).events[Len(T(n).events) + 1] = T(n).open
      BY <3>2, <3>3, Appended
    <3> HIDE DEF T
    <3>5. ASSUME NEW i \in 1 .. Len(T(n + 1).events), i > c
          PROVE  Done \in ToSet(T(n + 1).events[i])
      <4>1. CASE i \in 1 .. Len(T(n).events)
        BY <1>4, <3>4, <3>5, <4>1
      <4>2. CASE i = Len(T(n).events) + 1
        BY <3>1, <3>4, <4>2
      <4> QED
        BY <3>4, <4>1, <4>2
    <3> QED
      BY <2>3, <3>5
  <2> QED
    BY <2>4, <2>5
<1>5. 0 \in G
  BY <1>1
<1>6. ASSUME NEW n \in 0 .. (N - 1), n \in G
      PROVE  n + 1 \in G
  <2> HIDE DEF OnlyDone
  <2>1. n + 1 \in 0 .. N /\ (d <= n + 1 => d <= n \/ n + 1 = d)
    BY <1>1
  <2>2. d <= n => OnlyDone(n + 1)
    BY <1>4, <1>6
  <2>3. n + 1 = d => OnlyDone(n + 1)
    BY <1>3
  <2> QED
    BY <2>1, <2>2, <2>3
<1>7. N \in G
  <2> HIDE DEF G, N
  <2>1. 0 .. N \subseteq G
    BY <1>1, <1>5, <1>6, Induction
  <2> QED
    BY <1>1, <2>1
<1>8. OnlyDone(N)
  <2> HIDE DEF OnlyDone
  <2> QED
    BY <1>1, <1>7
<1>9. Dispatched(lines) = T(N).events /\ DOMAIN T(N).events = 1 .. Len(T(N).events)
  BY <1>1, <1>2, LenProperties DEF Dispatched
<1> QED
  BY <1>8, <1>9

(***************************************************************************)
(* What the client takes from what it got, beside what it would take from  *)
(* the lines of the upstream without the settlement fields.                *)
(***************************************************************************)
Cleaned(event) == [j \in DOMAIN event |-> Sanitized(event[j])]

SameEvents(a, b) ==
    /\ Len(a) = Len(b)
    /\ \A i \in 1 .. Len(b) : a[i] = Cleaned(b[i])

TakenFrom(lines) == TakenUpTo(lines)[Len(lines)]

(* The client's events are those of the first lines, of all that were read *)
(* while it is there, and then the event that is not finished agrees too.  *)
Followed ==
    mode = "stream" =>
        \E k \in 0 .. next :
            /\ SameEvents(TakenFrom(got).events, TakenUpTo(sent)[k].events)
            /\ client = "there" =>
                  /\ k = next
                  /\ phase = "reading" =>
                        TakenFrom(got).open = Cleaned(TakenUpTo(sent)[k].open)

(* A line that was cleaned is as blank as it was before.                   *)
LEMMA CleanLine ==
    ASSUME NEW l \in Lines, l.kind \notin {"comment", "long"}
    PROVE  /\ Sanitized(l) \in Passed
           /\ Sanitized(l).kind # "comment"
           /\ Sanitized(l).kind = "blank" <=> l.kind = "blank"
<1>1. Sanitized(l) \in Passed
  BY DEF Passed
<1>2. CASE l.kind = "data"
  <2>1. Sanitized(l).kind \in {"damaged", "data"}
    BY <1>2 DEF Sanitized, Line, Data
  <2> QED
    BY <1>1, <1>2, <2>1
<1>3. CASE l.kind # "data"
  <2>1. Sanitized(l) = l
    BY <1>3 DEF Sanitized
  <2> QED
    BY <1>1, <2>1
<1> QED
  BY <1>2, <1>3

(* Masking takes the settlement fields and nothing else, where no cost is  *)
(* written with an exponent.                                               *)
LEMMA SanitizedUnharmed ==
    ASSUME NEW l \in Lines
    PROVE  Exponential(l) \/ Unharmed(Sanitized(l), l)
<1>1. CASE l.kind = "data"
  <2>1. PICK c \in Chunks : l = Data(c)
    BY <1>1 DEF Lines, Line, Blank, Done
  <2>2. DOMAIN c = ChunkFields
    BY ChatAssumption DEF ChatAssumption
  <2>3. l.chunk = c
    BY <2>1 DEF Data, Line
  <2>4. CASE ~c.exponent
    <3> DEFINE d == [c EXCEPT !.cost = 0, !.costDetails = 0, !.topCost = 0,
                              !.topCostDetails = 0]
    <3>1. Sanitized(l) = Data(d)
      BY <1>1, <2>3, <2>4 DEF Sanitized
    <3>2. /\ d.cost = 0 /\ d.costDetails = 0 /\ d.topCost = 0 /\ d.topCostDetails = 0
          /\ \A f \in ChunkFields \ SettlementFields : d[f] = c[f]
      BY <2>2 DEF SettlementFields, ChunkFields
    <3> HIDE DEF d
    <3>3. \A f \in ChunkFields : d[f] = IF f \in SettlementFields THEN 0 ELSE c[f]
      BY <3>2 DEF SettlementFields
    <3>4. Sanitized(l).kind = "data" /\ Sanitized(l).chunk = d
      BY <3>1 DEF Data, Line
    <3> QED
      BY <1>1, <2>3, <3>3, <3>4 DEF Unharmed
  <2>5. CASE c.exponent
    BY <1>1, <2>3, <2>5 DEF Exponential
  <2> QED
    BY <2>4, <2>5
<1>2. CASE l.kind # "data"
  BY <1>2 DEF Sanitized, Unharmed
<1> QED
  BY <1>1, <1>2

(* Cleaning an event line by line, or as a whole, is the same.             *)
LEMMA CleanAppend ==
    ASSUME NEW e \in Seq(Lines), NEW l \in Lines
    PROVE  Append(Cleaned(e), Sanitized(l)) = Cleaned(Append(e, l))
<1> DEFINE T == {Sanitized(k) : k \in Lines}
           n == Len(e)
<1>1. n \in Nat /\ DOMAIN e = 1 .. n /\ \A i \in 1 .. n : e[i] \in Lines
  BY LenProperties
<1>2. /\ Append(e, l) \in Seq(Lines) /\ Len(Append(e, l)) = n + 1
      /\ DOMAIN Append(e, l) = 1 .. (n + 1) /\ Append(e, l)[n + 1] = l
      /\ \A i \in 1 .. n : Append(e, l)[i] = e[i]
  BY <1>1, AppendProperties, LenProperties
<1>3. Cleaned(e) \in [1 .. n -> T] /\ \A i \in 1 .. n : Cleaned(e)[i] = Sanitized(e[i])
  BY <1>1 DEF Cleaned
<1>4. Cleaned(Append(e, l)) = [i \in 1 .. (n + 1) |-> Sanitized(Append(e, l)[i])]
  BY <1>2 DEF Cleaned
<1>5. Sanitized(l) \in T
  OBVIOUS
<1> HIDE DEF T, n
<1>6. Cleaned(e) \in Seq(T) /\ Len(Cleaned(e)) = n
  BY <1>1, <1>3
<1> DEFINE more == Append(Cleaned(e), Sanitized(l))
<1>7. /\ more \in Seq(T) /\ Len(more) = n + 1 /\ more[n + 1] = Sanitized(l)
      /\ \A i \in 1 .. n : more[i] = Cleaned(e)[i]
  BY <1>5, <1>6, Appended
<1>8. more \in [1 .. (n + 1) -> T]
  BY <1>7, LenProperties
<1> HIDE DEF more
<1>9. ASSUME NEW i \in 1 .. (n + 1)
      PROVE  more[i] = Sanitized(Append(e, l)[i])
  <2>1. CASE i \in 1 .. n
    BY <1>2, <1>3, <1>7, <2>1
  <2>2. CASE i = n + 1
    BY <1>2, <1>7, <2>2
  <2> QED
    BY <1>1, <2>1, <2>2
<1>10. more = [i \in 1 .. (n + 1) |-> Sanitized(Append(e, l)[i])]
  BY <1>8, <1>9
<1> QED
  BY <1>4, <1>10 DEF more

(* An event that was cleaned is as empty as it was before.                 *)
LEMMA CleanEmpty ==
    ASSUME NEW e \in Seq(Lines)
    PROVE  Cleaned(e) = <<>> <=> e = <<>>
<1>1. DOMAIN Cleaned(e) = DOMAIN e
  BY DEF Cleaned
<1>2. DOMAIN e = 1 .. Len(e) /\ Len(e) \in Nat
  BY LenProperties
<1>3. e = <<>> => Cleaned(e) = <<>>
  BY DEF Cleaned
<1>4. Cleaned(e) = <<>> => e = <<>>
  <2>1. Cleaned(e) = <<>> => 1 .. Len(e) = {}
    BY <1>1, <1>2
  <2>2. e # <<>> => Len(e) \in Nat \ {0}
    BY EmptySeq
  <2>3. e # <<>> => 1 \in 1 .. Len(e)
    BY <2>2
  <2> QED
    BY <2>1, <2>3
<1> QED
  BY <1>3, <1>4

(* A line that is read and passed on keeps both sides the same.            *)
LEMMA SameStep ==
    ASSUME NEW a \in Takings(Passed), NEW b \in Takings(Lines),
           SameEvents(a.events, b.events), a.open = Cleaned(b.open),
           NEW l \in Lines, l.kind \notin {"comment", "long"}
    PROVE  /\ SameEvents(Takes(a, Sanitized(l)).events, Takes(b, l).events)
           /\ Takes(a, Sanitized(l)).open = Cleaned(Takes(b, l).open)
<1>1. /\ a.events \in Seq(Seq(Passed)) /\ a.open \in Seq(Passed)
      /\ b.events \in Seq(Seq(Lines)) /\ b.open \in Seq(Lines)
      /\ DOMAIN a = {"events", "open"} /\ DOMAIN b = {"events", "open"}
  BY DEF Takings
<1>2. a.open = <<>> <=> b.open = <<>>
  BY <1>1, CleanEmpty
<1>3. CASE l.kind = "blank"
  <2>1. /\ Takes(b, l).open = <<>>
        /\ Takes(b, l).events = IF b.open = <<>> THEN b.events ELSE Append(b.events, b.open)
    BY <1>3 DEF Takes
  <2>2. /\ Takes(a, Sanitized(l)).open = <<>>
        /\ Takes(a, Sanitized(l)).events
              = IF a.open = <<>> THEN a.events ELSE Append(a.events, a.open)
    BY <1>3, CleanLine DEF Takes
  <2>3. Takes(a, Sanitized(l)).open = Cleaned(Takes(b, l).open)
    BY <2>1, <2>2, EmptySeq, CleanEmpty
  <2>4. CASE b.open = <<>>
    BY <1>2, <2>1, <2>2, <2>3, <2>4
  <2>5. CASE b.open # <<>>
    <3> DEFINE A == Append(a.events, a.open)
               B == Append(b.events, b.open)
    <3>1. /\ Len(A) = Len(a.events) + 1 /\ A[Len(a.events) + 1] = a.open
          /\ \A i \in 1 .. Len(a.events) : A[i] = a.events[i]
      BY <1>1, Appended
    <3>2. /\ Len(B) = Len(b.events) + 1 /\ B[Len(b.events) + 1] = b.open
          /\ Len(b.events) \in Nat
          /\ \A i \in 1 .. Len(b.events) : B[i] = b.events[i]
      BY <1>1, Appended
    <3>3. /\ Len(a.events) = Len(b.events)
          /\ \A i \in 1 .. Len(b.events) : a.events[i] = Cleaned(b.events[i])
      BY DEF SameEvents
    <3> HIDE DEF A, B
    <3>4. ASSUME NEW i \in 1 .. Len(B)
          PROVE  A[i] = Cleaned(B[i])
      <4>1. CASE i \in 1 .. Len(b.events)
        BY <3>1, <3>2, <3>3, <4>1
      <4>2. CASE i = Len(b.events) + 1
        BY <3>1, <3>2, <3>3, <4>2
      <4> QED
        BY <3>2, <4>1, <4>2
    <3>5. SameEvents(A, B)
      BY <3>1, <3>2, <3>3, <3>4 DEF SameEvents
    <3> QED
      BY <1>2, <2>1, <2>2, <2>3, <2>5, <3>5 DEF A, B
  <2> QED
    BY <2>4, <2>5
<1>4. CASE l.kind # "blank"
  <2>1. Takes(b, l).events = b.events /\ Takes(b, l).open = Append(b.open, l)
    BY <1>1, <1>4 DEF Takes
  <2>2. /\ Takes(a, Sanitized(l)).events = a.events
        /\ Takes(a, Sanitized(l)).open = Append(a.open, Sanitized(l))
    BY <1>1, <1>4, CleanLine DEF Takes
  <2>3. Append(a.open, Sanitized(l)) = Cleaned(Append(b.open, l))
    BY <1>1, CleanAppend
  <2> QED
    BY <2>1, <2>2, <2>3
<1> QED
  BY <1>3, <1>4

(* A client that got nothing follows an upstream that sent nothing.        *)
LEMMA FollowedInit == ChatInit => Followed
<1> SUFFICES ASSUME ChatInit PROVE Followed
  OBVIOUS
<1>1. /\ sent = <<>> /\ got = <<>> /\ next = 0 /\ Len(<<>>) = 0 /\ 0 \in 0 .. next
  BY EmptySeq DEF ChatInit
<1>2. TakenFrom(got) = NothingTaken /\ TakenUpTo(sent)[0] = NothingTaken
  BY <1>1, TakingLines DEF TakenFrom
<1>3. SameEvents(<<>>, <<>>)
  BY <1>1 DEF SameEvents
<1>4. Cleaned(<<>>) = <<>>
  BY EmptySeq, CleanEmpty
<1> QED
  BY <1>1, <1>2, <1>3, <1>4 DEF Followed, NothingTaken

(* A step in which nothing is read or written.                             *)
LEMMA FollowedStays ==
    ASSUME Followed, mode' = mode, sent' = sent, got' = got, next' = next,
           client' = "there" => client = "there",
           phase' = "reading" => phase = "reading"
    PROVE  Followed'
BY DEF Followed, TakenFrom

(* The client keeps following: every line that is read is passed on        *)
(* before the next, or it is a comment, or the client has gone.            *)
LEMMA FollowedStep ==
    ChatInv /\ ChatTypes' /\ Followed /\ [ChatNext]_chatVars => Followed'
<1> SUFFICES ASSUME ChatInv, ChatTypes', Followed, [ChatNext]_chatVars, mode' = "stream"
             PROVE  Followed'
  BY DEF Followed
<1>0. /\ sent \in Seq(Lines) /\ Len(sent) \in Nat /\ next \in 0 .. Len(sent)
      /\ got \in Seq(Passed) /\ Len(got) \in Nat
      /\ \A i \in 1 .. Len(sent) : sent[i] \in Lines
  BY SentType, LenProperties DEF ChatInv, ChatTypes, ChatTypeOK
<1>1. ASSUME NEW l \in Lines, Sends(l)
      PROVE  Followed'
  <2>1. /\ sent' = Append(sent, l) /\ mode = mode' /\ next' = next /\ got' = got
        /\ client' = client /\ phase' = phase
    BY <1>1 DEF Sends
  <2>2. PICK k \in 0 .. next :
            /\ SameEvents(TakenFrom(got).events, TakenUpTo(sent)[k].events)
            /\ client = "there" =>
                  /\ k = next
                  /\ phase = "reading" =>
                        TakenFrom(got).open = Cleaned(TakenUpTo(sent)[k].open)
    BY <2>1 DEF Followed
  <2>3. k \in 0 .. Len(sent)
    BY <1>0
  <2>4. TakenUpTo(sent')[k] = TakenUpTo(sent)[k]
    BY <1>0, <2>1, <2>3, TakenAppend
  <2> QED
    BY <2>1, <2>2, <2>4 DEF Followed, TakenFrom
<1>2. ASSUME NEW l \in Lines, ReadLine(l)
      PROVE  Followed'
  <2>1. /\ mode = "stream" /\ phase = "reading" /\ next' = next + 1 /\ l = sent[next + 1]
        /\ sent' = sent /\ client' = client /\ l.kind # "long"
        /\ next + 1 \in 1 .. Len(sent) /\ (next + 1) - 1 = next /\ next \in 0 .. next'
    BY <1>0, <1>2 DEF ReadLine, Reads, remote
  <2>2. PICK k \in 0 .. next :
            /\ SameEvents(TakenFrom(got).events, TakenUpTo(sent)[k].events)
            /\ client = "there" =>
                  k = next /\ TakenFrom(got).open = Cleaned(TakenUpTo(sent)[k].open)
    BY <2>1 DEF Followed
  <2>3. k \in 0 .. next'
    BY <1>0, <2>1
  <2>4. CASE client # "there"
    <3>1. got' = got
      BY <1>2, <2>4 DEF ReadLine, Forward
    <3> QED
      BY <2>1, <2>2, <2>3, <2>4, <3>1 DEF Followed, TakenFrom
  <2>5. CASE client = "there"
    <3>1. TakenUpTo(sent)[next + 1] = Takes(TakenUpTo(sent)[next], l)
      BY <1>0, <2>1, TakingLines
    <3>2. next' \in 0 .. next' /\ next' = next + 1
      BY <1>0, <2>1
    <3>3. CASE l.kind = "comment"
      <4>1. Takes(TakenUpTo(sent)[next], l) = TakenUpTo(sent)[next]
        BY <3>3 DEF Takes
      <4>2. got' = got
        BY <1>2, <3>3 DEF ReadLine, PassedOn
      <4> QED
        BY <2>1, <2>2, <2>5, <3>1, <3>2, <4>1, <4>2 DEF Followed, TakenFrom
    <3>4. CASE l.kind # "comment"
      <4>1. got' = Append(got, Sanitized(l)) /\ Sanitized(l) \in Passed
        BY <1>2, <2>1, <2>5, <3>4, CleanLine DEF ReadLine, PassedOn, Forward
      <4>2. TakenFrom(got') = Takes(TakenFrom(got), Sanitized(l))
        <5>1. Len(got') = Len(got) + 1
          BY <1>0, <4>1, AppendProperties
        <5> QED
          BY <1>0, <4>1, <5>1, TakenAppend DEF TakenFrom
      <4>3. TakenFrom(got) \in Takings(Passed) /\ TakenUpTo(sent)[next] \in Takings(Lines)
        <5>1. Len(got) \in 0 .. Len(got)
          BY <1>0
        <5> QED
          BY <1>0, <5>1, TakenType DEF TakenFrom
      <4>4. /\ SameEvents(TakenFrom(got').events, TakenUpTo(sent)[next + 1].events)
            /\ TakenFrom(got').open = Cleaned(TakenUpTo(sent)[next + 1].open)
        BY <2>1, <2>2, <2>5, <3>1, <3>4, <4>2, <4>3, SameStep
      <4> QED
        BY <2>1, <3>2, <4>4 DEF Followed, TakenFrom
    <3> QED
      BY <3>3, <3>4
  <2> QED
    BY <2>4, <2>5
<1>3. CASE ScanStops
  <2> DEFINE cut == Line("cut", Nothing)
  <2>1. /\ mode = mode' /\ sent' = sent /\ next' = next /\ client' = client
        /\ phase' = "settling" /\ (got' = got \/ got' = Append(got, cut))
    BY <1>3 DEF ScanStops, remote, Forward
  <2>2. TakenFrom(got').events = TakenFrom(got).events
    <3>1. CASE got' = got
      BY <3>1
    <3>2. CASE got' = Append(got, cut)
      <4>1. cut \in Passed
        BY DEF Passed
      <4>2. Len(got') = Len(got) + 1
        BY <1>0, <3>2, <4>1, AppendProperties
      <4>3. TakenFrom(got') = Takes(TakenFrom(got), cut)
        BY <1>0, <3>2, <4>1, <4>2, TakenAppend DEF TakenFrom
      <4>4. TakenFrom(got) \in Takings(Passed)
        <5>1. Len(got) \in 0 .. Len(got)
          BY <1>0
        <5> QED
          BY <1>0, <5>1, TakenType DEF TakenFrom
      <4>5. DOMAIN TakenFrom(got) = {"events", "open"}
        BY <4>4 DEF Takings
      <4> QED
        BY <4>3, <4>5 DEF Takes, Line
    <3> QED
      BY <2>1, <3>1, <3>2
  <2> QED
    BY <2>1, <2>2 DEF Followed, TakenFrom
<1>4. CASE UpstreamEnds \/ UpstreamBreaks \/ \E how \in {"gone", "deaf"} : ClientLeaves(how)
  BY <1>4, FollowedStays DEF UpstreamEnds, UpstreamBreaks, ClientLeaves, InFlight, remote
<1>5. CASE Settle
  BY <1>5, FollowedStays DEF Settle, remote
<1>6. CASE ReadBody \/ ReadBodyFails
  BY <1>6 DEF ReadBody, ReadBodyFails
<1>7. CASE Answer
  BY <1>7 DEF Answer, ChatInv, ChatTypes, Stages
<1>8. CASE UNCHANGED chatVars
  BY <1>8, FollowedStays DEF chatVars, remote
<1> QED
  BY <1>1, <1>2, <1>3, <1>4, <1>5, <1>6, <1>7, <1>8 DEF ChatNext, Gateway, Over

(* A client that follows has the events of the upstream.                   *)
LEMMA FollowedFaithful ==
    ASSUME ChatInv, Followed
    PROVE  EventsFaithful
<1> SUFFICES ASSUME mode = "stream" PROVE EventsFaithful
  BY DEF EventsFaithful
<1> DEFINE events == Dispatched(sent)
           taken == Dispatched(got)
<1>0. /\ sent \in Seq(Lines) /\ Len(sent) \in Nat /\ next \in 0 .. Len(sent)
      /\ DOMAIN sent = 1 .. Len(sent) /\ got \in Seq(Passed) /\ Len(got) \in Nat
      /\ DOMAIN got = 1 .. Len(got) /\ \A i \in 1 .. Len(got) : got[i] \in Passed
  BY SentType, LenProperties DEF ChatInv, ChatTypes, ChatTypeOK
<1>1. PICK k \in 0 .. next :
          /\ SameEvents(taken, TakenUpTo(sent)[k].events)
          /\ client = "there" => k = next
  BY DEF Followed, TakenFrom, Dispatched
<1> DEFINE first == TakenUpTo(sent)[k].events
<1>2. k \in 0 .. Len(sent) /\ Len(sent) \in 0 .. Len(sent) /\ Len(got) \in 0 .. Len(got)
  BY <1>0
<1>3. Begins(first, events)
  BY <1>0, <1>2, TakenGrows
<1>4. /\ TakenUpTo(sent)[Len(sent)] \in Takings(Lines)
      /\ TakenUpTo(got)[Len(got)] \in Takings(Passed)
  BY <1>0, <1>2, TakenType
<1>5. events \in Seq(Seq(Lines)) /\ taken \in Seq(Seq(Passed))
  BY <1>4 DEF Takings, Dispatched
<1>6. /\ DOMAIN events = 1 .. Len(events) /\ Len(events) \in Nat
      /\ DOMAIN taken = 1 .. Len(taken) /\ Len(taken) \in Nat
  BY <1>5, LenProperties
<1>7. complete /\ client = "there" =>
          \A i \in DOMAIN events \ DOMAIN taken : Done \in ToSet(events[i])
  <2> SUFFICES ASSUME complete, client = "there", NEW i \in DOMAIN events, i \notin DOMAIN taken
               PROVE  Done \in ToSet(events[i])
    OBVIOUS
  <2>1. k = next /\ Len(taken) = Len(first)
    BY <1>1 DEF SameEvents
  <2>2. next # Len(sent)
    <3>1. next = Len(sent) => first = events
      BY <2>1 DEF Dispatched
    <3> QED
      BY <1>6, <2>1, <3>1
  <2>3. next \in DOMAIN sent /\ sent[next] = Done
    BY <2>2 DEF ChatInv, ReadToEnd
  <2>4. \A j \in 1 .. Len(sent) : next < j => sent[j] = Blank
    BY <1>0, <2>3 DEF ChatInv, DoneLast
  <2>5. i > Len(first)
    BY <1>6, <2>1
  <2> QED
    BY <1>0, <2>1, <2>3, <2>4, <2>5, TakenAfterDone
<1>8. \A i \in DOMAIN got : got[i].kind # "comment"
  <2>1. ASSUME NEW l \in Passed PROVE l.kind # "comment"
    BY CleanLine DEF Passed, Line
  <2> QED
    BY <1>0, <2>1
<1> HIDE DEF events, taken, first
<1>9. /\ Len(taken) <= Len(events)
      /\ \A i \in DOMAIN taken : i \in DOMAIN events /\ taken[i] = Cleaned(events[i])
  BY <1>1, <1>3, <1>6 DEF Begins, SameEvents, first
<1>10. ASSUME NEW i \in DOMAIN taken
       PROVE  /\ DOMAIN taken[i] = DOMAIN events[i]
              /\ \A j \in DOMAIN events[i] :
                    Exponential(events[i][j]) \/ Unharmed(taken[i][j], events[i][j])
  <2>1. i \in DOMAIN events /\ taken[i] = Cleaned(events[i])
    BY <1>9
  <2>2. events[i] \in Seq(Lines)
    BY <1>5, <1>6, <2>1
  <2>3. \A j \in DOMAIN events[i] : events[i][j] \in Lines
    BY <2>2, LenProperties
  <2> QED
    BY <2>1, <2>3, SanitizedUnharmed DEF Cleaned
<1> QED
  BY <1>7, <1>8, <1>9, <1>10 DEF EventsFaithful, events, taken

(***************************************************************************)
(* A strict client dispatches the events of the upstream, in order and     *)
(* line for line; every line of them lacks the settlement fields and       *)
(* nothing else, unless a cost in it is written with an exponent; it has   *)
(* all events but [DONE] if it listened to the end; and it never receives  *)
(* a comment.  For any chunks, any number of lines and any way the         *)
(* connections break (chat.go:172-211).                                    *)
(***************************************************************************)
THEOREM ClientFollows == ChatSpec => []EventsFaithful
<1>1. ChatSpec => []ChatTypes
  BY ChatTypesInit, ChatTypesStep, PTL DEF ChatSpec
<1>2. ChatSpec => []ChatInv
  BY <1>1, ChatInvInit, ChatInvStep, PTL DEF ChatSpec
<1>3. ChatSpec => []Followed
  BY <1>1, <1>2, FollowedInit, FollowedStep, PTL DEF ChatSpec
<1>4. ChatInv /\ Followed => EventsFaithful
  BY FollowedFaithful
<1> QED
  BY <1>2, <1>3, <1>4, PTL
=============================================================================
