----------------------------- MODULE PriceRules -----------------------------
(***************************************************************************)
(* The arithmetic of prices: what a quote of the provider's feed makes of  *)
(* a model (FetchPricing in provider/client.go, calculateUserPrice in      *)
(* pricing/sync.go), what a request costs (billing/engine.go), and what    *)
(* reconciliation thinks of it (billing/reconcile.go).                     *)
(*                                                                         *)
(* Amounts are integers and so are discounts, in per cent, where the code  *)
(* has float64: a model is about quotes for which no division has a        *)
(* remainder (Exact), in a unit that is small enough for that.             *)
(***************************************************************************)
EXTENDS Integers

CONSTANT SpreadPP       \* spreadPP, the margin in percentage points

ASSUME SpreadAssumption == SpreadPP \in Nat \ {0}

(* Prices per token of the provider's market: direct is the reference,     *)
(* best is what the provider charges.                                      *)
Quote == [directIn : Nat, directOut : Nat, bestIn : Nat, bestOut : Nat, bestCache : Nat]
Usage == [prompt : Nat, completion : Nat, cacheRead : Int]

RateSet == [in : Nat, out : Nat, cacheRead : Nat]
Prices == [user : RateSet, ref : RateSet, market : RateSet]

AtLeast0(x) == IF x < 0 THEN 0 ELSE x

DiscountPct(q) == IF q.directIn > 0 THEN (100 * (q.directIn - q.bestIn)) \div q.directIn ELSE 0

BadUserDiscount(q) == DiscountPct(q) - SpreadPP
UserDiscount(q) == AtLeast0(DiscountPct(q) - SpreadPP)

Discounted(amount, q) == (amount * (100 - UserDiscount(q))) \div 100

(* The reference price of a cached token, which the feed does not have.    *)
RefCacheRead(q) ==
    IF q.bestCache > 0 /\ DiscountPct(q) \in 1..99
    THEN (100 * q.bestCache) \div (100 - DiscountPct(q))
    ELSE 0

Rates(in, out, cacheRead) == [in |-> in, out |-> out, cacheRead |-> cacheRead]

(* The three divisions have no remainder.                                  *)
Exact(q) ==
    /\ q.directIn * DiscountPct(q) = 100 * (q.directIn - q.bestIn)
    /\ \A amount \in {q.directIn, q.directOut, RefCacheRead(q)} :
          100 * Discounted(amount, q) = amount * (100 - UserDiscount(q))
    /\ q.bestCache > 0 /\ DiscountPct(q) > 0
          => RefCacheRead(q) * (100 - DiscountPct(q)) = 100 * q.bestCache

(* What the user, the reference and the provider ask for a token.          *)
calculateUserPrice(q) ==
    [user   |-> Rates(Discounted(q.directIn, q), Discounted(q.directOut, q),
                      Discounted(RefCacheRead(q), q)),
     ref    |-> Rates(q.directIn, q.directOut, RefCacheRead(q)),
     market |-> Rates(q.bestIn, q.bestOut, q.bestCache)]

(* Free and failing models are skipped.                                    *)
BadListed(q) == q.directIn > 0
Listed(q) == q.directIn > 0 /\ q.bestIn > 0

clampCacheRead(u) ==
    IF u.cacheRead < 0 THEN 0 ELSE IF u.cacheRead > u.prompt THEN u.prompt ELSE u.cacheRead

BadCacheRate(rates) == rates.cacheRead
CacheRate(rates) == IF rates.cacheRead <= 0 THEN rates.in ELSE rates.cacheRead

(* CalculateActualCost, CalculateRefCost and CalculateMarketCost.          *)
Cost(rates, u) ==
    LET cached == clampCacheRead(u)
    IN  AtLeast0(u.prompt - cached) * rates.in + cached * CacheRate(rates)
            + u.completion * rates.out

(* The revenue of a window against the provider's charge for it.           *)
BadevaluateMargin(our, upstream) ==  \* expects the whole spread
    LET margin == our - upstream
    IN IF margin < 0 THEN "negative_margin"
       ELSE IF upstream > 0 /\ 100 * margin < SpreadPP * our
            THEN "margin_below_expected" ELSE "ok"

evaluateMargin(our, upstream) ==
    LET margin == our - upstream
    IN IF margin < 0 THEN "negative_margin"
       ELSE IF upstream > 0 /\ 200 * margin < SpreadPP * our
            THEN "margin_below_expected" ELSE "ok"
=============================================================================
