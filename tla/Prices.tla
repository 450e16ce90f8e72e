------------------------------- MODULE Prices -------------------------------
(***************************************************************************)
(* The price of one model, from the market feed of the provider            *)
(* (FetchPricing in provider/client.go) through the pricing worker         *)
(* (pricing/sync.go), Postgres and the price cache (pricing/engine.go) to  *)
(* the requests that are charged by it.  PriceRules has the arithmetic.    *)
(*                                                                         *)
(* The feed is external.  The worker of cmd/pricing and the requests of    *)
(* the gateway are different processes and both write the cache.           *)
(***************************************************************************)
EXTENDS PriceRules

CONSTANTS
    Requests,       \* requests that may be in progress at once
    Quotes,         \* what the feed may say about the model
    Usages,         \* what a request may use
    Faults,         \* which of FaultKinds may happen
    None

FaultKinds == {"postgres", "redis"}

ASSUME ConstantsAssumption ==
    /\ Quotes \subseteq Quote
    /\ Usages \subseteq Usage
    /\ Faults \subseteq FaultKinds
    /\ None \notin Quotes

ASSUME ExactAssumption == \A q \in Quotes : Listed(q) => Exact(q)

VARIABLES
    quote,          \* what the feed says; None when it has no such model
    row,            \* Postgres: the price in model_prices, None if there is none
    cache,          \* Redis: pricing:<model>
    step,           \* where the worker is: rest, upsert, cache
    offer,          \* the quote it works on
    pc,             \* where a request is: idle, missed, fill, priced
    price,          \* the price the request will be charged by
    posted          \* every price that Postgres has had

worker == <<step, offer>>
request == <<pc, price>>
vars == <<quote, row, cache, worker, request, posted>>

-----------------------------------------------------------------------------
(* The model is never sold for nothing, whatever the feed says.            *)
IsPrice(p) == p \in Prices /\ p.user.in > 0 /\ p.market.in > 0

TypeOK ==
    /\ quote \in Quotes \cup {None}
    /\ row = None \/ IsPrice(row)
    /\ cache = None \/ IsPrice(cache)
    /\ step \in {"rest", "upsert", "cache"}
    /\ offer \in Quotes \cup {None}
    /\ pc \in [Requests -> {"idle", "missed", "fill", "priced"}]
    /\ \A r \in Requests : price[r] = None \/ IsPrice(price[r])

Init ==
    /\ quote \in Quotes \cup {None}
    /\ row = None
    /\ cache = None
    /\ step = "rest"
    /\ offer = None
    /\ pc = [r \in Requests |-> "idle"]
    /\ price = [r \in Requests |-> None]
    /\ posted = {}

-----------------------------------------------------------------------------
(* The worker, every two minutes.                                          *)

(* The feed is read.  A sync that fails, or does not find the model, is    *)
(* over: what is in Postgres and in Redis stays there.                     *)
FetchPricing ==
    /\ step = "rest"
    /\ quote # None
    /\ Listed(quote)
    /\ offer' = quote
    /\ step' = "upsert"
    /\ UNCHANGED <<quote, row, cache, request, posted>>

Upsert ==
    /\ step = "upsert"
    /\ row' = calculateUserPrice(offer)
    /\ posted' = posted \cup {row'}
    /\ step' = "cache"
    /\ UNCHANGED <<quote, cache, offer, request>>

Rested == step' = "rest" /\ offer' = None

BadUpsertFails ==
    /\ step = "upsert"
    /\ "postgres" \in Faults
    /\ step' = "cache"
    /\ UNCHANGED <<quote, row, cache, offer, request, posted>>

UpsertFails ==
    /\ step = "upsert"
    /\ "postgres" \in Faults
    /\ Rested
    /\ UNCHANGED <<quote, row, cache, request, posted>>

BadRefresh == UNCHANGED cache
Refresh == cache' = calculateUserPrice(offer)

CachePrice ==
    /\ step = "cache"
    /\ Refresh
    /\ Rested
    /\ UNCHANGED <<quote, row, request, posted>>

(* The error of the SET is ignored.                                        *)
CachePriceFails ==
    /\ step = "cache"
    /\ "redis" \in Faults
    /\ Rested
    /\ UNCHANGED <<quote, row, cache, request, posted>>

updatePrices == FetchPricing \/ Upsert \/ UpsertFails \/ CachePrice \/ CachePriceFails

-----------------------------------------------------------------------------
(* GetCachedPrice: a request takes its price from the cache, or fills it.  *)

Take(r, p, at) ==
    /\ pc' = [pc EXCEPT ![r] = at]
    /\ price' = [price EXCEPT ![r] = p]

Hit(r) ==
    /\ pc[r] = "idle"
    /\ cache # None
    /\ Take(r, cache, "priced")
    /\ UNCHANGED <<quote, row, cache, worker, posted>>

Miss(r) ==
    /\ pc[r] = "idle"
    /\ cache = None \/ "redis" \in Faults
    /\ Take(r, None, "missed")
    /\ UNCHANGED <<quote, row, cache, worker, posted>>

ReadRow(r) ==
    /\ pc[r] = "missed"
    /\ row # None
    /\ Take(r, row, "fill")
    /\ UNCHANGED <<quote, row, cache, worker, posted>>

NotFound(r) ==
    /\ pc[r] = "missed"
    /\ row = None \/ "postgres" \in Faults
    /\ Take(r, None, "idle")
    /\ UNCHANGED <<quote, row, cache, worker, posted>>

Fill(r) ==
    /\ pc[r] = "fill"
    /\ \/ cache' = price[r]
       \/ "redis" \in Faults /\ UNCHANGED cache
    /\ Take(r, price[r], "priced")
    /\ UNCHANGED <<quote, row, worker, posted>>

(* The request is served and charged by the price it took.                 *)
Charge(r) ==
    /\ pc[r] = "priced"
    /\ Take(r, None, "idle")
    /\ UNCHANGED <<quote, row, cache, worker, posted>>

GetCachedPrice(r) == Hit(r) \/ Miss(r) \/ ReadRow(r) \/ NotFound(r) \/ Fill(r)

-----------------------------------------------------------------------------
(* The market changes, and Redis drops a price that was not refreshed for  *)
(* ten minutes.                                                            *)

NewQuote ==
    /\ quote' \in (Quotes \cup {None}) \ {quote}
    /\ UNCHANGED <<row, cache, worker, request, posted>>

Expire ==
    /\ cache # None
    /\ cache' = None
    /\ UNCHANGED <<quote, row, worker, request, posted>>

Next ==
    \/ updatePrices
    \/ \E r \in Requests : GetCachedPrice(r) \/ Charge(r)
    \/ NewQuote \/ Expire

Spec == Init /\ [][Next]_vars

(* The ticker starts a sync every two minutes, and one that is repeated    *)
(* succeeds at some time.  A request that has begun ends.  Nothing is      *)
(* assumed about Expire.                                                   *)
FairSpec ==
    /\ Spec
    /\ WF_vars(FetchPricing)
    /\ SF_vars(Upsert)
    /\ WF_vars(UpsertFails)
    /\ SF_vars(CachePrice)
    /\ WF_vars(CachePriceFails)
    /\ \A r \in Requests :
          /\ WF_vars(ReadRow(r) \/ NotFound(r))
          /\ WF_vars(Fill(r))
          /\ WF_vars(Charge(r))

-----------------------------------------------------------------------------
(* Properties.                                                             *)

(* Whatever a request uses and whatever the feed says, the user does not   *)
(* pay more than the reference price (sync.go:19-20); the discounts and    *)
(* the reconstructed price of cached tokens included.                      *)
NeverAboveReference ==
    \A r \in Requests : pc[r] = "priced" =>
        \A u \in Usages : Cost(price[r].user, u) <= Cost(price[r].ref, u)

(* The user pays at least what the provider takes, cached tokens included  *)
(* (engine.go:82-83), as long as the market is not dearer than its         *)
(* reference, does not ask more for a cached token than for another, and   *)
(* has output discounted as deeply as input: the code derives one discount *)
(* from the input prices and applies it to all of them.                    *)
Proportional(p) ==
    /\ p.market.in <= p.ref.in
    /\ p.market.cacheRead <= p.market.in
    /\ p.market.out * p.ref.in <= p.market.in * p.ref.out

MarginKept ==
    \A r \in Requests : pc[r] = "priced" /\ Proportional(price[r]) =>
        \A u \in Usages : Cost(price[r].market, u) <= Cost(price[r].user, u)

(* Reconciliation raises no alarm about such prices, whatever was used, as *)
(* long as the provider grants half of the spread: the policy and the      *)
(* price rules agree (reconcile.go:39-41).  A quote with a smaller         *)
(* discount is sold at the reference and reported as below expectation.    *)
NoFalseAlarm ==
    \A r \in Requests :
        /\ pc[r] = "priced" /\ Proportional(price[r])
        /\ 200 * (price[r].ref.in - price[r].market.in) >= SpreadPP * price[r].ref.in
        => \A u \in Usages :
              evaluateMargin(Cost(price[r].user, u), Cost(price[r].market, u)) = "ok"

(* No request is charged by a price that Postgres has never had, though    *)
(* the worker writes Postgres and Redis one after the other and either may *)
(* fail (sync.go:145-202).                                                 *)
PricesPosted ==
    /\ cache # None => cache \in posted
    /\ \A r \in Requests : price[r] # None => price[r] \in posted

(* When the market settles, so does the price that requests are charged    *)
(* by, although a request may put back a price that it read before the     *)
(* worker replaced it (engine.go:84-110).                                  *)
Settled(q) == \A r \in Requests : pc[r] = "priced" => price[r] = calculateUserPrice(q)

PriceFollowsMarket ==
    \A q \in Quotes : Listed(q) => (<>[](quote = q) => <>[]Settled(q))
=============================================================================
