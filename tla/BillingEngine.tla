--------------------------- MODULE BillingEngine ---------------------------
(***************************************************************************)
(* The billing of chat requests (internal/billing/engine.go, driven by     *)
(* internal/handler/chat.go): the wallet of one user, the API key the user *)
(* calls with, and the requests that run concurrently on them.             *)
(*                                                                         *)
(* PreCheck holds the estimated cost in the Redis hash "balance:<user>"    *)
(* before the request goes to the provider; FinalizeDeduction charges the  *)
(* actual cost in Postgres; ReleaseHold takes the hold back.  Each command *)
(* to Redis and each transaction of Postgres is one action, so requests    *)
(* interleave between any two of them.  An amount is a number of units.    *)
(*                                                                         *)
(* A command of a request fails when the context of the request is         *)
(* cancelled (the client went away), or when its store fails.              *)
(*                                                                         *)
(* A definition whose name begins with "Bad" is no part of the             *)
(* specification: it is a wrong version of the definition that follows it, *)
(* with which the run named in PROJECT.json finds a property violated.     *)
(***************************************************************************)
EXTENDS Money

CONSTANTS
    Reqs,            \* the requests
    Estimates,       \* what EstimateCost may return
    Costs,           \* what CalculateActualCost may return
    InitialBalance,  \* the wallet at the start, when it exists
    TopUps,          \* the amounts of deposits
    MaxLoaded,       \* bound: deposits stop at this total
    Periods,         \* the windows of the spend trackers that are modelled
    Limit,           \* the key's spend limit in each period, None: no limit
    Faults,          \* the faults that may happen, among FaultKinds
    None             \* absence of a value

FaultKinds == {"postgres",      \* a query fails, a commit is not acknowledged
               "redis",         \* a command fails, or is not acknowledged
               "loss",          \* Redis loses its data, or evicts a key
               "disconnect",    \* a client goes away
               "crash",         \* the gateway dies
               "rollover",      \* a UTC day or month ends
               "underestimate"} \* a request costs more than estimated

ASSUME ConstantsAssumption ==
    /\ IsFiniteSet(Reqs)
    /\ Estimates \subseteq Nat
    /\ Costs \subseteq Nat
    /\ TopUps \subseteq Nat
    /\ InitialBalance \in Nat
    /\ MaxLoaded \in Nat
    /\ None \notin Int
    /\ Periods \subseteq {"day", "month"}
    /\ Limit \in [Periods -> Nat \cup {None}]
    /\ Faults \subseteq FaultKinds

VARIABLES
    \* Postgres
    walletExists,    \* the user has a row in wallets
    balance,         \* wallets.balance (0 while there is no row)
    totalSpent,      \* wallets.total_spent
    totalLoaded,     \* wallets.total_loaded
    usage,           \* the usage record of each request
    recorded,        \* SUM(cost) over the usage records of the current period
    \* Redis
    cacheBalance,    \* field balance of "balance:<user>", or None
    cacheHeld,       \* field held of it, or None
    cacheTTL,        \* the hash has a time to live
    tracker,         \* the key "spend:..." of the current period, or None
    blind,           \* history: what the hash does not show since it began afresh
    \* each request
    pc,              \* its next step
    ctx,             \* its context
    est,             \* estimatedCost
    act,             \* actualCost, None until the provider answered
    seen,            \* the balance it read last
    todo,            \* the periods left in the loop it is in
    ret              \* where SyncBalanceFromPostgres returns to

pgVars == <<walletExists, balance, totalSpent, totalLoaded, usage, recorded>>
hashVars == <<cacheBalance, cacheHeld, cacheTTL>>
reqVars == <<pc, ctx, est, act, seen, todo, ret>>
vars == <<pgVars, hashVars, tracker, blind, reqVars>>

Terminal == {"rejected",  \* refused by PreCheck
             "failed",    \* not served, or not affordable at settlement
             "charged",   \* settled
             "lost"}      \* the gateway died, or gave up settling

InFlight(r) == pc[r] \notin {"idle"} \cup Terminal

Init ==
    /\ walletExists \in BOOLEAN
    /\ balance = IF walletExists THEN InitialBalance ELSE 0
    /\ totalSpent = 0
    /\ totalLoaded = balance
    /\ usage = [r \in Reqs |-> "none"]
    /\ recorded = [p \in Periods |-> 0]
    /\ cacheBalance = None
    /\ cacheHeld = None
    /\ cacheTTL = FALSE
    /\ tracker = [p \in Periods |-> None]
    /\ blind = 0
    /\ pc = [r \in Reqs |-> "idle"]
    /\ ctx = [r \in Reqs |-> "live"]
    /\ est = [r \in Reqs |-> 0]
    /\ act = [r \in Reqs |-> None]
    /\ seen = [r \in Reqs |-> 0]
    /\ todo = [r \in Reqs |-> {}]
    /\ ret = [r \in Reqs |-> "hold"]
-----------------------------------------------------------------------------
(***************************************************************************)
(* The stores.                                                             *)
(***************************************************************************)

(* The command of r goes out; a client library refuses a cancelled context.*)
Sent(r) == ctx[r] # "cancelled"

(* The command of r returns an error.                                      *)
RedisFails(r) == ~Sent(r) \/ "redis" \in Faults
PgFails(r) == ~Sent(r) \/ "postgres" \in Faults

(* A field or key that Redis does not have counts as 0 in INCRBYFLOAT.     *)
Value(field) == IF field = None THEN 0 ELSE field

(* History: PreCheck will not see so much of what is taken or promised.    *)
Escapes(amount) == blind' = blind + (IF amount > 0 THEN amount ELSE 0)

(* A write of r whose error the code ignores: it happens, or it failed.    *)
Attempt(r, Write, NoWrite) == \/ Sent(r) /\ Write
                              \/ RedisFails(r) /\ NoWrite

(* HINCRBYFLOAT on field held.  It creates a missing hash, without a TTL.  *)
IncrHeld(amount) ==
    /\ cacheHeld' = Value(cacheHeld) + amount
    /\ UNCHANGED <<cacheBalance, cacheTTL>>

(* INCRBYFLOAT on the tracker of period p.                                 *)
IncrTracker(p, amount) ==
    tracker' = [tracker EXCEPT ![p] = Value(tracker[p]) + amount]

(* The key is there, with one of its fields or both.                       *)
HashExists == cacheBalance # None \/ cacheHeld # None

(* The loops of the code visit the day before the month.                   *)
NextPeriod(r) == IF "day" \in todo[r] THEN "day" ELSE "month"

Goto(r, step) == pc' = [pc EXCEPT ![r] = step]
-----------------------------------------------------------------------------
(***************************************************************************)
(* PreCheck: the spend limits.                                             *)
(***************************************************************************)

Limited == {p \in Periods : Limit[p] # None}

(* A request that passed authentication and parsing, and has an estimate.  *)
Start(r) ==
    /\ pc[r] = "idle"
    /\ \E e \in Estimates : est' = [est EXCEPT ![r] = e]
    /\ todo' = [todo EXCEPT ![r] = Limited]
    /\ Goto(r, IF Limited = {} THEN "exists" ELSE "limit")
    /\ UNCHANGED <<pgVars, hashVars, tracker, blind, ctx, act, seen, ret>>

BadWithinLimit(r, spend) ==  \* forgets the request itself
    spend <= Limit[NextPeriod(r)]
WithinLimit(r, spend) == spend + est[r] <= Limit[NextPeriod(r)]

(* The spend of the period was found: refuse, or look at the next period.  *)
CheckLimit(r, spend) ==
    /\ todo' = [todo EXCEPT ![r] = @ \ {NextPeriod(r)}]
    /\ Goto(r, IF ~WithinLimit(r, spend) THEN "rejected"
               ELSE IF todo'[r] = {} THEN "exists" ELSE "limit")
    /\ UNCHANGED <<pgVars, hashVars, tracker, blind, ctx, est, act, seen, ret>>

(* getDailySpend, getMonthlySpend: the tracker, if there is one...         *)
ReadTracker(r) ==
    /\ pc[r] = "limit"
    /\ \/ /\ Sent(r)
          /\ tracker[NextPeriod(r)] # None
          /\ CheckLimit(r, tracker[NextPeriod(r)])
       \/ /\ RedisFails(r) \/ tracker[NextPeriod(r)] = None
          /\ Goto(r, "limit_pg")
          /\ UNCHANGED <<pgVars, hashVars, tracker, blind, ctx, est, act, seen, todo, ret>>

(* ... and else the sum in Postgres; PreCheck ignores an error and goes on *)
(* with the zero value.                                                    *)
ReadSum(r) ==
    /\ pc[r] = "limit_pg"
    /\ \/ Sent(r) /\ CheckLimit(r, recorded[NextPeriod(r)])
       \/ PgFails(r) /\ CheckLimit(r, 0)
-----------------------------------------------------------------------------
(***************************************************************************)
(* SyncBalanceFromPostgres, called with ret[r] naming the place to return  *)
(* to: "hold" and "reread" in PreCheck, "adjust" in FinalizeDeduction.     *)
(***************************************************************************)

(* An error ends PreCheck; FinalizeDeduction only logs it.                 *)
AfterSyncError(r) == IF ret[r] = "adjust" THEN "adjust" ELSE "rejected"

SyncFails(r) ==
    /\ PgFails(r)
    /\ Goto(r, AfterSyncError(r))
    /\ UNCHANGED <<pgVars, hashVars, tracker, blind, ctx, est, act, seen, todo, ret>>

SyncRead(r) ==
    /\ pc[r] = "sync_read"
    /\ \/ SyncFails(r)
       \/ /\ Sent(r)
          /\ seen' = [seen EXCEPT ![r] = balance]
          /\ Goto(r, IF walletExists THEN "sync_set" ELSE "sync_create")
          /\ UNCHANGED <<pgVars, hashVars, tracker, blind, ctx, est, act, todo, ret>>

BadEnsureWallet ==  \* ON CONFLICT DO UPDATE SET balance = 0
    /\ walletExists' = TRUE
    /\ balance' = 0
    /\ UNCHANGED <<totalSpent, totalLoaded, usage, recorded>>

(* ON CONFLICT DO NOTHING: a deposit may have created the row meanwhile.   *)
EnsureWallet ==
    /\ walletExists' = TRUE
    /\ UNCHANGED <<balance, totalSpent, totalLoaded, usage, recorded>>

SyncCreate(r) ==
    /\ pc[r] = "sync_create"
    /\ \/ SyncFails(r)
       \/ /\ Sent(r)
          /\ EnsureWallet
          /\ seen' = [seen EXCEPT ![r] = 0]
          /\ Goto(r, "sync_set")
          /\ UNCHANGED <<hashVars, tracker, blind, ctx, est, act, todo, ret>>

BadSetBalance(amount) ==  \* replaces the hash
    /\ cacheBalance' = amount
    /\ cacheHeld' = 0
    /\ UNCHANGED cacheTTL

(* HSETNX writes the field only if it is missing.                          *)
SetBalance(amount) ==
    /\ cacheBalance' = IF cacheBalance = None THEN amount ELSE cacheBalance
    /\ UNCHANGED <<cacheHeld, cacheTTL>>

BadSyncSet(r) ==  \* returns without the Expire
    /\ pc[r] = "sync_set"
    /\ Attempt(r, SetBalance(seen[r]), UNCHANGED hashVars)
    /\ Goto(r, ret[r])
    /\ UNCHANGED <<pgVars, tracker, blind, ctx, est, act, seen, todo, ret>>

SyncSet(r) ==
    /\ pc[r] = "sync_set"
    /\ Attempt(r, SetBalance(seen[r]), UNCHANGED hashVars)
    /\ Goto(r, "sync_expire")
    /\ UNCHANGED <<pgVars, tracker, blind, ctx, est, act, seen, todo, ret>>

(* EXPIRE does nothing to a key that is gone.                              *)
SetTTL ==
    /\ cacheTTL' = HashExists
    /\ UNCHANGED <<cacheBalance, cacheHeld>>

SyncExpire(r) ==
    /\ pc[r] = "sync_expire"
    /\ Attempt(r, SetTTL, UNCHANGED hashVars)
    /\ Goto(r, ret[r])
    /\ UNCHANGED <<pgVars, tracker, blind, ctx, est, act, seen, todo, ret>>

CallSync(r, from) == /\ Goto(r, "sync_read")
                     /\ ret' = [ret EXCEPT ![r] = from]
-----------------------------------------------------------------------------
(***************************************************************************)
(* PreCheck: the hold.                                                     *)
(***************************************************************************)

(* ensureBalanceCache looks at the key, not at its field balance.          *)
EnsureCache(r) ==
    /\ pc[r] = "exists"
    /\ \/ /\ RedisFails(r)
          /\ Goto(r, "rejected")
          /\ UNCHANGED ret
       \/ /\ Sent(r) /\ HashExists
          /\ Goto(r, "hold")
          /\ UNCHANGED ret
       \/ /\ Sent(r) /\ ~HashExists
          /\ CallSync(r, "hold")
    /\ UNCHANGED <<pgVars, hashVars, tracker, blind, ctx, est, act, seen, todo>>

(* The transaction that holds the estimate and reads the balance.  When    *)
(* its answer is lost it may have happened all the same.                   *)
Hold(r) ==
    /\ pc[r] = "hold"
    /\ \/ /\ RedisFails(r)
          /\ \/ Sent(r) /\ IncrHeld(est[r])
             \/ UNCHANGED hashVars
          /\ Goto(r, "rejected")
          /\ UNCHANGED <<seen, ret>>
       \/ /\ Sent(r) /\ cacheBalance # None
          /\ IncrHeld(est[r])
          /\ seen' = [seen EXCEPT ![r] = cacheBalance]
          /\ Goto(r, "read_held")
          /\ UNCHANGED ret
       \/ /\ Sent(r) /\ cacheBalance = None
          /\ IncrHeld(est[r])
          /\ CallSync(r, "reread")
          /\ UNCHANGED seen
    /\ UNCHANGED <<pgVars, tracker, blind, ctx, est, act, todo>>

BadReread(r) ==  \* syncs again until the balance stays
    /\ pc[r] = "reread"
    /\ IF cacheBalance # None
       THEN /\ seen' = [seen EXCEPT ![r] = cacheBalance]
            /\ Goto(r, "read_held")
            /\ UNCHANGED ret
       ELSE CallSync(r, "reread") /\ UNCHANGED seen
    /\ UNCHANGED <<pgVars, hashVars, tracker, blind, ctx, est, act, todo>>

(* The balance again, after a sync; an error leaves the hold in place.     *)
Reread(r) ==
    /\ pc[r] = "reread"
    /\ \/ /\ Sent(r) /\ cacheBalance # None
          /\ seen' = [seen EXCEPT ![r] = cacheBalance]
          /\ Goto(r, "read_held")
       \/ /\ RedisFails(r) \/ cacheBalance = None
          /\ Goto(r, "rejected")
          /\ UNCHANGED seen
    /\ UNCHANGED <<pgVars, hashVars, tracker, blind, ctx, est, act, todo, ret>>

BadAffordable(r, held) ==  \* forgets the holds of the other requests
    seen[r] - est[r] >= 0

BadAvailable(r, held) ==  \* counts the held amount without the own hold
    seen[r] - (held - est[r]) >= 0

Affordable(r, held) == seen[r] - held >= 0

(* seen[r] has no use after the decision.                                  *)
Decide(r, held) ==
    /\ IF Affordable(r, held)
       THEN /\ Goto(r, "track")
            /\ todo' = [todo EXCEPT ![r] = Periods]
       ELSE /\ Goto(r, "reverse")
            /\ UNCHANGED todo
    /\ seen' = [seen EXCEPT ![r] = 0]
    /\ UNCHANGED <<pgVars, hashVars, tracker, ctx, est, act, ret>>

(* A held amount that cannot be read counts as 0.                          *)
ReadHeld(r) ==
    /\ pc[r] = "read_held"
    /\ \/ Sent(r) /\ Decide(r, Value(cacheHeld)) /\ UNCHANGED blind
       \/ RedisFails(r) /\ Decide(r, 0) /\ Escapes(IF Sent(r) THEN Value(cacheHeld) ELSE 0)

ReverseHold(r) ==
    /\ pc[r] = "reverse"
    /\ Attempt(r, IncrHeld(-est[r]), UNCHANGED hashVars)
    /\ Goto(r, "rejected")
    /\ UNCHANGED <<pgVars, tracker, blind, ctx, est, act, seen, todo, ret>>
-----------------------------------------------------------------------------
(***************************************************************************)
(* The spend trackers: each loop adds an amount to the tracker of every    *)
(* period, day first, and ignores errors.                                  *)
(***************************************************************************)

AddToTrackers(r, amount, next) ==
    /\ IF todo[r] = {}
       THEN UNCHANGED tracker
       ELSE Attempt(r, IncrTracker(NextPeriod(r), amount), UNCHANGED tracker)
    /\ todo' = [todo EXCEPT ![r] = @ \ {NextPeriod(r)}]
    /\ IF todo'[r] = {} THEN Goto(r, next) ELSE UNCHANGED pc
    /\ UNCHANGED <<pgVars, hashVars, blind, ctx, est, act, seen, ret>>

(* The end of PreCheck.                                                    *)
Track(r) == pc[r] = "track" /\ AddToTrackers(r, est[r], "call")

(* The end of ReleaseHold.                                                 *)
Untrack(r) == pc[r] = "untrack" /\ AddToTrackers(r, -est[r], "failed")

BadAdjust(r) ==  \* rolls the trackers back as ReleaseHold does
    pc[r] = "adjust" /\ AddToTrackers(r, -est[r], "charged")

BadRefund(r) ==  \* releases the hold, next to a balance that HSETNX left alone
    /\ pc[r] = "adjust"
    /\ IncrHeld(-est[r])
    /\ Goto(r, "charged")
    /\ UNCHANGED <<pgVars, tracker, blind, ctx, est, act, seen, todo, ret>>

(* The end of FinalizeDeduction.                                           *)
Adjust(r) == pc[r] = "adjust" /\ AddToTrackers(r, act[r] - est[r], "charged")
-----------------------------------------------------------------------------
(***************************************************************************)
(* The call of the provider, and the settlement.                           *)
(***************************************************************************)

(* The provider refuses the request, or serves it.  A stream that is cut   *)
(* short carries no usage and costs nothing.  From here on the context of  *)
(* the request does not matter: FinalizeDeduction gets a detached one.     *)
Call(r) ==
    /\ pc[r] = "call"
    /\ \/ /\ Goto(r, "release")
          /\ UNCHANGED <<act, ctx>>
       \/ /\ Sent(r)
          /\ \E cost \in Costs \cup {0} :
                /\ cost <= est[r] \/ "underestimate" \in Faults
                /\ act' = [act EXCEPT ![r] = cost]
          /\ ctx' = [ctx EXCEPT ![r] = "detached"]
          /\ Goto(r, "settle")
    /\ UNCHANGED <<pgVars, hashVars, tracker, blind, est, seen, todo, ret>>

BadCovered(r) ==  \* the UPDATE without its condition on the balance
    walletExists

(* The condition of the UPDATE.                                            *)
Covered(r) == walletExists /\ balance >= act[r]

(* The transaction that deducts the cost and records the usage.            *)
Charge(r) ==
    /\ balance' = balance - act[r]
    /\ totalSpent' = totalSpent + act[r]
    /\ usage' = [usage EXCEPT ![r] = "completed"]
    /\ recorded' = [p \in Periods |-> recorded[p] + act[r]]
    /\ Escapes(act[r] - est[r])
    /\ UNCHANGED <<walletExists, totalLoaded>>

(* The record of a request that was served and not charged.                *)
RecordFailure(r) ==
    /\ usage' = [usage EXCEPT ![r] = "failed"]
    /\ UNCHANGED <<walletExists, balance, totalSpent, totalLoaded, recorded, blind>>

BadAfterCommitError ==  \* tries the whole transaction again
    "settle"

(* The insert or the commit failed: FinalizeDeduction only logs it.        *)
AfterCommitError == "lost"

Settle(r) ==
    /\ pc[r] = "settle"
    /\ \* the transaction cannot begin, or one of its statements fails
       \/ /\ PgFails(r)
          /\ Goto(r, "release")
          /\ UNCHANGED <<pgVars, blind, todo, ret>>
       \* the wallet covers the cost
       \/ /\ Covered(r)
          /\ Charge(r)
          /\ CallSync(r, "adjust")
          /\ todo' = [todo EXCEPT ![r] = Periods]
       \* so it does, but the usage insert fails, or the commit returns an error
       \/ /\ Covered(r) /\ PgFails(r)
          /\ Charge(r) \/ UNCHANGED <<pgVars, blind>>
          /\ Goto(r, AfterCommitError)
          /\ UNCHANGED <<todo, ret>>
       \* the wallet does not cover the cost
       \/ /\ ~Covered(r)
          /\ RecordFailure(r)
          /\ Goto(r, "release")
          /\ UNCHANGED <<todo, ret>>
    /\ UNCHANGED <<hashVars, tracker, ctx, est, act, seen>>

BadRelease(r) ==  \* leaves the trackers as they are
    /\ pc[r] = "release"
    /\ Attempt(r, IncrHeld(-est[r]), UNCHANGED hashVars)
    /\ Goto(r, "failed")
    /\ UNCHANGED <<pgVars, tracker, blind, ctx, est, act, seen, todo, ret>>

(* ReleaseHold, which goes on with Untrack.                                *)
Release(r) ==
    /\ pc[r] = "release"
    /\ Attempt(r, IncrHeld(-est[r]), UNCHANGED hashVars)
    /\ todo' = [todo EXCEPT ![r] = Periods]
    /\ Goto(r, "untrack")
    /\ UNCHANGED <<pgVars, tracker, blind, ctx, est, act, seen, ret>>
-----------------------------------------------------------------------------
(***************************************************************************)
(* What happens around the requests.                                       *)
(***************************************************************************)

(* The client closes its connection: net/http cancels the context.         *)
Disconnect(r) ==
    /\ "disconnect" \in Faults
    /\ InFlight(r) /\ ctx[r] = "live"
    /\ ctx' = [ctx EXCEPT ![r] = "cancelled"]
    /\ UNCHANGED <<pgVars, hashVars, tracker, blind, pc, est, act, seen, todo, ret>>

SyncSteps == {"sync_read", "sync_create", "sync_set", "sync_expire"}

(* The estimate of r is part of the held amount.                           *)
Holding(r) ==
    \/ pc[r] \in {"reread", "read_held", "reverse", "track", "call", "settle", "release"}
    \/ pc[r] \in SyncSteps /\ ret[r] = "reread"

(* The hash is gone.  Nobody needs it while no hold is in force and no     *)
(* balance is on its way to it; else what it held is forgotten.            *)
DropHash == /\ cacheBalance' = None
            /\ cacheHeld' = None
            /\ cacheTTL' = FALSE
            /\ IF \A r \in Reqs : ~Holding(r) /\ pc[r] # "sync_set"
               THEN blind' = 0
               ELSE Escapes(Value(cacheHeld))

(* Five seconds pass after the last Expire, whoever holds meanwhile.       *)
Expire ==
    /\ cacheTTL
    /\ DropHash
    /\ UNCHANGED <<pgVars, tracker, reqVars>>

LoseData ==
    /\ "loss" \in Faults
    /\ \/ DropHash /\ UNCHANGED tracker
       \/ /\ \E p \in Periods : tracker' = [tracker EXCEPT ![p] = None]
          /\ UNCHANGED <<hashVars, blind>>
    /\ UNCHANGED <<pgVars, reqVars>>

(* creditDeposit of the deposit monitor, another process.                  *)
TopUp ==
    /\ \E amount \in TopUps :
          /\ totalLoaded + amount <= MaxLoaded
          /\ totalLoaded' = totalLoaded + amount
          /\ balance' = balance + amount
    /\ walletExists' = TRUE
    /\ UNCHANGED <<totalSpent, usage, recorded, hashVars, tracker, blind, reqVars>>

(* The gateway dies, or is shut down, with its requests in flight.         *)
Crash ==
    /\ "crash" \in Faults
    /\ pc' = [r \in Reqs |-> IF InFlight(r) THEN "lost" ELSE pc[r]]
    /\ UNCHANGED <<pgVars, hashVars, tracker, blind, ctx, est, act, seen, todo, ret>>

(* The keys of the trackers and the sums carry the date: a period that     *)
(* ended is not read or written again.  A month ends together with a day.  *)
Rollover ==
    /\ "rollover" \in Faults
    /\ \E ended \in {{"day"}, {"day", "month"}} :
          /\ tracker' = [p \in Periods |-> IF p \in ended THEN None ELSE tracker[p]]
          /\ recorded' = [p \in Periods |-> IF p \in ended THEN 0 ELSE recorded[p]]
    /\ UNCHANGED <<walletExists, balance, totalSpent, totalLoaded, usage, hashVars, blind, reqVars>>
-----------------------------------------------------------------------------
PreCheck(r) == \/ ReadTracker(r) \/ ReadSum(r)
               \/ EnsureCache(r) \/ Hold(r) \/ Reread(r) \/ ReadHeld(r)
               \/ ReverseHold(r) \/ Track(r)

SyncBalanceFromPostgres(r) == SyncRead(r) \/ SyncCreate(r) \/ SyncSet(r) \/ SyncExpire(r)

ReleaseHold(r) == Release(r) \/ Untrack(r)

FinalizeDeduction(r) == Settle(r) \/ Adjust(r)

(* A step of the goroutine of request r.                                   *)
Step(r) == \/ PreCheck(r) \/ SyncBalanceFromPostgres(r) \/ Call(r)
           \/ FinalizeDeduction(r) \/ ReleaseHold(r)

Environment == Expire \/ LoseData \/ TopUp \/ Crash \/ Rollover

Next == \/ \E r \in Reqs : Start(r) \/ Step(r) \/ Disconnect(r)
        \/ Environment

Spec == Init /\ [][Next]_vars

(* The runtime schedules every goroutine, every call has an answer or a    *)
(* timeout, and Redis expires keys.  Nothing else has to happen.           *)
FairSpec == /\ Spec
            /\ \A r \in Reqs : WF_vars(Step(r))
            /\ WF_vars(Expire)
-----------------------------------------------------------------------------
(***************************************************************************)
(* Correctness.                                                            *)
(***************************************************************************)

Steps == {"limit", "limit_pg", "exists", "hold", "reread", "read_held", "reverse", "track",
          "call", "settle", "adjust", "release", "untrack"} \cup SyncSteps

PostgresTypeOK ==
    /\ walletExists \in BOOLEAN
    /\ balance \in Nat
    /\ totalSpent \in Nat
    /\ totalLoaded \in Nat
    /\ usage \in [Reqs -> {"none", "failed", "completed"}]
    /\ recorded \in [Periods -> Nat]

RedisTypeOK ==
    /\ cacheBalance \in Nat \cup {None}
    /\ cacheHeld \in Int \cup {None}
    /\ cacheTTL \in BOOLEAN
    /\ tracker \in [Periods -> Int \cup {None}]
    /\ blind \in Nat

RequestTypeOK ==
    /\ pc \in [Reqs -> {"idle"} \cup Steps \cup Terminal]
    /\ ctx \in [Reqs -> {"live", "cancelled", "detached"}]
    /\ est \in [Reqs -> Nat]
    /\ act \in [Reqs -> Nat \cup {None}]
    /\ seen \in [Reqs -> Nat]
    /\ todo \in [Reqs -> SUBSET Periods]
    /\ ret \in [Reqs -> {"hold", "reread", "adjust"}]

(***************************************************************************)
(* The type invariant: among others, the wallet never goes below zero,     *)
(* whatever the order of deposits, settlements and faults.                 *)
(***************************************************************************)
TypeOK == PostgresTypeOK /\ RedisTypeOK /\ RequestTypeOK

(* What each request took from the wallet.                                 *)
Billed == [r \in Reqs |-> IF usage[r] = "completed" THEN act[r] ELSE 0]

(***************************************************************************)
(* The books balance: the wallet and its two counters agree with the usage *)
(* records, through every crash, failed commit and concurrent deposit.     *)
(***************************************************************************)
WalletConserved ==
    /\ totalSpent = Total(Billed)
    /\ totalLoaded = balance + totalSpent

(* How the usage record of a request reads in the terms of WalletLedger.   *)
Bill == [r \in Reqs |-> IF usage[r] = "completed" THEN "paid"
                        ELSE IF usage[r] = "failed" THEN "waived"
                        ELSE "open"]

(***************************************************************************)
(* The gateway implements the ledger that WalletLedger specifies.          *)
(***************************************************************************)
Ledger == INSTANCE WalletLedger
          WITH NoPrice <- None, funds <- balance, loaded <- totalLoaded, price <- act,
               bill <- Bill

ImplementsLedger == Ledger!Spec

(* The requests that PreCheck let through and that may still be charged.   *)
Admitted(r) == pc[r] \in {"track", "call", "settle"} /\ Sent(r)

Held == [r \in Reqs |-> IF Holding(r) THEN est[r] ELSE 0]
Promised == [r \in Reqs |-> IF Admitted(r) THEN est[r] ELSE 0]

(* The held amount in Redis covers the estimates of all the requests that  *)
(* hold one, but for what escaped it, although holds are placed, reversed  *)
(* and released concurrently and the hash is created by whoever is first.  *)
HoldsBacked == Value(cacheHeld) + blind >= Total(Held)

(* The amounts that some request will take for the balance.                *)
Views == ({cacheBalance} \ {None})
         \cup {seen[r] : r \in {q \in Reqs : pc[q] \in {"sync_set", "read_held"}}}

(* A balance that was cached, or read some steps ago, may be stale, but    *)
(* less the held amount and what escaped it never promises more than the   *)
(* wallet has beyond the holds in force.                                   *)
ViewsConservative ==
    \A amount \in Views : amount - Value(cacheHeld) - blind <= balance - Total(Held)

(* The wallet covers the estimates of all admitted requests together, but  *)
(* for what escaped.                                                       *)
NoOvercommit == balance + blind >= Total(Promised)

(***************************************************************************)
(* What is promised is there: PreCheck (engine.go:196-235) sees all the    *)
(* holds in force, no balance it may act on is too high, and no more is    *)
(* admitted than can be charged.  It fails by no more than escaped since   *)
(* the hash last expired without a hold in it: the held amount of a hash   *)
(* that expired or was lost under a hold (engine.go:403), a held amount    *)
(* that a request could not read (engine.go:228), and what charges took    *)
(* beyond the estimates.                                                   *)
(***************************************************************************)
PromisesCovered == HoldsBacked /\ ViewsConservative /\ NoOvercommit

(***************************************************************************)
(* No request is served for nothing (FinalizeDeduction, engine.go:289-305) *)
(* unless its cost exceeds its estimate or so much escaped: otherwise the  *)
(* UPDATE finds the balance that PreCheck made sure of.                    *)
(***************************************************************************)
ServedIsPaid ==
    [][\A r \in Reqs : usage[r] = "none" /\ usage'[r] = "failed"
                       => act[r] + blind > est[r]]_vars

(* What the tracker of p holds on account of a request in flight.          *)
Owed(p) == [r \in Reqs |->
              IF ~Sent(r) THEN 0
              ELSE IF \/ pc[r] = "track" /\ p \notin todo[r]
                      \/ pc[r] \in {"call", "settle", "release"}
                      \/ pc[r] = "untrack" /\ p \in todo[r]
              THEN est[r]
              ELSE IF \/ pc[r] = "adjust" /\ p \in todo[r]
                      \/ pc[r] \in SyncSteps /\ ret[r] = "adjust"
              THEN est[r] - act[r]
              ELSE 0]

(***************************************************************************)
(* A spend tracker never says less than the usage records of its period    *)
(* and the requests in flight amount to.                                   *)
(***************************************************************************)
TrackerCovers ==
    \A p \in Periods : Value(tracker[p]) >= recorded[p] + Total(Owed(p))

(***************************************************************************)
(* A request that passes the limit of a period by its tracker stays within *)
(* it together with all that was recorded and is in flight when it is      *)
(* looked at (engine.go:174-185).  Others that are between their check and *)
(* their addition to the tracker are not counted.                          *)
(***************************************************************************)
AdmittedWithinLimit ==
    [][\A r \in Reqs :
         LET p == NextPeriod(r)
         IN pc[r] = "limit" /\ pc'[r] \in {"limit", "exists"} /\ todo'[r] # todo[r]
            => recorded[p] + Total(Owed(p)) + est[r] <= Limit[p]]_vars

(* What PreCheck compares with the limit when both stores answer.          *)
Spend(p) == IF tracker[p] = None THEN recorded[p] ELSE tracker[p]

(* A client or a crash cut the request short.                              *)
CutShort(r) == pc[r] = "lost" \/ ~Sent(r)

(* What it may have left in a tracker.                                     *)
LeftOver == [r \in Reqs |-> IF CutShort(r) THEN est[r] ELSE 0]

(***************************************************************************)
(* When no request is in flight, PreCheck reads the sum of the usage       *)
(* records: failed requests left nothing in the tracker, the others        *)
(* exactly what they cost, and those that were cut short no more than      *)
(* their estimates (engine.go:237-246, 261-269, 362-369).                  *)
(***************************************************************************)
SpendExact ==
    (\A r \in Reqs : ~InFlight(r))
    => \A p \in Periods : Spend(p) \in recorded[p] .. (recorded[p] + Total(LeftOver))

(***************************************************************************)
(* Every request comes to an end, with its settlement.                     *)
(***************************************************************************)
RequestsEnd == \A r \in Reqs : InFlight(r) ~> pc[r] \in Terminal

(* A balance without a time to live, for want of the Expire of a request   *)
(* that was cut short.                                                     *)
Abandoned == cacheBalance # None /\ ~cacheTTL /\ \E r \in Reqs : CutShort(r)

(***************************************************************************)
(* A stale balance in the cache goes away, unless a request was cut short  *)
(* between the two commands that set the balance and its time to live      *)
(* (engine.go:399-403): that one may stay for good.                        *)
(***************************************************************************)
CacheEventuallyFresh == []<>(cacheBalance \in {None, balance}) \/ <>[]Abandoned
=============================================================================
