# Ruvicode Gateway in TLA+

This directory specifies the Ruvicode gateway (`src/`), model-checks the
specifications with TLC and proves theorems about them with TLAPS. Run the
tools in this directory: `tlc -config X.cfg M`, `tlapm M.tla`.

## The system

Four processes share a Postgres database and a Redis instance.

| Component | State | Operations | Interacts with |
|---|---|---|---|
| Billing engine (`internal/billing/engine.go`) | Postgres: `wallets`, `usage_records`. Redis: hash `balance:<user>` (fields `balance`, `held`, TTL 5 s), keys `spend:<user>:<key>:d…/m…` | `PreCheck`, `FinalizeDeduction`, `ReleaseHold`, `SyncBalanceFromPostgres` | called by the chat handler, one goroutine per request; wallets are credited by the monitor |
| Chat handler (`internal/handler/chat.go`) | per request: context, estimate, captured usage | `Handle`, stream and non-stream response | billing, price cache, provider registry |
| Price rules (`billing/engine.go`, `pricing/sync.go`, `provider/client.go`) | none | estimate, actual, reference and market cost; user price | chat handler, pricing worker |
| Deposit monitor (`internal/monitor`) | cursor, `topups`, `wallets` | `Run`, `checkForDeposits`, `creditDeposit` | Base chain, Postgres |
| Deposit addresses (`internal/wallet`) | `deposit_addresses` | `GetOrCreateAddress` | deposit handler, monitor, sweep |
| Sweep (`internal/sweep`, `handler/sweep.go`) | treasury nonce, `sweep` results, last execution | preview, execute, `fundGas`, `transferUSDC` | chain, Postgres |
| Authentication (`middleware/auth.go`, `store/apikeys.go`) | Redis copy of a key for 5 minutes | lookup, fill, invalidate | every request |
| Rate limiter (`middleware/ratelimit.go`) | Redis sorted set per key | admit or refuse | every request |
| Key pool (`provider/keypool.go`) | remaining quota and errors of upstream keys | `Select`, `UpdateFromHeaders`, `MarkError` | provider client |
| Provider client, registry (`provider/`) | provider map, market cache | `ChatCompletion`, `FetchPricing`, `GetForModel` | chat handler, pricing worker |
| Price worker and cache (`pricing/`) | `model_prices`, Redis `pricing:<model>` | `SyncAllProviders`, `GetCachedPrice` | chat handler |
| Usage capture, masking (`handler/usage_capture.go`, `masking/body.go`) | the usage and cost captured so far | `ParseFromChunk`, `SanitizeResponseBody` | chat handler, per line of a stream |
| Playground (`handler/internal.go`) | none | `Handle` | Postgres, rate limiter, chat handler |
| Models list (`handler/models.go`) | in-memory list with expiry | `Handle` | Postgres |
| Reconciliation (`billing/reconcile.go`) | none | hourly audit | Postgres |
| Headers, logging, configuration, catalog, routing, operator tools | none that matters here | | |

What is hard here: requests of one user interleave between any two commands to
Redis and Postgres; a client may disconnect, which cancels the context that
those commands use; the hash with the holds expires after five seconds while a
request may take five minutes; errors of most Redis writes are ignored; the
gateway may die between a reservation and its settlement; a transaction may
have committed although its commit returned an error; and the monitor credits
wallets meanwhile. `PROJECT.json` lists these hazards with their lines.

What makes each component correct, in a sentence: *billing* never charges more
than the wallet has nor twice, and never admits more than it can charge; *limits*
are never understated; the *monitor* credits every confirmed deposit once; an
*address* belongs to one user, for good; an *answer* is
billed as the upstream reported it, and settled whoever leaves; a *sweep* spends a nonce once and moves only what
is there; a revoked *key* stops working in bounded time; the *rate limiter* admits
at most its limit per window; the *key pool* offers a usable key whenever there is
one; a *price* is never below its cost nor above the reference price.

These sentences are what a component is for. Where the code keeps one only under
conditions, the conditions are stated with the property and below.

## The modules

    Money                 sums of amounts
    MoneyTheorems         lemmas about them                          (proofs)
    WalletLedger          what the gateway promises about a wallet   (abstract)
    BillingEngine         how it keeps the promise                   (detailed)
    MCBillingEngine       instances for TLC
    BillingEngineProofs   types, books, refinement, holds, limits    (proofs)
    ChatStream            passing on an answer, and what it is billed for
    MCChatStream          an instance for TLC
    AddressBook           what is promised about deposit addresses   (abstract)
    AddressManager        how it is kept                             (detailed)
    MCAddressManager      an instance for TLC
    AddressProofs         types, refinement, few addresses, attempts (proofs)
    DepositLedger         what the monitor promises about a transfer (abstract)
    DepositMonitor        how it keeps the promise                   (detailed)
    MCDepositMonitor      instances for TLC
    DepositProofs         types, refinement, accounts, no skip       (proofs)
    Sweep                 the sweep of deposit addresses
    MCSweep               instances for TLC
    SweepProofs           types, nonces, failures, gas, reports      (proofs)
    Access                authentication and rate limiter
    MCAccess              instances for TLC
    AccessProofs          types, revocation, the sliding window      (proofs)
    KeyPool               the upstream keys and the calls that use them
    MCKeyPool             instances for TLC
    KeyPoolProofs         types, selection, the reserve              (proofs)
    PriceRules            price rules and costs, reconciliation policy
    Prices                pricing worker, price cache
    MCPrices              instances for TLC
    ChargeProofs          of Prices: types, posted prices, ceiling, margin;
                          of ChatStream: types, billing, events      (proofs)

`BillingEngine`, `DepositMonitor`, `Sweep` and `Access` EXTEND `Money`. The first refines
`WalletLedger` (`ImplementsLedger`), the second `DepositLedger`
(`CreditsFollowLedger`), and `AddressManager` refines `AddressBook` (`ImplementsBook`),
by `INSTANCE … WITH`. The proof modules EXTEND the module they are about; `ChargeProofs`
is about two, which is why some names of `ChatStream` begin with `Chat`. The components
meet in Postgres and on the chain: the action
`TopUp` of `BillingEngine` is what `CreditDeposit` of `DepositMonitor` does to one
wallet, and the addresses that `Sweep` empties are those that the monitor watches.
`CreateAddress` of `DepositMonitor` is a whole call of `AddressManager`; that a user is
told only of addresses with a row (`told` in `AddressBook`) is what the monitor's model
assumes when it says that a transfer cannot precede the creation of its address.
A request of the gateway passes through `Access`, takes its price in `Prices`, is
admitted in `BillingEngine`, gets an upstream key in `KeyPool`, is answered in
`ChatStream`, and settled in `BillingEngine`: nothing but the request, its price and
its usage goes from one to the next, so they are modelled apart.

### BillingEngine

One user, one API key, a set `Reqs` of requests, each started at most once.

* Postgres is `walletExists`, `balance`, `totalSpent`, `totalLoaded`, `usage`
  (the usage record of each request) and `recorded` (the SUM over the records of
  the current day and month).
* Redis is `cacheBalance` and `cacheHeld` (the two fields, `None` when missing),
  `cacheTTL` and `tracker`. A command on a missing hash creates it without a TTL,
  as Redis does.
* A request is `pc`, its context `ctx` (`live`, `cancelled`, or `detached` once
  `FinalizeDeduction` runs on `context.Background()`), `est`, `act`, the balance it
  read (`seen`), the periods left in a loop (`todo`) and the place that
  `SyncBalanceFromPostgres` returns to (`ret`).
* `blind` is a history variable for the properties: what `PreCheck` does not see of the
  holds and charges in force. It grows by the held amount when the hash expires, or is
  lost, while a request holds (`DropHash`; five seconds, `engine.go:403`, against calls of
  up to 300); by a held amount that could not be read and counts as 0 (`engine.go:228`);
  and by what a charge takes beyond its estimate. It is 0 again when the hash goes
  away with no hold in force.

One action is one command to Redis, one `MULTI/EXEC` pipeline, or one Postgres
transaction, with its error path:

| Code | Actions |
|---|---|
| `Handle` up to the estimate | `Start` |
| `getDailySpend`, `getMonthlySpend`, the limit checks | `ReadTracker`, `ReadSum` |
| `ensureBalanceCache` | `EnsureCache` |
| the hold pipeline, the re-read after a sync, the read of `held`, the reversal | `Hold`, `Reread`, `ReadHeld`, `ReverseHold` |
| the tracker increments | `Track`, `Adjust`, `Untrack` |
| `SyncBalanceFromPostgres` | `SyncRead`, `SyncCreate`, `SyncSet`, `SyncExpire` |
| `GetForModel`, `ChatCompletion`, the response | `Call` |
| the transaction of `FinalizeDeduction` | `Settle` |
| `ReleaseHold` | `Release`, `Untrack` |
| around it | `Disconnect`, `Expire`, `LoseData`, `TopUp`, `Crash`, `Rollover` |

A command under a cancelled context fails and is not sent. `Expire` may happen at any
moment at which the hash has a time to live, in every run. `Faults` says which
faults may happen besides; each is a further branch of the actions it concerns,
without a budget: requests are finite, so behaviours are.

Abstractions. Money is counted in units (the code uses NUMERIC columns and
floats; rounding is not modelled). Estimates and costs are inputs from small
sets; `act <= est` unless `underestimate` is among the faults, because the code
does not enforce it. The two transactions of `FinalizeDeduction` are atomic: the
row lock of the UPDATE serialises them with each other and with deposits. The
retry of commands inside go-redis, several gateways with separate crashes, and
several keys of one user are not modelled.

### ChatStream

The answer to one request, from the acceptance by the upstream on. `BillingEngine` has
the settlement step by step; here it is one action, `Settle`.

* The upstream is external: `sent`, the lines it sent (or the one body), and whether it
  is `open`, `closed` or `broken`. A line is blank, a comment, `[DONE]`, longer than 1 MB,
  or a chunk. A chunk is a record of what it says of tokens and costs in each of the
  fields the code looks at, whether it is JSON, and whether a cost has an exponent.
* `client` is `there`, `gone` (the context is cancelled, and with it the upstream
  call) or `deaf` (the `WriteTimeout` of 300 seconds has passed).
* The handler is `phase`, `next` (lines read), `usage` and `cost` (`UsageCapture`, or the
  fields of `ChatResult`), `got` (what was written to the client) and `bill` (the
  arguments of `FinalizeDeduction`). `complete` records that the answer was read to its end.

| Code | Actions and operators |
|---|---|
| the loop of `handleStreamResponse` | `ReadLine`, `PassedOn`, `Captured`, `Forward` |
| the end of the loop: `[DONE]`, end of file, error, long line | `ReadLine`, `ScanStops` |
| `ParseFromChunk`, `parseChunkUpstreamCost`, `ParseCacheReadTokens` | `Parse`, `UpstreamCost`, `CacheRead` |
| `SanitizeResponseBody`, `stripField` | `Sanitized` |
| `FinalizeDeduction`, `UpdateLastUsed` | `Settle`, `Finalized` |
| `io.ReadAll`, `parseUsage` of `ChatCompletion` | `ReadBody`, `ReadBodyFails`, `BodyUsage`, `BodyCost` |
| the write of `handleNonStreamResponse` | `Answer` |
| around it | `Sends`, `UpstreamEnds`, `UpstreamBreaks`, `ClientLeaves` |

The scanner hands out the rest of a line that broke off; the handler passes it on like a
line, without the blank line that would dispatch it (`cut`). Names of models and
providers, and amounts that are not numbers, are not modelled.

### AddressManager

Concurrent calls of `GetOrCreateAddress`, in one process or several.

* Postgres is `owner`, the `user_id` of each `derivation_index` in `deposit_addresses`.
  The unique index that `ON CONFLICT` relies on belongs to the schema, which is not in
  `src/`; different indices have different addresses (`hd.go`), so the code's
  queries by address are queries by index.
* A call is `pc`, `user`, `nextIdx`, `attempt`. `first` and `told` record, for the
  properties, the first index a call tried and the addresses that were returned.

| Code | Actions |
|---|---|
| the query for an existing address | `Lookup`, `Begin` |
| `MAX(derivation_index)`, `DeriveAddress` | `ReadMax` |
| `INSERT … ON CONFLICT DO NOTHING` | `Insert` |
| the query for the owner | `VerifyMine`, `Retry`, `GiveUp` |
| any query that fails, a client that leaves | `Fail`; a lost answer is a branch of `Insert` |

Two first calls of one user may each get an address of their own: nothing but
the index is unique. `FewAddresses` bounds that, and `AddressStable` says that the user
keeps being told the first one. The monitor watches all of them.

### WalletLedger

Funds, top-ups, a price per served request, and a bill that is open, paid or
waived. `act` is the price, the status of the usage record is the bill.

### DepositMonitor

A set of monitors (a deployment may have the old and the new one running), users
and transfers.

* The chain is external: `head`, and `block`, the block that each transfer is in.
  It grows block by block up to `MaxHead`; `Reorg` moves or removes a transaction
  in the blocks that are less than `ReorgDepth` deep. A transfer to a deposit
  address cannot be in a block from before the address was created.
* Postgres is `addressed` (users with a row in `deposit_addresses`), `cursor`
  (`monitor_cursor`), `topups` (the transfer booked under each transaction hash, the
  unique index `usdc_tx_hash`) and `loaded` (`wallets.total_loaded`).
* A monitor is `pc` and the variables of `checkForDeposits`: `current`
  (`currentBlock`), `from` (`chunkFrom`), `watched` (`addresses`), `logs`.
* `jumped` records the blocks left out on purpose by the bootstrap window and by a
  fast-forward, for the properties; `backfill` bounds the operator.

| Code | Actions |
|---|---|
| `blockNumberWithFallback` | `ReadHead` |
| `getCursor`, `last >= currentBlock` | `ReadCursor` |
| the fast-forward beyond `MaxCatchUpBlocks` | `FastForward` |
| `getWatchedAddresses`, the head of the chunk loop | `ReadAddresses` |
| `filterLogsWithFallback` | `FilterLogs`, `ReadFails` |
| `processLog`, `creditDeposit` | `ProcessLog` (one transaction) |
| `saveCursor` at the end of a chunk | `FinishChunk` |
| around it | `NewBlock`, `Reorg`, `CreateAddress`, `SetCursorToZero`, `Crash` |

The primary and the fallback node are one node that may fail or answer with an
old head. It is assumed that a block `ConfirmationsReq` deep is not replaced, and
that the node that answers with logs has the blocks it is asked for: whether a
lagging node answers with an error or with fewer logs is up to the provider, and
with the latter a deposit would be skipped. Block numbers are unsigned in the code;
`TypeOK` says that no subtraction goes below zero.

### Sweep

Requests with `execute=true` (`Executions`), deposit addresses, and one goroutine
(job) for each pair.

* The chain and its node are external: balances `usdc` and `eth`, `nonce`, the
  transactions that wait (`pool`), those `mined` and `reverted`, and, as history, those
  that another one took the place of (`replaced`). The node takes a
  transaction when its nonce is not used, when it outbids a waiting one of the same
  nonce, and when the sender covers all that wait.
* The handler is `recent` (`lastExecute` less than five minutes ago), `phase`, `gone`
  (the context is cancelled) and `report` (`total_swept` in the audit row). `overlaps`, a
  history variable, counts the executions that were accepted while another was at work
  or a transaction of one was not mined (`Busy`).
* A job is `step`, `amount` (`balMicro`), `gas` (`gasPerTx`), `at` (the nonce it
  read) and `submitted` (it has a `TxHash`).

| Code | Actions |
|---|---|
| the rate limit under the mutex | `Accept`, `Refuse`, `FiveMinutes` |
| `Run`: query, semaphore, `wg.Wait`, audit row | `RunFails`, `Begin`, `Finish` |
| `processEntry` up to the gas | `ReadBalance`, `ReadEth`, `ReadTreasury` |
| `fundGas`, `waitForReceipt` | `FundNonce`, `fundGas`, `waitForReceipt` |
| `transferUSDC` | `TransferNonce`, `transferUSDC` |
| any call that fails | `CallFails`; a lost answer is a branch of `Send` |
| around it | `Mine`, `Deposit`, `Disconnect` |

`FiveMinutes` clears `recent` and nothing else: the handler compares the start of the last
execution with the clock (`handler/sweep.go:124`), whatever that execution and its
transactions still do. So executions may overlap, and then a transfer can revert, or
take the place of another, and gas be funded again. The properties say how often: once
for each overlap, and never without one. A restart of the gateway, which forgets
`lastExecute` and kills the goroutines, looks to the chain like a disconnect followed by
`FiveMinutes`; `cmd/sweep`, which looks at no `lastExecute`, like one more execution that overlaps.
`preview_id` is not compared with a preview, so previews play no part here.

Two goroutines that fund gas read the same pending nonce. Then either one is
refused, or, when the price of gas has risen in between, its transaction replaces
the other's, which is reported as `gas_funded_eth` (`GasFunded` is set before the
receipt, `sweep.go:174`) though it is never mined. The properties hold nevertheless
because what was replaced is counted with what failed, and the address is
found again by the next sweep.

### Access

The requests of one API key, as many as `Requests` at once, on their way to the
chat handler.

* Postgres is `row`, the row of the key: whether it is active and its limit. The
  dashboard edits it (`ChangeKey`); a key that is deleted is one that is not active.
* Redis is `cache` (the copy, with the time its row was read), `cacheUntil`, the
  sorted set `zset` (how many members have each score) and `zsetUntil`.
* A request is `pc`, `data` (the key data in its context) and `at`, when it made the
  reading it is about to use. `now` is the clock in seconds.
* `counted` and `admitted` record the requests of each second for the properties.

| Code | Actions |
|---|---|
| `GetAPIKeyFromCache` and the test of `IsActive` | `Hit`, `Miss` |
| `GetAPIKeyByHash`, the 401 | `GetAPIKeyByHash`, `Deny` |
| `CacheAPIKey` | `CacheAPIKey` |
| the clock, the pipeline, the comparison with the limit | `Limited`, `Pipeline`, `Admit`, `Refuse`, `FailOpen` |
| `InternalChatHandler.Handle`, `GetAPIKeyByIDAndUser` | `Playground` |
| around it | `ChangeKey`, `InvalidateAPIKeyCache`, `Tick` |

The playground takes its key from Postgres, without the copy, and goes to the rate
limiter. The other endpoints behind the shared token are the deposit address
(`AddressManager`) and the sweep (`Sweep`).

A request uses what it read within `Patience` seconds; the code has no such bound,
and without one there is no bound on revocation. The members of the set are taken
to be unique: `reqCounter` is unique in a process, so two gateways on one Redis, or a
restart within a second, may enter the same member and count one request less.
Nothing in `src/` calls `InvalidateAPIKeyCache` but tests. If the dashboard deletes the
copy, a request that has read the row before may still put it back, so a change need
not "take effect immediately" (`apikeys.go:92-93`); hence the bound of
`RevocationBounded`, which is reached.

### KeyPool

The pool of one provider and the calls that take a key from it.

* The pool is `remaining` and `lastUsed` of each key; a call is `pc`, `key` and
  `header`, the number that its answer brings.
* The upstream is external: `left` is what a key may do in the window, `unseen` how
  many calls it counted without the answer saying so.

| Code | Actions |
|---|---|
| `Select`, the request | `Select` |
| the error paths, `UpdateFromHeaders` | `Return` |
| around it | `Serve`, `Reject`, `WindowReset`, `Tick` |

`MarkError` is left out: nothing but tests reads the number. `Reserve` says how far
below `minRemaining` a key can get: by n(n+1)/2 calls when n run at once, which
TLC reaches for 2, 3 and 4 calls and the proof shows for every number. With the threshold
of 100, 14 calls at once can use up the whole reserve.

### PriceRules

The arithmetic of prices, without state: what a quote makes of a model
(`calculateUserPrice`), what a usage costs (`Cost`), and what reconciliation thinks of
the sums (`evaluateMargin`). All three of the code's cost formulas are `Cost` with other
rates. `NoFalseAlarm` applies the policy of reconciliation to single requests: a window
is a sum of them, and both conditions of the policy pass to sums. The charge of the
provider is `market_cost`, as in `ReconcileWindow`; its fallback to `upstream_cost` for
records without one is not modelled.

### Prices

One curated model of one provider. `quote` is what the market feed says, `row` and
`cache` the price in Postgres and Redis; the worker is `step` and `offer`; a request is
`pc` and `price`. `posted` records what Postgres has had.

| Code | Actions and operators |
|---|---|
| `FetchPricing` (feed) | `FetchPricing` |
| `calculateUserPrice` | `PriceRules` |
| `updatePrices` | `Upsert`, `UpsertFails`, `CachePrice`, `CachePriceFails` |
| `GetCachedPrice` | `Hit`, `Miss`, `ReadRow`, `NotFound`, `Fill` |
| around it | `NewQuote`, `Expire`, `Charge` |

Prices are integers, with quotes for which no division has a remainder (`Exact`): what a
float rounds away is not modelled. `MarginKept` needs `Proportional` quotes. The code
derives one discount from the input prices and applies it to output
(`sync.go:31-32`), so a model whose output is discounted less than its input may be sold
below what the provider takes, as is one whose market price is above the reference.

## The runs

Passing runs:

| Run | Instance | What it shows |
|---|---|---|
| `wallet` | 2 requests with estimate 2 and costs 1 and 3, a wallet of 3, a deposit, every fault, expiry under holds | the wallet is never overdrawn, the books balance, the ledger is implemented; holds are backed, cached balances conservative, nothing overcommitted and nothing served for nothing, but for what is `blind` |
| `live` | 2 requests with estimate 2 and costs 1 and 2, a wallet of 4, daily limit 4, monthly limit 3, no deposits; disconnects, Postgres errors, crashes; expiry at any moment; fairness | trackers never understate and are exact at rest but for what requests left that were cut short; no request is admitted beyond a limit by what was recorded or tracked before its check; every request ends; stale balances go away unless a request was cut short |
| `stream` | a stream or a body of up to 4 lines, 5 kinds of chunks, 2 lines in flight, fairness | billed as reported, no cost lost, the same events for the client line for line, every answer settled |
| `addresses` | 3 calls, 2 users, 5 rows, 2 attempts, failing queries, lost answers | the book is implemented (hence the first address of a user stays the first), few addresses, calls give up for cause |
| `deposits` | 2 monitors, 1 user, 2 transfers, 5 blocks, every fault but a failing cursor query and a failing credit | nothing is skipped, only final transfers are credited, once |
| `deposits_arrive` | 1 monitor, 2 users, 6 blocks, failing reads, fairness | every final deposit is credited, so none is skipped |
| `sweep` | 2 executions that may overlap, 1 address, 2 gas prices, deposits, every fault | nonces without gap; failed transfers and second fundings at most one for each overlap; true reports |
| `access` | 2 requests, window 3, copies for 2 seconds, limits 1 and 3 under a ceiling of 2, 6 seconds, 3 requests counted, every fault | a revoked key stops working in time, no window admits more than the ceiling, nobody is refused for old requests |
| `keypool` | 2 keys, 2 calls, quota 5, threshold 4, every fault | the healthiest key is selected, the reserve is kept but for the overrun |
| `prices` | 1 request, 6 quotes, 16 usages, every fault, fairness | no price above the reference, the margin for proportional quotes, no false alarm of reconciliation, only prices that were posted, prices follow the market |

Two requests are enough for every race between a step of one request and any
steps of the others that the properties distinguish (the theorems below cover any
number). In `wallet` the wallet of 3 covers one estimate of 2 and, with the deposit of 2,
both; the cost of 3 is above the estimate, so that a settlement may find the wallet
short. In `live` the monthly limit of 3 lets one request pass and refuses the second while
the first is in flight or cost 2, and lets it pass when that cost 1; the daily limit of 4 is
what both take together. `MaxLoaded` bounds deposits. Requests are
interchangeable, so `SYMMETRY` is used where no liveness is checked. Deadlock is
not checked because the supply of requests ends.

The constants of the monitor are scaled: chunks of 2 blocks, a window of 2, a
catch-up of 4, one confirmation. With 5 blocks a monitor bootstraps, catches up in
two chunks of which the second is cut off at the safe head, falls behind far enough
to jump, and a second monitor overlaps with all of that.

In `sweep` a unit of gas is what a transfer takes at the low price, and the treasury has
what two fundings cost at the high one. Two executions of one address fund it
twice, replace each other's transactions and let a transfer revert: TLC reaches the bound
of `FailuresByOverlap` with an overlap, and an address with twice the dear gas. Two addresses and two
executions are beyond TLC (more than 11 million states), so that the goroutines that
share the nonce of the treasury are here those of two executions, and the semaphore
(`Workers`) does not bind; the theorems cover any number of both.

In `access` a key is revoked while one request fills the copy and another acts on it,
and three requests fit in a window where two are allowed; `RevocationBounded` and
`RateRespected` are violated when their bounds are made one smaller, so the extreme
cases do happen. `keypool` reaches the bound of `Reserve` as well. In `prices` the six
quotes have a deep discount, one below the spread, none, a market above the
reference, a discount of input alone, and a free model; one request is enough to
race with the worker. With two requests the invariants hold as well (1.2 million
states, without fairness); the run has one so that liveness is checked in time.

In `stream` the chunks are one with `"usage":null`, one of the present form (byok, cost in
the details, cached tokens in two fields and more than the prompt), one of the old form
(cost beside the usage), one with a cost but no tokens and an exponent, and one that is
not JSON. Four lines hold any three of them and a blank line, in any order; two lines
in flight let the client leave, or the connection break, between any two steps. Deadlock
is checked: `Over` is the only way to stop. In `addresses` one more call than users
makes two calls of one user race with one of the other; two attempts are enough to
lose both, and five rows to let the last call that gave up try again. The numbers of
attempts and calls are parameters of the theorems.

Fairness (`stream`): weak fairness of the steps of the handler, since goroutines are
scheduled, and of `UpstreamBreaks`, which is disabled when the upstream ends by itself:
the client of the provider ends every call after 300 seconds.

Fairness (`live`): weak fairness of every step of a started request, since
goroutines are scheduled, commands have timeouts and the provider client gives up
after 300 seconds; and of `Expire`, since Redis expires keys. Clients, deposits and
faults are not fair. A request whose client leaves, or that dies with the gateway, between
the two commands of `engine.go:402-403` leaves a balance without a time to live, which
`ensureBalanceCache` finds for ever (`Abandoned`): `CacheEventuallyFresh` says that this is the
only way for a stale balance to stay. It holds because traffic ends: every
settlement refreshes the TTL (`engine.go:403`), so endless traffic may keep a
stale balance, a case the model does not contain. The faults left out of `live` are
those that break `TrackerCovers` (`redis`, `loss`, `rollover`, `underestimate`).

Fairness (`deposits_arrive`): weak fairness of the steps of a cycle, since the
ticker starts one every 15 seconds and every call has a timeout; strong fairness of
`ReadAddresses` and `FilterLogs`: a read that is tried again and again succeeds at
some time. A head that cannot be read ends the cycle before anything happened,
which is a stutter.

Fairness (`prices`): the ticker starts a sync again and again, an upsert and a SET that
are repeated succeed at some time (strong), and the steps of a request end. Nothing
is assumed about expiry. Fairness (`keypool_outage`): calls end, since the client gives
up after 300 seconds, windows begin anew, and there is always another request.

Each property has a mutant: a definition whose name begins with `Bad`, next to the
one it replaces, with which TLC finds the property violated.

Runs that TLC finds violated, disagreements between the code and its own words (quoted
in `PROJECT.json`):

| Run | What the code does |
|---|---|
| `keypool_outage` | a key below the threshold is never asked again: the pool runs dry for good |
| `stream_exponent` | a cost with an exponent is cut in two, and the rest of the number damages the line |

Three more are not violated only because the properties name them:

* A refresh keeps the holds of `PreCheck` (`engine.go:399-401`) but gives the hash that has
  them five seconds to live (`engine.go:403`), while a request may take 300: when it
  expires its hold is forgotten, more is admitted than the wallet covers, and the release
  makes the held amount negative. `PromisesCovered` and `ServedIsPaid` have `blind` for it.
* The "5s TTL cache" (`engine.go:290`) is set by two commands under the context of the
  request; `CacheEventuallyFresh` has `Abandoned`. A failed request whose client left keeps its
  estimate in the trackers, since `chat.go:127` releases it with the cancelled context;
  `SpendExact` has `LeftOver`.
* "Sweep rate limited" keeps executions five minutes apart by their starts
  (`handler/sweep.go:124`), not from overlapping; `FailuresByOverlap`, `GasFundedOnce` and
  `ReportsTrue` have `overlaps`.

Others, of the same kind, that have no run here. TLC shows each of the first group with
`BillingEngine` or `DepositMonitor` when `Faults` is the set that is named and the
property is one of the module:

* `credit`, `NothingSkipped`: when the transaction of `creditDeposit` fails
  (`monitor.go:353-390`) the error is logged, the cursor moves to the end of the chunk
  (`monitor.go:270`) and the deposit is not looked at again, though "a monitor outage never
  loses deposits" (`monitor.go:183-185`).
* no fault, `NothingSkipped` with a `TxOf` that gives two transfers one transaction: a
  duplicate hash is taken for "Already credited" (`monitor.go:366`), so that the second
  deposit of a batch payout is credited to nobody.
* `rollover`, `SpendExact`: a request that fails after midnight makes the tracker of the
  new day negative (`engine.go:267`), and since there is a tracker, the "authoritative
  sum" in Postgres (`engine.go:258-260`) is not consulted any more that day.
* no fault: two requests that check the daily limit (`engine.go:174`) before either adds
  its estimate (`engine.go:243`) exceed it together, though `README.md:3` promises
  "hard spend limits": `recorded[p] <= Limit[p]` is no invariant. What holds is
  `AdmittedWithinLimit`: a request is refused for all that was recorded or in the tracker
  when it was checked.
* `loss`, `SpendExact`: a tracker that Redis lost is recreated from one estimate without
  the recorded sum (`engine.go:243`).
* `cursor`, `NothingSkipped`: one failing query of the cursor is taken for a first run
  and the scan starts at the bootstrap window (`monitor.go:160-167`).
* `backfill`: a cursor that an operator sets to 0 for a full backfill (`monitor.go:38`)
  is fast-forwarded by the next cycle.

A second group concerns the answers and the lists:

* A client that leaves a stream before its last chunk is billed nothing for what the
  upstream has produced: the call has the context of the request (`client.go:102`), so
  that the usage never arrives, and the settlement that "must complete regardless"
  (`chat.go:222-224`) is one of 0 tokens. So is a stream with a line of more than 1 MB,
  at which the scanner stops (`chat.go:169`).
* The blank line that ends the event `[DONE]` is not passed on (`chat.go:208-210`), though
  blank lines are "ALWAYS" forwarded (`chat.go:176`) because a strict parser waits for
  them. `EventsFaithful` therefore leaves out that event.
* A cost that is an object with an object inside is not cut out by `stripValue`
  (`masking/body.go:39`) at all. The line with a cost that has an exponent has a run
  (`stream_exponent`); in the model it arrives `damaged`, and `EventsFaithful` says nothing of what
  is left of it.
* A cost at the top level of a chunk in whose text `"usage"` does not occur is not looked
  at (`chat.go:193`), though `usage_capture.go:52-53` is meant for that form.
* A model with a discount below half the spread is sold at its reference price, and
  reconciliation calls that `margin_below_expected` whatever was used; hence the last
  condition of `NoFalseAlarm`.
* "margin must never be structurally negative" (`market_cost_test.go:57-58`), but the output
  price is made from the discount of the input (`sync.go:31-32`): with a quote that
  discounts output less than input, the provider may take more than the user pays.
  `MarginKept` is stated for `Proportional` quotes.
* "At most 12 list queries per hour no matter how hard the public endpoint is hit"
  (`models.go:35-39`): the lock is not held during the query, so that all requests that
  arrive while it runs, after the list has expired, query too.

And after a settlement the whole estimate stays in `held` until the hash expires,
though `engine.go:271` speaks of adjusting the hold; the proofs below need that it does.

## What is proved

Every theorem holds for all values of the constants that the module's
`ConstantsAssumption` allows (`ChatAssumption` in `ChatStream`; `ExactAssumption` besides
where it says so): any number
of requests, calls, keys, users, addresses, executions, monitors or lines, any amounts, and,
unless it says otherwise, every set of faults. TLC evaluates the assumptions in every run.
The assumptions are those of the code's own types and configuration, and some that only
the proofs need: `Calls` is finite, a window is at least a second, and in `Sweep` the price
of gas is bounded and a transfer takes gas.

| Module | Theorems | Properties |
|---|---|---|
| `BillingEngineProofs` | `TypeCorrect`, `WalletCorrect`, `LedgerImplemented` | `TypeOK`, `WalletConserved`, `ImplementsLedger` |
| | `HoldsSuffice`, `AdmittedIsPaid` | `PromisesCovered`, `ServedIsPaid` |
| | `TrackersCover`, `LimitsRespected`, `SpendIsExact` (under `Accounted`) | `TrackerCovers`, `AdmittedWithinLimit`, `SpendExact` |
| `DepositProofs` | `TypeCorrect`, `LedgerImplemented`, `AccountsCorrect` | `TypeOK`, `CreditsFollowLedger`, `Accounted` |
| | `NothingIsSkipped` (under `Calm`) | `NothingSkipped` |
| `AddressProofs` | `TypeCorrect`, `BookImplemented`, `AddressKept`, `AddressesFew`, `GivingUpHasCause` | `TypeOK`, `ImplementsBook`, `AddressStable`, `FewAddresses`, `GivesUpForCause` |
| `SweepProofs` | `TypeCorrect`, `NoncesConsecutive`, `FailuresBounded`, `GasByOverlap`, `ReportsAreTrue` | `TypeOK`, `NoNonceGap`, `FailuresByOverlap`, `GasFundedOnce`, `ReportsTrue` |
| `AccessProofs` | `TypeCorrect`, `RevocationIsBounded`, `RateIsRespected`, `RefusalsHaveCause` | `TypeOK`, `RevocationBounded`, `RateRespected`, `RefusedForCause` |
| `KeyPoolProofs` | `TypeCorrect`, `SelectionIsHealthiest`, `ReserveIsKept` | `TypeOK`, `SelectsHealthiest`, `Reserve` |
| `ChargeProofs` | `TypeCorrect`, `PostedFirst`, `ReferenceIsCeiling`, `MarginIsKept`, `NoAlarmIsFalse` | `TypeOK`, `PricesPosted`, `NeverAboveReference`, `MarginKept`, `NoFalseAlarm` |
| | `ChatTypeCorrect`, `AnswersBilled`, `ClientFollows` | `ChatTypeOK`, `BilledAsReported`, `EventsFaithful` |

Sums are cardinalities (`Money`), so the lemmas about them (`MoneyTheorems`) follow from
the theorems about finite sets without induction.

### Billing

`TypeCorrect` needs `Phases`: a request has a cost from the answer of the provider on, and
a usage record only from its settlement on. For `WalletCorrect` only `TopUp`, `Call` and
`Settle` concern the books (`BookActions`); `Charge` turns one amount of the sum `Billed`
from 0 into the cost (`TotalChange`). `LedgerImplemented` needs `WalletKnown` (an admitted
request has a wallet row), since otherwise the UPDATE could miss for lack of a row and
waive a request that costs nothing.

Holds, under every fault: `NoOvercommit` is not inductive, as it does not say
why the next decision of `PreCheck` is right. What the hash shows, and what escaped it
(`Shown`), covers the estimates of the requests that hold, and what it has beyond them
(leaked holds, and those of settled requests) never shrinks but when the hash goes away with
nobody holding (`RoomKept`); so every balance a request may act on, less what is shown, is at most what
the wallet has beyond the holds in force (`ViewsConservative`). A step of a request takes no more of that room than its own
hold, or it escapes (`StepKeepsRoom`). The three parts of `PromisesCovered`, and that a
request settles on a context of its own (`Detached`), are the invariant `HoldInv`. A stale
balance is harmless only because a settled request leaves its estimate in `held`: the
mutant `BadRefund`, which releases the hold at settlement as the comment of
`FinalizeDeduction` suggests, breaks it. What the theorems do not say is that `blind` stays
small; it is 0 as long as no hash expires or is lost under a hold, no held amount is
unreadable, and no cost exceeds its estimate, and then they promise without reserve.

Limits, under `Accounted`: Redis does not fail or lose the trackers, no day or month ends
meanwhile, and costs stay within estimates. Disconnects, crashes, Postgres errors and
expiry are allowed. The invariant is `LimitInv`: each tracker is at least
what was recorded and what the requests in flight owe it (`Owed`), which a request
pays back period by period (`todo`), so a request that is cut short between two periods
leaves too much there and never too little. That a request is charged no more than
its estimate (`Adjusting`) is part of the invariant because the difference is given back
only after the charge. Each of the excluded faults breaks `TrackerCovers`. `SpendIsExact`
needs the other direction as well: what a tracker has beyond the records and debts, its
`Slack`, is at most what requests that were cut short left there (`TrackerBounded`), which needs
that a request in flight leaves out no period (`Thorough`).

### Deposits and addresses

`DepositProofs`: a log that is about to be processed is in the chain wherever it is
deep enough to be credited, and the unique index makes the booking of a hash
happen once. `NothingIsSkipped` holds under `Calm`: the cursor
query and the credits do not fail, and no two transfers share a transaction.
Reorganisations, old heads, failing reads and saves, crashes, several monitors and
an operator are allowed. The argument: the addresses are read after the head, so
the owner of every transfer up to the safe head is among them; the blocks up to
the safe head are settled, so the logs that were read stay true; hence all blocks
before `from` are done, and stay done, whoever else writes the cursor. The cursor
only ever takes a value that some monitor has done. The order of the two reads is
what `monitor.go:219-221` insists on; `BadFinishChunk` breaks it.

`AddressProofs`: the indices in use have no gap below them. An index
is tried only when all below it were in use, rows are never deleted, so it is either the
next one or taken when the INSERT comes. A call that finds its user at an index may
therefore tell him so, and a row that is added comes after all that were there.
`FewAddresses` is not inductive: a call that is about to insert adds a row. Each row of a
user and each of his calls that may still insert takes one place, of which there are as many as
calls (`PlacesKept`). For `GivesUpForCause` a call has lost an index for each attempt
before the one it is at (`Trying`), each below the one it tries, so that they are different.

### Sweep

`SweepInv` has the chain and the goroutines in one invariant, since neither is right
without the other. An account can pay for its transactions that wait (`Solvent`), which
have one nonce each, from that of the account on (`Consecutive`); a nonce that
was read some steps ago may be taken but skips none (`NonceKnown`). A goroutine sends
one transaction of each kind, and is past it when a node has it (`Once`). Nothing is
assumed about the time between executions.

`FailuresBounded` counts, for an address, the transfers that failed and the executions that
may yet move its tokens, by a goroutine or by a transfer that waits (`Open`): together at
most one more than `overlaps`, because an execution that starts while there is such
another is an overlap. That does not suffice, since the last of them might still fail; so the
invariant `FewFail` says also that while one of them means to move more than there is (`AtRisk`),
they are at most `overlaps`: balances only fall when a transfer is mined, and that closes an
execution.

`GasByOverlap` counts the funding that waits and the executions that may yet ask for it
(`Claims`) in the same way (`FewClaims`). What an address has, is to have, and is about to be
sent stays below one transfer, at the highest price, for each of them and one more
(`GasBelow`): funding follows a reading below what one transfer takes.

`ReportsAreTrue`: a `TxHash` is that of a transfer of the amount that is reported (`HashTrue`), the
sum over the goroutines of an execution is one over different transactions
(`TotalInjection`), and transactions that a node has taken stay known. Without an overlap
`FailuresBounded` says that none of them failed, so they wait or have moved it.

### Access

Revocation: a copy expires no later than `KeyTTL + Patience` after its row was
read, because the request that wrote it had read the row at most `Patience` before; and
a request that counts took its data while they were that fresh, and acts on
them at most `Patience` later (`Fresh`).

The window: the members of the set are scored by clocks that were read before, and
pruned by clocks that are late too. That the set has as many members as were
admitted in the window is not inductive, since it does not say which of them go when
time passes. `AdmittedInSet` says it of every tail: from any time on the set has as many members as
were admitted `Patience` later. `SetWasCounted` is the other direction, for
`RefusedForCause`: from any time on as many were counted as are members. The set itself does
not expire while a member matters (`Alive`).

### Key pool

`Select` is a loop, so what it finds needs an induction over the keys. The theorem of the
library about it takes an operator as a parameter; `Induction` is the same for a set, from the
well-foundedness of `<`, and serves for the existence of the recursive function, for the
invariant of the loop (`LoopInv`: the best so far is the healthiest of the keys seen) and for
the monotony of triangular numbers.

`Reserve` is far from inductive. Of the n calls let m be those that are not bringing an
answer that will make the key usable (`Fresh`). The invariant `Slack` is that the key
has at least `MinRemaining - Tri(m)` left, and on top, while it is usable, one for each of
the m whose answer will not exhaust it (each may still be sent), or, while it
is exhausted, one for each call already sent. An answer that revives the key raises m by
one, and `Tri(m)` by m + 1, which is what the key may then lose.

### Prices

What is in Postgres, in the cache, on offer or charged by is a price made from a quote that was listed
(`PriceInv`), and all but the offer was in Postgres (`posted`). The rest is arithmetic: the spread
lowers a discount, so no rate of the user is above its reference, and `Cost` is monotone in the
rates for every usage, also when the number of cached tokens is beyond the prompt or negative.
These hold with rounding. `MarginIsKept` and `NoAlarmIsFalse` compare with what the provider
takes to the unit and need `ExactAssumption`: quotes for which the divisions of
`calculateUserPrice` have no remainder, as the code divides floats.

### Answers

`AnswersBilled`: at any time of a stream `usage` is that of the last of the lines read that
reported tokens, and `cost` is positive if one of them reported a charge (`UsageCaptured`,
`CostCaptured`). That says nothing of lines that are not read; a stream that is `complete`
has none but the blank ones after `[DONE]` (`ReadToEnd`, `DoneLast`). A body is one line, and
what is settled is what it says (`OneBody`). Which of four fields has the cost is decided by
`FirstPositive`, whose minimum `FirstOfFour` works out case by case.

`ClientFollows` is about what a client makes of lines, `Dispatched`, a recursive function
whose existence is shown by induction (`TakingExists`, `TakingLines`). The invariant
`Followed` runs the parser on both sides: for some k the events taken from `got` are those of
the first k lines of `sent`, cleaned; while the client is there, k is the number of lines that
were read, and until the end the event that is still open agrees as well. After the client
has gone k stays, which is why it is bound by a quantifier and not a variable. A line that is cut
only adds to an open event, which the client never dispatches. The rest is about the parser: events
once taken stay (`TakenGrows`), and lines after `[DONE]` add none without it
(`TakenAfterDone`). `BadPassedOn`, a gateway that leaves out blank lines, breaks `SameStep`.
That a line lacks the settlement fields and nothing else is `SanitizedUnharmed`, a lemma about
lines without an exponent: those are the ones of which the theorem says so.

### Only model-checked

* Liveness (`RequestsEnd`, `CacheEventuallyFresh`, `DepositsArrive`, `PriceFollowsMarket`,
  `AlwaysSettled`, and the violated `PoolRecovers`): fairness and ENABLED are out of the
  prover's reach.

Every other property that the runs check is stated by a theorem.

## Plan

1. Done: `Money`, `WalletLedger`, `BillingEngine`, their runs and proofs.
2. Done: `DepositLedger`, `DepositMonitor`, their runs and proofs.
3. Done: `Sweep`, its run and proofs.
4. Done: `Access`, `KeyPool`, `AddressBook` and `AddressManager`, their runs and proofs.
5. Done: `PriceRules`, `Prices` and `ChatStream`, their runs and proofs.

## Not modelled

* HD derivation is arithmetic without state; configuration and catalog are constants; the
  operator tools are one-shot programs that share no state with the services; logging and
  error texts are text.
* The models list is a cache in the memory of one process that only its readers see. It is
  as old as its time to live and its query together; the one claim about it that
  interleavings break is in the list above.
* Request bodies: parsing, `buildForwardBody` and the estimate are functions of the body,
  and the estimate is an input of `BillingEngine`.
* The registry with its market cache, the deactivation of models outside the catalog,
  previews of sweeps, and `cmd/sweep` (but see the overlaps in `Sweep`).
* In `BillingEngine`, several keys of one user and several gateways; in `Access`, several
  gateways; rounding of money everywhere.
