------------------------------- MODULE Access -------------------------------
(***************************************************************************)
(* The middleware in front of the chat handler, for the requests of one    *)
(* API key: authentication through a copy of the key in Redis              *)
(* (middleware/auth.go, store/apikeys.go), or by its id for the dashboard  *)
(* (handler/internal.go), and the sliding window of the rate limiter       *)
(* (middleware/ratelimit.go).                                              *)
(*                                                                         *)
(* A request acts on what it has read before: on a row of Postgres that it *)
(* is about to cache, and on a clock that it read before its pipeline is   *)
(* executed.  Such a reading gets at most Patience seconds old.            *)
(*                                                                         *)
(* The dashboard, which changes keys, is external.  It may or may not      *)
(* invalidate the copy; nothing in the gateway does.                       *)
(***************************************************************************)
EXTENDS Money

CONSTANTS
    Requests,       \* requests that may be in progress at once
    Limits,         \* values of rate_limit_rpm
    HardCap,        \* the ceiling, 3000 in the code
    Window,         \* length of the window, 60 seconds
    KeyTTL,         \* life of the copy, 300 seconds
    Patience,       \* how old a reading gets before it is used
    MaxTime,        \* bound on the clock, in seconds
    MaxRequests,    \* bound on how many requests are counted
    Faults,         \* which of FaultKinds may happen
    None

FaultKinds == {"redis", "postgres"}

Rows == [active : BOOLEAN, limit : Limits]

Times == 1..MaxTime

(* Key data, with the time when they were read from Postgres.              *)
KeyData == [row : Rows, read : Times]

ASSUME ConstantsAssumption ==
    /\ Limits \subseteq Nat
    /\ HardCap \in Nat
    /\ Window \in Nat \ {0}
    /\ KeyTTL \in Nat \ {0}
    /\ Patience \in Nat
    /\ MaxTime \in Nat \ {0}
    /\ MaxRequests \in Nat
    /\ Faults \subseteq FaultKinds
    /\ None \notin KeyData

VARIABLES
    now,            \* the time
    row,            \* Postgres: the row of the key in api_keys
    cache,          \* Redis: apikey:<hash>
    cacheUntil,     \* when the copy expires
    zset,           \* Redis: how many members of ratelimit:<user>:<key> have each score
    zsetUntil,      \* when the set expires
    pc,             \* where a request is: idle, missed, fill, count
    data,           \* the key data a request goes by, and when Postgres had them
    at,             \* when it made the reading it is about to use
    counted,        \* requests counted at each time
    admitted        \* those of them that were let through

copy == <<cache, cacheUntil>>
window == <<zset, zsetUntil>>
totals == <<counted, admitted>>
request == <<pc, data, at>>
vars == <<now, row, copy, window, request, totals>>

(* The key data that were read so far, and those that may be trusted.      *)
Known == {d \in KeyData : d.read <= now}
KnownActive == {d \in Known : d.row.active}

TypeOK ==
    /\ now \in Times
    /\ row \in Rows
    /\ cache \in KnownActive \cup {None}
    /\ cacheUntil \in Nat
    /\ zset \in [Times -> Nat]
    /\ zsetUntil \in Nat
    /\ pc \in [Requests -> {"idle", "missed", "fill", "count"}]
    /\ data \in [Requests -> Known \cup {None}]
    /\ at \in [Requests -> 0..now]
    /\ counted \in [Times -> Nat]
    /\ admitted \in [Times -> Nat]

Init ==
    /\ now = 1
    /\ row \in {d \in Rows : d.active}
    /\ cache = None
    /\ cacheUntil = 0
    /\ zset = [t \in Times |-> 0]
    /\ zsetUntil = 0
    /\ pc = [r \in Requests |-> "idle"]
    /\ data = [r \in Requests |-> None]
    /\ at = [r \in Requests |-> 0]
    /\ counted = [t \in Times |-> 0]
    /\ admitted = [t \in Times |-> 0]

(* The sum of f over the times from a to b.                                *)
Count(f, a, b) == Total([t \in {u \in Times : a <= u /\ u <= b} |-> f[t]])

InProgress == {r \in Requests : pc[r] # "idle"}

Begins(r) ==
    /\ pc[r] = "idle"
    /\ Count(counted, 1, MaxTime) + Cardinality(InProgress) < MaxRequests

-----------------------------------------------------------------------------
(* Authentication.                                                         *)

(* The request goes on to the limiter, which looks at the clock first.     *)
Limited(r, d) ==
    /\ pc' = [pc EXCEPT ![r] = "count"]
    /\ data' = [data EXCEPT ![r] = d]
    /\ at' = [at EXCEPT ![r] = now]

Trusted == cache # None /\ cache.row.active

Hit(r) ==
    /\ Begins(r)
    /\ Trusted
    /\ Limited(r, cache)
    /\ UNCHANGED <<now, row, copy, window, totals>>

Miss(r) ==
    /\ Begins(r)
    /\ ~Trusted \/ "redis" \in Faults
    /\ pc' = [pc EXCEPT ![r] = "missed"]
    /\ at' = [at EXCEPT ![r] = now]
    /\ UNCHANGED <<now, row, copy, window, data, totals>>

Valid == row.active

BadGetAPIKeyByHash(r) ==
    /\ pc[r] = "missed"
    /\ pc' = [pc EXCEPT ![r] = "fill"]
    /\ data' = [data EXCEPT ![r] = [row |-> row, read |-> now]]
    /\ at' = [at EXCEPT ![r] = now]
    /\ UNCHANGED <<now, row, copy, window, totals>>

GetAPIKeyByHash(r) ==
    /\ pc[r] = "missed"
    /\ Valid
    /\ pc' = [pc EXCEPT ![r] = "fill"]
    /\ data' = [data EXCEPT ![r] = [row |-> row, read |-> now]]
    /\ at' = [at EXCEPT ![r] = now]
    /\ UNCHANGED <<now, row, copy, window, totals>>

(* An error of the query is a 401 like a key that is not active.           *)
Deny(r) ==
    /\ pc[r] = "missed"
    /\ ~Valid \/ "postgres" \in Faults
    /\ pc' = [pc EXCEPT ![r] = "idle"]
    /\ at' = [at EXCEPT ![r] = 0]
    /\ UNCHANGED <<now, row, copy, window, data, totals>>

BadSetCopy(d) == cache' = d /\ cacheUntil' = MaxTime + 1
SetCopy(d) == cache' = d /\ cacheUntil' = now + KeyTTL

CacheAPIKey(r) ==
    /\ pc[r] = "fill"
    /\ \/ SetCopy(data[r])
       \/ "redis" \in Faults /\ UNCHANGED copy
    /\ Limited(r, data[r])
    /\ UNCHANGED <<now, row, window, totals>>

(* The internal endpoint of the dashboard names the key by its id: its row *)
(* is read from Postgres (internal.go), and an inactive key or an error is *)
(* a 400 that changes nothing.                                             *)
Playground(r) ==
    /\ Begins(r)
    /\ Valid
    /\ Limited(r, [row |-> row, read |-> now])
    /\ UNCHANGED <<now, row, copy, window, totals>>

-----------------------------------------------------------------------------
(* The rate limiter.                                                       *)

BadMember(f, t) == [f EXCEPT ![t] = 1]

(* Every request adds a member of its own.                                 *)
Member(f, t) == [f EXCEPT ![t] = @ + 1]

BadPruned(f, t) == f
Pruned(f, t) == [s \in Times |-> IF s <= t - Window THEN 0 ELSE f[s]]

(* The transaction: prune, add, count, set the time to live.               *)
Pipeline(r) ==
    /\ zset' = Member(Pruned(zset, at[r]), at[r])
    /\ zsetUntil' = now + Window
    /\ counted' = [counted EXCEPT ![now] = @ + 1]

Limit(r) == IF data[r].row.limit > HardCap THEN HardCap ELSE data[r].row.limit

Leave(r) ==
    /\ pc' = [pc EXCEPT ![r] = "idle"]
    /\ data' = [data EXCEPT ![r] = None]
    /\ at' = [at EXCEPT ![r] = 0]
    /\ UNCHANGED <<now, row, copy>>

Admit(r) ==
    /\ pc[r] = "count"
    /\ Pipeline(r)
    /\ Count(zset', 1, MaxTime) <= Limit(r)
    /\ admitted' = [admitted EXCEPT ![now] = @ + 1]
    /\ Leave(r)

Refuse(r) ==
    /\ pc[r] = "count"
    /\ Pipeline(r)
    /\ Count(zset', 1, MaxTime) > Limit(r)
    /\ UNCHANGED admitted
    /\ Leave(r)

(* The pipeline fails, or its answer is lost: the request is let through.  *)
FailOpen(r) ==
    /\ "redis" \in Faults
    /\ pc[r] = "count"
    /\ \/ Pipeline(r)
       \/ UNCHANGED <<window, counted>>
    /\ UNCHANGED admitted
    /\ Leave(r)

Handler(r) ==
    \/ Hit(r) \/ Miss(r) \/ GetAPIKeyByHash(r) \/ Deny(r) \/ CacheAPIKey(r)
    \/ Playground(r) \/ Admit(r) \/ Refuse(r) \/ FailOpen(r)

-----------------------------------------------------------------------------
(* The environment.                                                        *)

(* The owner revokes or restores the key, or its limit changes.            *)
ChangeKey ==
    /\ row' \in Rows \ {row}
    /\ UNCHANGED <<now, copy, window, request, totals>>

InvalidateAPIKeyCache ==
    /\ cache' = None
    /\ cacheUntil' = 0
    /\ UNCHANGED <<now, row, window, request, totals>>

(* A second passes, and Redis drops what has expired.                      *)
Tick ==
    /\ now < MaxTime
    /\ \A r \in InProgress : now < at[r] + Patience
    /\ now' = now + 1
    /\ IF now' < cacheUntil THEN UNCHANGED copy ELSE cache' = None /\ cacheUntil' = 0
    /\ IF now' < zsetUntil THEN UNCHANGED window
       ELSE zset' = [t \in Times |-> 0] /\ zsetUntil' = 0
    /\ UNCHANGED <<row, request, totals>>

Next ==
    \/ \E r \in Requests : Handler(r)
    \/ ChangeKey \/ InvalidateAPIKeyCache \/ Tick

Spec == Init /\ [][Next]_vars

-----------------------------------------------------------------------------
(* Properties.                                                             *)

(* A revoked key stops working, and a new limit begins to hold, in bounded *)
(* time: the life of the copy, and what one request takes to cache a row   *)
(* it has read before, and another to act on the copy.  An invalidation    *)
(* does not make it faster, since a request may cache what it read before. *)
(* (auth.go:72, apikeys.go:92-93)                                          *)
RevocationBounded ==
    \A r \in Requests : pc[r] = "count" => now < data[r].read + KeyTTL + 2 * Patience

(* Over any stretch of Window seconds, less what the clock of a request is *)
(* late, the key gets no more than its ceiling (ratelimit.go:61-65),       *)
(* however its row is edited; requests that Redis fails to count excepted. *)
RateRespected ==
    \A t \in Times : Count(admitted, t - Window + Patience + 1, t) <= HardCap

(* A request is refused for requests of the last minute only: whoever      *)
(* waits as long as Retry-After says is served (ratelimit.go:75).          *)
RefusedForCause ==
    [][\A r \in Requests :
          Refuse(r) => Count(counted', now - Window - Patience + 1, now) > Limit(r)]_vars
=============================================================================
