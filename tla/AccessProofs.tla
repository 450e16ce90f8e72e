---------------------------- MODULE AccessProofs ----------------------------
(***************************************************************************)
(* Proofs about Access: types, that a revoked key stops working, that the  *)
(* limiter admits no more than the ceiling, and that it refuses nobody for *)
(* requests of long ago.                                                   *)
(***************************************************************************)
EXTENDS Access, MoneyTheorems

(* A reading is used while it is fresh, and the copy is never older than   *)
(* the reading that filled it allows.                                      *)
CopyFresh ==
    cache # None => now < cacheUntil /\ cacheUntil <= cache.read + Patience + KeyTTL

RequestFresh(r) ==
    /\ pc[r] # "idle" => now <= at[r] + Patience
    /\ pc[r] = "fill" => data[r] # None /\ data[r].row.active
    /\ pc[r] = "count" => data[r] # None
    /\ pc[r] = "fill" => at[r] = data[r].read
    /\ pc[r] = "count" => at[r] < data[r].read + Patience + KeyTTL

Fresh ==
    /\ TypeOK
    /\ CopyFresh
    /\ \A r \in Requests : RequestFresh(r)

LEMMA FreshInit == Init => Fresh
<1> SUFFICES ASSUME Init PROVE Fresh
  OBVIOUS
<1> USE ConstantsAssumption DEF ConstantsAssumption
<1>1. TypeOK
  BY DEF Init, TypeOK, Times
<1> QED
  BY <1>1 DEF Init, Fresh, CopyFresh, RequestFresh

LEMMA DataType ==
    ASSUME TypeOK
    PROVE  /\ now \in Nat
           /\ \A d \in Known : d \in KeyData /\ d.read \in Nat /\ d.read <= now /\ d # None
           /\ cache # None => cache \in Known /\ cache \in KnownActive
           /\ \A r \in Requests : at[r] \in Nat /\ (data[r] # None => data[r] \in Known)
<1> USE ConstantsAssumption DEF ConstantsAssumption
<1>1. now \in Nat
  BY DEF TypeOK, Times
<1>2. \A d \in Known : d \in KeyData /\ d.read \in Nat /\ d.read <= now /\ d # None
  BY DEF Known, KeyData, Times
<1>3. \A r \in Requests : at[r] \in Nat
  BY <1>1 DEF TypeOK
<1> QED
  BY <1>1, <1>2, <1>3 DEF TypeOK, KnownActive

(* While the time stands still, what is known stays known.                 *)
LEMMA SameKnown == now' = now => Known' = Known /\ KnownActive' = KnownActive
BY DEF Known, KnownActive

(* What the actions of a request leave alone keeps the other requests      *)
(* fresh, as long as the time stands still.                                *)
LEMMA OthersFresh ==
    ASSUME Fresh, NEW r \in Requests, now' = now,
           \A q \in Requests \ {r} :
              pc'[q] = pc[q] /\ data'[q] = data[q] /\ at'[q] = at[q]
    PROVE  \A q \in Requests \ {r} : RequestFresh(q)'
BY DEF Fresh, RequestFresh

LEMMA AuthenticationFresh ==
    ASSUME Fresh, NEW r \in Requests,
           \/ Hit(r) \/ Miss(r) \/ GetAPIKeyByHash(r) \/ Deny(r) \/ CacheAPIKey(r)
           \/ Playground(r)
    PROVE  Fresh'
<1> USE ConstantsAssumption DEF ConstantsAssumption
<1>a. TypeOK
  BY DEF Fresh
<1>t. now' = now /\ Known' = Known /\ KnownActive' = KnownActive
  BY SameKnown DEF Hit, Miss, GetAPIKeyByHash, Deny, CacheAPIKey, Playground
<1>o. \A q \in Requests \ {r} : RequestFresh(q)'
  BY <1>a, <1>t, OthersFresh
     DEF Hit, Miss, GetAPIKeyByHash, Deny, CacheAPIKey, Playground, Limited, TypeOK
<1>n. now \in 0 .. now
  BY <1>a, DataType
<1>1. CASE Hit(r)
  <2>1. cache \in Known /\ cache.read \in Nat /\ cache # None
    BY <1>1, <1>a, DataType DEF Hit, Trusted
  <2>2. TypeOK'
    BY <1>1, <1>a, <1>t, <1>n, <2>1 DEF Hit, Limited, TypeOK, copy, window, totals
  <2>3. CopyFresh' /\ RequestFresh(r)'
    BY <1>1, <1>a, <1>t, <2>1, DataType
       DEF Hit, Limited, Fresh, CopyFresh, RequestFresh, TypeOK, copy
  <2> QED
    BY <1>o, <2>2, <2>3 DEF Fresh
<1>2. CASE Miss(r)
  <2>1. TypeOK'
    BY <1>2, <1>a, <1>t, <1>n DEF Miss, TypeOK, copy, window, totals
  <2>2. CopyFresh' /\ RequestFresh(r)'
    BY <1>2, <1>a, <1>t, DataType DEF Miss, Fresh, CopyFresh, RequestFresh, TypeOK, copy
  <2> QED
    BY <1>o, <2>1, <2>2 DEF Fresh
<1>3. CASE GetAPIKeyByHash(r)
  <2>1. [row |-> row, read |-> now] \in Known
    BY <1>a, DataType DEF TypeOK, Known, KeyData
  <2>2. TypeOK'
    BY <1>3, <1>a, <1>t, <1>n, <2>1 DEF GetAPIKeyByHash, TypeOK, copy, window, totals
  <2>3. CopyFresh' /\ RequestFresh(r)'
    BY <1>3, <1>a, <1>t, <2>1, DataType
       DEF GetAPIKeyByHash, Valid, Fresh, CopyFresh, RequestFresh, TypeOK, copy
  <2> QED
    BY <1>o, <2>2, <2>3 DEF Fresh
<1>4. CASE Deny(r)
  <2>1. TypeOK'
    BY <1>4, <1>a, <1>t, DataType DEF Deny, TypeOK, copy, window, totals
  <2>2. CopyFresh' /\ RequestFresh(r)'
    BY <1>4, <1>a, <1>t DEF Deny, Fresh, CopyFresh, RequestFresh, TypeOK, copy
  <2> QED
    BY <1>o, <2>1, <2>2 DEF Fresh
<1>5. CASE CacheAPIKey(r)
  <2>1. /\ data[r] \in KnownActive /\ data[r] \in Known /\ data[r] # None
        /\ data[r].read = at[r] /\ at[r] \in Nat /\ now \in Nat /\ now <= at[r] + Patience
    BY <1>5, <1>a, DataType DEF CacheAPIKey, Fresh, RequestFresh, KnownActive
  <2>2. TypeOK'
    BY <1>5, <1>a, <1>t, <1>n, <2>1 DEF CacheAPIKey, SetCopy, Limited, TypeOK, copy, window, totals
  <2>3. CopyFresh'
    BY <1>5, <1>t, <2>1 DEF CacheAPIKey, SetCopy, Fresh, CopyFresh, copy
  <2>4. RequestFresh(r)'
    BY <1>5, <1>a, <1>t, <2>1 DEF CacheAPIKey, Limited, RequestFresh, TypeOK
  <2> QED
    BY <1>o, <2>2, <2>3, <2>4 DEF Fresh
<1>6. CASE Playground(r)
  <2>1. [row |-> row, read |-> now] \in Known /\ now \in Nat
    BY <1>a, DataType DEF TypeOK, Known, KeyData
  <2>2. TypeOK'
    BY <1>6, <1>a, <1>t, <1>n, <2>1 DEF Playground, Limited, TypeOK, copy, window, totals
  <2>3. CopyFresh' /\ RequestFresh(r)'
    BY <1>6, <1>a, <1>t, <2>1, DataType
       DEF Playground, Limited, Fresh, CopyFresh, RequestFresh, TypeOK, copy
  <2> QED
    BY <1>o, <2>2, <2>3 DEF Fresh
<1> QED
  BY <1>1, <1>2, <1>3, <1>4, <1>5, <1>6

LEMMA PipelineType ==
    ASSUME TypeOK, NEW r \in Requests, Pipeline(r)
    PROVE  zset' \in [Times -> Nat] /\ zsetUntil' \in Nat /\ counted' \in [Times -> Nat]
<1> USE ConstantsAssumption DEF ConstantsAssumption
<1>1. Pruned(zset, at[r]) \in [Times -> Nat]
  BY DEF Pruned, TypeOK
<1>2. ASSUME NEW f \in [Times -> Nat], NEW t
      PROVE  [f EXCEPT ![t] = @ + 1] \in [Times -> Nat]
  <2>1. CASE t \in Times
    <3>1. f[t] + 1 \in Nat
      BY <2>1
    <3> QED
      BY <3>1
  <2>2. CASE t \notin Times
    BY <2>2
  <2> QED
    BY <2>1, <2>2
<1>3. zset' \in [Times -> Nat] /\ counted' \in [Times -> Nat]
  BY <1>1, <1>2 DEF Pipeline, Member, TypeOK
<1> QED
  BY <1>3, DataType DEF Pipeline

LEMMA LimiterFresh ==
    ASSUME Fresh, NEW r \in Requests, Admit(r) \/ Refuse(r) \/ FailOpen(r)
    PROVE  Fresh'
<1>a. TypeOK
  BY DEF Fresh
<1>1. Leave(r) /\ now' = now /\ Known' = Known /\ KnownActive' = KnownActive
  BY SameKnown DEF Admit, Refuse, FailOpen, Leave
<1>2. zset' \in [Times -> Nat] /\ zsetUntil' \in Nat /\ counted' \in [Times -> Nat]
  BY <1>a, PipelineType DEF Admit, Refuse, FailOpen, TypeOK, window
<1>3. admitted' \in [Times -> Nat]
  BY <1>a DEF Admit, Refuse, FailOpen, TypeOK
<1>4. TypeOK'
  BY <1>a, <1>1, <1>2, <1>3, DataType DEF Leave, TypeOK, copy
<1>5. CopyFresh' /\ RequestFresh(r)'
  BY <1>a, <1>1 DEF Leave, Fresh, CopyFresh, RequestFresh, TypeOK, copy
<1>6. \A q \in Requests \ {r} : RequestFresh(q)'
  BY <1>a, <1>1, OthersFresh DEF Leave, TypeOK
<1> QED
  BY <1>4, <1>5, <1>6 DEF Fresh

LEMMA EnvironmentFresh ==
    ASSUME Fresh, ChangeKey \/ InvalidateAPIKeyCache \/ Tick
    PROVE  Fresh'
<1> USE ConstantsAssumption DEF ConstantsAssumption
<1>a. TypeOK
  BY DEF Fresh
<1>1. CASE ChangeKey
  <2>1. TypeOK'
    BY <1>1, <1>a, SameKnown DEF ChangeKey, TypeOK, copy, window, request, totals
  <2> QED
    BY <1>1, <2>1 DEF ChangeKey, Fresh, CopyFresh, RequestFresh, copy, request
<1>2. CASE InvalidateAPIKeyCache
  <2>1. TypeOK'
    BY <1>2, <1>a, SameKnown DEF InvalidateAPIKeyCache, TypeOK, window, request, totals
  <2> QED
    BY <1>2, <2>1 DEF InvalidateAPIKeyCache, Fresh, CopyFresh, RequestFresh, request
<1>3. CASE Tick
  <2>1. now \in Nat /\ now' = now + 1 /\ now' \in Times
    BY <1>3, <1>a, DataType DEF Tick, Times
  <2>2. Known \subseteq Known' /\ KnownActive \subseteq KnownActive'
    BY <1>a, <2>1, DataType DEF Known, KnownActive
  <2>3. 0 .. now \subseteq 0 .. now'
    BY <2>1
  <2>4. at' \in [Requests -> 0 .. now'] /\ data' \in [Requests -> Known' \cup {None}]
    BY <1>3, <1>a, <2>2, <2>3 DEF Tick, TypeOK, request
  <2>5. cache' \in KnownActive' \cup {None} /\ cacheUntil' \in Nat
    BY <1>3, <1>a, <2>2 DEF Tick, TypeOK, copy
  <2>6. zset' \in [Times -> Nat] /\ zsetUntil' \in Nat
    BY <1>3, <1>a DEF Tick, TypeOK, window
  <2>7. TypeOK'
    BY <1>3, <1>a, <2>1, <2>4, <2>5, <2>6 DEF Tick, TypeOK, request, totals
  <2>8. CopyFresh'
    BY <1>3, <1>a, <2>1, DataType DEF Tick, Fresh, CopyFresh, TypeOK, copy
  <2>9. \A r \in Requests : RequestFresh(r)'
    BY <1>3, <1>a, <2>1, DataType DEF Tick, Fresh, RequestFresh, InProgress, request
  <2> QED
    BY <2>7, <2>8, <2>9 DEF Fresh
<1> QED
  BY <1>1, <1>2, <1>3

LEMMA FreshStep == Fresh /\ [Next]_vars => Fresh'
<1> SUFFICES ASSUME Fresh, [Next]_vars PROVE Fresh'
  OBVIOUS
<1>1. ASSUME NEW r \in Requests, Handler(r) PROVE Fresh'
  BY <1>1, AuthenticationFresh, LimiterFresh DEF Handler
<1>2. CASE UNCHANGED vars
  <2>1. TypeOK'
    BY <1>2, SameKnown DEF vars, copy, window, request, totals, Fresh, TypeOK
  <2> QED
    BY <1>2, <2>1 DEF vars, copy, request, Fresh, CopyFresh, RequestFresh
<1> QED
  BY <1>1, <1>2, EnvironmentFresh DEF Next

(* Every variable keeps its type (auth.go, ratelimit.go): only data of     *)
(* active keys are ever cached.                                            *)
THEOREM TypeCorrect == Spec => []TypeOK
<1>1. Fresh => TypeOK
  BY DEF Fresh
<1> QED
  BY <1>1, FreshInit, FreshStep, PTL DEF Spec

(* A revoked key stops working within the life of the copy and the time    *)
(* that two requests take (auth.go:57-75), whoever invalidates the copy    *)
(* and when.                                                               *)
THEOREM RevocationIsBounded == Spec => []RevocationBounded
<1>1. Fresh => RevocationBounded
  <2> SUFFICES ASSUME Fresh, NEW r \in Requests, pc[r] = "count"
               PROVE  now < data[r].read + KeyTTL + 2 * Patience
    BY DEF RevocationBounded
  <2>1. data[r].read \in Nat /\ at[r] \in Nat /\ now \in Nat
    BY DataType DEF Fresh, RequestFresh
  <2>2. now <= at[r] + Patience /\ at[r] < data[r].read + Patience + KeyTTL
    BY DEF Fresh, RequestFresh
  <2> QED
    BY <2>1, <2>2, ConstantsAssumption DEF ConstantsAssumption
<1> QED
  BY <1>1, FreshInit, FreshStep, PTL DEF Spec

-----------------------------------------------------------------------------
(***************************************************************************)
(* Counts.                                                                 *)
(***************************************************************************)

(***************************************************************************)
(* A count is a number.                                                    *)
(***************************************************************************)
LEMMA CountType ==
    ASSUME NEW f \in [Times -> Nat], NEW a \in Int, NEW b \in Int
    PROVE  Count(f, a, b) \in Nat
<1> DEFINE S == {u \in Times : a <= u /\ u <= b}
           g == [t \in S |-> f[t]]
<1>1. IsFiniteSet(Times) /\ MaxTime \in Nat
  BY FS_Interval, ConstantsAssumption DEF Times, ConstantsAssumption
<1>2. IsFiniteSet(S) /\ g \in [S -> Nat]
  BY <1>1, FS_Subset
<1> HIDE DEF S, g
<1>3. Total(g) \in Nat
  BY <1>2, TotalType
<1> QED
  BY <1>3 DEF Count, S, g

(***************************************************************************)
(* A count of more, over more of the times that matter, is not smaller.    *)
(***************************************************************************)
LEMMA CountCovers ==
    ASSUME NEW f \in [Times -> Nat], NEW g \in [Times -> Nat],
           NEW a \in Int, NEW b \in Int, NEW c \in Int, NEW d \in Int,
           \A t \in Times : a <= t /\ t <= b => f[t] = 0 \/ (c <= t /\ t <= d /\ f[t] <= g[t])
    PROVE  Count(f, a, b) <= Count(g, c, d)
<1> DEFINE S == {u \in Times : a <= u /\ u <= b}
           T == {u \in Times : c <= u /\ u <= d}
           p == [t \in S |-> f[t]]
           q == [t \in T |-> g[t]]
<1>1. IsFiniteSet(Times)
  BY FS_Interval, ConstantsAssumption DEF Times, ConstantsAssumption
<1>2. IsFiniteSet(T) /\ q \in [T -> Nat]
  BY <1>1, FS_Subset
<1>3. ASSUME NEW t \in S
      PROVE  Coins(p, t) = {} \/ (t \in T /\ Coins(p, t) \subseteq Coins(q, t))
  <2>1. CASE f[t] = 0
    BY <2>1 DEF Coins
  <2>2. CASE c <= t /\ t <= d /\ f[t] <= g[t]
    <3>1. t \in T /\ p[t] = f[t] /\ q[t] = g[t] /\ f[t] \in Nat /\ g[t] \in Nat
      BY <2>2
    <3> QED
      BY <2>2, <3>1 DEF Coins
  <2> QED
    BY <2>1, <2>2
<1>4. Purse(p) \subseteq Purse(q)
  <2>1. DOMAIN p = S /\ DOMAIN q = T
    OBVIOUS
  <2> HIDE DEF p, q, S, T
  <2> QED
    BY <1>3, <2>1 DEF Purse
<1> HIDE DEF p, q, S, T
<1>5. Cardinality(Purse(p)) <= Cardinality(Purse(q))
  BY <1>2, <1>4, PurseFinite, FS_Subset
<1> QED
  BY <1>5 DEF Count, Total, p, q, S, T

(***************************************************************************)
(* One more at time s counts if s is counted.                              *)
(***************************************************************************)
LEMMA CountMore ==
    ASSUME NEW f \in [Times -> Nat], NEW s \in Times, NEW a \in Int, NEW b \in Int
    PROVE  /\ Count(Member(f, s), a, b) =
                 Count(f, a, b) + IF a <= s /\ s <= b THEN 1 ELSE 0
           /\ Member(f, s) \in [Times -> Nat]
<1> DEFINE S == {u \in Times : a <= u /\ u <= b}
           p == [t \in S |-> f[t]]
           q == [t \in S |-> Member(f, s)[t]]
<1>1. IsFiniteSet(Times)
  BY FS_Interval, ConstantsAssumption DEF Times, ConstantsAssumption
<1>2. /\ Member(f, s) \in [Times -> Nat] /\ Member(f, s)[s] = f[s] + 1
      /\ \A t \in Times \ {s} : Member(f, s)[t] = f[t]
  BY DEF Member
<1>3. IsFiniteSet(S) /\ p \in [S -> Nat] /\ q \in [S -> Nat]
  BY <1>1, <1>2, FS_Subset
<1>4. CASE s \in S
  <2>1. p[s] = f[s] /\ q[s] = f[s] + 1 /\ f[s] \in Nat /\ \A t \in S \ {s} : q[t] = p[t]
    BY <1>2, <1>4
  <2>2. a <= s /\ s <= b
    BY <1>4
  <2> HIDE DEF p, q, S
  <2>3. Total(q) = Total(p) - p[s] + q[s] /\ Total(p) \in Nat
    BY <1>3, <1>4, <2>1, TotalChange, TotalType
  <2>4. Total(q) = Total(p) + 1
    BY <2>1, <2>3
  <2> QED
    BY <1>2, <2>2, <2>4 DEF Count, p, q, S
<1>5. CASE s \notin S
  <2>1. p = q
    BY <1>2, <1>5
  <2>2. Total(p) \in Nat
    <3> HIDE DEF p, S
    <3> QED
      BY <1>3, TotalType
  <2> QED
    BY <1>2, <1>5, <2>1, <2>2 DEF Count
<1> QED
  BY <1>4, <1>5
-----------------------------------------------------------------------------
(***************************************************************************)
(* The limiter.                                                            *)
(***************************************************************************)

(* A request that is about to be counted has looked at the clock.          *)
ClocksRead == \A r \in Requests : pc[r] = "count" => at[r] >= 1

(* Nothing is counted ahead of time.                                       *)
NothingAhead == \A t \in Times : t > now => counted[t] = 0 /\ admitted[t] = 0

(* The set does not expire while a request in it is of the last window.    *)
Alive ==
    \A t \in Times :
        admitted[t] > 0 => t + Window <= zsetUntil \/ t + Window <= now

(* Whoever was admitted in the last window is in the set, though perhaps   *)
(* with an earlier score: from any time on the set has as many members as  *)
(* were admitted Patience later.  (A sum over the whole window would not   *)
(* be inductive: it does not say which of the members go when time passes.)*)
AdmittedInSet ==
    \A c \in Int : c > now - Window =>
        Count(admitted, c + Patience, MaxTime) <= Count(zset, c, MaxTime)

(* Whoever is in the set was counted, at its score or later.               *)
SetWasCounted ==
    \A c \in Int : Count(zset, c, MaxTime) <= Count(counted, c, MaxTime)

LimiterInv ==
    /\ ClocksRead /\ NothingAhead /\ Alive
    /\ AdmittedInSet /\ SetWasCounted /\ RateRespected

LEMMA LimiterInit == Init => LimiterInv
<1> SUFFICES ASSUME Init PROVE LimiterInv
  OBVIOUS
<1> USE ConstantsAssumption DEF ConstantsAssumption
<1>1. /\ zset \in [Times -> Nat] /\ counted \in [Times -> Nat] /\ admitted \in [Times -> Nat]
      /\ \A t \in Times : zset[t] = 0 /\ counted[t] = 0 /\ admitted[t] = 0
  BY DEF Init
<1>2. \A a, b, c, d \in Int : /\ Count(admitted, a, b) <= Count(zset, c, d)
                              /\ Count(zset, a, b) <= Count(counted, c, d)
  BY <1>1, CountCovers
<1>3. \A a, b \in Int : Count(admitted, a, b) <= HardCap
  <2>1. ASSUME NEW a \in Int, NEW b \in Int
        PROVE  Count(admitted, a, b) = 0
    <3> DEFINE S == {u \in Times : a <= u /\ u <= b}
               g == [t \in S |-> admitted[t]]
    <3>1. DOMAIN g = S /\ \A t \in S : g[t] = 0
      BY <1>1
    <3>2. Total(g) = 0
      <4> HIDE DEF g, S
      <4> QED
        BY <3>1, TotalZero
    <3> QED
      BY <3>2 DEF Count
  <2> QED
    BY <2>1
<1>4. \A t \in Times : t - Window + Patience + 1 \in Int /\ t \in Int
  BY DEF Times
<1>5. now = 1
  BY DEF Init
<1>6. \A c \in Int : c + Patience \in Int /\ MaxTime \in Int
  OBVIOUS
<1>7. ClocksRead /\ NothingAhead /\ Alive
  BY <1>1 DEF Init, ClocksRead, NothingAhead, Alive
<1>8. AdmittedInSet /\ SetWasCounted
  BY <1>2, <1>6 DEF AdmittedInSet, SetWasCounted
<1>9. RateRespected
  BY <1>3, <1>4 DEF RateRespected
<1> QED
  BY <1>7, <1>8, <1>9 DEF LimiterInv

(* What the limiter reads: the clock, and numbers of requests.             *)
LEMMA LimiterType ==
    ASSUME TypeOK
    PROVE  /\ now \in Times /\ now \in Nat /\ now <= MaxTime
           /\ zset \in [Times -> Nat] /\ counted \in [Times -> Nat]
           /\ admitted \in [Times -> Nat]
           /\ \A r \in Requests : at[r] \in Nat /\ at[r] <= now
<1>1. now \in Times /\ at \in [Requests -> 0 .. now]
  BY DEF TypeOK
<1>2. zset \in [Times -> Nat] /\ counted \in [Times -> Nat] /\ admitted \in [Times -> Nat]
  BY DEF TypeOK
<1>3. now \in Nat /\ now <= MaxTime
  BY <1>1, ConstantsAssumption DEF ConstantsAssumption, Times
<1>4. \A r \in Requests : at[r] \in Nat /\ at[r] <= now
  BY <1>1, <1>3
<1> QED
  BY <1>1, <1>2, <1>3, <1>4

(***************************************************************************)
(* What the transaction makes of the counts.                               *)
(***************************************************************************)
LEMMA PipelineCounts ==
    ASSUME Fresh, LimiterInv, NEW r \in Requests, pc[r] = "count", Pipeline(r)
    PROVE  /\ at[r] \in Times /\ at[r] <= now /\ now <= at[r] + Patience
           /\ \A c \in Int : Count(zset', c, MaxTime)
                                <= Count(zset, c, MaxTime) + IF c <= at[r] THEN 1 ELSE 0
           /\ \A c \in Int : c > now - Window =>
                 Count(zset', c, MaxTime)
                    = Count(zset, c, MaxTime) + IF c <= at[r] THEN 1 ELSE 0
           /\ \A c \in Int : Count(counted', c, MaxTime)
                                = Count(counted, c, MaxTime) + IF c <= now THEN 1 ELSE 0
           /\ \A t \in Times : t <= at[r] - Window => zset'[t] = 0
           /\ \A t \in Times : t > now => counted'[t] = 0
           /\ zset' \in [Times -> Nat] /\ counted' \in [Times -> Nat]
<1> USE ConstantsAssumption DEF ConstantsAssumption
<1> DEFINE u == at[r]
           p == Pruned(zset, u)
<1>1. /\ now \in Times /\ now \in Nat /\ now <= MaxTime
      /\ zset \in [Times -> Nat] /\ counted \in [Times -> Nat]
      /\ u \in Nat /\ u <= now
  BY LimiterType DEF Fresh
<1>2. u >= 1 /\ now <= u + Patience
  BY DEF LimiterInv, ClocksRead, Fresh, RequestFresh
<1>3. u \in Times
  BY <1>1, <1>2 DEF Times
<1>4. /\ p \in [Times -> Nat]
      /\ \A t \in Times : p[t] <= zset[t] /\ (t > u - Window => p[t] = zset[t])
                          /\ (t <= u - Window => p[t] = 0)
  <2>1. /\ DOMAIN p = Times
        /\ \A t \in Times : p[t] = IF t <= u - Window THEN 0 ELSE zset[t]
    BY DEF Pruned
  <2>2. \A t \in Times : t \in Int /\ zset[t] \in Nat
    BY <1>1 DEF Times
  <2>3. u \in Int /\ Window \in Int
    BY <1>1
  <2>4. p = [t \in Times |-> p[t]]
    BY <2>1 DEF Pruned
  <2> HIDE DEF p
  <2>5. \A t \in Times : p[t] \in Nat
    BY <2>1, <2>2
  <2>6. \A t \in Times : p[t] <= zset[t] /\ (t > u - Window => p[t] = zset[t])
                         /\ (t <= u - Window => p[t] = 0)
    BY <2>1, <2>2, <2>3
  <2> QED
    BY <2>4, <2>5, <2>6
<1>5. zset' = Member(p, u) /\ counted' = Member(counted, now)
  BY DEF Pipeline, Member
<1>6. MaxTime \in Int /\ \A t \in Times : t \in Int /\ t <= MaxTime
  BY DEF Times
<1> HIDE DEF p, u
<1>7. \A c \in Int : /\ Count(p, c, MaxTime) \in Nat /\ Count(zset, c, MaxTime) \in Nat
                     /\ Count(counted, c, MaxTime) \in Nat
  BY <1>1, <1>4, <1>6, CountType
<1>8. ASSUME NEW c \in Int
      PROVE  Count(p, c, MaxTime) <= Count(zset, c, MaxTime)
  <2>1. \A t \in Times : c <= t /\ t <= MaxTime =>
           p[t] = 0 \/ (c <= t /\ t <= MaxTime /\ p[t] <= zset[t])
    BY <1>4
  <2> QED
    BY <1>1, <1>4, <1>6, <2>1, CountCovers
<1>9. ASSUME NEW c \in Int, c > now - Window
      PROVE  Count(zset, c, MaxTime) <= Count(p, c, MaxTime)
  <2>1. \A t \in Times : c <= t /\ t <= MaxTime =>
           zset[t] = 0 \/ (c <= t /\ t <= MaxTime /\ zset[t] <= p[t])
    BY <1>1, <1>4, <1>6, <1>9
  <2> QED
    BY <1>1, <1>4, <1>6, <2>1, CountCovers
<1>10. ASSUME NEW c \in Int
       PROVE  /\ Count(zset', c, MaxTime) = Count(p, c, MaxTime) + IF c <= u THEN 1 ELSE 0
              /\ Count(counted', c, MaxTime)
                    = Count(counted, c, MaxTime) + IF c <= now THEN 1 ELSE 0
  BY <1>1, <1>3, <1>4, <1>5, <1>6, CountMore
<1>11. zset' \in [Times -> Nat] /\ counted' \in [Times -> Nat]
  BY <1>1, <1>3, <1>4, <1>5, <1>6, CountMore
<1>12. ASSUME NEW t \in Times, t <= u - Window
       PROVE  zset'[t] = 0
  <2>1. t # u
    BY <1>1, <1>6, <1>12
  <2> QED
    BY <1>4, <1>5, <1>12, <2>1 DEF Member
<1>13. \A t \in Times : t > now => counted'[t] = 0
  BY <1>1, <1>5 DEF Member, LimiterInv, NothingAhead
<1>14. ASSUME NEW c \in Int
       PROVE  /\ Count(zset', c, MaxTime)
                    <= Count(zset, c, MaxTime) + IF c <= u THEN 1 ELSE 0
              /\ c > now - Window =>
                    Count(zset', c, MaxTime)
                       = Count(zset, c, MaxTime) + IF c <= u THEN 1 ELSE 0
  <2> DEFINE before == Count(zset, c, MaxTime)
             kept == Count(p, c, MaxTime)
             after == Count(zset', c, MaxTime)
             one == IF c <= u THEN 1 ELSE 0
  <2>1. before \in Nat /\ kept \in Nat
    BY <1>7
  <2>2. one \in Nat
    OBVIOUS
  <2>3. kept <= before
    BY <1>8
  <2>4. c > now - Window => before <= kept
    BY <1>9
  <2>5. after = kept + one
    BY <1>10
  <2> HIDE DEF before, kept, after, one
  <2>6. after <= before + one
    BY <2>1, <2>2, <2>3, <2>5
  <2>7. c > now - Window => kept = before
    BY <2>1, <2>3, <2>4
  <2>8. c > now - Window => after = before + one
    BY <2>5, <2>7
  <2> QED
    BY <2>6, <2>8 DEF before, after, one
<1>15. \A c \in Int : Count(counted', c, MaxTime)
                         = Count(counted, c, MaxTime) + IF c <= now THEN 1 ELSE 0
  BY <1>10
<1>16. u <= now /\ now <= u + Patience
  BY <1>1, <1>2
<1>17. \A t \in Times : t <= u - Window => zset'[t] = 0
  BY <1>12
<1>18. \A c \in Int :
          /\ Count(zset', c, MaxTime)
                <= Count(zset, c, MaxTime) + IF c <= u THEN 1 ELSE 0
          /\ c > now - Window =>
                Count(zset', c, MaxTime)
                   = Count(zset, c, MaxTime) + IF c <= u THEN 1 ELSE 0
  BY <1>14
<1> QED
  BY <1>3, <1>11, <1>13, <1>15, <1>16, <1>17, <1>18, Zenon DEF u

(***************************************************************************)
(* A request that the limiter counts, admitted or not.                     *)
(***************************************************************************)
LEMMA CountedStep ==
    ASSUME Fresh, LimiterInv, NEW r \in Requests, pc[r] = "count", Pipeline(r),
           now' = now,
           \/ UNCHANGED admitted
           \/ admitted' = Member(admitted, now) /\ Count(zset', 1, MaxTime) <= HardCap
    PROVE  NothingAhead' /\ Alive' /\ AdmittedInSet' /\ SetWasCounted' /\ RateRespected'
<1> USE ConstantsAssumption DEF ConstantsAssumption
<1>1. /\ now \in Times /\ now \in Nat /\ now <= MaxTime
      /\ zset \in [Times -> Nat] /\ counted \in [Times -> Nat] /\ admitted \in [Times -> Nat]
  BY LimiterType DEF Fresh
<1>2. MaxTime \in Int /\ \A t \in Times : t \in Int /\ 1 <= t /\ t <= MaxTime
  BY DEF Times
<1>3. /\ at[r] \in Int /\ at[r] <= now /\ now <= at[r] + Patience
      /\ zset' \in [Times -> Nat] /\ counted' \in [Times -> Nat]
      /\ \A t \in Times : t > now => counted'[t] = 0
  BY <1>2, PipelineCounts
<1>4. /\ admitted' \in [Times -> Nat]
      /\ \A t \in Times \ {now} : admitted'[t] = admitted[t]
  BY <1>1, CountMore DEF Member
<1>5. ASSUME NEW a \in Int, NEW b \in Int
      PROVE  /\ Count(admitted', a, b) \in Nat /\ Count(zset', a, b) \in Nat
             /\ Count(counted', a, b) \in Nat /\ Count(admitted, a, b) \in Nat
             /\ Count(zset, a, b) \in Nat /\ Count(counted, a, b) \in Nat
             /\ Count(admitted', a, b)
                   <= Count(admitted, a, b) + IF a <= now /\ now <= b THEN 1 ELSE 0
  <2>1. /\ Count(admitted', a, b) \in Nat /\ Count(zset', a, b) \in Nat
        /\ Count(counted', a, b) \in Nat /\ Count(admitted, a, b) \in Nat
        /\ Count(zset, a, b) \in Nat /\ Count(counted, a, b) \in Nat
    BY <1>1, <1>3, <1>4, CountType
  <2>2. CASE UNCHANGED admitted
    BY <2>1, <2>2
  <2>3. CASE admitted' = Member(admitted, now)
    BY <1>1, <2>1, <2>3, CountMore
  <2> QED
    BY <2>1, <2>2, <2>3
<1>6. NothingAhead'
  BY <1>1, <1>2, <1>3, <1>4 DEF NothingAhead, LimiterInv
<1>7. Alive'
  <2>1. \A t \in Times : t > now => admitted'[t] = 0
    BY <1>6 DEF NothingAhead
  <2>2. zsetUntil' = now + Window
    BY DEF Pipeline
  <2>3. \A t \in Times : admitted'[t] > 0 => t <= now
    BY <1>1, <1>2, <2>1
  <2> QED
    BY <1>1, <1>2, <2>2, <2>3 DEF Alive
<1>8. AdmittedInSet'
  <2> SUFFICES ASSUME NEW c \in Int, c > now - Window
               PROVE  Count(admitted', c + Patience, MaxTime) <= Count(zset', c, MaxTime)
    BY DEF AdmittedInSet
  <2>1. Count(admitted, c + Patience, MaxTime) <= Count(zset, c, MaxTime)
    BY DEF LimiterInv, AdmittedInSet
  <2>2. Count(zset', c, MaxTime) = Count(zset, c, MaxTime) + IF c <= at[r] THEN 1 ELSE 0
    BY PipelineCounts
  <2>3. /\ Count(admitted', c + Patience, MaxTime)
              <= Count(admitted, c + Patience, MaxTime)
                    + IF c + Patience <= now /\ now <= MaxTime THEN 1 ELSE 0
        /\ Count(admitted', c + Patience, MaxTime) \in Nat
        /\ Count(admitted, c + Patience, MaxTime) \in Nat
        /\ Count(zset, c, MaxTime) \in Nat /\ Count(zset', c, MaxTime) \in Nat
    <3> DEFINE d == c + Patience
    <3>1. d \in Int
      OBVIOUS
    <3> HIDE DEF d
    <3>2. /\ Count(admitted', d, MaxTime)
                <= Count(admitted, d, MaxTime) + IF d <= now /\ now <= MaxTime THEN 1 ELSE 0
          /\ Count(admitted', d, MaxTime) \in Nat
          /\ Count(admitted, d, MaxTime) \in Nat
          /\ Count(zset, c, MaxTime) \in Nat /\ Count(zset', c, MaxTime) \in Nat
      BY <1>2, <1>5, <3>1
    <3> QED
      BY <3>2 DEF d
  <2>4. c + Patience <= now => c <= at[r]
    BY <1>1, <1>3
  <2> QED
    BY <1>1, <2>1, <2>2, <2>3, <2>4
<1>9. SetWasCounted'
  <2> SUFFICES ASSUME NEW c \in Int
               PROVE  Count(zset', c, MaxTime) <= Count(counted', c, MaxTime)
    BY DEF SetWasCounted
  <2>1. Count(zset, c, MaxTime) <= Count(counted, c, MaxTime)
    BY DEF LimiterInv, SetWasCounted
  <2>2. /\ Count(zset', c, MaxTime) <= Count(zset, c, MaxTime) + IF c <= at[r] THEN 1 ELSE 0
        /\ Count(counted', c, MaxTime)
              = Count(counted, c, MaxTime) + IF c <= now THEN 1 ELSE 0
    BY PipelineCounts
  <2>3. /\ Count(zset, c, MaxTime) \in Nat /\ Count(zset', c, MaxTime) \in Nat
        /\ Count(counted, c, MaxTime) \in Nat /\ Count(counted', c, MaxTime) \in Nat
    BY <1>2, <1>5
  <2> QED
    BY <1>1, <1>3, <2>1, <2>2, <2>3
<1>10. RateRespected'
  <2> SUFFICES ASSUME NEW t \in Times
               PROVE  Count(admitted', t - Window + Patience + 1, t) <= HardCap
    BY DEF RateRespected
  <2> DEFINE a == t - Window + Patience + 1
             c == now - Window + 1
             d == c + Patience
  <2>0. a \in Int /\ c \in Int /\ t \in Int /\ d \in Int /\ c > now - Window
    BY <1>1, <1>2
  <2>1. Count(admitted, a, t) <= HardCap
    BY DEF LimiterInv, RateRespected
  <2>2. CASE t < now
    <3> HIDE DEF a, c, d
    <3>1. /\ Count(admitted', a, t)
                <= Count(admitted, a, t) + IF a <= now /\ now <= t THEN 1 ELSE 0
          /\ Count(admitted', a, t) \in Nat /\ Count(admitted, a, t) \in Nat
      BY <1>5, <2>0
    <3>2. Count(admitted', a, t) <= HardCap
      BY <1>1, <2>0, <2>1, <2>2, <3>1
    <3> QED
      BY <3>2 DEF a
  <2>3. CASE UNCHANGED admitted
    BY <2>1, <2>3
  <2>4. CASE t >= now /\ Count(zset', 1, MaxTime) <= HardCap
    <3>1. Count(admitted', a, t) <= Count(admitted', d, MaxTime)
      <4>1. \A s \in Times : a <= s /\ s <= t =>
               admitted'[s] = 0 \/ ( /\ d <= s /\ s <= MaxTime
                                     /\ admitted'[s] <= admitted'[s])
        BY <1>1, <1>2, <1>4, <2>4
      <4> HIDE DEF a, c, d
      <4> QED
        BY <1>2, <1>4, <2>0, <4>1, CountCovers
    <3>2. Count(admitted', d, MaxTime) <= Count(zset', c, MaxTime)
      <4>1. \A b \in Int : b > now - Window =>
               Count(admitted', b + Patience, MaxTime) <= Count(zset', b, MaxTime)
        BY <1>8 DEF AdmittedInSet
      <4> HIDE DEF c
      <4> QED
        BY <2>0, <4>1
    <3>3. Count(zset', c, MaxTime) <= Count(zset', 1, MaxTime)
      <4>1. \A s \in Times : c <= s /\ s <= MaxTime =>
               zset'[s] = 0 \/ (1 <= s /\ s <= MaxTime /\ zset'[s] <= zset'[s])
        BY <1>2, <1>3
      <4> HIDE DEF c, d
      <4> QED
        BY <1>2, <1>3, <2>0, <4>1, CountCovers
    <3>4. /\ Count(admitted', d, MaxTime) \in Nat /\ Count(admitted', a, t) \in Nat
          /\ Count(zset', c, MaxTime) \in Nat /\ Count(zset', 1, MaxTime) \in Nat
      <4> HIDE DEF a, c, d
      <4>1. 1 \in Int
        OBVIOUS
      <4>2. /\ Count(admitted', d, MaxTime) \in Nat /\ Count(admitted', a, t) \in Nat
            /\ Count(zset', c, MaxTime) \in Nat
        BY <1>2, <1>5, <2>0
      <4>3. Count(zset', 1, MaxTime) \in Nat
        BY <1>2, <1>5, <4>1
      <4> QED
        BY <4>2, <4>3
    <3> HIDE DEF a, c, d
    <3> QED
      BY <2>0, <2>4, <3>1, <3>2, <3>3, <3>4 DEF a
  <2> QED
    BY <1>1, <1>2, <2>2, <2>3, <2>4
<1> QED
  BY <1>6, <1>7, <1>8, <1>9, <1>10

(***************************************************************************)
(* A second passes: the set loses nobody of the last window.               *)
(***************************************************************************)
LEMMA TickCounts ==
    ASSUME Fresh, LimiterInv, Tick
    PROVE  LimiterInv'
<1> USE ConstantsAssumption DEF ConstantsAssumption
<1>1. /\ now \in Nat /\ now' = now + 1 /\ zsetUntil \in Nat
      /\ zset \in [Times -> Nat] /\ counted \in [Times -> Nat] /\ admitted \in [Times -> Nat]
      /\ counted' = counted /\ admitted' = admitted /\ pc' = pc /\ at' = at
  BY DataType DEF Fresh, TypeOK, Tick, totals, request
<1>2. MaxTime \in Int /\ \A t \in Times : t \in Int /\ 1 <= t /\ t <= MaxTime
  BY DEF Times
<1>3. ClocksRead' /\ NothingAhead' /\ RateRespected'
  BY <1>1, <1>2 DEF LimiterInv, ClocksRead, NothingAhead, RateRespected
<1>4. CASE UNCHANGED window
  <2>1. zset' = zset /\ zsetUntil' = zsetUntil
    BY <1>4 DEF window
  <2>2. Alive'
    BY <1>1, <1>2, <2>1 DEF LimiterInv, Alive
  <2>3. \A c \in Int : c > now' - Window => c > now - Window
    BY <1>1
  <2>4. AdmittedInSet' /\ SetWasCounted'
    BY <1>1, <2>1, <2>3 DEF LimiterInv, AdmittedInSet, SetWasCounted
  <2> QED
    BY <1>3, <2>2, <2>4 DEF LimiterInv
<1>5. CASE now' >= zsetUntil /\ zset' = [t \in Times |-> 0] /\ zsetUntil' = 0
  <2>1. zset' \in [Times -> Nat] /\ \A t \in Times : zset'[t] = 0
    BY <1>5
  <2>2. \A t \in Times : admitted[t] > 0 => t + Window <= now'
    BY <1>1, <1>2, <1>5 DEF LimiterInv, Alive
  <2>3. Alive'
    BY <1>1, <2>2 DEF Alive
  <2>4. ASSUME NEW c \in Int, c > now' - Window
        PROVE  Count(admitted, c + Patience, MaxTime) <= Count(zset', c, MaxTime)
    <3>1. \A t \in Times : c + Patience <= t /\ t <= MaxTime =>
             admitted[t] = 0 \/ (c <= t /\ t <= MaxTime /\ admitted[t] <= zset'[t])
      BY <1>1, <1>2, <2>2, <2>4
    <3>2. c + Patience \in Int
      OBVIOUS
    <3> QED
      BY <1>1, <1>2, <2>1, <3>1, <3>2, CountCovers
  <2>5. ASSUME NEW c \in Int
        PROVE  Count(zset', c, MaxTime) <= Count(counted, c, MaxTime)
    BY <1>1, <1>2, <2>1, CountCovers
  <2>6. AdmittedInSet' /\ SetWasCounted'
    BY <1>1, <2>4, <2>5 DEF AdmittedInSet, SetWasCounted
  <2> QED
    BY <1>3, <2>3, <2>6 DEF LimiterInv
<1> QED
  BY <1>1, <1>4, <1>5 DEF Tick

LEMMA LimiterStep == Fresh /\ LimiterInv /\ [Next]_vars => LimiterInv'
<1> SUFFICES ASSUME Fresh, LimiterInv, [Next]_vars PROVE LimiterInv'
  OBVIOUS
<1> USE ConstantsAssumption DEF ConstantsAssumption
<1>1. /\ now \in Nat /\ now >= 1 /\ pc \in [Requests -> {"idle", "missed", "fill", "count"}]
      /\ at \in [Requests -> 0 .. now]
  BY DEF Fresh, TypeOK, Times
<1>2. ASSUME UNCHANGED <<now, window, totals>>, ClocksRead'
      PROVE  LimiterInv'
  BY <1>2 DEF window, totals, LimiterInv, NothingAhead, Alive, AdmittedInSet, SetWasCounted,
      RateRespected
<1>3. ASSUME NEW r \in Requests,
             \/ Hit(r) \/ Miss(r) \/ GetAPIKeyByHash(r) \/ Deny(r) \/ CacheAPIKey(r)
             \/ Playground(r)
      PROVE  LimiterInv'
  <2>1. UNCHANGED <<now, window, totals>>
    BY <1>3 DEF Hit, Miss, GetAPIKeyByHash, Deny, CacheAPIKey, Playground
  <2>2. ClocksRead'
    BY <1>1, <1>3 DEF Hit, Miss, GetAPIKeyByHash, Deny, CacheAPIKey, Playground, Limited,
        LimiterInv, ClocksRead
  <2> QED
    BY <1>2, <2>1, <2>2
<1>4. ASSUME NEW r \in Requests, Admit(r) \/ Refuse(r) \/ FailOpen(r)
      PROVE  LimiterInv'
  <2>1. pc[r] = "count" /\ Leave(r) /\ now' = now
    BY <1>4 DEF Admit, Refuse, FailOpen, Leave
  <2>2. ClocksRead'
    BY <1>1, <2>1 DEF Leave, LimiterInv, ClocksRead
  <2>3. CASE UNCHANGED <<window, totals>>
    BY <1>2, <2>1, <2>2, <2>3
  <2>4. CASE Pipeline(r) /\ UNCHANGED admitted
    BY <2>1, <2>2, <2>4, CountedStep DEF LimiterInv
  <2>5. CASE Admit(r)
    <3>1. data[r] # None /\ data[r] \in KeyData
      BY <2>1, DataType DEF Fresh, RequestFresh
    <3>2. Limit(r) <= HardCap /\ Limit(r) \in Nat
      <4>1. data[r].row.limit \in Nat /\ HardCap \in Nat
        BY <3>1 DEF KeyData, Rows
      <4> QED
        BY <4>1 DEF Limit
    <3>3. zset' \in [Times -> Nat]
      BY <2>1, <2>5, PipelineCounts DEF Admit
    <3>4. Count(zset', 1, MaxTime) \in Nat
      BY <3>3, CountType
    <3>5. Count(zset', 1, MaxTime) <= HardCap
      BY <2>5, <3>2, <3>4 DEF Admit
    <3> QED
      BY <2>1, <2>2, <2>5, <3>5, CountedStep DEF Admit, Member, LimiterInv
  <2> QED
    BY <1>4, <2>3, <2>4, <2>5 DEF Refuse, FailOpen, totals
<1>5. CASE ChangeKey \/ InvalidateAPIKeyCache \/ UNCHANGED vars
  <2>1. UNCHANGED <<now, window, totals, request>>
    BY <1>5 DEF ChangeKey, InvalidateAPIKeyCache, vars
  <2> QED
    BY <1>2, <2>1 DEF request, LimiterInv, ClocksRead
<1> QED
  BY <1>3, <1>4, <1>5, TickCounts DEF Next, Handler

(***************************************************************************)
(* Over any stretch of Window - Patience seconds the key gets no more than *)
(* its ceiling, for every window, ceiling and number of requests at once,  *)
(* however late their clocks are and however the limit of the key is       *)
(* edited meanwhile (ratelimit.go:43-65).                                  *)
(***************************************************************************)
THEOREM RateIsRespected == Spec => []RateRespected
<1>1. LimiterInv => RateRespected
  BY DEF LimiterInv
<1> QED
  BY <1>1, FreshInit, FreshStep, LimiterInit, LimiterStep, PTL DEF Spec

(***************************************************************************)
(* Nobody is refused for requests that are older than a window and what a  *)
(* clock may be late (ratelimit.go:48, 75).                                *)
(***************************************************************************)
THEOREM RefusalsHaveCause == Spec => RefusedForCause
<1> DEFINE Cause(r) == Count(counted', now - Window - Patience + 1, now) > Limit(r)
<1>1. ASSUME Fresh, LimiterInv, NEW r \in Requests, Refuse(r)
      PROVE  Cause(r)
  <2> USE ConstantsAssumption DEF ConstantsAssumption
  <2> DEFINE a == now - Window - Patience + 1
             c == at[r] - Window + 1
  <2>1. pc[r] = "count" /\ Pipeline(r) /\ now' = now /\ UNCHANGED admitted
    BY <1>1 DEF Refuse, Leave
  <2>2. /\ at[r] \in Int /\ at[r] <= now /\ now <= at[r] + Patience
        /\ zset' \in [Times -> Nat] /\ counted' \in [Times -> Nat]
        /\ \A t \in Times : t <= at[r] - Window => zset'[t] = 0
        /\ \A t \in Times : t > now => counted'[t] = 0
    BY <1>1, <2>1, PipelineCounts DEF Times
  <2>3. /\ now \in Int /\ MaxTime \in Int
        /\ \A t \in Times : t \in Int /\ 1 <= t /\ t <= MaxTime
    BY <1>1 DEF Fresh, TypeOK, Times
  <2>4. a \in Int /\ c \in Int
    BY <2>2, <2>3
  <2>5. SetWasCounted'
    BY <1>1, <2>1, CountedStep
  <2>6. Count(zset', c, MaxTime) <= Count(counted', c, MaxTime)
    <3> HIDE DEF c
    <3> QED
      BY <2>4, <2>5 DEF SetWasCounted
  <2>7. Count(zset', 1, MaxTime) <= Count(zset', c, MaxTime)
    <3>1. \A t \in Times : 1 <= t /\ t <= MaxTime =>
             zset'[t] = 0 \/ (c <= t /\ t <= MaxTime /\ zset'[t] <= zset'[t])
      BY <2>2, <2>3
    <3> HIDE DEF c
    <3> QED
      BY <2>2, <2>3, <2>4, <3>1, CountCovers
  <2>8. Count(counted', c, MaxTime) <= Count(counted', a, now)
    <3>1. \A t \in Times : c <= t /\ t <= MaxTime =>
             counted'[t] = 0 \/ (a <= t /\ t <= now /\ counted'[t] <= counted'[t])
      BY <2>2, <2>3
    <3> HIDE DEF a, c
    <3> QED
      BY <2>2, <2>3, <2>4, <3>1, CountCovers
  <2>9. /\ Count(zset', 1, MaxTime) \in Nat /\ Count(zset', c, MaxTime) \in Nat
        /\ Count(counted', c, MaxTime) \in Nat /\ Count(counted', a, now) \in Nat
    <3> HIDE DEF a, c
    <3> QED
      BY <2>2, <2>3, <2>4, CountType
  <2>10. Limit(r) \in Nat
    <3>1. data[r] # None /\ data[r] \in KeyData
      BY <1>1, <2>1, DataType DEF Fresh, RequestFresh
    <3> QED
      BY <3>1 DEF Limit, KeyData, Rows
  <2>11. Count(zset', 1, MaxTime) > Limit(r)
    BY <1>1 DEF Refuse
  <2>12. Count(counted', a, now) > Limit(r)
    <3> HIDE DEF a, c
    <3> QED
      BY <2>6, <2>7, <2>8, <2>9, <2>10, <2>11
  <2> QED
    BY <2>12
<1>2. Fresh /\ LimiterInv /\ [Next]_vars
      => [\A r \in Requests : Refuse(r) => Cause(r)]_vars
  BY <1>1
<1> QED
  BY <1>2, FreshInit, FreshStep, LimiterInit, LimiterStep, PTL DEF Spec, RefusedForCause
=============================================================================
