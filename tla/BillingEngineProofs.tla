------------------------ MODULE BillingEngineProofs ------------------------
(***************************************************************************)
(* What is proved about BillingEngine for every set of requests, every     *)
(* estimate, cost and deposit, and (unless a theorem says otherwise) every *)
(* set of faults.                                                          *)
(***************************************************************************)
EXTENDS BillingEngine, MoneyTheorems

-----------------------------------------------------------------------------
(***************************************************************************)
(* Types.  A request has a cost from the answer of the provider on, and a  *)
(* usage record at the earliest from its settlement on.                    *)
(***************************************************************************)

BeforeAnswer(r) ==
    \/ pc[r] \in {"idle", "limit", "limit_pg", "exists", "hold", "reread", "read_held",
                  "reverse", "track", "call"}
    \/ pc[r] \in SyncSteps /\ ret[r] # "adjust"

AfterCharge(r) ==
    \/ pc[r] = "adjust"
    \/ pc[r] \in SyncSteps /\ ret[r] = "adjust"

Phases ==
    \A r \in Reqs : /\ BeforeAnswer(r) => act[r] = None /\ usage[r] = "none"
                    /\ pc[r] = "settle" => act[r] \in Nat /\ usage[r] = "none"
                    /\ AfterCharge(r) => act[r] \in Nat
                    /\ usage[r] # "none" => act[r] \in Nat

TypeInv == TypeOK /\ Phases

LEMMA TypeInit == Init => TypeInv
<1> SUFFICES ASSUME Init PROVE TypeInv
  OBVIOUS
<1> USE ConstantsAssumption DEF ConstantsAssumption, Init
<1>1. PostgresTypeOK
  BY DEF PostgresTypeOK
<1>2. RedisTypeOK
  BY DEF RedisTypeOK
<1>3. RequestTypeOK
  BY DEF RequestTypeOK
<1>4. Phases
  BY DEF Phases, BeforeAnswer, AfterCharge, SyncSteps
<1> QED
  BY <1>1, <1>2, <1>3, <1>4 DEF TypeInv, TypeOK

LEMMA TypeStart ==
    ASSUME TypeInv, NEW r \in Reqs, Start(r)
    PROVE  TypeInv'
<1> USE ConstantsAssumption
    DEF ConstantsAssumption, TypeInv, TypeOK, pgVars, hashVars, reqVars, Goto, Start,
        Limited
<1>1. PostgresTypeOK'
  BY DEF PostgresTypeOK, RequestTypeOK, Phases
<1>2. RedisTypeOK'
  BY DEF PostgresTypeOK, RedisTypeOK, RequestTypeOK, Phases, AfterCharge
<1>3. RequestTypeOK'
  BY DEF PostgresTypeOK, RedisTypeOK, RequestTypeOK, Steps, SyncSteps, Terminal
<1>4. Phases'
  BY DEF PostgresTypeOK, RequestTypeOK, Phases, BeforeAnswer, AfterCharge, SyncSteps
<1> QED
  BY <1>1, <1>2, <1>3, <1>4

LEMMA TypeLimits ==
    ASSUME TypeInv, NEW r \in Reqs, ReadTracker(r) \/ ReadSum(r)
    PROVE  TypeInv'
<1> USE ConstantsAssumption
    DEF ConstantsAssumption, TypeInv, TypeOK, pgVars, hashVars, reqVars, Goto,
        ReadTracker, ReadSum, CheckLimit
<1>1. PostgresTypeOK'
  BY DEF PostgresTypeOK, RequestTypeOK, Phases
<1>2. RedisTypeOK'
  BY DEF PostgresTypeOK, RedisTypeOK, RequestTypeOK, Phases, AfterCharge
<1>3. RequestTypeOK'
  BY DEF PostgresTypeOK, RedisTypeOK, RequestTypeOK, Steps, SyncSteps, Terminal
<1>4. Phases'
  BY DEF PostgresTypeOK, RequestTypeOK, Phases, BeforeAnswer, AfterCharge, SyncSteps
<1> QED
  BY <1>1, <1>2, <1>3, <1>4

LEMMA TypeSync ==
    ASSUME TypeInv, NEW r \in Reqs, SyncBalanceFromPostgres(r)
    PROVE  TypeInv'
<1> USE ConstantsAssumption
    DEF ConstantsAssumption, TypeInv, TypeOK, pgVars, hashVars, reqVars, Goto,
        SyncBalanceFromPostgres, SyncRead, SyncCreate, SyncSet, SyncExpire, SyncFails,
        AfterSyncError, EnsureWallet, Attempt, SetBalance, SetTTL, HashExists
<1>1. PostgresTypeOK'
  BY DEF PostgresTypeOK, RequestTypeOK, Phases
<1>2. RedisTypeOK'
  <2>1. CASE SyncSet(r)
    BY <2>1 DEF RedisTypeOK, RequestTypeOK
  <2>2. CASE SyncExpire(r)
    BY <2>2 DEF RedisTypeOK
  <2>3. CASE SyncRead(r) \/ SyncCreate(r)
    BY <2>3 DEF RedisTypeOK
  <2> QED
    BY <2>1, <2>2, <2>3
<1>3. RequestTypeOK'
  BY DEF PostgresTypeOK, RedisTypeOK, RequestTypeOK, Steps, SyncSteps, Terminal
<1>4. Phases'
  BY DEF PostgresTypeOK, RequestTypeOK, Phases, BeforeAnswer, AfterCharge, SyncSteps
<1> QED
  BY <1>1, <1>2, <1>3, <1>4

LEMMA TypeCache ==
    ASSUME TypeInv, NEW r \in Reqs, EnsureCache(r)
    PROVE  TypeInv'
<1> USE ConstantsAssumption
    DEF ConstantsAssumption, TypeInv, TypeOK, pgVars, hashVars, reqVars, Goto,
        EnsureCache, CallSync, HashExists
<1>1. PostgresTypeOK'
  BY DEF PostgresTypeOK, RequestTypeOK, Phases
<1>2. RedisTypeOK'
  BY DEF PostgresTypeOK, RedisTypeOK, RequestTypeOK, Phases, AfterCharge
<1>3. RequestTypeOK'
  BY DEF PostgresTypeOK, RedisTypeOK, RequestTypeOK, Steps, SyncSteps, Terminal
<1>4. Phases'
  BY DEF PostgresTypeOK, RequestTypeOK, Phases, BeforeAnswer, AfterCharge, SyncSteps
<1> QED
  BY <1>1, <1>2, <1>3, <1>4

LEMMA TypeHold ==
    ASSUME TypeInv, NEW r \in Reqs, Hold(r)
    PROVE  TypeInv'
<1> USE ConstantsAssumption
    DEF ConstantsAssumption, TypeInv, TypeOK, pgVars, hashVars, reqVars, Goto, Hold,
        CallSync, IncrHeld, Value
<1>1. PostgresTypeOK'
  BY DEF PostgresTypeOK, RequestTypeOK, Phases
<1>2. RedisTypeOK'
  BY DEF PostgresTypeOK, RedisTypeOK, RequestTypeOK, Phases, AfterCharge
<1>3. RequestTypeOK'
  BY DEF PostgresTypeOK, RedisTypeOK, RequestTypeOK, Steps, SyncSteps, Terminal
<1>4. Phases'
  BY DEF PostgresTypeOK, RequestTypeOK, Phases, BeforeAnswer, AfterCharge, SyncSteps
<1> QED
  BY <1>1, <1>2, <1>3, <1>4

LEMMA TypeRead ==
    ASSUME TypeInv, NEW r \in Reqs, Reread(r) \/ ReadHeld(r)
    PROVE  TypeInv'
<1> USE ConstantsAssumption
    DEF ConstantsAssumption, TypeInv, TypeOK, pgVars, hashVars, reqVars, Goto, Reread,
        ReadHeld, Decide, Escapes, Value
<1>1. PostgresTypeOK'
  BY DEF PostgresTypeOK, RequestTypeOK, Phases
<1>2. RedisTypeOK'
  BY DEF PostgresTypeOK, RedisTypeOK, RequestTypeOK, Phases, AfterCharge
<1>3. RequestTypeOK'
  BY DEF PostgresTypeOK, RedisTypeOK, RequestTypeOK, Steps, SyncSteps, Terminal
<1>4. Phases'
  BY DEF PostgresTypeOK, RequestTypeOK, Phases, BeforeAnswer, AfterCharge, SyncSteps
<1> QED
  BY <1>1, <1>2, <1>3, <1>4

LEMMA TypeReverse ==
    ASSUME TypeInv, NEW r \in Reqs, ReverseHold(r) \/ Release(r)
    PROVE  TypeInv'
<1> USE ConstantsAssumption
    DEF ConstantsAssumption, TypeInv, TypeOK, pgVars, hashVars, reqVars, Goto,
        ReverseHold, Release, Attempt, IncrHeld, Value
<1>1. PostgresTypeOK'
  BY DEF PostgresTypeOK, RequestTypeOK, Phases
<1>2. RedisTypeOK'
  BY DEF PostgresTypeOK, RedisTypeOK, RequestTypeOK, Phases, AfterCharge
<1>3. RequestTypeOK'
  BY DEF PostgresTypeOK, RedisTypeOK, RequestTypeOK, Steps, SyncSteps, Terminal
<1>4. Phases'
  BY DEF PostgresTypeOK, RequestTypeOK, Phases, BeforeAnswer, AfterCharge, SyncSteps
<1> QED
  BY <1>1, <1>2, <1>3, <1>4

LEMMA TypeTrackers ==
    ASSUME TypeInv, NEW r \in Reqs, Track(r) \/ Untrack(r) \/ Adjust(r)
    PROVE  TypeInv'
<1> USE ConstantsAssumption
    DEF ConstantsAssumption, TypeInv, TypeOK, pgVars, hashVars, reqVars, Goto, Track,
        Untrack, Adjust, AddToTrackers, Attempt, IncrTracker, Value, NextPeriod
<1>1. PostgresTypeOK'
  BY DEF PostgresTypeOK, RequestTypeOK, Phases
<1>2. RedisTypeOK'
  BY DEF PostgresTypeOK, RedisTypeOK, RequestTypeOK, Phases, AfterCharge
<1>3. RequestTypeOK'
  BY DEF PostgresTypeOK, RedisTypeOK, RequestTypeOK, Steps, SyncSteps, Terminal
<1>4. Phases'
  BY DEF PostgresTypeOK, RequestTypeOK, Phases, BeforeAnswer, AfterCharge, SyncSteps
<1> QED
  BY <1>1, <1>2, <1>3, <1>4

LEMMA TypeCall ==
    ASSUME TypeInv, NEW r \in Reqs, Call(r)
    PROVE  TypeInv'
<1> USE ConstantsAssumption
    DEF ConstantsAssumption, TypeInv, TypeOK, pgVars, hashVars, reqVars, Goto, Call
<1>1. PostgresTypeOK'
  BY DEF PostgresTypeOK, RequestTypeOK, Phases
<1>2. RedisTypeOK'
  BY DEF PostgresTypeOK, RedisTypeOK, RequestTypeOK, Phases, AfterCharge
<1>3. RequestTypeOK'
  BY DEF PostgresTypeOK, RedisTypeOK, RequestTypeOK, Steps, SyncSteps, Terminal
<1>4. Phases'
  BY DEF PostgresTypeOK, RequestTypeOK, Phases, BeforeAnswer, AfterCharge, SyncSteps
<1> QED
  BY <1>1, <1>2, <1>3, <1>4

LEMMA TypeSettle ==
    ASSUME TypeInv, NEW r \in Reqs, Settle(r)
    PROVE  TypeInv'
<1> USE ConstantsAssumption
    DEF ConstantsAssumption, TypeInv, TypeOK, pgVars, hashVars, reqVars, Goto, Settle,
        Covered, Charge, RecordFailure, CallSync, AfterCommitError, Escapes
<1>1. PostgresTypeOK'
  BY DEF PostgresTypeOK, RequestTypeOK, Phases
<1>2. RedisTypeOK'
  BY DEF PostgresTypeOK, RedisTypeOK, RequestTypeOK, Phases, AfterCharge
<1>3. RequestTypeOK'
  BY DEF PostgresTypeOK, RedisTypeOK, RequestTypeOK, Steps, SyncSteps, Terminal
<1>4. Phases'
  BY DEF PostgresTypeOK, RequestTypeOK, Phases, BeforeAnswer, AfterCharge, SyncSteps
<1> QED
  BY <1>1, <1>2, <1>3, <1>4

LEMMA TypeDisconnect ==
    ASSUME TypeInv, NEW r \in Reqs, Disconnect(r)
    PROVE  TypeInv'
<1> USE ConstantsAssumption
    DEF ConstantsAssumption, TypeInv, TypeOK, pgVars, hashVars, reqVars, Goto,
        Disconnect
<1>1. PostgresTypeOK'
  BY DEF PostgresTypeOK, RequestTypeOK, Phases
<1>2. RedisTypeOK'
  BY DEF PostgresTypeOK, RedisTypeOK, RequestTypeOK, Phases, AfterCharge
<1>3. RequestTypeOK'
  BY DEF PostgresTypeOK, RedisTypeOK, RequestTypeOK, Steps, SyncSteps, Terminal
<1>4. Phases'
  BY DEF PostgresTypeOK, RequestTypeOK, Phases, BeforeAnswer, AfterCharge, SyncSteps
<1> QED
  BY <1>1, <1>2, <1>3, <1>4

LEMMA TypeEnvironment ==
    ASSUME TypeInv, Environment
    PROVE  TypeInv'
<1> USE ConstantsAssumption
    DEF ConstantsAssumption, TypeInv, TypeOK, pgVars, hashVars, reqVars, Goto,
        Environment, Expire, LoseData, DropHash, TopUp, Crash, InFlight, Rollover,
        Escapes, Value
<1>1. PostgresTypeOK'
  <2>1. CASE TopUp
    BY <2>1 DEF PostgresTypeOK
  <2>2. CASE Rollover
    BY <2>2 DEF PostgresTypeOK
  <2>3. CASE Expire \/ LoseData \/ Crash
    BY <2>3 DEF PostgresTypeOK
  <2> QED
    BY <2>1, <2>2, <2>3
<1>2. RedisTypeOK'
  <2>1. ASSUME DropHash
        PROVE  cacheBalance' = None /\ cacheHeld' = None /\ cacheTTL' = FALSE /\ blind' \in Nat
    <3>1. blind \in Nat /\ Value(cacheHeld) \in Int
      BY DEF RedisTypeOK
    <3> QED
      BY ONLY <2>1, <3>1 DEF DropHash, Escapes
  <2>2. CASE DropHash /\ UNCHANGED tracker
    BY ONLY <2>1, <2>2, RedisTypeOK DEF RedisTypeOK
  <2>3. CASE UNCHANGED <<cacheBalance, cacheHeld, cacheTTL, blind>> /\ tracker' = tracker
    BY ONLY <2>3, RedisTypeOK DEF RedisTypeOK
  <2>4. CASE /\ UNCHANGED <<cacheBalance, cacheHeld, cacheTTL, blind>>
             /\ \E p \in Periods : tracker' = [tracker EXCEPT ![p] = None]
    BY ONLY <2>4, RedisTypeOK DEF RedisTypeOK
  <2>5. CASE Rollover
    BY <2>5 DEF RedisTypeOK
  <2> HIDE DEF DropHash
  <2> QED
    BY <2>2, <2>3, <2>4, <2>5
<1>3. RequestTypeOK'
  BY DEF PostgresTypeOK, RedisTypeOK, RequestTypeOK, Steps, SyncSteps, Terminal
<1>4. Phases'
  BY DEF PostgresTypeOK, RequestTypeOK, Phases, BeforeAnswer, AfterCharge, SyncSteps
<1> QED
  BY <1>1, <1>2, <1>3, <1>4

LEMMA TypeStutter ==
    ASSUME TypeInv, UNCHANGED vars
    PROVE  TypeInv'
BY DEF TypeInv, TypeOK, PostgresTypeOK, RedisTypeOK, RequestTypeOK, Phases, BeforeAnswer,
       AfterCharge, vars, pgVars, hashVars, reqVars

LEMMA TypeStep == TypeInv /\ [Next]_vars => TypeInv'
<1> SUFFICES ASSUME TypeInv, [Next]_vars PROVE TypeInv'
  OBVIOUS
<1>1. ASSUME NEW r \in Reqs, Start(r) \/ Disconnect(r)
      PROVE  TypeInv'
  BY <1>1, TypeStart, TypeDisconnect
<1>2. ASSUME NEW r \in Reqs, PreCheck(r)
      PROVE  TypeInv'
  BY <1>2, TypeLimits, TypeCache, TypeHold, TypeRead, TypeReverse, TypeTrackers DEF PreCheck
<1>3. ASSUME NEW r \in Reqs, SyncBalanceFromPostgres(r) \/ Call(r)
      PROVE  TypeInv'
  BY <1>3, TypeSync, TypeCall
<1>4. ASSUME NEW r \in Reqs, FinalizeDeduction(r) \/ ReleaseHold(r)
      PROVE  TypeInv'
  BY <1>4, TypeSettle, TypeReverse, TypeTrackers DEF FinalizeDeduction, ReleaseHold
<1>5. CASE Environment
  BY <1>5, TypeEnvironment
<1>6. CASE UNCHANGED vars
  BY <1>6, TypeStutter
<1> QED
  BY <1>1, <1>2, <1>3, <1>4, <1>5, <1>6 DEF Next, Step

LEMMA TypeInvariant == Spec => []TypeInv
BY TypeInit, TypeStep, PTL DEF Spec

(***************************************************************************)
(* The type invariant holds in every state: no order of deposits,          *)
(* settlements and faults drives the wallet below zero, and a request is   *)
(* settled only with a cost.                                               *)
(***************************************************************************)
THEOREM TypeCorrect == Spec => []TypeOK
<1>1. TypeInv => TypeOK
  BY DEF TypeInv
<1> QED
  BY <1>1, TypeInvariant, PTL
-----------------------------------------------------------------------------
(***************************************************************************)
(* The books.  Only Charge and TopUp touch the wallet; a request that is   *)
(* charged had no usage record before, so the sum of what was billed grows *)
(* by its cost.                                                            *)
(***************************************************************************)

(* The columns and the amounts that the books are about.                   *)
bookVars == <<balance, totalSpent, totalLoaded, usage, act>>

LEMMA BilledType == TypeInv => Billed \in [Reqs -> Nat]
BY DEF TypeInv, Phases, Billed

LEMMA BookActions ==
    ASSUME TypeInv, [Next]_vars
    PROVE  \/ UNCHANGED bookVars
           \/ TopUp
           \/ \E r \in Reqs : pc[r] = "call" /\ Call(r)
           \/ \E r \in Reqs : pc[r] = "settle" /\ Settle(r)
<1> USE DEF bookVars, pgVars, hashVars, reqVars
<1>1. ASSUME NEW r \in Reqs, Start(r) \/ Disconnect(r)
      PROVE  UNCHANGED bookVars
  BY <1>1 DEF Start, Disconnect
<1>2. ASSUME NEW r \in Reqs, PreCheck(r)
      PROVE  UNCHANGED bookVars
  BY <1>2 DEF PreCheck, ReadTracker, ReadSum, CheckLimit, EnsureCache, Hold, Reread,
              ReadHeld, Decide, ReverseHold, Track, AddToTrackers
<1>3. ASSUME NEW r \in Reqs, SyncBalanceFromPostgres(r)
      PROVE  UNCHANGED bookVars
  BY <1>3 DEF SyncBalanceFromPostgres, SyncRead, SyncCreate, SyncSet, SyncExpire, SyncFails,
              EnsureWallet
<1>4. ASSUME NEW r \in Reqs, ReleaseHold(r) \/ Adjust(r)
      PROVE  UNCHANGED bookVars
  BY <1>4 DEF ReleaseHold, Release, Untrack, Adjust, AddToTrackers
<1>5. ASSUME Expire \/ LoseData \/ Crash \/ Rollover
      PROVE  UNCHANGED bookVars
  BY <1>5 DEF Expire, LoseData, Crash, Rollover
<1>6. CASE UNCHANGED vars
  BY <1>6 DEF vars
<1> QED
  BY <1>1, <1>2, <1>3, <1>4, <1>5, <1>6
     DEF Next, Step, FinalizeDeduction, Environment, Call, Settle

LEMMA WalletInit == Init => WalletConserved
<1> SUFFICES ASSUME Init PROVE WalletConserved
  OBVIOUS
<1>1. DOMAIN Billed = Reqs /\ \A r \in Reqs : Billed[r] = 0
  BY DEF Init, Billed
<1>2. Total(Billed) = 0
  BY <1>1, TotalZero
<1> QED
  BY <1>2, ConstantsAssumption DEF WalletConserved, Init, ConstantsAssumption

LEMMA WalletStep ==
    ASSUME TypeInv, TypeInv', WalletConserved, [Next]_vars
    PROVE  WalletConserved'
<1> USE ConstantsAssumption DEF ConstantsAssumption
<1>1. Billed \in [Reqs -> Nat] /\ Billed' \in [Reqs -> Nat]
  <2>1. (TypeInv => Billed \in [Reqs -> Nat])'
    BY BilledType, PTL
  <2> QED
    BY <2>1, BilledType
<1>2. CASE UNCHANGED bookVars
  BY <1>2 DEF bookVars, WalletConserved, Billed
<1>3. CASE TopUp
  BY <1>3 DEF TopUp, reqVars, WalletConserved, Billed, TypeInv, TypeOK, PostgresTypeOK
<1>4. ASSUME NEW r \in Reqs, pc[r] = "call", Call(r)
      PROVE  WalletConserved'
  <2>1. Billed' = Billed
    BY <1>4 DEF Call, pgVars, Billed, TypeInv, TypeOK, RequestTypeOK, Phases, BeforeAnswer
  <2> QED
    BY <1>4, <2>1 DEF Call, pgVars, WalletConserved
<1>5. ASSUME NEW r \in Reqs, pc[r] = "settle", Settle(r)
      PROVE  WalletConserved'
  <2>1. act' = act /\ act[r] \in Nat /\ usage[r] = "none"
    BY <1>5 DEF Settle, TypeInv, Phases
  <2>2. CASE Charge(r)
    <3>1. \A q \in Reqs \ {r} : Billed'[q] = Billed[q]
      BY <2>1, <2>2 DEF Charge, Billed, TypeInv, TypeOK, PostgresTypeOK
    <3>2. Billed[r] = 0 /\ Billed'[r] = act[r]
      BY <2>1, <2>2 DEF Charge, Billed, TypeInv, TypeOK, PostgresTypeOK
    <3>3. Total(Billed') = Total(Billed) - Billed[r] + Billed'[r]
      BY <1>1, <3>1, TotalChange
    <3>4. Total(Billed) \in Nat
      BY <1>1, TotalType
    <3> QED
      BY <2>1, <2>2, <3>2, <3>3, <3>4
         DEF Charge, WalletConserved, TypeInv, TypeOK, PostgresTypeOK
  <2>3. CASE RecordFailure(r)
    <3>1. Billed' = Billed
      BY <2>1, <2>3 DEF RecordFailure, Billed, TypeInv, TypeOK, PostgresTypeOK
    <3> QED
      BY <2>3, <3>1 DEF RecordFailure, WalletConserved
  <2>4. CASE UNCHANGED pgVars
    BY <2>1, <2>4 DEF pgVars, WalletConserved, Billed
  <2> QED
    BY <1>5, <2>2, <2>3, <2>4 DEF Settle
<1> QED
  BY <1>2, <1>3, <1>4, <1>5, BookActions

(***************************************************************************)
(* The books balance in every state, whatever faults occur: what was paid  *)
(* in is what is left and what the completed usage records cost.           *)
(***************************************************************************)
THEOREM WalletCorrect == Spec => []WalletConserved
<1>1. TypeInv /\ TypeInv' /\ WalletConserved /\ [Next]_vars => WalletConserved'
  BY WalletStep
<1> QED
  BY <1>1, WalletInit, TypeInvariant, PTL DEF Spec
-----------------------------------------------------------------------------
(***************************************************************************)
(* The refinement.  The answer of the provider is the step Serve of the    *)
(* ledger, the transaction of FinalizeDeduction the steps Pay and Waive;   *)
(* whatever else happens leaves the ledger alone.                          *)
(***************************************************************************)

LEMMA LedgerInit == Init => Ledger!Init
BY ConstantsAssumption DEF ConstantsAssumption, Init, Bill, Ledger!Init

(* The wallet of a cached balance, or of a request past PreCheck, exists.  *)
WalletKnown ==
    /\ cacheBalance # None => walletExists
    /\ \A r \in Reqs :
          pc[r] \in {"sync_set", "read_held", "track", "call", "settle"} => walletExists

LEMMA KnownInit == Init => WalletKnown
BY DEF Init, WalletKnown

LEMMA KnownStep ==
    ASSUME TypeInv, WalletKnown, [Next]_vars
    PROVE  WalletKnown'
<1> USE DEF TypeInv, TypeOK, RequestTypeOK, WalletKnown, pgVars, hashVars, reqVars, Goto
<1>1. ASSUME NEW r \in Reqs, Start(r) \/ Disconnect(r)
      PROVE  WalletKnown'
  BY <1>1 DEF Start, Disconnect
<1>2. ASSUME NEW r \in Reqs, PreCheck(r)
      PROVE  WalletKnown'
  <2>1. CASE ReadTracker(r) \/ ReadSum(r)
    BY <2>1 DEF ReadTracker, ReadSum, CheckLimit
  <2>2. CASE EnsureCache(r)
    BY <2>2 DEF EnsureCache, CallSync
  <2>3. CASE Hold(r)
    BY <2>3 DEF Hold, IncrHeld, CallSync
  <2>4. CASE Reread(r) \/ ReadHeld(r)
    BY <2>4 DEF Reread, ReadHeld, Decide
  <2>5. CASE ReverseHold(r) \/ Track(r)
    BY <2>5 DEF ReverseHold, Attempt, IncrHeld, Track, AddToTrackers
  <2> QED
    BY <1>2, <2>1, <2>2, <2>3, <2>4, <2>5 DEF PreCheck
<1>3. ASSUME NEW r \in Reqs, SyncBalanceFromPostgres(r)
      PROVE  WalletKnown'
  <2>1. CASE SyncRead(r)
    BY <2>1 DEF SyncRead, SyncFails, AfterSyncError
  <2>2. CASE SyncCreate(r)
    BY <2>2 DEF SyncCreate, SyncFails, AfterSyncError, EnsureWallet
  <2>3. CASE SyncSet(r)
    BY <2>3 DEF SyncSet, Attempt, SetBalance
  <2>4. CASE SyncExpire(r)
    BY <2>4 DEF SyncExpire, Attempt, SetTTL
  <2> QED
    BY <1>3, <2>1, <2>2, <2>3, <2>4 DEF SyncBalanceFromPostgres
<1>4. ASSUME NEW r \in Reqs, Call(r) \/ Settle(r)
      PROVE  WalletKnown'
  BY <1>4 DEF Call, Settle, Charge, RecordFailure, CallSync, AfterCommitError
<1>5. ASSUME NEW r \in Reqs, ReleaseHold(r) \/ Adjust(r)
      PROVE  WalletKnown'
  BY <1>5 DEF ReleaseHold, Release, Untrack, Adjust, AddToTrackers, Attempt, IncrHeld
<1>6. ASSUME Environment
      PROVE  WalletKnown'
  BY <1>6 DEF Environment, Expire, LoseData, DropHash, TopUp, Crash, Rollover
<1>7. CASE UNCHANGED vars
  BY <1>7 DEF vars
<1> QED
  BY <1>1, <1>2, <1>3, <1>4, <1>5, <1>6, <1>7 DEF Next, Step, FinalizeDeduction

LEMMA KnownInvariant == Spec => []WalletKnown
<1>1. TypeInv /\ WalletKnown /\ [Next]_vars => WalletKnown'
  BY KnownStep
<1> QED
  BY <1>1, KnownInit, TypeInvariant, PTL DEF Spec

LEMMA LedgerStep ==
    ASSUME TypeInv, TypeInv', WalletKnown, [Next]_vars
    PROVE  [Ledger!Next]_Ledger!vars
<1> USE ConstantsAssumption DEF ConstantsAssumption, TypeInv, TypeOK, PostgresTypeOK
<1>1. CASE UNCHANGED bookVars
  BY <1>1 DEF bookVars, Bill, Ledger!vars
<1>2. CASE TopUp
  <2>1. Ledger!TopUp
    BY <1>2 DEF TopUp, reqVars, Bill, Ledger!TopUp
  <2> QED
    BY <2>1 DEF Ledger!Next
<1>3. ASSUME NEW r \in Reqs, pc[r] = "call", Call(r)
      PROVE  [Ledger!Next]_Ledger!vars
  <2>1. act[r] = None /\ usage[r] = "none"
    BY <1>3 DEF Phases, BeforeAnswer
  <2>2. CASE UNCHANGED act
    BY <1>3, <2>2 DEF Call, pgVars, Bill, Ledger!vars
  <2>3. ASSUME NEW cost \in Costs \cup {0}, act' = [act EXCEPT ![r] = cost]
        PROVE  Ledger!Serve(r)
    BY <1>3, <2>1, <2>3 DEF Call, pgVars, RequestTypeOK, Bill, Ledger!Serve
  <2> QED
    BY <1>3, <2>2, <2>3 DEF Call, Ledger!Next
<1>4. ASSUME NEW r \in Reqs, pc[r] = "settle", Settle(r)
      PROVE  [Ledger!Next]_Ledger!vars
  <2>1. act' = act /\ act[r] \in Nat /\ usage[r] = "none"
    BY <1>4 DEF Settle, Phases
  <2>2. CASE Covered(r) /\ Charge(r)
    <3>0. Bill[r] = "open" /\ Bill' = [Bill EXCEPT ![r] = "paid"]
      BY <2>1, <2>2 DEF Charge, Bill
    <3>1. Ledger!Settles(r, "paid")
      BY <2>1, <2>2, <3>0 DEF Charge, Ledger!Settles
    <3>2. Ledger!Pay(r)
      BY <2>2, <3>1 DEF Covered, Charge, Ledger!Pay
    <3> QED
      BY <3>2 DEF Ledger!Next
  <2>3. CASE ~Covered(r) /\ RecordFailure(r)
    <3>0. Bill[r] = "open" /\ Bill' = [Bill EXCEPT ![r] = "waived"]
      BY <2>1, <2>3 DEF RecordFailure, Bill
    <3>1. Ledger!Settles(r, "waived")
      BY <2>1, <2>3, <3>0 DEF RecordFailure, Ledger!Settles
    <3>2. act[r] > balance
      BY <1>4, <2>1, <2>3 DEF Covered, WalletKnown
    <3>3. Ledger!Waive(r)
      BY <2>3, <3>1, <3>2 DEF RecordFailure, Ledger!Waive
    <3> QED
      BY <3>3 DEF Ledger!Next
  <2>4. CASE UNCHANGED pgVars
    BY <2>1, <2>4 DEF pgVars, Bill, Ledger!vars
  <2> QED
    BY <1>4, <2>2, <2>3, <2>4 DEF Settle
<1> QED
  BY <1>1, <1>2, <1>3, <1>4, BookActions

(***************************************************************************)
(* The gateway implements the ledger: under every interleaving and fault a *)
(* request is settled at most once, in full and only after it was served,  *)
(* and it is let off only when the wallet cannot cover it.                 *)
(***************************************************************************)
THEOREM LedgerImplemented == Spec => ImplementsLedger
<1>1. TypeInv /\ TypeInv' /\ WalletKnown /\ [Next]_vars => [Ledger!Next]_Ledger!vars
  BY LedgerStep
<1> QED
  BY <1>1, LedgerInit, TypeInvariant, KnownInvariant, PTL DEF Spec, ImplementsLedger, Ledger!Spec
-----------------------------------------------------------------------------
(***************************************************************************)
(* Holds and trackers.                                                     *)
(*                                                                         *)
(* What the holds and the spend trackers achieve, for any number of        *)
(* requests: the holds under every fault, the trackers as long as Redis    *)
(* keeps them and no request costs more than its estimate.                 *)
(*                                                                         *)
(* The first inductive invariant compares what Redis shows, and what       *)
(* escaped it, with the estimates of the requests that hold.  The          *)
(* difference, leaked holds and those of settled requests, never shrinks,  *)
(* and with the balance it bounds every balance that a request will act    *)
(* on; it begins afresh when nobody holds.                                 *)
(*                                                                         *)
(* The second does the same for the tracker of each period: a step of a    *)
(* request takes no more from it than from what the request owes to it.    *)
(***************************************************************************)

Shown == Value(cacheHeld) + blind

(* A request is settled out of reach of its client.                        *)
Detached == \A r \in Reqs : pc[r] = "settle" => ctx[r] = "detached"

HoldInv == Detached /\ HoldsBacked /\ ViewsConservative /\ NoOvercommit

LEMMA HeldType ==
    ASSUME TypeInv
    PROVE  /\ Held \in [Reqs -> Nat] /\ Total(Held) \in Nat
           /\ Promised \in [Reqs -> Nat] /\ Total(Promised) \in Nat
           /\ Value(cacheHeld) \in Int /\ Shown \in Int
           /\ balance \in Nat /\ blind \in Nat
           /\ Views \subseteq Nat
<1> USE ConstantsAssumption
    DEF ConstantsAssumption, TypeInv, TypeOK, PostgresTypeOK, RedisTypeOK, RequestTypeOK
<1>1. Held \in [Reqs -> Nat] /\ Promised \in [Reqs -> Nat]
  BY DEF Held, Promised
<1>2. Total(Held) \in Nat /\ Total(Promised) \in Nat
  BY <1>1, TotalType
<1>3. Value(cacheHeld) \in Int
  BY DEF Value
<1>4. Views \subseteq Nat
  BY DEF Views
<1> QED
  BY <1>1, <1>2, <1>3, <1>4 DEF Shown

(* Every admitted request holds its estimate.                              *)
LEMMA PromisedHeld ==
    ASSUME TypeInv
    PROVE  Total(Promised) <= Total(Held)
<1>1. \A r \in Reqs : Promised[r] <= Held[r]
  BY DEF TypeInv, TypeOK, RequestTypeOK, Promised, Held, Admitted, Holding
<1> QED
  BY <1>1, HeldType, TotalMonotone, ConstantsAssumption DEF ConstantsAssumption
-----------------------------------------------------------------------------
(***************************************************************************)
(* A step of one request.                                                  *)
(***************************************************************************)

Acts(r) == Start(r) \/ Step(r) \/ Disconnect(r)

(* It leaves the variables of the other requests alone.                    *)
LEMMA Local ==
    ASSUME TypeInv, NEW r \in Reqs, Acts(r)
    PROVE  \A q \in Reqs \ {r} : /\ pc'[q] = pc[q] /\ ctx'[q] = ctx[q] /\ est'[q] = est[q]
                                 /\ seen'[q] = seen[q] /\ act'[q] = act[q] /\ ret'[q] = ret[q]
                                 /\ todo'[q] = todo[q]
<1> USE DEF TypeInv, TypeOK, RequestTypeOK, Goto
<1>1. CASE Start(r) \/ Disconnect(r)
  BY <1>1 DEF Start, Disconnect
<1>2. CASE PreCheck(r)
  <2>1. CASE ReadTracker(r) \/ ReadSum(r)
    BY <2>1 DEF ReadTracker, ReadSum, CheckLimit
  <2>2. CASE EnsureCache(r) \/ Hold(r)
    BY <2>2 DEF EnsureCache, Hold, CallSync
  <2>3. CASE Reread(r) \/ ReadHeld(r)
    BY <2>3 DEF Reread, ReadHeld, Decide
  <2>4. CASE ReverseHold(r) \/ Track(r)
    BY <2>4 DEF ReverseHold, Track, AddToTrackers
  <2> QED
    BY <1>2, <2>1, <2>2, <2>3, <2>4 DEF PreCheck
<1>3. CASE SyncBalanceFromPostgres(r)
  BY <1>3 DEF SyncBalanceFromPostgres, SyncRead, SyncCreate, SyncSet, SyncExpire, SyncFails
<1>4. CASE Call(r) \/ FinalizeDeduction(r)
  BY <1>4 DEF Call, FinalizeDeduction, Settle, Adjust, AddToTrackers, CallSync
<1>5. CASE ReleaseHold(r)
  BY <1>5 DEF ReleaseHold, Release, Untrack, AddToTrackers
<1> QED
  BY <1>1, <1>2, <1>3, <1>4, <1>5 DEF Acts, Step

LEMMA SumsMove ==
    ASSUME TypeInv, TypeInv', NEW r \in Reqs, Acts(r)
    PROVE  /\ Total(Held') = Total(Held) - Held[r] + Held'[r]
           /\ Total(Promised') = Total(Promised) - Promised[r] + Promised'[r]
<1>1. \A q \in Reqs \ {r} : Held'[q] = Held[q] /\ Promised'[q] = Promised[q]
  BY Local DEF Held, Promised, Holding, Admitted, Sent
<1>2. /\ Held \in [Reqs -> Nat] /\ Promised \in [Reqs -> Nat]
      /\ Held' \in [Reqs -> Nat] /\ Promised' \in [Reqs -> Nat]
  <2>1. (TypeInv => Held \in [Reqs -> Nat] /\ Promised \in [Reqs -> Nat])'
    BY HeldType, PTL
  <2> QED
    BY <2>1, HeldType
<1>3. IsFiniteSet(Reqs)
  BY ConstantsAssumption DEF ConstantsAssumption
<1> QED
  BY <1>1, <1>2, <1>3, TotalChange

(* What a step of r does to the room that is shown: what it takes from     *)
(* that it takes from its own hold, and what it charges it held, or it     *)
(* escapes.                                                                *)
RoomKept(r) ==
    /\ Shown' - Held'[r] >= Shown - Held[r]
    /\ balance' - Held'[r] + Shown' >= balance - Held[r] + Shown

(* The balances it may come to act on.                                     *)
ViewsKept == \A amount \in Views' : amount \in Views \cup {balance', 0}

LEMMA StepKeepsRoom ==
    ASSUME TypeInv, TypeInv', NEW r \in Reqs, Acts(r)
    PROVE  RoomKept(r)
<1> USE ConstantsAssumption
    DEF ConstantsAssumption, TypeInv, TypeOK, PostgresTypeOK, RedisTypeOK,
        RequestTypeOK, pgVars, hashVars, Goto, RoomKept, Shown, Held, Holding, SyncSteps, Value
<1>1. CASE Start(r) \/ Disconnect(r)
  BY <1>1 DEF Start, Disconnect, InFlight, Limited
<1>2. CASE ReadTracker(r) \/ ReadSum(r)
  BY <1>2 DEF ReadTracker, ReadSum, CheckLimit
<1>3. CASE EnsureCache(r)
  BY <1>3 DEF EnsureCache, CallSync
<1>4. CASE Hold(r)
  BY <1>4 DEF Hold, CallSync, IncrHeld, RedisFails
<1>5. CASE Reread(r) \/ ReadHeld(r)
  BY <1>5 DEF Reread, ReadHeld, Decide, Escapes
<1>6. CASE ReverseHold(r) \/ Release(r)
  BY <1>6 DEF ReverseHold, Release, Attempt, IncrHeld
<1>7. CASE Track(r) \/ Untrack(r) \/ Adjust(r)
  BY <1>7 DEF Track, Untrack, Adjust, AddToTrackers
<1>8. CASE SyncRead(r) \/ SyncCreate(r)
  BY <1>8 DEF SyncRead, SyncCreate, SyncFails, AfterSyncError, EnsureWallet
<1>9. CASE SyncSet(r) \/ SyncExpire(r)
  BY <1>9 DEF SyncSet, SyncExpire, Attempt, SetBalance, SetTTL
<1>10. CASE Call(r)
  BY <1>10 DEF Call
<1>11. CASE Settle(r)
  <2>1. act[r] \in Nat /\ est[r] \in Nat /\ pc[r] = "settle" /\ Held[r] = est[r]
    BY <1>11 DEF Settle, Phases
  <2>2. UNCHANGED <<hashVars, est, act>> /\ Held'[r] \in {0, est[r]}
    BY <1>11 DEF Settle, hashVars
  <2>3. CASE Charge(r)
    <3>1. balance' = balance - act[r] /\ blind' >= blind /\ blind' >= blind + act[r] - est[r]
      BY <2>1, <2>3 DEF Charge, Escapes
    <3>2. Held'[r] = 0
      <4>1. usage[r] = "none" /\ usage'[r] = "completed"
        BY <1>11, <2>3 DEF Settle, Charge, Phases
      <4>2. pc'[r] = "lost" \/ (pc'[r] = "sync_read" /\ ret'[r] = "adjust")
        BY <1>11, <4>1 DEF Settle, CallSync, AfterCommitError, RecordFailure
      <4> QED
        BY ONLY <4>2 DEF Held, Holding, SyncSteps
    <3> QED
      BY <2>1, <2>2, <3>1, <3>2
  <2>4. CASE UNCHANGED <<balance, blind>>
    BY <2>1, <2>2, <2>4
  <2> QED
    BY <1>11, <2>3, <2>4 DEF Settle, RecordFailure
<1> QED
  BY <1>1, <1>2, <1>3, <1>4, <1>5, <1>6, <1>7, <1>8, <1>9, <1>10, <1>11
     DEF Acts, Step, PreCheck, SyncBalanceFromPostgres, FinalizeDeduction, ReleaseHold

LEMMA StepKeepsViews ==
    ASSUME TypeInv, NEW r \in Reqs, Acts(r)
    PROVE  ViewsKept
<1> USE ConstantsAssumption
    DEF ConstantsAssumption, TypeInv, TypeOK, PostgresTypeOK, RedisTypeOK,
        RequestTypeOK, pgVars, hashVars, Goto, ViewsKept, Views
<1>1. CASE Start(r) \/ Disconnect(r)
  BY <1>1 DEF Start, Disconnect
<1>2. CASE ReadTracker(r) \/ ReadSum(r)
  BY <1>2 DEF ReadTracker, ReadSum, CheckLimit
<1>3. CASE EnsureCache(r)
  BY <1>3 DEF EnsureCache, CallSync
<1>4. CASE Hold(r)
  BY <1>4 DEF Hold, CallSync, IncrHeld
<1>5. CASE Reread(r) \/ ReadHeld(r)
  BY <1>5 DEF Reread, ReadHeld, Decide
<1>6. CASE ReverseHold(r) \/ Release(r)
  BY <1>6 DEF ReverseHold, Release, Attempt, IncrHeld
<1>7. CASE Track(r) \/ Untrack(r) \/ Adjust(r)
  BY <1>7 DEF Track, Untrack, Adjust, AddToTrackers
<1>8. CASE SyncRead(r)
  BY <1>8 DEF SyncRead, SyncFails, AfterSyncError
<1>9. CASE SyncCreate(r)
  BY <1>9 DEF SyncCreate, SyncFails, AfterSyncError, EnsureWallet
<1>10. CASE SyncSet(r) \/ SyncExpire(r)
  BY <1>10 DEF SyncSet, SyncExpire, Attempt, SetBalance, SetTTL
<1>11. CASE Call(r)
  BY <1>11 DEF Call
<1>12. CASE Settle(r)
  BY <1>12 DEF Settle, CallSync, AfterCommitError
<1> QED
  BY <1>1, <1>2, <1>3, <1>4, <1>5, <1>6, <1>7, <1>8, <1>9, <1>10, <1>11, <1>12
     DEF Acts, Step, PreCheck, SyncBalanceFromPostgres, FinalizeDeduction, ReleaseHold

(* A request is admitted in two ways: by the decision of PreCheck, made on *)
(* a balance among the views, or it was so already.                        *)
LEMMA StepPromises ==
    ASSUME TypeInv, TypeInv', Detached, NEW r \in Reqs, Acts(r)
    PROVE  \/ /\ pc[r] = "read_held" /\ Shown <= seen[r] + blind'
              /\ balance' = balance /\ Held' = Held
           \/ Promised'[r] - Promised[r] <= (balance' + blind') - (balance + blind)
<1> USE ConstantsAssumption
    DEF ConstantsAssumption, TypeInv, TypeOK, PostgresTypeOK, RequestTypeOK, RedisTypeOK,
        pgVars, hashVars, Goto, Promised, Admitted, Sent
<1>0. /\ pc \in [Reqs -> {"idle"} \cup Steps \cup Terminal]
      /\ ret[r] \in {"hold", "reread", "adjust"}
  OBVIOUS
<1>1. ASSUME pc'[r] \notin {"track", "call", "settle"}, balance' = balance, blind' = blind
      PROVE  Promised'[r] - Promised[r] <= (balance' + blind') - (balance + blind)
  BY <1>1
<1>2. CASE Start(r) \/ ReadTracker(r) \/ ReadSum(r)
  <2>1. pc'[r] \notin {"track", "call", "settle"} /\ balance' = balance /\ blind' = blind
    BY <1>2 DEF Start, ReadTracker, ReadSum, CheckLimit
  <2> QED
    BY <1>1, <2>1
<1>3. CASE EnsureCache(r) \/ Hold(r)
  <2>1. pc'[r] \notin {"track", "call", "settle"} /\ balance' = balance /\ blind' = blind
    BY <1>3 DEF EnsureCache, Hold, CallSync
  <2> QED
    BY <1>1, <2>1
<1>11. CASE Disconnect(r)
  BY <1>11 DEF Disconnect
<1>4. CASE Reread(r)
  BY <1>4 DEF Reread
<1>5. CASE ReadHeld(r)
  <2>1. CASE Sent(r) /\ pc'[r] = "track"
    <3>1. balance' = balance /\ pc[r] = "read_held" /\ seen[r] \in Nat /\ blind \in Nat
      BY <1>5 DEF ReadHeld, Decide
    <3>2. Value(cacheHeld) \in Int
      BY DEF Value
    <3>3. \/ Value(cacheHeld) <= seen[r] /\ blind' = blind
          \/ blind' >= blind + Value(cacheHeld)
      <4>1. CASE Decide(r, Value(cacheHeld)) /\ UNCHANGED blind
        BY <2>1, <3>1, <3>2, <4>1 DEF Decide, Affordable
      <4>2. CASE Escapes(IF Sent(r) THEN Value(cacheHeld) ELSE 0)
        BY <2>1, <3>1, <3>2, <4>2 DEF Escapes
      <4> QED
        BY <1>5, <4>1, <4>2 DEF ReadHeld
    <3>4. Shown <= seen[r] + blind'
      BY <3>1, <3>2, <3>3 DEF Shown
    <3>5. est' = est /\ ret' = ret /\ pc' \in {[pc EXCEPT ![r] = s] : s \in {"track", "reverse"}}
      BY <1>5 DEF ReadHeld, Decide
    <3>6. Held' = Held
      BY <3>1, <3>5 DEF Held, Holding, SyncSteps
    <3> QED
      BY <3>1, <3>4, <3>6
  <2>2. CASE ~(Sent(r) /\ pc'[r] = "track")
    <3>1. ~Sent(r) \/ pc'[r] = "reverse"
      BY <1>5, <2>2 DEF ReadHeld, Decide, RedisFails
    <3>2. balance' = balance /\ ctx' = ctx /\ blind' >= blind
      BY <1>5 DEF ReadHeld, Decide, Escapes, Value
    <3>3. Promised'[r] = 0
      BY <3>1, <3>2
    <3>4. Promised[r] \in Nat
      OBVIOUS
    <3> QED
      BY <3>2, <3>3, <3>4
  <2> QED
    BY <2>1, <2>2
<1>6. CASE ReverseHold(r) \/ ReleaseHold(r)
  <2>1. CASE Untrack(r)
    BY <1>1, <2>1 DEF Untrack, AddToTrackers
  <2>2. CASE ReverseHold(r) \/ Release(r)
    <3> HIDE ConstantsAssumption
        DEF ConstantsAssumption, TypeInv, TypeOK, PostgresTypeOK, RedisTypeOK
    <3>1. pc'[r] \notin {"track", "call", "settle"} /\ balance' = balance /\ blind' = blind
      BY <1>0, <2>2 DEF ReverseHold, Release
    <3> QED
      BY <1>1, <3>1
  <2> QED
    BY <1>6, <2>1, <2>2 DEF ReleaseHold
<1>7. CASE Track(r) \/ Adjust(r)
  BY <1>7 DEF Track, Adjust, AddToTrackers
<1>8. CASE SyncBalanceFromPostgres(r)
  <2>1. CASE SyncRead(r) \/ SyncCreate(r)
    <3>1. pc'[r] \notin {"track", "call", "settle"} /\ balance' = balance /\ blind' = blind
      BY <2>1 DEF SyncRead, SyncCreate, SyncFails, AfterSyncError, EnsureWallet
    <3> QED
      BY <1>1, <3>1
  <2>2. CASE SyncSet(r) \/ SyncExpire(r)
    <3> HIDE ConstantsAssumption
        DEF ConstantsAssumption, TypeInv, TypeOK, PostgresTypeOK, RedisTypeOK
    <3>1. pc'[r] \notin {"track", "call", "settle"} /\ balance' = balance /\ blind' = blind
      BY <1>0, <2>2 DEF SyncSet, SyncExpire
    <3> QED
      BY <1>1, <3>1
  <2> QED
    BY <1>8, <2>1, <2>2 DEF SyncBalanceFromPostgres
<1>9. CASE Call(r)
  BY <1>9 DEF Call
<1>10. CASE Settle(r)
  <2>1. act[r] \in Nat /\ est[r] \in Nat /\ Promised[r] = est[r] /\ Promised'[r] = 0
    BY <1>10 DEF Settle, Detached, Phases, CallSync, AfterCommitError
  <2>2. CASE Charge(r)
    <3>1. balance' = balance - act[r] /\ blind' >= blind + act[r] - est[r]
      BY <2>1, <2>2 DEF Charge, Escapes
    <3> QED
      BY <2>1, <3>1
  <2>3. CASE UNCHANGED <<balance, blind>>
    BY <2>1, <2>3
  <2> QED
    BY <1>10, <2>2, <2>3 DEF Settle, RecordFailure
<1> QED
  BY <1>2, <1>3, <1>4, <1>5, <1>6, <1>7, <1>8, <1>9, <1>10, <1>11
     DEF Acts, Step, PreCheck, FinalizeDeduction

(* The UPDATE of an admitted request finds its estimate, but for what      *)
(* escaped.                                                                *)
LEMMA SettleCovered ==
    ASSUME TypeInv, Detached, NoOvercommit, NEW r \in Reqs, pc[r] = "settle"
    PROVE  est[r] <= balance + blind
<1>1. Promised[r] = est[r]
  BY DEF Detached, Promised, Admitted, Sent
<1>2. est[r] <= Total(Promised)
  BY <1>1, HeldType, TotalMember, ConstantsAssumption DEF ConstantsAssumption
<1>3. est[r] \in Nat
  BY DEF TypeInv, TypeOK, RequestTypeOK
<1>4. Total(Promised) \in Nat /\ balance \in Nat /\ blind \in Nat
  BY HeldType
<1> QED
  BY <1>2, <1>3, <1>4 DEF NoOvercommit
-----------------------------------------------------------------------------
(***************************************************************************)
(* The inductive invariant.                                                *)
(***************************************************************************)

LEMMA HoldInit == Init => HoldInv
<1> SUFFICES ASSUME Init PROVE HoldInv
  OBVIOUS
<1> USE ConstantsAssumption DEF ConstantsAssumption
<1>1. /\ DOMAIN Held = Reqs /\ \A r \in Reqs : Held[r] = 0
      /\ DOMAIN Promised = Reqs /\ \A r \in Reqs : Promised[r] = 0
  BY DEF Init, Held, Holding, SyncSteps, Promised, Admitted
<1>2. Total(Held) = 0 /\ Total(Promised) = 0
  BY <1>1, TotalZero
<1>3. Views = {}
  BY DEF Init, Views
<1> QED
  BY <1>2, <1>3
     DEF Init, HoldInv, Detached, HoldsBacked, ViewsConservative, NoOvercommit, Value

(* A request comes to its settlement by the answer of the provider alone.  *)
LEMMA ToSettle ==
    ASSUME TypeInv, NEW r \in Reqs, Acts(r), pc'[r] = "settle"
    PROVE  Call(r) \/ (Disconnect(r) /\ pc[r] = "settle")
<1> USE DEF TypeInv, TypeOK, RequestTypeOK, Goto
<1>1. CASE Start(r) \/ Disconnect(r)
  BY <1>1 DEF Start, Disconnect
<1>2. ~PreCheck(r)
  BY DEF PreCheck, ReadTracker, ReadSum, CheckLimit, EnsureCache, Hold, CallSync, Reread,
         ReadHeld, Decide, ReverseHold, Track, AddToTrackers
<1>3. ~SyncBalanceFromPostgres(r)
  BY DEF SyncBalanceFromPostgres, SyncRead, SyncCreate, SyncSet, SyncExpire, SyncFails,
         AfterSyncError
<1>4. ~FinalizeDeduction(r)
  BY DEF FinalizeDeduction, Settle, CallSync, AfterCommitError, Adjust, AddToTrackers
<1>5. ~ReleaseHold(r)
  BY DEF ReleaseHold, Release, Untrack, AddToTrackers
<1> QED
  BY <1>1, <1>2, <1>3, <1>4, <1>5 DEF Acts, Step

LEMMA DetachedStep ==
    ASSUME TypeInv, Detached, NEW r \in Reqs, Acts(r)
    PROVE  Detached'
<1>1. ASSUME pc'[r] = "settle"
      PROVE  ctx'[r] = "detached"
  BY <1>1, ToSettle DEF Call, Disconnect, Detached, TypeInv, TypeOK, RequestTypeOK, Goto
<1> QED
  BY <1>1, Local DEF Detached

(* A request that is let off cost more than its estimate, or so much       *)
(* escaped.                                                                *)
LEMMA PaidStep ==
    ASSUME TypeInv, WalletKnown, Detached, NoOvercommit, [Next]_vars, NEW r \in Reqs,
           usage[r] = "none", usage'[r] = "failed"
    PROVE  act[r] + blind > est[r]
<1> USE DEF TypeInv, TypeOK, PostgresTypeOK
<1>1. CASE UNCHANGED bookVars
  BY <1>1 DEF bookVars
<1>2. CASE TopUp
  BY <1>2 DEF TopUp
<1>3. ASSUME NEW q \in Reqs, Call(q)
      PROVE  FALSE
  BY <1>3 DEF Call, pgVars
<1>4. ASSUME NEW q \in Reqs, pc[q] = "settle", Settle(q)
      PROVE  act[r] + blind > est[r]
  <2>1. ~Charge(q) /\ ~UNCHANGED pgVars
    BY DEF Charge, pgVars
  <2>2. ~Covered(q) /\ RecordFailure(q)
    BY <1>4, <2>1 DEF Settle
  <2>3. q = r
    BY <2>2 DEF RecordFailure
  <2>4. /\ act[r] \in Nat /\ est[r] \in Nat /\ balance \in Nat /\ blind \in Nat
        /\ balance < act[r]
    BY <1>4, <2>2, <2>3, HeldType DEF Phases, Covered, WalletKnown, RequestTypeOK
  <2>5. est[r] <= balance + blind
    BY <1>4, <2>3, SettleCovered
  <2> QED
    BY <2>4, <2>5
<1> QED
  BY <1>1, <1>2, <1>3, <1>4, BookActions

LEMMA HoldActs ==
    ASSUME TypeInv, TypeInv', HoldInv, NEW r \in Reqs, Acts(r)
    PROVE  HoldsBacked' /\ ViewsConservative' /\ NoOvercommit'
<1> USE DEF HoldInv, HoldsBacked, ViewsConservative, NoOvercommit
<1>1. /\ Total(Held') = Total(Held) - Held[r] + Held'[r]
      /\ Total(Promised') = Total(Promised) - Promised[r] + Promised'[r]
  BY SumsMove
<1>2. /\ Held[r] \in Nat /\ Promised[r] \in Nat
      /\ Total(Held) \in Nat /\ Total(Promised) \in Nat
      /\ Shown \in Int /\ balance \in Nat /\ blind \in Nat /\ Views \subseteq Nat
  BY HeldType
<1>3. /\ Held'[r] \in Nat /\ Promised'[r] \in Nat
      /\ Total(Held') \in Nat /\ Total(Promised') \in Nat
      /\ Shown' \in Int /\ balance' \in Nat /\ blind' \in Nat /\ Views' \subseteq Nat
  <2>1. (TypeInv => /\ Held \in [Reqs -> Nat] /\ Promised \in [Reqs -> Nat]
                    /\ Total(Held) \in Nat /\ Total(Promised) \in Nat
                    /\ Shown \in Int /\ balance \in Nat /\ blind \in Nat /\ Views \subseteq Nat)'
    BY HeldType, PTL
  <2> QED
    BY <2>1
<1>4. RoomKept(r)
  BY StepKeepsRoom
<1>5. /\ Shown >= Total(Held) /\ balance + blind >= Total(Promised)
      /\ \A amount \in Views : amount - Shown <= balance - Total(Held)
  <2>1. Value(cacheHeld) \in Int
    BY HeldType
  <2> QED
    BY <1>2, <2>1 DEF Shown
<1>6. Shown' >= Total(Held')
  BY <1>1, <1>2, <1>3, <1>4, <1>5 DEF RoomKept
<1>7. ASSUME NEW amount \in Views'
      PROVE  amount - Shown' <= balance' - Total(Held')
  <2>1. CASE amount \in Views
    BY <2>1, <1>1, <1>2, <1>3, <1>4, <1>5 DEF RoomKept
  <2>2. CASE amount \in {balance', 0}
    BY <2>2, <1>6, <1>3
  <2> QED
    BY <2>1, <2>2, StepKeepsViews DEF ViewsKept
<1>8. balance' + blind' >= Total(Promised')
  <2>1. CASE /\ pc[r] = "read_held" /\ Shown <= seen[r] + blind'
             /\ balance' = balance /\ Held' = Held
    <3>1. seen[r] \in Views
      BY <2>1, <1>2 DEF Views
    <3>2. seen[r] \in Nat /\ seen[r] - Shown <= balance - Total(Held)
      BY <3>1, <1>2, <1>5
    <3>3. Total(Held) <= balance + blind'
      BY <2>1, <3>2, <1>2, <1>3
    <3>4. (TypeInv => Total(Promised) <= Total(Held))'
      BY PromisedHeld, PTL
    <3> QED
      BY <2>1, <3>3, <3>4, <1>2, <1>3
  <2>2. CASE Promised'[r] - Promised[r] <= (balance' + blind') - (balance + blind)
    BY <2>2, <1>1, <1>2, <1>3, <1>5
  <2> QED
    BY <2>1, <2>2, StepPromises
<1>9. Value(cacheHeld)' \in Int
  <2>1. (TypeInv => Value(cacheHeld) \in Int)'
    BY HeldType, PTL
  <2> QED
    BY <2>1
<1> QED
  BY <1>3, <1>6, <1>7, <1>8, <1>9 DEF Shown

LEMMA HoldEnvironment ==
    ASSUME TypeInv, TypeInv', HoldInv, Environment \/ UNCHANGED vars
    PROVE  Detached' /\ HoldsBacked' /\ ViewsConservative' /\ NoOvercommit'
<1> USE DEF HoldInv, HoldsBacked, ViewsConservative, NoOvercommit
<1>1. /\ Total(Held) \in Nat /\ Total(Promised) \in Nat
      /\ Value(cacheHeld) \in Int /\ balance \in Nat /\ blind \in Nat /\ Views \subseteq Nat
      /\ Held \in [Reqs -> Nat] /\ Promised \in [Reqs -> Nat]
  BY HeldType
<1>2. /\ Total(Held') \in Nat /\ Total(Promised') \in Nat
      /\ Value(cacheHeld)' \in Int /\ balance' \in Nat /\ blind' \in Nat
      /\ Views' \subseteq Nat
      /\ Held' \in [Reqs -> Nat] /\ Promised' \in [Reqs -> Nat]
  <2>1. (TypeInv => /\ Total(Held) \in Nat /\ Total(Promised) \in Nat
                    /\ Value(cacheHeld) \in Int /\ balance \in Nat /\ blind \in Nat
                    /\ Views \subseteq Nat
                    /\ Held \in [Reqs -> Nat] /\ Promised \in [Reqs -> Nat])'
    BY HeldType, PTL
  <2> QED
    BY <2>1
<1>3. CASE TopUp \/ Rollover \/ UNCHANGED vars
  <2>1. UNCHANGED <<hashVars, blind, reqVars>>
    BY <1>3 DEF TopUp, Rollover, vars
  <2>2. balance' >= balance
    BY <1>3, <1>1, ConstantsAssumption DEF TopUp, Rollover, vars, pgVars, ConstantsAssumption
  <2>3. /\ Held' = Held /\ Promised' = Promised /\ Views' = Views
        /\ cacheHeld' = cacheHeld /\ blind' = blind /\ Detached'
    BY <2>1 DEF hashVars, reqVars, Held, Holding, Promised, Admitted, Sent, Views, Detached
  <2> QED
    BY <2>2, <2>3, <1>1, <1>2 DEF Value
<1>4. CASE DropHash /\ UNCHANGED <<pgVars, reqVars>>
  <2>1. cacheBalance' = None /\ Value(cacheHeld)' = 0
    BY <1>4 DEF DropHash, Value
  <2>2. /\ Held' = Held /\ Promised' = Promised /\ Detached' /\ balance' = balance
    BY <1>4 DEF pgVars, reqVars, Held, Holding, Promised, Admitted, Sent, Detached
  <2>3. Views' \subseteq Views
    BY <1>4, <2>1 DEF Views, reqVars
  <2>4. CASE \A r \in Reqs : ~Holding(r) /\ pc[r] # "sync_set"
    <3>1. DOMAIN Held = Reqs /\ \A r \in Reqs : Held[r] = 0
      BY <2>4 DEF Held
    <3>2. Total(Held) = 0
      BY <3>1, TotalZero
    <3>3. Total(Promised) <= 0
      BY <3>2, PromisedHeld
    <3>4. Views' = {}
      BY <1>4, <2>1, <2>4 DEF Views, reqVars, Holding
    <3>5. blind' = 0
      BY <1>4, <2>4 DEF DropHash
    <3> QED
      BY <2>1, <2>2, <3>2, <3>3, <3>4, <3>5, <1>1
  <2>5. CASE ~(\A r \in Reqs : ~Holding(r) /\ pc[r] # "sync_set")
    <3>1. blind' >= blind /\ blind' >= blind + Value(cacheHeld)
      BY <1>4, <2>5, <1>1 DEF DropHash, Escapes
    <3>2. \A amount \in Views' :
             amount \in Nat /\ amount - Value(cacheHeld) - blind <= balance - Total(Held)
      BY <2>3, <1>1
    <3> QED
      BY <2>1, <2>2, <3>1, <3>2, <1>1, <1>2
  <2> QED
    BY <2>4, <2>5
<1>6. CASE LoseData /\ ~DropHash
  <2>1. UNCHANGED <<pgVars, hashVars, blind, reqVars>>
    BY <1>6 DEF LoseData
  <2>2. /\ Held' = Held /\ Promised' = Promised /\ Views' = Views /\ Detached'
        /\ cacheHeld' = cacheHeld /\ blind' = blind /\ balance' = balance
    BY <2>1 DEF pgVars, hashVars, reqVars, Held, Holding, Promised, Admitted, Sent, Views, Detached
  <2> QED
    BY <2>2, <1>1, <1>2 DEF Value
<1>5. CASE Crash
  <2>1. UNCHANGED <<pgVars, hashVars, blind, ctx, est, act, seen, ret>>
    BY <1>5 DEF Crash
  <2>2. \A r \in Reqs : pc'[r] = pc[r] \/ pc'[r] = "lost"
    BY <1>5 DEF Crash
  <2>3. \A r \in Reqs : Held'[r] <= Held[r] /\ Promised'[r] <= Promised[r]
    BY <2>1, <2>2, <1>1, <1>2
       DEF Held, Holding, SyncSteps, Promised, Admitted, Sent, TypeInv, TypeOK, RequestTypeOK
  <2>4. Total(Held') <= Total(Held) /\ Total(Promised') <= Total(Promised)
    BY <2>3, <1>1, <1>2, TotalMonotone, ConstantsAssumption DEF ConstantsAssumption
  <2>5. Views' \subseteq Views
    BY <2>1, <2>2 DEF hashVars, Views
  <2>6. cacheHeld' = cacheHeld /\ balance' = balance
    BY <2>1 DEF pgVars, hashVars
  <2>7. Detached'
    BY <2>1, <2>2 DEF Detached
  <2>8. \A amount \in Views' : /\ amount \in Nat
                               /\ amount - Value(cacheHeld) - blind <= balance - Total(Held)
    BY <2>5, <1>1
  <2> QED
    BY <2>1, <2>4, <2>6, <2>7, <2>8, <1>1, <1>2 DEF Value
<1> QED
  BY <1>3, <1>4, <1>5, <1>6 DEF Environment, Expire, LoseData

LEMMA HoldStep ==
    ASSUME TypeInv, TypeInv', HoldInv, [Next]_vars
    PROVE  HoldInv'
<1>1. ASSUME NEW r \in Reqs, Acts(r)
      PROVE  HoldInv'
  BY <1>1, DetachedStep, HoldActs DEF HoldInv
<1>2. CASE Environment \/ UNCHANGED vars
  BY <1>2, HoldEnvironment DEF HoldInv
<1> QED
  BY <1>1, <1>2 DEF Next, Acts

LEMMA HoldInvariant == Spec => []HoldInv
<1>1. TypeInv /\ TypeInv' /\ HoldInv /\ [Next]_vars => HoldInv'
  BY HoldStep
<1> QED
  BY <1>1, HoldInit, TypeInvariant, PTL DEF Spec

(***************************************************************************)
(* Under every fault the wallet covers the estimates of all admitted       *)
(* requests together, but for what escaped the balance hash since it last  *)
(* expired without a hold in it: the held amount of a hash that expired or *)
(* was lost under a hold, one that could not be read, and charges beyond   *)
(* the estimates (engine.go:193-235, 403).                                 *)
(***************************************************************************)
THEOREM HoldsSuffice == Spec => []PromisesCovered
<1>1. HoldInv => PromisesCovered
  BY DEF HoldInv, PromisesCovered
<1> QED
  BY <1>1, HoldInvariant, PTL

(***************************************************************************)
(* Under every fault, the settlement finds the wallet short only of a      *)
(* request whose cost, and what escaped, exceed its estimate               *)
(* (engine.go:284-322).                                                    *)
(***************************************************************************)
THEOREM AdmittedIsPaid == Spec => ServedIsPaid
<1> DEFINE Paid(r) == usage[r] = "none" /\ usage'[r] = "failed" => act[r] + blind > est[r]
<1>1. TypeInv /\ WalletKnown /\ HoldInv /\ [Next]_vars => [\A r \in Reqs : Paid(r)]_vars
  BY PaidStep DEF HoldInv
<1>2. Spec => [][\A r \in Reqs : Paid(r)]_vars
  BY <1>1, HoldInvariant, TypeInvariant, KnownInvariant, PTL DEF Spec
<1> QED
  BY <1>2 DEF ServedIsPaid
-----------------------------------------------------------------------------
(***************************************************************************)
(* The spend trackers.                                                     *)
(***************************************************************************)

(* A request is settled with a cost within its estimate, out of reach of   *)
(* its client.                                                             *)
Settling == Detached /\ \A r \in Reqs : pc[r] = "settle" => act[r] <= est[r]

(* The faults that the theorems about the spend trackers exclude.          *)
Accounted == Faults \cap {"redis", "loss", "rollover", "underestimate"} = {}

(* A request that was charged was charged within its estimate.             *)
Adjusting == \A r \in Reqs : AfterCharge(r) => act[r] <= est[r]

(* PreCheck visits the periods that have a limit.                          *)
Looking == \A r \in Reqs : pc[r] \in {"limit", "limit_pg"} => todo[r] \subseteq Limited

LimitInv == Settling /\ Adjusting /\ Looking /\ TrackerCovers

(* A request goes through its loops without leaving out a period.          *)
Thorough ==
    \A r \in Reqs : /\ pc[r] = "idle" => Sent(r)
                    /\ pc[r] \in SyncSteps /\ ret[r] = "adjust" => todo[r] = Periods

(* What a request owes or may have left.                                   *)
Most(p) == [r \in Reqs |-> Owed(p)[r] + LeftOver[r]]

(* The trackers hold no more than that.                                    *)
TrackerBounded == \A p \in Periods : Value(tracker[p]) <= recorded[p] + Total(Most(p))

ExactInv == Thorough /\ TrackerBounded

(* What the tracker of p holds beyond the records and what r owes.         *)
Slack(p, r) == Value(tracker[p]) - recorded[p] - Owed(p)[r]

LEMMA OwedType ==
    ASSUME TypeInv, Settling, Adjusting, NEW p \in Periods
    PROVE  /\ Owed(p) \in [Reqs -> Nat] /\ Total(Owed(p)) \in Nat
           /\ Value(tracker[p]) \in Int /\ recorded[p] \in Nat
<1>0. /\ est \in [Reqs -> Nat] /\ recorded \in [Periods -> Nat]
      /\ tracker \in [Periods -> Int \cup {None}] /\ IsFiniteSet(Reqs)
  BY ConstantsAssumption
     DEF ConstantsAssumption, TypeInv, TypeOK, PostgresTypeOK, RedisTypeOK, RequestTypeOK
<1>1. ASSUME NEW r \in Reqs
      PROVE  Owed(p)[r] \in Nat
  <2>1. est[r] \in Nat
    BY <1>0
  <2>2. AfterCharge(r) => est[r] - act[r] \in Nat
    BY <2>1 DEF TypeInv, Phases, Adjusting
  <2>3. Owed(p)[r] \in {0, est[r]} \/ (AfterCharge(r) /\ Owed(p)[r] = est[r] - act[r])
    BY DEF Owed, AfterCharge
  <2> QED
    BY <2>1, <2>2, <2>3
<1>2. Owed(p) \in [Reqs -> Nat]
  BY <1>1 DEF Owed
<1>3. Value(tracker[p]) \in Int
  BY <1>0 DEF Value
<1> QED
  BY <1>0, <1>2, <1>3, TotalType

LEMMA MostType ==
    ASSUME TypeInv, Settling, Adjusting, NEW p \in Periods
    PROVE  /\ LeftOver \in [Reqs -> Nat]
           /\ Most(p) \in [Reqs -> Nat] /\ Total(Most(p)) \in Nat
<1>1. est \in [Reqs -> Nat] /\ IsFiniteSet(Reqs)
  BY ConstantsAssumption DEF ConstantsAssumption, TypeInv, TypeOK, RequestTypeOK
<1>2. LeftOver \in [Reqs -> Nat]
  BY <1>1 DEF LeftOver
<1>3. Owed(p) \in [Reqs -> Nat]
  BY OwedType
<1>4. Most(p) \in [Reqs -> Nat]
  BY <1>2, <1>3 DEF Most
<1> QED
  BY <1>1, <1>2, <1>4, TotalType

LEMMA OwedBounded ==
    ASSUME TypeInv, Settling, Adjusting, NEW p \in Periods
    PROVE  \A q \in Reqs : /\ Owed(p)[q] \in 0 .. est[q] /\ est[q] \in Nat
                           /\ Most(p)[q] = Owed(p)[q] + LeftOver[q]
<1>1. est \in [Reqs -> Nat] /\ IsFiniteSet(Reqs)
  BY ConstantsAssumption DEF ConstantsAssumption, TypeInv, TypeOK, RequestTypeOK
<1>2. LeftOver \in [Reqs -> Nat]
  BY <1>1 DEF LeftOver
<1>3. Owed(p) \in [Reqs -> Nat]
  BY OwedType
<1>4. Most(p) \in [Reqs -> Nat]
  BY <1>2, <1>3 DEF Most
<1>5. ASSUME NEW r \in Reqs
      PROVE  Owed(p)[r] <= est[r]
  <2>1. est[r] \in Nat
    BY <1>1
  <2>2. AfterCharge(r) => act[r] \in Nat
    BY DEF TypeInv, Phases
  <2>3. Owed(p)[r] \in {0, est[r]} \/ (AfterCharge(r) /\ Owed(p)[r] = est[r] - act[r])
    BY DEF Owed, AfterCharge
  <2> QED
    BY <2>1, <2>2, <2>3
<1> QED
  BY <1>1, <1>2, <1>3, <1>4, <1>5, TotalType DEF Most

(* What a request leaves changes only with its client and its settlement.  *)
LEMMA LeftOverSame ==
    ASSUME TypeInv, NEW r \in Reqs, Acts(r), ~Start(r), ~Disconnect(r), ~Settle(r)
    PROVE  LeftOver'[r] = LeftOver[r]
<1> USE DEF LeftOver, CutShort, Sent, TypeInv, TypeOK, RequestTypeOK, Goto
<1>1. CASE ReadTracker(r) \/ ReadSum(r)
  BY <1>1 DEF ReadTracker, ReadSum, CheckLimit
<1>2. CASE EnsureCache(r) \/ Hold(r)
  BY <1>2 DEF EnsureCache, Hold, CallSync
<1>3. CASE Reread(r) \/ ReadHeld(r)
  BY <1>3 DEF Reread, ReadHeld, Decide
<1>4. CASE ReverseHold(r) \/ Release(r)
  BY <1>4 DEF ReverseHold, Release
<1>5. CASE Track(r) \/ Untrack(r) \/ Adjust(r)
  BY <1>5 DEF Track, Untrack, Adjust, AddToTrackers
<1>6. CASE SyncRead(r) \/ SyncCreate(r)
  BY <1>6 DEF SyncRead, SyncCreate, SyncFails, AfterSyncError
<1>7. CASE SyncSet(r) \/ SyncExpire(r)
  BY <1>7 DEF SyncSet, SyncExpire
<1>8. CASE Call(r)
  BY <1>8 DEF Call
<1> QED
  BY <1>1, <1>2, <1>3, <1>4, <1>5, <1>6, <1>7, <1>8
     DEF Acts, Step, PreCheck, SyncBalanceFromPostgres, FinalizeDeduction, ReleaseHold

(* The period that a loop is at.                                           *)
LEMMA NextPeriodIn ==
    ASSUME TypeInv, NEW r \in Reqs, todo[r] # {}
    PROVE  NextPeriod(r) \in todo[r] /\ NextPeriod(r) \in Periods
<1>1. todo[r] \subseteq Periods
  BY DEF TypeInv, TypeOK, RequestTypeOK
<1>2. \A p \in todo[r] : p \in {"day", "month"}
  BY <1>1, ConstantsAssumption DEF ConstantsAssumption
<1>3. NextPeriod(r) \in todo[r]
  BY <1>2 DEF NextPeriod
<1> QED
  BY <1>1, <1>3

LEMMA SettlingStep ==
    ASSUME "underestimate" \notin Faults, TypeInv, Settling, NEW r \in Reqs, Acts(r)
    PROVE  Settling'
<1>1. ASSUME pc'[r] = "settle"
      PROVE  act'[r] <= est'[r]
  BY <1>1, ToSettle DEF Call, Disconnect, Settling, TypeInv, TypeOK, RequestTypeOK, Goto
<1> QED
  BY <1>1, Local, DetachedStep DEF Settling

LEMMA StepAdjusting ==
    ASSUME "underestimate" \notin Faults, TypeInv, Settling, Adjusting, NEW r \in Reqs, Acts(r)
    PROVE  Adjusting'
<1>1. ASSUME AfterCharge(r)'
      PROVE  act'[r] <= est'[r]
  <2> USE <1>1 DEF TypeInv, TypeOK, RequestTypeOK, Goto, AfterCharge, SyncSteps
  <2>1. CASE Settle(r)
    BY <2>1 DEF Settle, Settling, CallSync, AfterCommitError
  <2>2. CASE Start(r) \/ Disconnect(r)
    BY <2>2 DEF Start, Disconnect, Adjusting
  <2>3. ~PreCheck(r)
    BY DEF PreCheck, ReadTracker, ReadSum, CheckLimit, EnsureCache, Hold, CallSync, Reread,
           ReadHeld, Decide, ReverseHold, Track, AddToTrackers
  <2>4. CASE SyncBalanceFromPostgres(r)
    BY <2>4 DEF SyncBalanceFromPostgres, SyncRead, SyncCreate, SyncSet, SyncExpire, SyncFails,
           AfterSyncError, Adjusting
  <2>5. CASE Adjust(r)
    BY <2>5 DEF Adjust, AddToTrackers, Adjusting
  <2>6. ~ReleaseHold(r) /\ ~Call(r)
    BY DEF ReleaseHold, Release, Untrack, AddToTrackers, Call
  <2> QED
    BY <2>1, <2>2, <2>3, <2>4, <2>5, <2>6 DEF Acts, Step, FinalizeDeduction
<1>2. \A q \in Reqs \ {r} : AfterCharge(q)' = AfterCharge(q)
  BY Local DEF AfterCharge
<1> QED
  BY <1>1, <1>2, Local DEF Adjusting

LEMMA StepLooking ==
    ASSUME TypeInv, Looking, NEW r \in Reqs, Acts(r)
    PROVE  Looking'
<1>1. ASSUME pc'[r] \in {"limit", "limit_pg"}
      PROVE  todo'[r] \subseteq Limited
  <2> USE <1>1 DEF TypeInv, TypeOK, RequestTypeOK, Goto, Looking
  <2>1. CASE Start(r)
    BY <2>1 DEF Start
  <2>2. CASE ReadTracker(r) \/ ReadSum(r)
    BY <2>2 DEF ReadTracker, ReadSum, CheckLimit
  <2>3. CASE Disconnect(r)
    BY <2>3 DEF Disconnect
  <2>4. ~(EnsureCache(r) \/ Hold(r) \/ Reread(r) \/ ReadHeld(r) \/ ReverseHold(r) \/ Track(r))
    BY DEF EnsureCache, Hold, CallSync, Reread, ReadHeld, Decide, ReverseHold, Track, AddToTrackers
  <2>5. ~SyncBalanceFromPostgres(r)
    BY DEF SyncBalanceFromPostgres, SyncRead, SyncCreate, SyncSet, SyncExpire, SyncFails,
           AfterSyncError
  <2>6. ~(Call(r) \/ FinalizeDeduction(r) \/ ReleaseHold(r))
    BY DEF FinalizeDeduction, Settle, CallSync, AfterCommitError, Adjust, AddToTrackers, Call,
           ReleaseHold, Release, Untrack
  <2> QED
    BY <2>1, <2>2, <2>3, <2>4, <2>5, <2>6 DEF Acts, Step, PreCheck
<1> QED
  BY <1>1, Local DEF Looking, Limited

(* A step of r takes no more from the tracker than from what r owes, and   *)
(* records no more than that; what it leaves beyond that it may leave.     *)
LEMMA StepTracks ==
    ASSUME Accounted, TypeInv, Settling, Adjusting, NEW r \in Reqs, Acts(r),
           NEW p \in Periods
    PROVE  /\ Slack(p, r)' >= Slack(p, r)
           /\ Thorough => Slack(p, r)' - Slack(p, r) <= LeftOver'[r] - LeftOver[r]
<1>0. /\ est[r] \in Nat /\ recorded[p] \in Nat /\ tracker[p] \in Int \cup {None}
      /\ Owed(p)[r] \in Nat /\ Value(tracker[p]) \in Int /\ Slack(p, r) \in Int
      /\ Owed(p)[r] <= est[r] /\ LeftOver[r] \in Nat
  BY OwedType, MostType, OwedBounded
     DEF TypeInv, TypeOK, PostgresTypeOK, RedisTypeOK, RequestTypeOK, Slack
<1> DEFINE Frame == UNCHANGED <<tracker, recorded>>
<1> USE DEF pgVars, Goto, TypeInv, TypeOK, RequestTypeOK
<1>1. ASSUME Frame, Owed(p)'[r] <= Owed(p)[r], Owed(p)'[r] \in Int, LeftOver'[r] \in Int,
             Thorough => Owed(p)[r] + LeftOver[r] <= Owed(p)'[r] + LeftOver'[r]
      PROVE  /\ Slack(p, r)' >= Slack(p, r)
             /\ Thorough => Slack(p, r)' - Slack(p, r) <= LeftOver'[r] - LeftOver[r]
  BY <1>0, <1>1 DEF Slack
<1>12. ASSUME ~Start(r), ~Disconnect(r), ~Settle(r), Frame, Owed(p)'[r] = Owed(p)[r]
       PROVE  /\ Slack(p, r)' >= Slack(p, r)
              /\ Thorough => Slack(p, r)' - Slack(p, r) <= LeftOver'[r] - LeftOver[r]
  BY <1>0, <1>1, <1>12, LeftOverSame
<1>13. pc[r] \notin {"idle", "settle"} => ~Start(r) /\ ~Settle(r)
  BY DEF Start, Settle
<1>14. ctx'[r] = ctx[r] => ~Disconnect(r)
  BY DEF Disconnect
<1>15. CASE Start(r)
  <2>1. Frame /\ Owed(p)[r] = 0 /\ Owed(p)'[r] = 0
    BY <1>15 DEF Start, Owed, SyncSteps
  <2>2. LeftOver'[r] \in Int /\ (Thorough => LeftOver[r] = 0 /\ LeftOver'[r] = 0)
    <3>1. pc[r] = "idle" /\ pc'[r] \notin {"idle", "lost"} /\ ctx'[r] = ctx[r] /\ est'[r] \in Nat
      BY <1>15, ConstantsAssumption DEF Start, ConstantsAssumption
    <3>2. LeftOver'[r] \in Int
      BY <3>1 DEF LeftOver
    <3>3. Thorough => Sent(r)
      BY <3>1 DEF Thorough
    <3> QED
      BY <3>1, <3>2, <3>3 DEF LeftOver, CutShort, Sent
  <2> QED
    BY <1>1, <2>1, <2>2
<1>2. CASE ReadTracker(r) \/ ReadSum(r)
  <2>1. Frame
    BY <1>2 DEF ReadTracker, ReadSum, CheckLimit
  <2>2. Owed(p)[r] = 0 /\ Owed(p)'[r] = 0 /\ ctx'[r] = ctx[r] /\ pc[r] \in {"limit", "limit_pg"}
    BY <1>2 DEF ReadTracker, ReadSum, CheckLimit, Owed, SyncSteps
  <2> QED
    BY <1>12, <1>13, <1>14, <2>1, <2>2
<1>3. CASE EnsureCache(r) \/ Hold(r) \/ Reread(r) \/ ReadHeld(r) \/ ReverseHold(r)
  <2>1. Frame
    BY <1>3 DEF EnsureCache, Hold, Reread, ReadHeld, Decide, ReverseHold
  <2>2. CASE EnsureCache(r) \/ Hold(r)
    <3>1. /\ Owed(p)[r] = 0 /\ Owed(p)'[r] = 0 /\ ctx'[r] = ctx[r]
          /\ pc[r] \in {"exists", "hold"}
      BY <2>2 DEF EnsureCache, Hold, CallSync, Owed, SyncSteps
    <3> QED
      BY <1>12, <1>13, <1>14, <2>1, <3>1
  <2>3. CASE Reread(r) \/ ReadHeld(r) \/ ReverseHold(r)
    <3>1. /\ Owed(p)[r] = 0 /\ Owed(p)'[r] = 0 /\ ctx'[r] = ctx[r]
          /\ pc[r] \in {"reread", "read_held", "reverse"}
      BY <2>3 DEF Reread, ReadHeld, Decide, ReverseHold, Owed, SyncSteps
    <3> QED
      BY <1>12, <1>13, <1>14, <2>1, <3>1
  <2> QED
    BY <1>3, <2>2, <2>3
<1>4. CASE SyncBalanceFromPostgres(r)
  <2>1. Frame
    BY <1>4 DEF SyncBalanceFromPostgres, SyncRead, SyncCreate, SyncSet, SyncExpire, SyncFails,
                EnsureWallet
  <2>2. /\ pc[r] \in SyncSteps /\ UNCHANGED <<ctx, est, act, todo, ret>>
        /\ \/ pc'[r] \in SyncSteps
           \/ pc'[r] = ret[r]
           \/ pc'[r] = "rejected" /\ ret[r] # "adjust"
    BY <1>4 DEF SyncBalanceFromPostgres, SyncRead, SyncCreate, SyncSet, SyncExpire, SyncFails,
                AfterSyncError, SyncSteps
  <2>5. LeftOver'[r] = LeftOver[r]
    BY <1>13, <1>14, <2>2, LeftOverSame DEF SyncSteps
  <2>3. CASE ret[r] # "adjust"
    <3>1. Owed(p)[r] = 0 /\ Owed(p)'[r] = 0
      BY <2>2, <2>3 DEF Owed, SyncSteps
    <3> QED
      BY <1>0, <1>1, <2>1, <2>5, <3>1
  <2>4. CASE ret[r] = "adjust"
    <3>1. Owed(p)'[r] = IF pc'[r] = "adjust" /\ p \notin todo[r] THEN 0 ELSE Owed(p)[r]
      BY <2>2, <2>4 DEF Owed, SyncSteps, Sent
    <3>2. Thorough => todo[r] = Periods
      BY <2>2, <2>4 DEF Thorough
    <3> QED
      BY <1>0, <1>1, <2>1, <2>5, <3>1, <3>2
  <2> QED
    BY <2>3, <2>4
<1>5. CASE Disconnect(r)
  <2>1. Frame /\ Owed(p)'[r] = 0
    BY <1>5 DEF Disconnect, Owed, Sent
  <2>2. LeftOver[r] = 0 /\ LeftOver'[r] = est[r]
    BY <1>5 DEF Disconnect, LeftOver, CutShort, Sent, InFlight, Terminal
  <2> QED
    BY <1>0, <1>1, <2>1, <2>2
<1>16. ASSUME ~Start(r), ~Disconnect(r), ~Settle(r), Slack(p, r)' = Slack(p, r)
       PROVE  /\ Slack(p, r)' >= Slack(p, r)
              /\ Thorough => Slack(p, r)' - Slack(p, r) <= LeftOver'[r] - LeftOver[r]
  BY <1>0, <1>16, LeftOverSame
<1>17. pc[r] \in {"track", "untrack", "adjust"} /\ UNCHANGED ctx
       => ~Start(r) /\ ~Disconnect(r) /\ ~Settle(r)
  BY <1>13, <1>14
<1>6. ASSUME NEW amount \in Int, NEW next, AddToTrackers(r, amount, next),
             Owed(p)'[r] = Owed(p)[r]
                           + IF Sent(r) /\ p = NextPeriod(r) /\ p \in todo[r] THEN amount ELSE 0
      PROVE  Slack(p, r)' = Slack(p, r)
  <2>1. recorded'[p] = recorded[p]
    BY <1>6 DEF AddToTrackers
  <2>2. CASE ~Sent(r) \/ todo[r] = {}
    <3>1. tracker' = tracker
      BY <1>6, <2>2 DEF AddToTrackers, Attempt
    <3> QED
      BY <1>0, <1>6, <2>1, <2>2, <3>1 DEF Slack
  <2>3. CASE Sent(r) /\ todo[r] # {}
    <3>1. IncrTracker(NextPeriod(r), amount)
      BY <1>6, <2>3 DEF AddToTrackers, Attempt, RedisFails, Accounted
    <3>2. tracker'[p] = IF p = NextPeriod(r) THEN Value(tracker[p]) + amount ELSE tracker[p]
      BY <3>1 DEF IncrTracker, RedisTypeOK
    <3>3. Value(tracker'[p]) = Value(tracker[p]) + IF p = NextPeriod(r) THEN amount ELSE 0
      BY <1>0, <3>2, ConstantsAssumption DEF Value, ConstantsAssumption
    <3>4. NextPeriod(r) \in todo[r]
      BY <2>3, NextPeriodIn
    <3> QED
      BY <1>0, <1>6, <2>1, <2>3, <3>3, <3>4 DEF Slack
  <2> QED
    BY <2>2, <2>3
<1>9. CASE Track(r)
  <2>1. Owed(p)'[r] = Owed(p)[r]
                      + IF Sent(r) /\ p = NextPeriod(r) /\ p \in todo[r] THEN est[r] ELSE 0
    BY <1>0, <1>9, NextPeriodIn DEF Track, AddToTrackers, Owed, Sent, SyncSteps
  <2>2. Slack(p, r)' = Slack(p, r)
    BY <1>0, <1>6, <1>9, <2>1 DEF Track
  <2> QED
    BY <1>16, <1>17, <1>9, <2>2 DEF Track, AddToTrackers
<1>10. CASE Untrack(r)
  <2>1. Owed(p)'[r] = Owed(p)[r]
                      + IF Sent(r) /\ p = NextPeriod(r) /\ p \in todo[r] THEN -est[r] ELSE 0
    BY <1>0, <1>10, NextPeriodIn DEF Untrack, AddToTrackers, Owed, Sent, SyncSteps
  <2>2. -est[r] \in Int
    BY <1>0
  <2>3. Slack(p, r)' = Slack(p, r)
    BY <1>6, <1>10, <2>1, <2>2 DEF Untrack
  <2> QED
    BY <1>16, <1>17, <1>10, <2>3 DEF Untrack, AddToTrackers
<1>11. CASE Adjust(r)
  <2>1. act[r] \in Nat
    BY <1>11 DEF Adjust, Phases, AfterCharge
  <2>2. Owed(p)'[r]
          = Owed(p)[r]
            + IF Sent(r) /\ p = NextPeriod(r) /\ p \in todo[r] THEN act[r] - est[r] ELSE 0
    BY <1>0, <1>11, <2>1, NextPeriodIn DEF Adjust, AddToTrackers, Owed, Sent, SyncSteps
  <2>3. act[r] - est[r] \in Int
    BY <1>0, <2>1
  <2>4. Slack(p, r)' = Slack(p, r)
    BY <1>6, <1>11, <2>2, <2>3 DEF Adjust
  <2> QED
    BY <1>16, <1>17, <1>11, <2>4 DEF Adjust, AddToTrackers
<1>7. CASE Call(r) \/ Release(r)
  <2>1. Frame
    BY <1>7 DEF Call, Release
  <2>2. Owed(p)'[r] = Owed(p)[r]
    BY <1>7 DEF Call, Release, Owed, Sent, SyncSteps
  <2>3. ~Start(r) /\ ~Disconnect(r) /\ ~Settle(r)
    BY <1>7 DEF Call, Release, Start, Disconnect, Settle
  <2> QED
    BY <1>12, <2>1, <2>2, <2>3
<1>8. CASE Settle(r)
  <2>1. /\ act[r] \in Nat /\ act[r] <= est[r] /\ ctx[r] = "detached" /\ Owed(p)[r] = est[r]
        /\ UNCHANGED <<tracker, ctx, est, act>>
    BY <1>8 DEF Settle, Settling, Detached, Phases, Owed, Sent
  <2>5. /\ LeftOver[r] = 0
        /\ LeftOver'[r] = IF pc'[r] = "lost" THEN est[r] ELSE 0
    BY <1>8, <2>1 DEF Settle, LeftOver, CutShort, Sent
  <2>2. CASE /\ \/ PgFails(r) /\ UNCHANGED pgVars
                \/ RecordFailure(r)
             /\ Goto(r, "release")
    <3>1. Frame /\ Owed(p)'[r] = est[r] /\ pc'[r] = "release"
      BY <1>8, <2>1, <2>2 DEF RecordFailure, Owed, Sent, SyncSteps, Settle
    <3> QED
      BY <1>0, <1>1, <2>1, <2>5, <3>1
  <2>3. CASE Charge(r) /\ CallSync(r, "adjust")
    <3>1. Owed(p)'[r] = est[r] - act[r] /\ pc'[r] = "sync_read"
      BY <1>8, <2>1, <2>3 DEF CallSync, Owed, Sent, SyncSteps
    <3>2. recorded'[p] = recorded[p] + act[r]
      BY <2>3 DEF Charge
    <3> QED
      BY <1>0, <2>1, <2>5, <3>1, <3>2 DEF Slack
  <2>4. CASE PgFails(r) /\ (Charge(r) \/ UNCHANGED pgVars) /\ Goto(r, "lost")
    <3>1. Owed(p)'[r] = 0 /\ pc'[r] = "lost"
      BY <2>1, <2>4 DEF Owed, SyncSteps, PgFails, Sent
    <3>2. recorded'[p] \in {recorded[p], recorded[p] + act[r]}
      BY <2>4 DEF Charge
    <3> QED
      BY <1>0, <2>1, <2>5, <3>1, <3>2 DEF Slack
  <2> QED
    BY <1>8, <2>2, <2>3, <2>4, Zenon DEF Settle, AfterCommitError
<1> QED
  BY <1>0, <1>2, <1>3, <1>4, <1>5, <1>7, <1>8, <1>9, <1>10, <1>11, <1>15
     DEF Acts, Step, PreCheck, FinalizeDeduction, ReleaseHold

(* FinalizeDeduction has every period before it.                           *)
LEMMA StepThorough ==
    ASSUME TypeInv, Thorough, NEW r \in Reqs, Acts(r)
    PROVE  Thorough'
<1>1. pc'[r] # "idle"
  <2> USE DEF TypeInv, TypeOK, RequestTypeOK, Goto
  <2>1. CASE Start(r) \/ Disconnect(r)
    BY <2>1 DEF Start, Disconnect, InFlight
  <2>2. CASE PreCheck(r)
    BY <2>2
       DEF PreCheck, ReadTracker, ReadSum, CheckLimit, EnsureCache, Hold, CallSync, Reread,
           ReadHeld, Decide, ReverseHold, Track, AddToTrackers
  <2>3. CASE SyncBalanceFromPostgres(r)
    BY <2>3
       DEF SyncBalanceFromPostgres, SyncRead, SyncCreate, SyncSet, SyncExpire, SyncFails,
           AfterSyncError
  <2>4. CASE Call(r) \/ FinalizeDeduction(r) \/ ReleaseHold(r)
    BY <2>4
       DEF Call, FinalizeDeduction, Settle, CallSync, AfterCommitError, Adjust, AddToTrackers,
           ReleaseHold, Release, Untrack
  <2> QED
    BY <2>1, <2>2, <2>3, <2>4 DEF Acts, Step
<1>2. ASSUME pc'[r] \in SyncSteps, ret'[r] = "adjust"
      PROVE  todo'[r] = Periods
  <2> USE <1>2 DEF TypeInv, TypeOK, RequestTypeOK, Goto, SyncSteps
  <2>1. CASE Settle(r)
    BY <2>1 DEF Settle, CallSync, AfterCommitError
  <2>2. CASE SyncBalanceFromPostgres(r)
    BY <2>2 DEF SyncBalanceFromPostgres, SyncRead, SyncCreate, SyncSet, SyncExpire, SyncFails,
                AfterSyncError, Thorough
  <2>3. ~PreCheck(r)
    BY DEF PreCheck, ReadTracker, ReadSum, CheckLimit, EnsureCache, Hold, CallSync, Reread,
           ReadHeld, Decide, ReverseHold, Track, AddToTrackers
  <2>4. ~(Start(r) \/ Call(r) \/ Adjust(r) \/ ReleaseHold(r))
    BY DEF Start, Call, Adjust, ReleaseHold, Release, Untrack, AddToTrackers
  <2>5. CASE Disconnect(r)
    BY <2>5 DEF Disconnect, Thorough
  <2> QED
    BY <2>1, <2>2, <2>3, <2>4, <2>5 DEF Acts, Step, FinalizeDeduction
<1> QED
  BY <1>1, <1>2, Local DEF Thorough, Sent
-----------------------------------------------------------------------------
(***************************************************************************)
(* The inductive invariant.                                                *)
(***************************************************************************)

LEMMA LimitInit == Init => LimitInv /\ ExactInv
<1> SUFFICES ASSUME Init PROVE LimitInv /\ ExactInv
  OBVIOUS
<1> USE DEF Init
<1>1. ASSUME NEW p \in Periods
      PROVE  /\ Value(tracker[p]) = 0 /\ recorded[p] = 0
             /\ Total(Owed(p)) = 0 /\ Total(Most(p)) = 0
  <2>1. DOMAIN Owed(p) = Reqs /\ \A r \in Reqs : Owed(p)[r] = 0
    BY DEF Owed, SyncSteps
  <2>2. DOMAIN Most(p) = Reqs /\ \A r \in Reqs : Most(p)[r] = 0
    BY <2>1 DEF Most, LeftOver, CutShort, Sent
  <2> QED
    BY <2>1, <2>2, TotalZero DEF Value
<1>2. Settling /\ Adjusting /\ Looking /\ Thorough
  BY DEF Settling, Detached, Adjusting, AfterCharge, SyncSteps, Looking, Thorough, Sent
<1> QED
  BY <1>1, <1>2 DEF LimitInv, ExactInv, TrackerCovers, TrackerBounded

LEMMA LimitActs ==
    ASSUME Accounted, TypeInv, TypeInv', LimitInv, NEW r \in Reqs, Acts(r)
    PROVE  LimitInv' /\ (ExactInv => ExactInv')
<1> USE DEF LimitInv, ExactInv, TrackerCovers, TrackerBounded
<1>1. "underestimate" \notin Faults
  BY DEF Accounted
<1>2. Settling' /\ Adjusting' /\ Looking'
  BY <1>1, SettlingStep, StepAdjusting, StepLooking
<1>3. ASSUME NEW p \in Periods
      PROVE  /\ Value(tracker[p])' >= recorded'[p] + Total(Owed(p))'
             /\ ExactInv => Value(tracker[p])' <= recorded'[p] + Total(Most(p))'
  <2>1. /\ Owed(p) \in [Reqs -> Nat] /\ Total(Owed(p)) \in Nat
        /\ Value(tracker[p]) \in Int /\ recorded[p] \in Nat
        /\ LeftOver \in [Reqs -> Nat] /\ Most(p) \in [Reqs -> Nat] /\ Total(Most(p)) \in Nat
        /\ Most(p)[r] = Owed(p)[r] + LeftOver[r]
    BY OwedType, MostType, OwedBounded
  <2>2. /\ Owed(p)' \in [Reqs -> Nat] /\ Total(Owed(p))' \in Nat
        /\ Value(tracker[p])' \in Int /\ recorded'[p] \in Nat
        /\ LeftOver' \in [Reqs -> Nat] /\ Most(p)' \in [Reqs -> Nat] /\ Total(Most(p))' \in Nat
        /\ Most(p)'[r] = Owed(p)'[r] + LeftOver'[r]
    <3>1. (TypeInv /\ Settling /\ Adjusting =>
              /\ Owed(p) \in [Reqs -> Nat] /\ Total(Owed(p)) \in Nat
              /\ Value(tracker[p]) \in Int /\ recorded[p] \in Nat)'
      BY OwedType, PTL
    <3>2. (TypeInv /\ Settling /\ Adjusting =>
              /\ LeftOver \in [Reqs -> Nat]
              /\ Most(p) \in [Reqs -> Nat] /\ Total(Most(p)) \in Nat)'
      BY MostType, PTL
    <3>3. Most(p)'[r] = Owed(p)'[r] + LeftOver'[r]
      BY DEF Most
    <3> QED
      BY <3>1, <3>2, <3>3, <1>2
  <2>3. \A q \in Reqs \ {r} : Owed(p)'[q] = Owed(p)[q] /\ LeftOver'[q] = LeftOver[q]
    BY Local DEF Owed, LeftOver, CutShort, Sent
  <2>4. \A q \in Reqs \ {r} : Most(p)'[q] = Most(p)[q]
    BY <2>3 DEF Most
  <2>5. /\ Total(Owed(p))' = Total(Owed(p)) - Owed(p)[r] + Owed(p)'[r]
        /\ Total(Most(p))' = Total(Most(p)) - Most(p)[r] + Most(p)'[r]
    BY <2>1, <2>2, <2>3, <2>4, TotalChange, ConstantsAssumption DEF ConstantsAssumption
  <2>6. /\ Slack(p, r)' >= Slack(p, r)
        /\ Thorough => Slack(p, r)' - Slack(p, r) <= LeftOver'[r] - LeftOver[r]
    BY StepTracks
  <2>7. /\ Slack(p, r)' = Value(tracker[p])' - recorded'[p] - Owed(p)'[r]
        /\ Slack(p, r) = Value(tracker[p]) - recorded[p] - Owed(p)[r]
        /\ Owed(p)'[r] \in Nat /\ Owed(p)[r] \in Nat
        /\ LeftOver'[r] \in Nat /\ LeftOver[r] \in Nat
    BY <2>1, <2>2 DEF Slack
  <2>8. Value(tracker[p]) >= recorded[p] + Total(Owed(p))
    OBVIOUS
  <2>9. ExactInv => Value(tracker[p]) <= recorded[p] + Total(Most(p)) /\ Thorough
    OBVIOUS
  <2> HIDE DEF LimitInv, ExactInv, TrackerCovers, TrackerBounded
  <2>10. Value(tracker[p])' >= recorded'[p] + Total(Owed(p))'
    BY <2>1, <2>2, <2>5, <2>6, <2>7, <2>8
  <2>11. ExactInv => Value(tracker[p])' <= recorded'[p] + Total(Most(p))'
    BY <2>1, <2>2, <2>5, <2>6, <2>7, <2>9
  <2> QED
    BY <2>10, <2>11
<1> QED
  BY <1>2, <1>3, StepThorough

LEMMA LimitEnvironment ==
    ASSUME Accounted, TypeInv, TypeInv', LimitInv, Environment \/ UNCHANGED vars
    PROVE  LimitInv' /\ (ExactInv => ExactInv')
<1> USE DEF LimitInv, ExactInv, TrackerCovers, TrackerBounded
<1>1. CASE Expire \/ TopUp \/ UNCHANGED vars
  <2>1. UNCHANGED <<tracker, recorded, reqVars>>
    BY <1>1 DEF Expire, TopUp, vars, pgVars
  <2>2. \A p \in Periods : Owed(p)' = Owed(p) /\ Most(p)' = Most(p)
    BY <2>1 DEF reqVars, Owed, Most, LeftOver, CutShort, Sent
  <2>3. Settling' /\ Adjusting' /\ Looking' /\ (Thorough => Thorough')
    BY <2>1 DEF reqVars, Settling, Detached, Adjusting, AfterCharge, Looking, Limited, Thorough, Sent
  <2> QED
    BY <2>1, <2>2, <2>3 DEF Value
<1>2. CASE Crash
  <2>1. UNCHANGED <<tracker, recorded, ctx, est, act, todo, ret>>
    BY <1>2 DEF Crash, pgVars
  <2>2. \A r \in Reqs : pc'[r] = pc[r] \/ (pc'[r] = "lost" /\ InFlight(r))
    BY <1>2 DEF Crash
  <2>3. Settling' /\ Adjusting' /\ Looking' /\ (Thorough => Thorough')
    BY <2>1, <2>2
       DEF Settling, Detached, Adjusting, AfterCharge, SyncSteps, Looking, Limited, Thorough, Sent
  <2>4. ASSUME NEW p \in Periods
        PROVE  /\ Value(tracker[p])' >= recorded'[p] + Total(Owed(p))'
               /\ ExactInv => Value(tracker[p])' <= recorded'[p] + Total(Most(p))'
    <3>1. /\ Owed(p) \in [Reqs -> Nat] /\ Total(Owed(p)) \in Nat
          /\ Value(tracker[p]) \in Int /\ recorded[p] \in Nat
          /\ LeftOver \in [Reqs -> Nat] /\ Most(p) \in [Reqs -> Nat] /\ Total(Most(p)) \in Nat
          /\ \A r \in Reqs : /\ Owed(p)[r] \in 0 .. est[r] /\ est[r] \in Nat
                             /\ Most(p)[r] = Owed(p)[r] + LeftOver[r]
      BY OwedType, MostType, OwedBounded
    <3>2. /\ Owed(p)' \in [Reqs -> Nat] /\ Total(Owed(p))' \in Nat
          /\ LeftOver' \in [Reqs -> Nat] /\ Most(p)' \in [Reqs -> Nat] /\ Total(Most(p))' \in Nat
          /\ \A r \in Reqs : Most(p)'[r] = Owed(p)'[r] + LeftOver'[r]
      <4>1. (TypeInv /\ Settling /\ Adjusting =>
                Owed(p) \in [Reqs -> Nat] /\ Total(Owed(p)) \in Nat)'
        BY OwedType, PTL
      <4>2. (TypeInv /\ Settling /\ Adjusting =>
                /\ LeftOver \in [Reqs -> Nat]
                /\ Most(p) \in [Reqs -> Nat] /\ Total(Most(p)) \in Nat)'
        BY MostType, PTL
      <4>3. \A r \in Reqs : Most(p)'[r] = Owed(p)'[r] + LeftOver'[r]
        BY DEF Most
      <4> QED
        BY <4>1, <4>2, <4>3, <2>3
    <3>3. \A r \in Reqs : \/ Owed(p)'[r] = Owed(p)[r] /\ LeftOver'[r] = LeftOver[r]
                          \/ Owed(p)'[r] = 0 /\ LeftOver'[r] = est[r] /\ LeftOver[r] = 0
                          \/ Owed(p)'[r] = 0 /\ LeftOver'[r] = est[r] /\ Owed(p)[r] = 0
                             /\ LeftOver[r] = est[r]
      <4>1. ASSUME NEW r \in Reqs, pc'[r] = pc[r]
            PROVE  Owed(p)'[r] = Owed(p)[r] /\ LeftOver'[r] = LeftOver[r]
        BY <2>1, <4>1 DEF Owed, LeftOver, CutShort, Sent
      <4>2. ASSUME NEW r \in Reqs, pc'[r] = "lost", InFlight(r)
            PROVE  \/ Owed(p)'[r] = 0 /\ LeftOver'[r] = est[r] /\ LeftOver[r] = 0
                   \/ Owed(p)'[r] = 0 /\ LeftOver'[r] = est[r] /\ Owed(p)[r] = 0
                      /\ LeftOver[r] = est[r]
        BY <2>1, <4>2 DEF Owed, LeftOver, CutShort, Sent, SyncSteps, InFlight, Terminal
      <4> QED
        BY <2>2, <4>1, <4>2
    <3>4. \A r \in Reqs : Owed(p)'[r] <= Owed(p)[r] /\ Most(p)[r] <= Most(p)'[r]
      BY <3>1, <3>2, <3>3
    <3>5. Total(Owed(p))' <= Total(Owed(p)) /\ Total(Most(p)) <= Total(Most(p))'
      BY <3>1, <3>2, <3>4, TotalMonotone, ConstantsAssumption DEF ConstantsAssumption
    <3> QED
      BY <2>1, <3>1, <3>2, <3>5 DEF Value
  <2> QED
    BY <2>1, <2>3, <2>4
<1> QED
  BY <1>1, <1>2 DEF Environment, LoseData, Rollover, Accounted

LEMMA LimitStep ==
    ASSUME Accounted, TypeInv, TypeInv', LimitInv, [Next]_vars
    PROVE  LimitInv' /\ (ExactInv => ExactInv')
BY LimitActs, LimitEnvironment DEF Next, Acts

LEMMA LimitInvariant ==
    ASSUME Accounted
    PROVE  Spec => []LimitInv
<1>1. TypeInv /\ TypeInv' /\ LimitInv /\ [Next]_vars => LimitInv'
  BY LimitStep
<1> QED
  BY <1>1, LimitInit, TypeInvariant, PTL DEF Spec

(***************************************************************************)
(* A spend tracker never says less than what its period's usage records    *)
(* and the requests in flight amount to, however many requests track,      *)
(* adjust and release at once, whichever of them are cut short by a client *)
(* that disconnects, a failing query of Postgres or a crash.               *)
(***************************************************************************)
THEOREM TrackersCover ==
    ASSUME Accounted
    PROVE  Spec => []TrackerCovers
<1>1. LimitInv => TrackerCovers
  BY DEF LimitInv
<1> QED
  BY <1>1, LimitInvariant, PTL

(***************************************************************************)
(* A request that PreCheck lets pass by the tracker of a period stays      *)
(* within the limit together with all that was recorded and is in flight.  *)
(***************************************************************************)
THEOREM LimitsRespected ==
    ASSUME Accounted
    PROVE  Spec => AdmittedWithinLimit
<1> DEFINE Within(r) ==
      pc[r] = "limit" /\ pc'[r] \in {"limit", "exists"} /\ todo'[r] # todo[r]
        => recorded[NextPeriod(r)] + Total(Owed(NextPeriod(r))) + est[r] <= Limit[NextPeriod(r)]
<1>1. ASSUME TypeInv, LimitInv, Next, NEW r \in Reqs
      PROVE  Within(r)
  <2> SUFFICES ASSUME pc[r] = "limit", pc'[r] \in {"limit", "exists"}, todo'[r] # todo[r]
               PROVE  recorded[NextPeriod(r)] + Total(Owed(NextPeriod(r))) + est[r]
                        <= Limit[NextPeriod(r)]
    OBVIOUS
  <2> DEFINE p == NextPeriod(r)
  <2>1. ~Environment
    BY <1>1 DEF Environment, Expire, LoseData, TopUp, Crash, Rollover, reqVars, InFlight, Terminal
  <2>2. ASSUME NEW q \in Reqs \ {r}
        PROVE  ~Acts(q)
    BY <1>1, <2>2, Local
  <2>3. Acts(r)
    BY <1>1, <2>1, <2>2 DEF Next, Acts
  <2>4. tracker[p] # None /\ CheckLimit(r, tracker[p])
    <3>1. ReadTracker(r)
      BY <2>3 DEF Acts, Start, Disconnect, Step, PreCheck, ReadSum, EnsureCache, Hold, Reread,
              ReadHeld, ReverseHold, Track, SyncBalanceFromPostgres, SyncRead, SyncCreate,
              SyncSet, SyncExpire, SyncSteps, Call, FinalizeDeduction, Settle, Adjust,
              ReleaseHold, Release, Untrack
    <3> QED
      BY <3>1 DEF ReadTracker
  <2>5. todo[r] # {}
    BY <2>4, <1>1 DEF CheckLimit, TypeInv, TypeOK, RequestTypeOK
  <2>6. p \in Limited /\ p \in Periods
    BY <1>1, <2>5, NextPeriodIn DEF LimitInv, Looking
  <2>7. Limit[p] \in Nat
    BY <2>6, ConstantsAssumption DEF Limited, ConstantsAssumption
  <2>8. tracker[p] + est[r] <= Limit[p]
    BY <1>1, <2>4 DEF CheckLimit, WithinLimit, Goto, TypeInv, TypeOK, RequestTypeOK
  <2>9. /\ Total(Owed(p)) \in Nat /\ Value(tracker[p]) \in Int /\ recorded[p] \in Nat
        /\ Value(tracker[p]) >= recorded[p] + Total(Owed(p))
    BY <1>1, <2>6, OwedType DEF LimitInv, TrackerCovers
  <2>10. Value(tracker[p]) = tracker[p] /\ est[r] \in Nat
    BY <1>1, <2>4 DEF Value, TypeInv, TypeOK, RequestTypeOK
  <2> HIDE DEF p
  <2>11. recorded[p] + Total(Owed(p)) + est[r] <= Limit[p]
    BY <2>7, <2>8, <2>9, <2>10
  <2> QED
    BY <2>11 DEF p
<1>2. TypeInv /\ LimitInv /\ [Next]_vars => [\A r \in Reqs : Within(r)]_vars
  BY <1>1
<1>3. Spec => [][\A r \in Reqs : Within(r)]_vars
  BY <1>2, LimitInvariant, TypeInvariant, PTL DEF Spec
<1> QED
  BY <1>3 DEF AdmittedWithinLimit

(***************************************************************************)
(* What PreCheck compares with the limit is the sum of the usage records   *)
(* whenever no request is in flight, and what requests that were cut short *)
(* may have left in the tracker, no more than their estimates              *)
(* (engine.go:237-244, 326-349, 365-386).                                  *)
(***************************************************************************)
THEOREM SpendIsExact ==
    ASSUME Accounted
    PROVE  Spec => []SpendExact
<1>1. TypeInv /\ TypeInv' /\ LimitInv /\ ExactInv /\ [Next]_vars => ExactInv'
  BY LimitStep
<1>2. Spec => []ExactInv
  BY <1>1, LimitInit, LimitInvariant, TypeInvariant, PTL DEF Spec
<1>3. TypeInv /\ LimitInv /\ ExactInv => SpendExact
  <2> SUFFICES ASSUME TypeInv, LimitInv, ExactInv, \A r \in Reqs : ~InFlight(r),
                      NEW p \in Periods
               PROVE  Spend(p) \in recorded[p] .. (recorded[p] + Total(LeftOver))
    BY DEF SpendExact
  <2>1. \A r \in Reqs : Owed(p)[r] = 0
    BY DEF Owed, InFlight, Terminal, SyncSteps
  <2>2. /\ LeftOver \in [Reqs -> Nat] /\ Most(p) \in [Reqs -> Nat]
        /\ Total(Most(p)) \in Nat /\ Total(Owed(p)) \in Nat /\ recorded[p] \in Nat
        /\ \A r \in Reqs : Most(p)[r] = Owed(p)[r] + LeftOver[r]
    BY MostType, OwedType, OwedBounded DEF LimitInv
  <2>3. \A r \in Reqs : Most(p)[r] = LeftOver[r]
    BY <2>1, <2>2
  <2>4. Most(p) = LeftOver
    BY <2>2, <2>3
  <2>5. tracker[p] \in Int \cup {None}
    BY DEF TypeInv, TypeOK, RedisTypeOK
  <2>6. tracker[p] # None => /\ tracker[p] \in Int
                             /\ tracker[p] >= recorded[p] + Total(Owed(p))
                             /\ tracker[p] <= recorded[p] + Total(Most(p))
    BY <2>5 DEF Value, LimitInv, TrackerCovers, ExactInv, TrackerBounded
  <2> QED
    BY <2>2, <2>4, <2>6 DEF Spend
<1> QED
  BY <1>2, <1>3, LimitInvariant, TypeInvariant, PTL
=============================================================================
