------------------------------ MODULE KeyPool ------------------------------
(***************************************************************************)
(* The pool of upstream API keys (internal/provider/keypool.go) and the    *)
(* calls that take a key from it (ChatCompletion in client.go).            *)
(*                                                                         *)
(* Calls run concurrently.  A call selects a key, the upstream counts it   *)
(* against the quota of the key, and the X-RateLimit-Remaining header of   *)
(* its answer is stored when the call gets to it: answers may be lost, may *)
(* come without the header, and are stored in any order.                   *)
(*                                                                         *)
(* The upstream is external: a key may make Quota calls in a window.       *)
(***************************************************************************)
EXTENDS Integers, FiniteSets

CONSTANTS
    NumKeys,        \* how many keys are configured
    Calls,          \* calls that may be in progress at once
    Capacity,       \* defaultKeyCapacity, 1200 in the code
    MinRemaining,   \* minRemaining, 100 in the code
    Quota,          \* what the upstream allows a key in one window
    MaxTime,        \* bound on the clock, in seconds
    Faults,         \* which of FaultKinds may happen
    None

FaultKinds == {"failure", "header"}

ASSUME ConstantsAssumption ==
    /\ NumKeys \in Nat \ {0}
    /\ IsFiniteSet(Calls)
    /\ Capacity \in Nat
    /\ Quota \in 0..Capacity
    /\ MinRemaining \in 1..Quota
    /\ MaxTime \in Nat \ {0}
    /\ Faults \subseteq FaultKinds
    /\ None \notin Int

VARIABLES
    remaining,      \* keyEntry.remaining
    lastUsed,       \* keyEntry.lastUsed; 0 is never
    now,            \* time.Now().Unix()
    pc,             \* where a call is: idle, sent, ok (status 200) or failed
    key,            \* the key a call selected
    header,         \* X-RateLimit-Remaining of the answer, None if it has none
    left,           \* upstream: calls the key may still make in its window
    unseen          \* calls of this window counted upstream whose answer does not say so

pool == <<remaining, lastUsed>>
upstream == <<left, unseen>>
vars == <<pool, now, pc, key, header, upstream>>

Keys == 1..NumKeys

TypeOK ==
    /\ remaining \in [Keys -> 0..Capacity]
    /\ lastUsed \in [Keys -> 0..now]
    /\ now \in 1..MaxTime
    /\ pc \in [Calls -> {"idle", "sent", "ok", "failed"}]
    /\ key \in [Calls -> Keys \cup {None}]
    /\ header \in [Calls -> 0..Capacity \cup {None}]
    /\ left \in [Keys -> 0..Quota]
    /\ unseen \in [Keys -> 0..Quota]

(* The upstream starts with fresh windows and allows what the pool assumes. *)
Init ==
    /\ remaining = [k \in Keys |-> Capacity]
    /\ lastUsed = [k \in Keys |-> 0]
    /\ now = 1
    /\ pc = [c \in Calls |-> "idle"]
    /\ key = [c \in Calls |-> None]
    /\ header = [c \in Calls |-> None]
    /\ left = [k \in Keys |-> Quota]
    /\ unseen = [k \in Keys |-> 0]

-----------------------------------------------------------------------------
(* Select: one pass over the keys that keeps the best so far.              *)

BadUsable(k) == remaining[k] >= MinRemaining - 1
Usable(k) == remaining[k] >= MinRemaining

(* The best key so far, how much it has and when it was used.              *)
Best(k, rem, used) == [key |-> k, remaining |-> rem, lastUsed |-> used]

BadBetter(k, best) ==
    \/ remaining[k] > best.remaining
    \/ remaining[k] = best.remaining /\ lastUsed[k] > best.lastUsed

Better(k, best) ==
    \/ remaining[k] > best.remaining
    \/ remaining[k] = best.remaining /\ lastUsed[k] < best.lastUsed

Selected ==
    LET scan[k \in 0..NumKeys] ==
            IF k = 0 THEN Best(None, -1, now)
            ELSE IF Usable(k) /\ Better(k, scan[k - 1])
                 THEN Best(k, remaining[k], lastUsed[k])
                 ELSE scan[k - 1]
    IN  scan[NumKeys].key

(* A call begins.  Without a key it ends at once with ErrNoKeysAvailable.  *)
Select(c) ==
    /\ pc[c] = "idle"
    /\ Selected # None
    /\ lastUsed' = [lastUsed EXCEPT ![Selected] = now]
    /\ key' = [key EXCEPT ![c] = Selected]
    /\ pc' = [pc EXCEPT ![c] = "sent"]
    /\ UNCHANGED <<remaining, now, header, upstream>>

(* The key of the call stores the header, if the answer has a usable one.  *)
UpdateFromHeaders(c) ==
    remaining' = [remaining EXCEPT ![key[c]] = IF header[c] = None THEN @ ELSE header[c]]

(* The call has its answer, or gave up.  Only a status of 200 gets as far  *)
(* as the headers.  (A call that got no answer counts as an error of its   *)
(* key, a number that nothing reads.)                                      *)
Return(c) ==
    /\ \/ pc[c] = "ok" /\ UpdateFromHeaders(c)
       \/ pc[c] = "failed" /\ UNCHANGED remaining
    /\ pc' = [pc EXCEPT ![c] = "idle"]
    /\ key' = [key EXCEPT ![c] = None]
    /\ header' = [header EXCEPT ![c] = None]
    /\ UNCHANGED <<lastUsed, now, upstream>>

ChatCompletion(c) == Select(c) \/ Return(c)

-----------------------------------------------------------------------------
(* The upstream.                                                           *)

(* A call is counted.  Its answer says so, unless it is lost, has another  *)
(* status than 200 or lacks the header.                                    *)
Serve(c) ==
    /\ pc[c] = "sent"
    /\ left[key[c]] > 0
    /\ left' = [left EXCEPT ![key[c]] = @ - 1]
    /\ \/ /\ pc' = [pc EXCEPT ![c] = "ok"]
          /\ header' = [header EXCEPT ![c] = left'[key[c]]]
          /\ UNCHANGED unseen
       \/ /\ \/ "failure" \in Faults /\ pc' = [pc EXCEPT ![c] = "failed"]
             \/ "header" \in Faults /\ pc' = [pc EXCEPT ![c] = "ok"]
          /\ unseen' = [unseen EXCEPT ![key[c]] = @ + 1]
          /\ UNCHANGED header
    /\ UNCHANGED <<pool, now, key>>

(* A call is turned away, as it is when the quota is used up, or does not  *)
(* get there.                                                              *)
Reject(c) ==
    /\ pc[c] = "sent"
    /\ left[key[c]] = 0 \/ "failure" \in Faults
    /\ pc' = [pc EXCEPT ![c] = "failed"]
    /\ UNCHANGED <<pool, now, key, header, upstream>>

(* A new rate-limit window of a key begins.                                *)
WindowReset(k) ==
    /\ left' = [left EXCEPT ![k] = Quota]
    /\ unseen' = [unseen EXCEPT ![k] = 0]
    /\ UNCHANGED <<pool, now, pc, key, header>>

Tick ==
    /\ now < MaxTime
    /\ now' = now + 1
    /\ UNCHANGED <<pool, pc, key, header, upstream>>

Next ==
    \/ \E c \in Calls : ChatCompletion(c) \/ Serve(c) \/ Reject(c)
    \/ \E k \in Keys : WindowReset(k)
    \/ Tick

Spec == Init /\ [][Next]_vars

(* Calls end within 300 seconds, windows begin again, and there is always  *)
(* another request.                                                        *)
FairSpec ==
    /\ Spec
    /\ \A c \in Calls : WF_vars(Select(c)) /\ WF_vars(Serve(c) \/ Reject(c)) /\ WF_vars(Return(c))
    /\ \A k \in Keys : WF_vars(WindowReset(k))

-----------------------------------------------------------------------------
(* Properties.                                                             *)

(* The pass over the keys finds what keypool.go:53-54 promises: a key with *)
(* the most remaining calls, of those one that was not used for longest,   *)
(* and no key only when all are exhausted.                                 *)
SelectsHealthiest ==
    LET usable == {k \in Keys : Usable(k)}
    IN  IF Selected = None THEN usable = {}
        ELSE /\ Selected \in usable
             /\ \A k \in usable :
                   \/ remaining[k] < remaining[Selected]
                   \/ remaining[k] = remaining[Selected] /\ lastUsed[Selected] <= lastUsed[k]

(* The last requests of a window are not burned (keypool.go:15-17): one    *)
(* call at a time leaves MinRemaining - 1 of them.  Calls in progress at   *)
(* once each see what was left before the others; and an answer that is    *)
(* stored late makes a key usable again that a later answer had exhausted, *)
(* so that one call, then two, then three at a time go below the           *)
(* threshold.  Calls whose answer does not tell come on top.               *)
Overrun == LET n == Cardinality(Calls) IN (n * (n + 1)) \div 2

Reserve == \A k \in Keys : left[k] + unseen[k] >= MinRemaining - Overrun

(* A key can be found again and again: quotas come back with every window. *)
PoolRecovers == []<>(Selected # None)
=============================================================================
