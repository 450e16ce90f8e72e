--------------------------- MODULE KeyPoolProofs ---------------------------
(***************************************************************************)
(* What is proved of KeyPool for every number of keys and of calls, every  *)
(* quota and threshold, and whatever faults may happen: the pass over the  *)
(* keys selects the healthiest one, and the reserve of every key is kept.  *)
(***************************************************************************)
EXTENDS KeyPool, FiniteSetTheorems, WellFoundedInduction, TLAPS

(***************************************************************************)
(* Induction up to N, for a set: what holds 0 and, with every number below *)
(* N, the next one, holds all numbers up to N.                             *)
(***************************************************************************)
LEMMA Induction ==
    ASSUME NEW N \in Nat, NEW S, 0 \in S,
           \A n \in 0 .. (N - 1) : n \in S => n + 1 \in S
    PROVE  0 .. N \subseteq S
<1> SUFFICES ASSUME (0 .. N) \ S # {} PROVE FALSE
  OBVIOUS
<1> DEFINE R == OpToRel(<, Nat)
           T == (0 .. N) \ S
<1>1. T \subseteq Nat /\ T # {}
  OBVIOUS
<1>2. IsWellFoundedOn(R, Nat)
  BY NatLessThanWellFounded
<1> HIDE DEF R, T
<1>3. PICK m \in T : \A y \in T : ~(<<y, m>> \in R)
  BY <1>1, <1>2, WFMin
<1>4. \A y \in T : ~(y < m)
  BY <1>1, <1>3 DEF R, OpToRel
<1>5. m \in 0 .. N /\ m \notin S /\ m # 0
  BY <1>3 DEF T
<1>6. m - 1 \in 0 .. (N - 1) /\ m - 1 < m /\ m - 1 \in 0 .. N
  BY <1>5
<1>7. m - 1 \in S
  BY <1>4, <1>6 DEF T
<1>8. (m - 1) + 1 = m
  BY <1>5
<1> QED
  BY <1>5, <1>6, <1>7, <1>8

-----------------------------------------------------------------------------
(* Select.                                                                 *)

(* One turn of the loop of Select: the best key of 1..k, from that of      *)
(* 1..(k - 1).                                                             *)
Turn(k, best) ==
    IF Usable(k) /\ Better(k, best) THEN Best(k, remaining[k], lastUsed[k]) ELSE best

(* f holds the best key after every turn up to the n-th.                   *)
IsScan(f, n) ==
    f = [k \in 0 .. n |-> IF k = 0 THEN Best(None, -1, now) ELSE Turn(k, f[k - 1])]

(***************************************************************************)
(* The loop runs: there is a best key after every turn.                    *)
(***************************************************************************)
LEMMA ScanExists == \E f : IsScan(f, NumKeys)
<1> DEFINE S == {n \in 0 .. NumKeys : \E f : IsScan(f, n)}
<1>1. 0 \in S
  <2> DEFINE f == [k \in 0 .. 0 |-> Best(None, -1, now)]
  <2>1. IsScan(f, 0)
    BY DEF IsScan
  <2> QED
    BY <2>1, ConstantsAssumption DEF ConstantsAssumption
<1>2. ASSUME NEW n \in 0 .. (NumKeys - 1), n \in S
      PROVE  n + 1 \in S
  <2>1. PICK f : IsScan(f, n)
    BY <1>2
  <2> DEFINE g == [k \in 0 .. (n + 1) |-> IF k = n + 1 THEN Turn(k, f[n]) ELSE f[k]]
             h == [k \in 0 .. (n + 1) |->
                      IF k = 0 THEN Best(None, -1, now) ELSE Turn(k, g[k - 1])]
  <2>2. ASSUME NEW k \in 0 .. (n + 1)
        PROVE  g[k] = h[k]
    <3>1. CASE k = n + 1
      <4>1. k # 0 /\ k - 1 = n /\ n \in 0 .. (n + 1) /\ n # n + 1
        BY <3>1
      <4>2. g[k - 1] = f[n]
        BY <4>1
      <4> QED
        BY <3>1, <4>1, <4>2
    <3>2. CASE k = 0
      <4>1. f[0] = Best(None, -1, now)
        BY <2>1 DEF IsScan
      <4> QED
        BY <3>2, <4>1
    <3>3. CASE k # 0 /\ k # n + 1
      <4>1. k \in 0 .. n /\ k - 1 \in 0 .. (n + 1) /\ k - 1 # n + 1
        BY <3>3
      <4>2. f[k] = Turn(k, f[k - 1])
        BY <2>1, <3>3, <4>1 DEF IsScan
      <4>3. g[k - 1] = f[k - 1]
        BY <4>1
      <4>4. g[k] = f[k] /\ h[k] = Turn(k, g[k - 1])
        BY <3>3
      <4> QED
        BY <4>2, <4>3, <4>4
    <3> QED
      BY <3>1, <3>2, <3>3
  <2>3. g = h
    BY <2>2
  <2>4. IsScan(g, n + 1)
    BY <2>3 DEF IsScan
  <2> HIDE DEF g, h
  <2>5. n + 1 \in 0 .. NumKeys
    BY ConstantsAssumption DEF ConstantsAssumption
  <2> QED
    BY <2>4, <2>5
<1> HIDE DEF S
<1>3. NumKeys \in 0 .. NumKeys /\ NumKeys \in Nat
  BY ConstantsAssumption DEF ConstantsAssumption
<1>4. NumKeys \in S
  BY <1>1, <1>2, <1>3, Induction
<1> QED
  BY <1>4 DEF S

(***************************************************************************)
(* Selected is what the last turn of the loop leaves.                      *)
(***************************************************************************)
LEMMA SelectedIsLast == \E f : IsScan(f, NumKeys) /\ Selected = f[NumKeys].key
<1> DEFINE g == CHOOSE f : IsScan(f, NumKeys)
<1>1. IsScan(g, NumKeys)
  BY ScanExists
<1>2. Selected = g[NumKeys].key
  BY DEF Selected, IsScan, Turn
<1> QED
  BY <1>1, <1>2

(* What the loop knows: best is the healthiest of the keys 1..n.           *)
Healthier(k, j) ==
    remaining[j] < remaining[k] \/ (remaining[j] = remaining[k] /\ lastUsed[k] <= lastUsed[j])

NoneUsable(n, best) ==
    best.key = None /\ best.remaining = -1 /\ \A j \in 1 .. n : ~Usable(j)

Healthiest(n, best) ==
    /\ best.key \in 1 .. n
    /\ Usable(best.key)
    /\ best.remaining = remaining[best.key]
    /\ best.lastUsed = lastUsed[best.key]
    /\ \A j \in 1 .. n : Usable(j) => Healthier(best.key, j)

LoopInv(n, best) == NoneUsable(n, best) \/ Healthiest(n, best)

(***************************************************************************)
(* A turn of the loop of Select keeps what the loop knows.                 *)
(***************************************************************************)
LEMMA TurnKeeps ==
    ASSUME TypeOK, NEW n \in 0 .. (NumKeys - 1), NEW best, LoopInv(n, best)
    PROVE  LoopInv(n + 1, Turn(n + 1, best))
<1> DEFINE k == n + 1
<1>1. /\ n \in Nat /\ k \in Keys /\ k \in 1 .. k
      /\ \A j \in 1 .. k : j \in Keys
      /\ \A j \in 1 .. k : j = k \/ j \in 1 .. n
      /\ 1 .. n \subseteq 1 .. k
  BY ConstantsAssumption DEF ConstantsAssumption, Keys
<1>2. \A j \in Keys : remaining[j] \in Nat /\ lastUsed[j] \in Nat
  BY DEF TypeOK
<1>3. MinRemaining \in Nat
  BY ConstantsAssumption DEF ConstantsAssumption
<1>4. /\ Best(k, remaining[k], lastUsed[k]).key = k
      /\ Best(k, remaining[k], lastUsed[k]).remaining = remaining[k]
      /\ Best(k, remaining[k], lastUsed[k]).lastUsed = lastUsed[k]
  BY DEF Best
<1> HIDE DEF k
<1>5. CASE Usable(k) /\ Better(k, best)
  <2>1. Turn(k, best) = Best(k, remaining[k], lastUsed[k])
    BY <1>5 DEF Turn
  <2>2. ASSUME NEW j \in 1 .. k, Usable(j)
        PROVE  Healthier(k, j)
    <3>1. CASE j = k
      BY <1>1, <1>2, <3>1 DEF Healthier
    <3>2. CASE j \in 1 .. n
      <4>1. Healthiest(n, best)
        BY <2>2, <3>2 DEF LoopInv, NoneUsable
      <4>2. best.key \in Keys /\ j \in Keys
        BY <1>1, <4>1 DEF Healthiest
      <4>3. Healthier(best.key, j)
        BY <2>2, <3>2, <4>1 DEF Healthiest
      <4>4. \/ remaining[k] > remaining[best.key]
            \/ remaining[k] = remaining[best.key] /\ lastUsed[k] < lastUsed[best.key]
        BY <1>5, <4>1 DEF Better, Healthiest
      <4> DEFINE b == best.key
      <4>5. /\ remaining[k] \in Nat /\ remaining[b] \in Nat /\ remaining[j] \in Nat
            /\ lastUsed[k] \in Nat /\ lastUsed[b] \in Nat /\ lastUsed[j] \in Nat
        BY <1>1, <1>2, <4>2
      <4> HIDE DEF b
      <4> QED
        BY <4>3, <4>4, <4>5 DEF Healthier, b
    <3> QED
      BY <1>1, <3>1, <3>2
  <2>3. Healthiest(k, Turn(k, best))
    BY <1>1, <1>4, <1>5, <2>1, <2>2 DEF Healthiest
  <2> QED
    BY <2>3 DEF LoopInv, k
<1>6. CASE ~(Usable(k) /\ Better(k, best))
  <2>1. Turn(k, best) = best
    BY <1>6 DEF Turn
  <2>2. CASE NoneUsable(n, best)
    <3>1. ~Usable(k)
      <4> SUFFICES ASSUME Usable(k) PROVE Better(k, best)
        BY <1>6
      <4>1. remaining[k] \in Nat /\ best.remaining = -1
        BY <1>1, <1>2, <2>2 DEF NoneUsable
      <4> QED
        BY <4>1 DEF Better
    <3>2. \A j \in 1 .. k : ~Usable(j)
      BY <1>1, <2>2, <3>1 DEF NoneUsable
    <3> QED
      BY <2>1, <2>2, <3>2 DEF LoopInv, NoneUsable, k
  <2>3. CASE Healthiest(n, best)
    <3>1. best.key \in Keys /\ best.key \in 1 .. k
      BY <1>1, <2>3 DEF Healthiest
    <3>2. Usable(k) => Healthier(best.key, k)
      <4> SUFFICES ASSUME Usable(k) PROVE Healthier(best.key, k)
        OBVIOUS
      <4>1. ~Better(k, best)
        BY <1>6
      <4> QED
        BY <1>1, <1>2, <2>3, <3>1, <4>1 DEF Better, Healthier, Healthiest
    <3>3. Healthiest(k, best)
      BY <1>1, <2>3, <3>1, <3>2 DEF Healthiest
    <3> QED
      BY <2>1, <3>3 DEF LoopInv, k
  <2> QED
    BY <2>2, <2>3 DEF LoopInv
<1> QED
  BY <1>5, <1>6 DEF k

(***************************************************************************)
(* The pass over the keys finds a healthiest key, and none only when none  *)
(* is usable.                                                              *)
(***************************************************************************)
LEMMA SelectedIsHealthiest ==
    ASSUME TypeOK
    PROVE  \E best : LoopInv(NumKeys, best) /\ Selected = best.key
<1>1. PICK f : IsScan(f, NumKeys) /\ Selected = f[NumKeys].key
  BY SelectedIsLast
<1> DEFINE S == {n \in 0 .. NumKeys : LoopInv(n, f[n])}
<1>2. NumKeys \in Nat
  BY ConstantsAssumption DEF ConstantsAssumption
<1>3. 0 \in S
  <2>1. f[0] = Best(None, -1, now) /\ 0 \in 0 .. NumKeys
    BY <1>1, <1>2 DEF IsScan
  <2>2. 1 .. 0 = {}
    OBVIOUS
  <2>3. NoneUsable(0, f[0])
    BY <2>1, <2>2 DEF NoneUsable, Best
  <2> QED
    BY <2>1, <2>3 DEF LoopInv
<1>4. ASSUME NEW n \in 0 .. (NumKeys - 1), n \in S
      PROVE  n + 1 \in S
  <2>1. n + 1 \in 0 .. NumKeys /\ n + 1 # 0 /\ (n + 1) - 1 = n
    BY <1>2
  <2>2. f[n + 1] = Turn(n + 1, f[n])
    BY <1>1, <2>1 DEF IsScan
  <2>3. LoopInv(n, f[n])
    BY <1>4
  <2>4. LoopInv(n + 1, Turn(n + 1, f[n]))
    BY <2>3, TurnKeeps
  <2> QED
    BY <2>1, <2>2, <2>4
<1> HIDE DEF S
<1>5. NumKeys \in S
  <2>1. 0 .. NumKeys \subseteq S
    BY <1>2, <1>3, <1>4, Induction
  <2> QED
    BY <1>2, <2>1
<1> QED
  BY <1>1, <1>5 DEF S

(***************************************************************************)
(* In every state of the right type the selection is right.                *)
(***************************************************************************)
LEMMA SelectionRight == TypeOK => SelectsHealthiest /\ Selected \in Keys \cup {None}
<1> SUFFICES ASSUME TypeOK PROVE SelectsHealthiest /\ Selected \in Keys \cup {None}
  OBVIOUS
<1>1. PICK best : LoopInv(NumKeys, best) /\ Selected = best.key
  BY SelectedIsHealthiest
<1>2. \A k \in Keys : k # None
  BY ConstantsAssumption DEF ConstantsAssumption, Keys
<1>3. CASE NoneUsable(NumKeys, best)
  BY <1>1, <1>3 DEF NoneUsable, SelectsHealthiest, Keys
<1>4. CASE Healthiest(NumKeys, best)
  <2>1. Selected \in Keys /\ Selected # None /\ Usable(Selected)
    BY <1>1, <1>2, <1>4 DEF Healthiest, Keys
  <2>2. \A j \in Keys : Usable(j) => Healthier(Selected, j)
    BY <1>1, <1>4 DEF Healthiest, Keys
  <2> QED
    BY <2>1, <2>2 DEF SelectsHealthiest, Healthier
<1> QED
  BY <1>1, <1>3, <1>4 DEF LoopInv

-----------------------------------------------------------------------------
(* The types, and what a call knows.                                       *)

CallsKnow ==
    \A c \in Calls :
        /\ pc[c] # "idle" => key[c] \in Keys
        /\ pc[c] # "ok" => header[c] = None

WithinQuota == \A k \in Keys : left[k] + unseen[k] <= Quota

StateInv == TypeOK /\ CallsKnow /\ WithinQuota

(***************************************************************************)
(* The initial state is as described.                                      *)
(***************************************************************************)
LEMMA StateInit == Init => StateInv
<1> SUFFICES ASSUME Init PROVE StateInv
  OBVIOUS
<1>1. TypeOK
  <2>1. Quota \in Nat /\ Capacity \in Nat /\ MaxTime \in Nat /\ MaxTime # 0
    BY ConstantsAssumption DEF ConstantsAssumption
  <2> QED
    BY <2>1 DEF Init, TypeOK
<1>2. CallsKnow
  BY DEF Init, CallsKnow
<1>3. WithinQuota
  BY ConstantsAssumption DEF ConstantsAssumption, Init, WithinQuota
<1> QED
  BY <1>1, <1>2, <1>3 DEF StateInv

(***************************************************************************)
(* Every step keeps the state as described.                                *)
(***************************************************************************)
LEMMA StateStep == StateInv /\ [Next]_vars => StateInv'
<1> SUFFICES ASSUME StateInv, [Next]_vars PROVE StateInv'
  OBVIOUS
<1> USE DEF StateInv
<1>0. /\ Quota \in Nat /\ Capacity \in Nat /\ Quota <= Capacity /\ MaxTime \in Nat
      /\ None \notin Int
  BY ConstantsAssumption DEF ConstantsAssumption
<1>1. ASSUME NEW c \in Calls, Select(c)
      PROVE  StateInv'
  <2>1. Selected \in Keys
    BY <1>1, SelectionRight DEF Select
  <2>2. now \in 0 .. now
    BY DEF TypeOK
  <2>3. TypeOK'
    BY <1>1, <2>1, <2>2 DEF Select, TypeOK, upstream
  <2>4. CallsKnow'
    BY <1>1, <2>1 DEF Select, TypeOK, CallsKnow
  <2> QED
    BY <1>1, <2>3, <2>4 DEF Select, upstream, WithinQuota
<1>2. ASSUME NEW c \in Calls, Return(c)
      PROVE  StateInv'
  <2>1. key[c] \in Keys
    BY <1>2 DEF Return, CallsKnow
  <2>2. TypeOK'
    <3>1. CASE pc[c] = "ok" /\ UpdateFromHeaders(c)
      <4>1. remaining' \in [Keys -> 0 .. Capacity]
        BY <2>1, <3>1 DEF TypeOK, UpdateFromHeaders
      <4> QED
        BY <1>2, <4>1 DEF Return, TypeOK, upstream
    <3>2. CASE pc[c] = "failed" /\ UNCHANGED remaining
      BY <1>2, <3>2 DEF Return, TypeOK, upstream
    <3> QED
      BY <1>2, <3>1, <3>2 DEF Return
  <2>3. CallsKnow'
    BY <1>2 DEF Return, TypeOK, CallsKnow
  <2> QED
    BY <1>2, <2>2, <2>3 DEF Return, upstream, WithinQuota
<1>3. ASSUME NEW c \in Calls, Serve(c)
      PROVE  StateInv'
  <2>1. /\ key[c] \in Keys
        /\ left[key[c]] \in 1 .. Quota
        /\ unseen[key[c]] \in 0 .. Quota
        /\ left[key[c]] + unseen[key[c]] <= Quota
    BY <1>0, <1>3 DEF Serve, CallsKnow, TypeOK, WithinQuota
  <2>2. /\ left' = [left EXCEPT ![key[c]] = @ - 1]
        /\ left' \in [Keys -> 0 .. Quota]
        /\ left'[key[c]] = left[key[c]] - 1
        /\ left'[key[c]] \in 0 .. Capacity
        /\ \A k \in Keys \ {key[c]} : left'[k] = left[k]
    BY <1>0, <1>3, <2>1 DEF Serve, TypeOK
  <2>3. CASE /\ pc' = [pc EXCEPT ![c] = "ok"]
             /\ header' = [header EXCEPT ![c] = left'[key[c]]]
             /\ UNCHANGED unseen
    <3>1. TypeOK'
      BY <1>3, <2>2, <2>3 DEF Serve, TypeOK, pool
    <3>2. CallsKnow'
      BY <1>3, <2>1, <2>3 DEF Serve, TypeOK, CallsKnow
    <3>3. WithinQuota'
      BY <1>0, <2>1, <2>2, <2>3 DEF WithinQuota, TypeOK
    <3> QED
      BY <3>1, <3>2, <3>3
  <2>4. CASE /\ \/ pc' = [pc EXCEPT ![c] = "failed"]
                \/ pc' = [pc EXCEPT ![c] = "ok"]
             /\ unseen' = [unseen EXCEPT ![key[c]] = @ + 1]
             /\ UNCHANGED header
    <3>1. /\ unseen' \in [Keys -> 0 .. Quota]
          /\ unseen'[key[c]] = unseen[key[c]] + 1
          /\ \A k \in Keys \ {key[c]} : unseen'[k] = unseen[k]
      BY <1>0, <2>1, <2>4 DEF TypeOK
    <3>2. pc' \in [Calls -> {"idle", "sent", "ok", "failed"}]
      BY <2>4 DEF TypeOK
    <3>3. TypeOK'
      BY <1>3, <2>2, <2>4, <3>1, <3>2 DEF Serve, TypeOK, pool
    <3>4. CallsKnow'
      BY <1>3, <2>1, <2>4 DEF Serve, TypeOK, CallsKnow
    <3>5. WithinQuota'
      BY <1>0, <2>1, <2>2, <3>1 DEF WithinQuota, TypeOK
    <3> QED
      BY <3>3, <3>4, <3>5
  <2> QED
    BY <1>3, <2>3, <2>4 DEF Serve
<1>4. ASSUME NEW c \in Calls, Reject(c)
      PROVE  StateInv'
  <2>1. TypeOK'
    BY <1>4 DEF Reject, TypeOK, pool, upstream
  <2>2. CallsKnow'
    BY <1>4 DEF Reject, TypeOK, CallsKnow
  <2> QED
    BY <1>4, <2>1, <2>2 DEF Reject, upstream, WithinQuota
<1>5. ASSUME NEW k \in Keys, WindowReset(k)
      PROVE  StateInv'
  <2>1. TypeOK'
    BY <1>0, <1>5 DEF WindowReset, TypeOK, pool
  <2>2. CallsKnow'
    BY <1>5 DEF WindowReset, CallsKnow
  <2>3. WithinQuota'
    BY <1>0, <1>5 DEF WindowReset, TypeOK, WithinQuota
  <2> QED
    BY <2>1, <2>2, <2>3
<1>6. CASE Tick
  <2>1. TypeOK'
    <3>1. now \in Nat /\ now' \in 1 .. MaxTime /\ 0 .. now \subseteq 0 .. now'
      BY <1>0, <1>6 DEF Tick, TypeOK
    <3>2. lastUsed' \in [Keys -> 0 .. now']
      BY <1>6, <3>1 DEF Tick, TypeOK, pool
    <3> QED
      BY <1>6, <3>1, <3>2 DEF Tick, TypeOK, pool, upstream
  <2> QED
    BY <1>6, <2>1 DEF Tick, CallsKnow, WithinQuota, upstream
<1>7. CASE UNCHANGED vars
  BY <1>7 DEF vars, pool, upstream, TypeOK, CallsKnow, WithinQuota
<1> QED
  BY <1>1, <1>2, <1>3, <1>4, <1>5, <1>6, <1>7 DEF Next, ChatCompletion

(***************************************************************************)
(* The types of KeyPool are kept.                                          *)
(***************************************************************************)
THEOREM TypeCorrect == Spec => []TypeOK
<1>1. StateInv => TypeOK
  BY DEF StateInv
<1> QED
  BY <1>1, StateInit, StateStep, PTL DEF Spec

(***************************************************************************)
(* A call never gets a key worse than another, and is turned away only     *)
(* when every key is exhausted (Select in keypool.go).                     *)
(***************************************************************************)
THEOREM SelectionIsHealthiest == Spec => []SelectsHealthiest
<1>1. TypeOK => SelectsHealthiest
  BY SelectionRight
<1> QED
  BY <1>1, TypeCorrect, PTL

-----------------------------------------------------------------------------
(* The reserve of a key.                                                   *)
(*                                                                         *)
(* An answer that leaves the threshold or more may be stored after one     *)
(* that left less, and then makes an exhausted key usable again.  There    *)
(* are at most as many such answers as there are calls, and while one of   *)
(* them is on its way, its call burns nothing.  So a key has more than the *)
(* reserve promises, and how much more is told by the answers on their     *)
(* way: with m calls that are not such answers, Tri(m) calls may have gone *)
(* below the threshold, less those of the m that may still be going to.    *)

(* Answers on their way that will make key k usable, those that will make  *)
(* it exhausted, and its calls that have no answer yet.                    *)
Fresh(k) == {c \in Calls : pc[c] = "ok" /\ key[c] = k /\ header[c] # None
                            /\ header[c] >= MinRemaining}
Spent(k) == {c \in Calls : pc[c] = "ok" /\ key[c] = k /\ header[c] # None
                            /\ ~(header[c] >= MinRemaining)}
Sent(k) == {c \in Calls : pc[c] = "sent" /\ key[c] = k}

Tri(m) == (m * (m + 1)) \div 2

NumCalls == Cardinality(Calls)

Slack(k) ==
    LET m == NumCalls - Cardinality(Fresh(k))
        going == IF Usable(k) THEN m - Cardinality(Spent(k)) ELSE Cardinality(Sent(k))
    IN  left[k] + unseen[k] >= MinRemaining - Tri(m) + going

SlackInv == \A k \in Keys : Slack(k)

(* 1 for a member of S and 0 for any other c.                              *)
In(c, S) == IF c \in S THEN 1 ELSE 0

(***************************************************************************)
(* Triangular numbers.                                                     *)
(***************************************************************************)
LEMMA TriFacts ==
    ASSUME NEW m \in Nat
    PROVE  /\ Tri(m) \in Nat
           /\ Tri(m) >= m
           /\ Tri(m + 1) = Tri(m) + m + 1
<1> DEFINE x == m * (m + 1)
<1>1. m * m \in Nat /\ x = m * m + m
  OBVIOUS
<1>2. m * m >= m
  <2>1. CASE m = 0
    BY <2>1
  <2>2. CASE m >= 1
    <3>1. m * m = m + m * (m - 1)
      OBVIOUS
    <3>2. m - 1 \in Nat
      BY <2>2
    <3>3. m * (m - 1) \in Nat
      BY <3>2
    <3> QED
      BY <3>1, <3>3
  <2> QED
    BY <2>1, <2>2
<1>3. (m + 1) * ((m + 1) + 1) = x + 2 * (m + 1)
  OBVIOUS
<1> HIDE DEF x
<1>4. x \in Nat /\ x >= 2 * m
  <2>1. \A y \in Nat : y >= m /\ x = y + m => x \in Nat /\ x >= 2 * m
    OBVIOUS
  <2> QED
    BY <1>1, <1>2, <2>1
<1>5. x \div 2 \in Nat /\ x \div 2 >= m /\ (x + 2 * (m + 1)) \div 2 = x \div 2 + (m + 1)
  BY <1>4
<1> QED
  BY <1>3, <1>5 DEF Tri, x

(***************************************************************************)
(* More calls, more overrun.                                               *)
(***************************************************************************)
LEMMA TriMonotone ==
    ASSUME NEW m \in Nat, NEW n \in Nat, m <= n
    PROVE  Tri(m) <= Tri(n)
<1>1. n - m \in Nat /\ n = m + (n - m)
  OBVIOUS
<1> DEFINE d == n - m
           S == {i \in 0 .. d : Tri(m) <= Tri(m + i)}
<1>2. 0 \in S
  BY <1>1, TriFacts
<1>3. ASSUME NEW i \in 0 .. (d - 1), i \in S
      PROVE  i + 1 \in S
  <2>1. m + i \in Nat /\ (m + i) + 1 = m + (i + 1) /\ i + 1 \in 0 .. d
    BY <1>1
  <2>2. Tri(m + i) \in Nat /\ Tri((m + i) + 1) = Tri(m + i) + (m + i) + 1
    BY <2>1, TriFacts
  <2>3. Tri(m) \in Nat /\ Tri(m) <= Tri(m + i)
    BY <1>3, TriFacts
  <2>4. Tri(m) <= Tri(m + (i + 1))
    BY <2>1, <2>2, <2>3
  <2> QED
    BY <2>1, <2>4
<1> HIDE DEF S
<1>4. 0 .. d \subseteq S
  BY <1>1, <1>2, <1>3, Induction
<1>5. d \in S
  BY <1>1, <1>4
<1> QED
  BY <1>1, <1>5 DEF S

(***************************************************************************)
(* How a number of elements changes when the set changes in one of them.   *)
(***************************************************************************)
LEMMA CardinalityMove ==
    ASSUME NEW S, NEW T, NEW c, IsFiniteSet(S), S \ {c} = T \ {c}
    PROVE  Cardinality(T) = Cardinality(S) - In(c, S) + In(c, T)
<1>1. IsFiniteSet(S \ {c}) /\ Cardinality(S \ {c}) = Cardinality(S) - In(c, S)
  <2>1. Cardinality(S) \in Nat
    BY FS_CardinalityType
  <2> QED
    BY <2>1, FS_RemoveElement DEF In
<1>2. Cardinality(S \ {c}) \in Nat
  BY <1>1, FS_CardinalityType
<1>3. CASE c \in T
  <2>1. T = (S \ {c}) \cup {c}
    BY <1>3
  <2>2. Cardinality((S \ {c}) \cup {c}) = Cardinality(S \ {c}) + 1
    BY <1>1, FS_AddElement
  <2>3. Cardinality(T) = Cardinality(S \ {c}) + 1
    BY <2>1, <2>2, Zenon
  <2>4. In(c, T) = 1
    BY <1>3 DEF In
  <2> QED
    BY <1>1, <2>3, <2>4
<1>4. CASE c \notin T
  <2>1. T = S \ {c}
    BY <1>4
  <2>2. Cardinality(T) = Cardinality(S \ {c})
    BY <2>1, Zenon
  <2>3. In(c, T) = 0
    BY <1>4 DEF In
  <2> QED
    BY <1>1, <1>2, <2>2, <2>3
<1> QED
  BY <1>3, <1>4

(* The three kinds of calls of a key are different calls.                  *)
Counted ==
    \A k \in Keys :
        /\ NumCalls \in Nat
        /\ Cardinality(Fresh(k)) \in Nat
        /\ Cardinality(Spent(k)) \in Nat
        /\ Cardinality(Sent(k)) \in Nat
        /\ Cardinality(Fresh(k)) + Cardinality(Spent(k)) + Cardinality(Sent(k)) <= NumCalls

(***************************************************************************)
(* The calls of a key are counted, in every state.                         *)
(***************************************************************************)
LEMMA CallsCounted == Counted
<1> SUFFICES ASSUME NEW k \in Keys
             PROVE  /\ NumCalls \in Nat
                    /\ Cardinality(Fresh(k)) \in Nat
                    /\ Cardinality(Spent(k)) \in Nat
                    /\ Cardinality(Sent(k)) \in Nat
                    /\ Cardinality(Fresh(k)) + Cardinality(Spent(k)) + Cardinality(Sent(k))
                          <= NumCalls
  BY DEF Counted
<1>1. IsFiniteSet(Calls)
  BY ConstantsAssumption DEF ConstantsAssumption
<1>2. /\ Fresh(k) \subseteq Calls /\ Spent(k) \subseteq Calls /\ Sent(k) \subseteq Calls
      /\ Fresh(k) \cap Spent(k) = {}
      /\ (Fresh(k) \cup Spent(k)) \cap Sent(k) = {}
  BY DEF Fresh, Spent, Sent
<1> DEFINE A == Fresh(k)
           B == Spent(k)
           C == Sent(k)
<1> HIDE DEF A, B, C
<1>3. IsFiniteSet(A) /\ IsFiniteSet(B) /\ IsFiniteSet(C)
  BY <1>1, <1>2, FS_Subset DEF A, B, C
<1>4. Cardinality(A) \in Nat /\ Cardinality(B) \in Nat /\ Cardinality(C) \in Nat
  BY <1>3, FS_CardinalityType
<1>5. Cardinality(A \cap B) = 0 /\ Cardinality((A \cup B) \cap C) = 0
  <2>1. A \cap B = {} /\ (A \cup B) \cap C = {}
    BY <1>2 DEF A, B, C
  <2> QED
    BY <2>1, FS_EmptySet, Zenon
<1>6. /\ IsFiniteSet(A \cup B)
      /\ Cardinality(A \cup B) = Cardinality(A) + Cardinality(B)
  <2>1. /\ IsFiniteSet(A \cup B)
        /\ Cardinality(A \cup B) = Cardinality(A) + Cardinality(B) - Cardinality(A \cap B)
    BY <1>3, FS_Union
  <2> QED
    BY <1>4, <1>5, <2>1
<1>7. Cardinality((A \cup B) \cup C) = Cardinality(A) + Cardinality(B) + Cardinality(C)
  <2>1. Cardinality((A \cup B) \cup C) =
            Cardinality(A \cup B) + Cardinality(C) - Cardinality((A \cup B) \cap C)
    BY <1>3, <1>6, FS_Union
  <2> QED
    BY <1>4, <1>5, <1>6, <2>1
<1>8. (A \cup B) \cup C \subseteq Calls
  BY <1>2 DEF A, B, C
<1>9. Cardinality((A \cup B) \cup C) <= Cardinality(Calls) /\ Cardinality(Calls) \in Nat
  BY <1>1, <1>8, FS_Subset, FS_CardinalityType
<1> QED
  BY <1>4, <1>7, <1>9 DEF NumCalls, A, B, C

(***************************************************************************)
(* Every key can start with what its quota leaves.                         *)
(***************************************************************************)
LEMMA SlackWithQuota ==
    ASSUME NEW k \in Keys, left[k] + unseen[k] = Quota
    PROVE  Slack(k)
<1> DEFINE o == Cardinality(Fresh(k))
           q == Cardinality(Spent(k))
           p == Cardinality(Sent(k))
           m == NumCalls - o
<1>1. /\ NumCalls \in Nat /\ o \in Nat /\ q \in Nat /\ p \in Nat
      /\ o + q + p <= NumCalls
  BY CallsCounted DEF Counted
<1>2. Quota \in Nat /\ MinRemaining \in Nat /\ MinRemaining <= Quota
  BY ConstantsAssumption DEF ConstantsAssumption
<1> HIDE DEF o, q, p
<1>3. m \in Nat /\ m - q <= m /\ p <= m
  BY <1>1
<1>4. Tri(m) \in Nat /\ Tri(m) >= m
  BY <1>3, TriFacts
<1> HIDE DEF m
<1>5. Quota >= MinRemaining - Tri(m) + (IF Usable(k) THEN m - q ELSE p)
  BY <1>1, <1>2, <1>3, <1>4
<1> QED
  BY <1>5 DEF Slack, o, q, p, m

(***************************************************************************)
(* A step of one call counts or discounts no other.                        *)
(***************************************************************************)
LEMMA CallMoves ==
    ASSUME NEW c \in Calls, NEW k \in Keys,
           \A d \in Calls \ {c} :
               pc'[d] = pc[d] /\ key'[d] = key[d] /\ header'[d] = header[d]
    PROVE  /\ Cardinality(Fresh(k)') =
                  Cardinality(Fresh(k)) - In(c, Fresh(k)) + In(c, Fresh(k)')
           /\ Cardinality(Spent(k)') =
                  Cardinality(Spent(k)) - In(c, Spent(k)) + In(c, Spent(k)')
           /\ Cardinality(Sent(k)') =
                  Cardinality(Sent(k)) - In(c, Sent(k)) + In(c, Sent(k)')
<1>1. IsFiniteSet(Calls)
  BY ConstantsAssumption DEF ConstantsAssumption
<1>2. IsFiniteSet(Fresh(k)) /\ IsFiniteSet(Spent(k)) /\ IsFiniteSet(Sent(k))
  <2>1. Fresh(k) \subseteq Calls /\ Spent(k) \subseteq Calls /\ Sent(k) \subseteq Calls
    BY DEF Fresh, Spent, Sent
  <2> QED
    BY <1>1, <2>1, FS_Subset
<1>3. Fresh(k) \ {c} = Fresh(k)' \ {c}
  BY DEF Fresh
<1>4. Spent(k) \ {c} = Spent(k)' \ {c}
  BY DEF Spent
<1>5. Sent(k) \ {c} = Sent(k)' \ {c}
  BY DEF Sent
<1> QED
  BY <1>2, <1>3, <1>4, <1>5, CardinalityMove

(***************************************************************************)
(* The slack of a key stays while none of its answers comes or is stored:  *)
(* a new call goes only to a usable key, which has room for it.            *)
(***************************************************************************)
LEMMA SlackUnmoved ==
    ASSUME NEW k \in Keys, Slack(k),
           left[k] \in Nat, unseen[k] \in Nat, left'[k] \in Nat, unseen'[k] \in Nat,
           left'[k] + unseen'[k] = left[k] + unseen[k],
           Usable(k)' <=> Usable(k),
           Cardinality(Fresh(k)') = Cardinality(Fresh(k)),
           Cardinality(Spent(k)') = Cardinality(Spent(k)),
           Usable(k) \/ Cardinality(Sent(k)') <= Cardinality(Sent(k))
    PROVE  Slack(k)'
<1> DEFINE o == Cardinality(Fresh(k))
           q == Cardinality(Spent(k))
           p == Cardinality(Sent(k))
           p1 == Cardinality(Sent(k)')
           m == NumCalls - o
           L == left[k] + unseen[k]
<1>1. NumCalls \in Nat /\ o \in Nat /\ q \in Nat /\ p \in Nat /\ o + q + p <= NumCalls
  BY CallsCounted DEF Counted
<1>2. p1 \in Nat
  <2>1. Counted'
    BY CallsCounted, PTL
  <2> QED
    BY <2>1 DEF Counted
<1>3. MinRemaining \in Nat /\ L \in Nat
  BY ConstantsAssumption DEF ConstantsAssumption
<1>4. m \in Nat /\ Tri(m) \in Nat
  BY <1>1, TriFacts
<1>5. L >= MinRemaining - Tri(m) + (IF Usable(k) THEN m - q ELSE p)
  BY DEF Slack
<1>6. /\ left'[k] + unseen'[k] = L
      /\ NumCalls - Cardinality(Fresh(k)') = m
      /\ Cardinality(Spent(k)') = q
      /\ Usable(k) \/ p1 <= p
  OBVIOUS
<1> HIDE DEF o, q, p, p1, m, L
<1>7. L >= MinRemaining - Tri(m) + (IF Usable(k) THEN m - q ELSE p1)
  BY <1>1, <1>2, <1>3, <1>4, <1>5, <1>6
<1> QED
  BY <1>6, <1>7 DEF Slack, NumCalls, Tri, p1

(***************************************************************************)
(* Select: the key of a new call is usable, and has room for it.           *)
(***************************************************************************)
LEMMA SlackSelect ==
    ASSUME StateInv, NEW c \in Calls, Select(c), NEW k \in Keys, Slack(k)
    PROVE  Slack(k)'
<1> USE DEF StateInv
<1>1. /\ Selected \in Keys /\ Selected # None
      /\ pc[c] = "idle" /\ pc' = [pc EXCEPT ![c] = "sent"]
      /\ key' = [key EXCEPT ![c] = Selected]
      /\ remaining' = remaining /\ header' = header /\ left' = left /\ unseen' = unseen
  BY SelectionRight DEF Select, upstream
<1>2. /\ pc'[c] = "sent" /\ key'[c] = Selected
      /\ \A d \in Calls \ {c} : pc'[d] = pc[d] /\ key'[d] = key[d] /\ header'[d] = header[d]
  BY <1>1 DEF TypeOK
<1>3. /\ c \notin Fresh(k) /\ c \notin Spent(k) /\ c \notin Sent(k)
      /\ c \notin Fresh(k)' /\ c \notin Spent(k)'
      /\ c \in Sent(k)' => k = Selected
  BY <1>1, <1>2 DEF Fresh, Spent, Sent
<1>4. Counted /\ Counted'
  BY CallsCounted, PTL
<1>5. /\ Cardinality(Fresh(k)') = Cardinality(Fresh(k))
      /\ Cardinality(Spent(k)') = Cardinality(Spent(k))
      /\ Cardinality(Sent(k)') = Cardinality(Sent(k)) + In(c, Sent(k)')
  <2>1. /\ Cardinality(Fresh(k)') = Cardinality(Fresh(k)) - 0 + 0
        /\ Cardinality(Spent(k)') = Cardinality(Spent(k)) - 0 + 0
        /\ Cardinality(Sent(k)') = Cardinality(Sent(k)) - 0 + In(c, Sent(k)')
    BY <1>2, <1>3, CallMoves DEF In
  <2> QED
    BY <1>4, <2>1 DEF Counted, In
<1>6. Usable(Selected)
  BY <1>1, SelectionRight DEF SelectsHealthiest
<1>7. Usable(k) \/ Cardinality(Sent(k)') <= Cardinality(Sent(k))
  <2>1. CASE k = Selected
    BY <1>6, <2>1
  <2>2. CASE k # Selected
    <3>1. In(c, Sent(k)') = 0
      BY <1>3, <2>2 DEF In
    <3> QED
      BY <1>4, <1>5, <3>1 DEF Counted
  <2> QED
    BY <2>1, <2>2
<1>8. Usable(k)' <=> Usable(k)
  BY <1>1 DEF Usable
<1>9. /\ left[k] \in Nat /\ unseen[k] \in Nat /\ left'[k] = left[k] /\ unseen'[k] = unseen[k]
  BY <1>1 DEF TypeOK
<1> QED
  BY <1>5, <1>7, <1>8, <1>9, SlackUnmoved

(***************************************************************************)
(* Reject: the call of a key is over, and was not counted.                 *)
(***************************************************************************)
LEMMA SlackReject ==
    ASSUME StateInv, NEW c \in Calls, Reject(c), NEW k \in Keys, Slack(k)
    PROVE  Slack(k)'
<1> USE DEF StateInv
<1>1. /\ pc[c] = "sent" /\ pc' = [pc EXCEPT ![c] = "failed"]
      /\ key' = key /\ remaining' = remaining /\ header' = header
      /\ left' = left /\ unseen' = unseen
  BY DEF Reject, upstream, pool
<1>2. /\ pc'[c] = "failed"
      /\ \A d \in Calls \ {c} : pc'[d] = pc[d] /\ key'[d] = key[d] /\ header'[d] = header[d]
  BY <1>1 DEF TypeOK
<1>3. /\ c \notin Fresh(k) /\ c \notin Spent(k)
      /\ c \notin Fresh(k)' /\ c \notin Spent(k)' /\ c \notin Sent(k)'
  BY <1>1, <1>2 DEF Fresh, Spent, Sent
<1>4. Counted
  BY CallsCounted
<1>5. /\ Cardinality(Fresh(k)') = Cardinality(Fresh(k))
      /\ Cardinality(Spent(k)') = Cardinality(Spent(k))
      /\ Cardinality(Sent(k)') <= Cardinality(Sent(k))
  <2>1. /\ Cardinality(Fresh(k)') = Cardinality(Fresh(k)) - 0 + 0
        /\ Cardinality(Spent(k)') = Cardinality(Spent(k)) - 0 + 0
        /\ Cardinality(Sent(k)') = Cardinality(Sent(k)) - In(c, Sent(k)) + 0
    BY <1>2, <1>3, CallMoves DEF In
  <2> QED
    BY <1>4, <2>1 DEF Counted, In
<1>6. Usable(k)' <=> Usable(k)
  BY <1>1 DEF Usable
<1>7. /\ left[k] \in Nat /\ unseen[k] \in Nat /\ left'[k] = left[k] /\ unseen'[k] = unseen[k]
  BY <1>1 DEF TypeOK
<1> QED
  BY <1>5, <1>6, <1>7, SlackUnmoved

(***************************************************************************)
(* Serve, when the answer does not tell: what it takes from left is in     *)
(* unseen.                                                                 *)
(***************************************************************************)
LEMMA SlackUntold ==
    ASSUME StateInv, NEW c \in Calls, Serve(c), NEW k \in Keys, Slack(k),
           pc' \in {[pc EXCEPT ![c] = "failed"], [pc EXCEPT ![c] = "ok"]},
           unseen' = [unseen EXCEPT ![key[c]] = @ + 1],
           UNCHANGED header
    PROVE  Slack(k)'
<1> USE DEF StateInv
<1>1. /\ pc[c] = "sent" /\ header[c] = None
      /\ key[c] \in Keys /\ left[key[c]] > 0
      /\ left' = [left EXCEPT ![key[c]] = @ - 1]
      /\ key' = key /\ remaining' = remaining /\ header' = header
  BY DEF Serve, pool, CallsKnow
<1>2. /\ pc'[c] # "sent" /\ header'[c] = None
      /\ \A d \in Calls \ {c} : pc'[d] = pc[d] /\ key'[d] = key[d] /\ header'[d] = header[d]
  BY <1>1 DEF TypeOK
<1>3. /\ c \notin Fresh(k) /\ c \notin Spent(k)
      /\ c \notin Fresh(k)' /\ c \notin Spent(k)' /\ c \notin Sent(k)'
  BY <1>1, <1>2 DEF Fresh, Spent, Sent
<1>4. Counted
  BY CallsCounted
<1>5. /\ Cardinality(Fresh(k)') = Cardinality(Fresh(k))
      /\ Cardinality(Spent(k)') = Cardinality(Spent(k))
      /\ Cardinality(Sent(k)') <= Cardinality(Sent(k))
  <2>1. /\ Cardinality(Fresh(k)') = Cardinality(Fresh(k)) - 0 + 0
        /\ Cardinality(Spent(k)') = Cardinality(Spent(k)) - 0 + 0
        /\ Cardinality(Sent(k)') = Cardinality(Sent(k)) - In(c, Sent(k)) + 0
    BY <1>2, <1>3, CallMoves DEF In
  <2> QED
    BY <1>4, <2>1 DEF Counted, In
<1>6. Usable(k)' <=> Usable(k)
  BY <1>1 DEF Usable
<1>7. /\ left[k] \in Nat /\ unseen[k] \in Nat /\ left'[k] \in Nat /\ unseen'[k] \in Nat
      /\ left'[k] + unseen'[k] = left[k] + unseen[k]
  BY <1>1 DEF TypeOK
<1> QED
  BY <1>5, <1>6, <1>7, SlackUnmoved

(***************************************************************************)
(* Serve, when the answer tells what is left: the answer is one more of    *)
(* those on their way.                                                     *)
(***************************************************************************)
LEMMA SlackTold ==
    ASSUME StateInv, NEW c \in Calls, Serve(c), NEW k \in Keys, Slack(k),
           pc' = [pc EXCEPT ![c] = "ok"],
           header' = [header EXCEPT ![c] = left'[key[c]]],
           UNCHANGED unseen
    PROVE  Slack(k)'
<1> USE DEF StateInv
<1>1. /\ pc[c] = "sent"
      /\ key[c] \in Keys /\ left[key[c]] > 0
      /\ left' = [left EXCEPT ![key[c]] = @ - 1]
      /\ key' = key /\ remaining' = remaining /\ unseen' = unseen
  BY DEF Serve, pool, CallsKnow
<1>2. /\ pc'[c] = "ok" /\ header'[c] = left'[key[c]]
      /\ \A d \in Calls \ {c} : pc'[d] = pc[d] /\ key'[d] = key[d] /\ header'[d] = header[d]
  BY <1>1 DEF TypeOK
<1>3. \A j \in Keys : left[j] \in Nat /\ unseen[j] \in Nat
  BY DEF TypeOK
<1>4. /\ left'[key[c]] = left[key[c]] - 1 /\ left'[key[c]] \in Nat
      /\ \A j \in Keys \ {key[c]} : left'[j] = left[j]
  BY <1>1, <1>3 DEF TypeOK
<1>5. c \notin Fresh(k) /\ c \notin Spent(k) /\ c \notin Sent(k)'
  BY <1>1, <1>2 DEF Fresh, Spent, Sent
<1>6. Counted /\ Counted'
  BY CallsCounted, PTL
<1>7. Usable(k)' <=> Usable(k)
  BY <1>1 DEF Usable
<1>8. CASE k # key[c]
  <2>1. c \notin Fresh(k)' /\ c \notin Spent(k)' /\ c \notin Sent(k)
    BY <1>1, <1>8 DEF Fresh, Spent, Sent
  <2>2. /\ Cardinality(Fresh(k)') = Cardinality(Fresh(k)) - 0 + 0
        /\ Cardinality(Spent(k)') = Cardinality(Spent(k)) - 0 + 0
        /\ Cardinality(Sent(k)') = Cardinality(Sent(k)) - 0 + 0
    BY <1>2, <1>5, <2>1, CallMoves DEF In
  <2>3. /\ Cardinality(Fresh(k)') = Cardinality(Fresh(k))
        /\ Cardinality(Spent(k)') = Cardinality(Spent(k))
        /\ Cardinality(Sent(k)') <= Cardinality(Sent(k))
    BY <1>6, <2>2 DEF Counted
  <2>4. left'[k] = left[k] /\ unseen'[k] = unseen[k]
    BY <1>1, <1>4, <1>8
  <2> QED
    BY <1>3, <1>7, <2>3, <2>4, SlackUnmoved
<1>9. CASE k = key[c]
  <2> DEFINE o == Cardinality(Fresh(k))
             q == Cardinality(Spent(k))
             p == Cardinality(Sent(k))
             o1 == Cardinality(Fresh(k)')
             q1 == Cardinality(Spent(k)')
             p1 == Cardinality(Sent(k)')
             L == left[k] + unseen[k]
             L1 == left'[k] + unseen'[k]
             m == NumCalls - o
             m1 == NumCalls - o1
  <2>1. header'[c] = left'[k] /\ left'[k] \in Nat /\ header'[c] # None
    BY <1>2, <1>4, <1>9, ConstantsAssumption DEF ConstantsAssumption
  <2>2. c \in Sent(k) /\ (c \in Fresh(k)' <=> left'[k] >= MinRemaining)
        /\ (c \in Spent(k)' <=> ~(left'[k] >= MinRemaining))
    BY <1>1, <1>2, <1>9, <2>1 DEF Sent, Fresh, Spent
  <2>3. /\ o1 = o - 0 + In(c, Fresh(k)')
        /\ q1 = q - 0 + In(c, Spent(k)')
        /\ p1 = p - 1 + 0
    BY <1>2, <1>5, <2>2, CallMoves DEF In
  <2>4. /\ NumCalls \in Nat /\ o \in Nat /\ q \in Nat /\ p \in Nat
        /\ o + q + p <= NumCalls
    BY <1>6 DEF Counted
  <2>5. o1 \in Nat /\ q1 \in Nat /\ p1 \in Nat /\ o1 + q1 + p1 <= NumCalls
    BY <1>6 DEF Counted, NumCalls
  <2>6. L \in Nat /\ L1 \in Nat /\ L1 = L - 1 /\ L1 >= left'[k]
    BY <1>1, <1>3, <1>4, <1>9
  <2>7. MinRemaining \in Nat
    BY ConstantsAssumption DEF ConstantsAssumption
  <2>8. L >= MinRemaining - Tri(m) + (IF Usable(k) THEN m - q ELSE p)
    BY DEF Slack
  <2>9. o1 = o + In(c, Fresh(k)') /\ q1 = q + In(c, Spent(k)') /\ p1 = p - 1
    BY <2>3, <2>4 DEF In
  <2> HIDE DEF o, q, p, o1, q1, p1, L, L1
  <2>10. m \in Nat /\ m1 \in Nat
    BY <2>4, <2>5
  <2>11. Tri(m) \in Nat /\ Tri(m1) \in Nat /\ Tri(m1) >= m1
    BY <2>10, TriFacts
  <2>12. L1 >= MinRemaining - Tri(m1) + (IF Usable(k) THEN m1 - q1 ELSE p1)
    <3>1. CASE left'[k] >= MinRemaining
      <4>1. L1 >= MinRemaining
        BY <2>1, <2>6, <2>7, <3>1
      <4>2. m1 - q1 <= m1 /\ p1 <= m1
        BY <2>4, <2>5
      <4> HIDE DEF m, m1
      <4> QED
        BY <2>5, <2>6, <2>7, <2>10, <2>11, <4>1, <4>2
    <3>2. CASE ~(left'[k] >= MinRemaining)
      <4>1. o1 = o /\ q1 = q + 1 /\ p1 = p - 1
        BY <2>2, <2>4, <2>9, <3>2 DEF In
      <4>2. m1 = m
        BY <4>1
      <4> HIDE DEF m, m1
      <4>3. L1 >= MinRemaining - Tri(m) + (IF Usable(k) THEN m - q1 ELSE p1)
        BY <2>4, <2>6, <2>7, <2>8, <2>10, <2>11, <4>1
      <4> QED
        BY <4>2, <4>3
    <3> QED
      BY <3>1, <3>2
  <2> QED
    BY <1>7, <2>12 DEF Slack, NumCalls, Tri, m1, o1, q1, p1, L1
<1> QED
  BY <1>8, <1>9

(***************************************************************************)
(* Return: an answer that makes its key usable is one fewer that may do so *)
(* later, which pays for the calls that the key may now get; after one     *)
(* that makes its key exhausted, only the calls already sent may burn.     *)
(***************************************************************************)
LEMMA SlackReturn ==
    ASSUME StateInv, NEW c \in Calls, Return(c), NEW k \in Keys, Slack(k)
    PROVE  Slack(k)'
<1> USE DEF StateInv
<1>1. /\ pc' = [pc EXCEPT ![c] = "idle"] /\ key' = [key EXCEPT ![c] = None]
      /\ header' = [header EXCEPT ![c] = None]
      /\ left' = left /\ unseen' = unseen
      /\ pc[c] = "ok" \/ pc[c] = "failed"
      /\ key[c] \in Keys
      /\ pc[c] = "failed" => header[c] = None
  BY DEF Return, upstream, CallsKnow
<1>2. /\ pc'[c] = "idle"
      /\ \A d \in Calls \ {c} : pc'[d] = pc[d] /\ key'[d] = key[d] /\ header'[d] = header[d]
  BY <1>1 DEF TypeOK
<1>3. /\ c \notin Sent(k)
      /\ c \notin Fresh(k)' /\ c \notin Spent(k)' /\ c \notin Sent(k)'
  BY <1>1, <1>2 DEF Fresh, Spent, Sent
<1>4. Counted /\ Counted'
  BY CallsCounted, PTL
<1> DEFINE o == Cardinality(Fresh(k))
           q == Cardinality(Spent(k))
           p == Cardinality(Sent(k))
           o1 == Cardinality(Fresh(k)')
           q1 == Cardinality(Spent(k)')
           p1 == Cardinality(Sent(k)')
           L == left[k] + unseen[k]
           m == NumCalls - o
           m1 == NumCalls - o1
<1>5. /\ NumCalls \in Nat /\ o \in Nat /\ q \in Nat /\ p \in Nat
      /\ o + q + p <= NumCalls
  BY <1>4 DEF Counted
<1>6. o1 \in Nat /\ q1 \in Nat /\ p1 \in Nat /\ o1 + q1 + p1 <= NumCalls
  BY <1>4 DEF Counted, NumCalls
<1>7. o1 = o - In(c, Fresh(k)) /\ q1 = q - In(c, Spent(k)) /\ p1 = p
  <2>1. /\ o1 = o - In(c, Fresh(k)) + 0
        /\ q1 = q - In(c, Spent(k)) + 0
        /\ p1 = p - 0 + 0
    BY <1>2, <1>3, CallMoves DEF In
  <2> QED
    BY <1>5, <2>1 DEF In
<1>8. /\ left[k] \in Nat /\ unseen[k] \in Nat /\ L \in Nat
      /\ left'[k] = left[k] /\ unseen'[k] = unseen[k]
  BY <1>1 DEF TypeOK
<1>9. MinRemaining \in Nat
  BY ConstantsAssumption DEF ConstantsAssumption
<1>10. L >= MinRemaining - Tri(m) + (IF Usable(k) THEN m - q ELSE p)
  BY DEF Slack
<1>11. CASE c \in Fresh(k)
  <2>1. /\ pc[c] = "ok" /\ key[c] = k /\ header[c] # None /\ header[c] >= MinRemaining
        /\ c \notin Spent(k)
    BY <1>11 DEF Fresh, Spent
  <2>2. remaining' = [remaining EXCEPT ![k] = header[c]]
    BY <2>1 DEF Return, UpdateFromHeaders
  <2>3. Usable(k)'
    BY <2>1, <2>2 DEF Usable, TypeOK
  <2>4. o1 = o - 1 /\ q1 = q /\ p1 = p
    BY <1>5, <1>7, <1>11, <2>1 DEF In
  <2> HIDE DEF o, q, p, o1, q1, p1, L
  <2>5. m \in Nat /\ m1 = m + 1
    BY <1>5, <1>6, <2>4
  <2>6. Tri(m) \in Nat /\ Tri(m + 1) = Tri(m) + m + 1
    BY <2>5, TriFacts
  <2>7. (IF Usable(k) THEN m - q ELSE p) >= 0
    BY <1>5
  <2> HIDE DEF m, m1
  <2>8. Tri(m1) = Tri(m) + m + 1
    BY <2>5, <2>6
  <2>9. L >= MinRemaining - Tri(m)
    <3> DEFINE g == IF Usable(k) THEN m - q ELSE p
    <3>1. g \in Int
      BY <1>5, <2>5
    <3>2. g >= 0 /\ L >= MinRemaining - Tri(m) + g
      BY <1>10, <2>7
    <3> HIDE DEF g
    <3> QED
      BY <1>8, <1>9, <2>6, <3>1, <3>2
  <2>10. L >= MinRemaining - Tri(m1) + (m1 - q1)
    BY <1>5, <1>6, <1>8, <1>9, <2>4, <2>5, <2>6, <2>8, <2>9
  <2> QED
    BY <1>8, <2>3, <2>10 DEF Slack, NumCalls, Tri, o1, q1, p1, m1, L
<1>12. CASE c \in Spent(k)
  <2>1. /\ pc[c] = "ok" /\ key[c] = k /\ header[c] # None /\ ~(header[c] >= MinRemaining)
        /\ c \notin Fresh(k)
    BY <1>12 DEF Fresh, Spent
  <2>2. remaining' = [remaining EXCEPT ![k] = header[c]]
    BY <2>1 DEF Return, UpdateFromHeaders
  <2>3. ~Usable(k)'
    BY <2>1, <2>2 DEF Usable, TypeOK
  <2>4. o1 = o /\ q1 = q - 1 /\ p1 = p
    BY <1>5, <1>7, <1>12, <2>1 DEF In
  <2> HIDE DEF o, q, p, o1, q1, p1, L
  <2>5. m \in Nat /\ m1 = m /\ p <= m - q
    BY <1>5, <2>4
  <2>6. Tri(m) \in Nat
    BY <2>5, TriFacts
  <2> HIDE DEF m, m1
  <2>7. L >= MinRemaining - Tri(m) + p
    BY <1>5, <1>8, <1>9, <1>10, <2>5, <2>6
  <2>8. L >= MinRemaining - Tri(m1) + p1
    BY <2>4, <2>5, <2>7
  <2> QED
    BY <1>8, <2>3, <2>8 DEF Slack, NumCalls, Tri, o1, q1, p1, m1, L
<1>13. CASE c \notin Fresh(k) /\ c \notin Spent(k)
  <2>1. o1 = o /\ q1 = q /\ p1 = p
    BY <1>5, <1>7, <1>13 DEF In
  <2>2. Usable(k)' <=> Usable(k)
    <3>1. CASE pc[c] = "ok" /\ UpdateFromHeaders(c)
      <4>1. key[c] # k \/ header[c] = None
        BY <1>13, <3>1 DEF Fresh, Spent
      <4>2. remaining'[k] = remaining[k]
        BY <3>1, <4>1 DEF UpdateFromHeaders, TypeOK
      <4> QED
        BY <4>2 DEF Usable
    <3>2. CASE UNCHANGED remaining
      BY <3>2 DEF Usable
    <3> QED
      BY <3>1, <3>2 DEF Return
  <2> QED
    BY <1>5, <1>8, <2>1, <2>2, SlackUnmoved
<1> QED
  BY <1>11, <1>12, <1>13

(***************************************************************************)
(* Initially every key has its whole quota.                                *)
(***************************************************************************)
LEMMA SlackInit == Init => SlackInv
<1> SUFFICES ASSUME Init, NEW k \in Keys PROVE Slack(k)
  BY DEF SlackInv
<1>1. left[k] + unseen[k] = Quota
  BY ConstantsAssumption DEF ConstantsAssumption, Init
<1> QED
  BY <1>1, SlackWithQuota

FullHasSlack == \A k \in Keys : left[k] + unseen[k] = Quota => Slack(k)

(***************************************************************************)
(* A key that begins a new window has its whole quota.                     *)
(***************************************************************************)
LEMMA SlackReset == FullHasSlack
BY SlackWithQuota DEF FullHasSlack

(***************************************************************************)
(* Every step keeps the slack of every key.                                *)
(***************************************************************************)
LEMMA SlackStep == StateInv /\ SlackInv /\ [Next]_vars => SlackInv'
<1> SUFFICES ASSUME StateInv, SlackInv, [Next]_vars, NEW k \in Keys PROVE Slack(k)'
  BY DEF SlackInv
<1>0. Slack(k)
  BY DEF SlackInv
<1>1. ASSUME NEW c \in Calls, Select(c)
      PROVE  Slack(k)'
  BY <1>0, <1>1, SlackSelect
<1>2. ASSUME NEW c \in Calls, Return(c)
      PROVE  Slack(k)'
  BY <1>0, <1>2, SlackReturn
<1>3. ASSUME NEW c \in Calls, Serve(c)
      PROVE  Slack(k)'
  <2>1. CASE /\ pc' = [pc EXCEPT ![c] = "ok"]
             /\ header' = [header EXCEPT ![c] = left'[key[c]]]
             /\ UNCHANGED unseen
    BY <1>0, <1>3, <2>1, SlackTold
  <2>2. CASE /\ \/ pc' = [pc EXCEPT ![c] = "failed"]
                \/ pc' = [pc EXCEPT ![c] = "ok"]
             /\ unseen' = [unseen EXCEPT ![key[c]] = @ + 1]
             /\ UNCHANGED header
    BY <1>0, <1>3, <2>2, SlackUntold
  <2> QED
    BY <1>3, <2>1, <2>2 DEF Serve
<1>4. ASSUME NEW c \in Calls, Reject(c)
      PROVE  Slack(k)'
  BY <1>0, <1>4, SlackReject
<1>5. ASSUME NEW j \in Keys, WindowReset(j)
      PROVE  Slack(k)'
  <2>1. CASE k = j
    <3>1. left'[k] + unseen'[k] = Quota
      BY <1>5, <2>1, ConstantsAssumption DEF WindowReset, ConstantsAssumption, StateInv, TypeOK
    <3>2. FullHasSlack'
      BY SlackReset, PTL
    <3> QED
      BY <3>1, <3>2 DEF FullHasSlack
  <2>2. CASE k # j
    <3>1. /\ left'[k] = left[k] /\ unseen'[k] = unseen[k]
          /\ remaining' = remaining /\ pc' = pc /\ key' = key /\ header' = header
      BY <1>5, <2>2 DEF WindowReset, StateInv, TypeOK, pool
    <3> QED
      BY <1>0, <3>1 DEF Slack, Usable, Fresh, Spent, Sent, NumCalls, Tri
  <2> QED
    BY <2>1, <2>2
<1>6. CASE UNCHANGED <<pool, pc, key, header, upstream>>
  <2>1. /\ left' = left /\ unseen' = unseen /\ remaining' = remaining
        /\ pc' = pc /\ key' = key /\ header' = header
    BY <1>6 DEF pool, upstream
  <2> QED
    BY <1>0, <2>1 DEF Slack, Usable, Fresh, Spent, Sent, NumCalls, Tri
<1> QED
  BY <1>1, <1>2, <1>3, <1>4, <1>5, <1>6 DEF Next, ChatCompletion, Tick, vars

(***************************************************************************)
(* The slack is enough for the reserve.                                    *)
(***************************************************************************)
LEMMA SlackImpliesReserve == StateInv /\ SlackInv => Reserve
<1> SUFFICES ASSUME StateInv, SlackInv, NEW k \in Keys
             PROVE  left[k] + unseen[k] >= MinRemaining - Overrun
  BY DEF Reserve
<1> DEFINE o == Cardinality(Fresh(k))
           q == Cardinality(Spent(k))
           p == Cardinality(Sent(k))
           m == NumCalls - o
           L == left[k] + unseen[k]
           g == IF Usable(k) THEN m - q ELSE p
<1>1. /\ NumCalls \in Nat /\ o \in Nat /\ q \in Nat /\ p \in Nat
      /\ o + q + p <= NumCalls
  BY CallsCounted DEF Counted
<1>2. L \in Nat /\ MinRemaining \in Nat
  BY ConstantsAssumption DEF ConstantsAssumption, StateInv, TypeOK
<1>3. L >= MinRemaining - Tri(m) + g
  BY DEF SlackInv, Slack
<1>4. Overrun = Tri(NumCalls)
  BY DEF Overrun, Tri, NumCalls
<1> HIDE DEF o, q, p, L
<1>5. m \in Nat /\ m <= NumCalls /\ g \in Int /\ g >= 0
  BY <1>1
<1> HIDE DEF m, g
<1>6. Tri(m) \in Nat /\ Tri(NumCalls) \in Nat /\ Tri(m) <= Tri(NumCalls)
  BY <1>1, <1>5, TriFacts, TriMonotone
<1>7. L >= MinRemaining - Tri(NumCalls)
  BY <1>2, <1>3, <1>5, <1>6
<1> QED
  BY <1>4, <1>7 DEF L

(***************************************************************************)
(* The last requests of a window are not burned (keypool.go:15-17): with n *)
(* calls in progress at once, answered in any order, lost or without the   *)
(* header, a key keeps all but Tri(n) of its reserve.                      *)
(***************************************************************************)
THEOREM ReserveIsKept == Spec => []Reserve
<1>1. Init => StateInv /\ SlackInv
  BY StateInit, SlackInit
<1>2. StateInv /\ SlackInv /\ [Next]_vars => (StateInv /\ SlackInv)'
  BY StateStep, SlackStep
<1> QED
  BY <1>1, <1>2, SlackImpliesReserve, PTL DEF Spec
=============================================================================
