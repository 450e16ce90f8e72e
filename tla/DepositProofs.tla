--------------------------- MODULE DepositProofs ---------------------------
(***************************************************************************)
(* Proofs about DepositMonitor: types, the refinement of DepositLedger,    *)
(* the accounts of the users, and that no deposit is skipped.              *)
(***************************************************************************)
EXTENDS DepositMonitor, MoneyTheorems

(***************************************************************************)
(* Types.  A fast-forward starts at or above block 0 because it happens    *)
(* only far from it.                                                       *)
(***************************************************************************)
TypeInv ==
    /\ TypeOK
    /\ \A m \in Monitors :
          /\ current[m] <= head
          /\ pc[m] = "forward" => current[m] >= BootstrapBlocks

(* The actions by which the chain and the users change.                    *)
World == NewBlock \/ Reorg \/ SetCursorToZero \/ \E u \in Users : CreateAddress(u)

LEMMA TypeInit == Init => TypeInv
<1> SUFFICES ASSUME Init PROVE TypeInv
  OBVIOUS
<1> USE ConstantsAssumption DEF ConstantsAssumption, Init
<1>1. /\ head \in 0 .. MaxHead /\ block \in [Transfers -> Nat \cup {None}]
      /\ \A t \in Transfers : block[t] # None => block[t] \in 1 .. head
      /\ addressed \subseteq Users /\ cursor \in Nat \cup {None}
  OBVIOUS
<1>2. topups \in [Hashes -> Transfers \cup {None}] /\ loaded \in [Users -> Nat]
  OBVIOUS
<1>3. /\ pc \in [Monitors -> Steps] /\ current \in [Monitors -> Nat]
      /\ from \in [Monitors -> Nat] /\ watched \in [Monitors -> SUBSET Users]
      /\ logs \in [Monitors -> SUBSET (Transfers \X Nat)]
  BY DEF Steps
<1>4. \A m \in Monitors : current[m] <= head /\ pc[m] # "forward"
  OBVIOUS
<1> QED
  BY <1>1, <1>2, <1>3, <1>4 DEF TypeInv, TypeOK

LEMMA TypeWorld ==
    ASSUME TypeInv, World
    PROVE  TypeInv'
<1> USE ConstantsAssumption
    DEF ConstantsAssumption, TypeInv, TypeOK, pgVars, localVars, auxVars, chainVars
<1>1. CASE NewBlock
  BY <1>1 DEF NewBlock
<1>2. CASE Reorg
  BY <1>2 DEF Reorg
<1>3. CASE SetCursorToZero
  BY <1>3 DEF SetCursorToZero
<1>4. ASSUME NEW u \in Users, CreateAddress(u)
      PROVE  TypeInv'
  BY <1>4 DEF CreateAddress
<1> QED
  BY <1>1, <1>2, <1>3, <1>4 DEF World

LEMMA ChunkToType ==
    ASSUME TypeInv, NEW m \in Monitors
    PROVE  /\ SafeHead(current[m]) \in Nat
           /\ ChunkTo(m) \in Nat
BY ConstantsAssumption
   DEF ConstantsAssumption, TypeInv, TypeOK, ChunkTo, SafeHead, ConfirmationsReq

LEMMA GetCursorType ==
    ASSUME NEW found \in Nat \cup {None}, NEW h \in Nat
    PROVE  GetCursor(found, h) \in Nat
BY ConstantsAssumption DEF ConstantsAssumption, GetCursor

LEMMA TypeEnd ==
    ASSUME TypeInv, NEW m \in Monitors, EndCycle(m), UNCHANGED <<chainVars, auxVars>>,
           addressed' = addressed, topups' = topups, loaded' = loaded,
           cursor' \in Nat \cup {None}
    PROVE  TypeInv'
BY DEF TypeInv, TypeOK, EndCycle, Steps, chainVars, auxVars

LEMMA TypeCycle ==
    ASSUME TypeInv, NEW m \in Monitors, checkForDeposits(m) \/ Crash(m)
    PROVE  TypeInv'
<1> USE ConstantsAssumption
    DEF ConstantsAssumption, TypeInv, TypeOK, Steps, pgVars, localVars, auxVars, chainVars
<1>1. CASE ReadHead(m)
  BY <1>1 DEF ReadHead
<1>2. CASE ReadCursor(m)
  <2>1. PICK found \in {cursor} \cup {None} :
          LET last == GetCursor(found, current[m]) IN
          /\ \/ TooFarBehind(last, current[m]) /\ Continue(m, "forward", last + 1)
             \/ ~TooFarBehind(last, current[m]) /\ last >= current[m] /\ EndCycle(m)
             \/ /\ ~TooFarBehind(last, current[m]) /\ last < current[m]
                /\ Continue(m, "addresses", last + 1)
          /\ jumped' = jumped \cup IF cursor = None THEN 1 .. last ELSE {}
    BY <1>2 DEF ReadCursor
  <2> DEFINE last == GetCursor(found, current[m])
  <2>2. last \in Nat
    BY GetCursorType
  <2>3. jumped' \subseteq Nat
    <3>1. 1 .. last \subseteq Nat
      BY <2>2
    <3>2. jumped' = jumped \/ jumped' = jumped \cup (1 .. last)
      BY <2>1
    <3> QED
      BY <3>1, <3>2
  <2> HIDE DEF last
  <2>4. UNCHANGED <<chainVars, pgVars, backfill>>
    BY <1>2 DEF ReadCursor
  <2>5. CASE TooFarBehind(last, current[m]) /\ Continue(m, "forward", last + 1)
    BY <2>2, <2>3, <2>4, <2>5 DEF TooFarBehind, Continue
  <2>6. CASE EndCycle(m)
    BY <2>3, <2>4, <2>6 DEF EndCycle
  <2>7. CASE Continue(m, "addresses", last + 1)
    BY <2>2, <2>3, <2>4, <2>7 DEF Continue
  <2> QED
    BY <2>1, <2>5, <2>6, <2>7 DEF last
<1>3. CASE FastForward(m)
  <2>1. current[m] - BootstrapBlocks \in Nat
    BY <1>3 DEF FastForward
  <2>2. jumped' \subseteq Nat
    <3>1. from[m] .. current[m] - BootstrapBlocks \subseteq Nat
      BY <2>1
    <3>2. jumped' = jumped \cup (from[m] .. current[m] - BootstrapBlocks)
      BY <1>3 DEF FastForward
    <3> QED
      BY <3>1, <3>2
  <2>3. cursor' \in Nat \cup {None}
    BY <1>3, <2>1 DEF FastForward, SaveCursor
  <2> QED
    BY <1>3, <2>1, <2>2, <2>3 DEF FastForward, Continue
<1>4. CASE ReadAddresses(m)
  BY <1>4, TypeEnd DEF ReadAddresses
<1>5. CASE FilterLogs(m)
  BY <1>5, ChunkToType DEF FilterLogs
<1>6. CASE ReadFails(m) \/ Crash(m)
  BY <1>6, TypeEnd DEF ReadFails, Crash
<1>7. CASE ProcessLog(m)
  BY <1>7 DEF ProcessLog, CreditDeposit, Creditable, Hashes
<1>8. CASE FinishChunk(m)
  <2>1. cursor' \in Nat \cup {None}
    BY <1>8, ChunkToType DEF FinishChunk, SaveCursor
  <2>2. from[m] + ScanChunkBlocks \in Nat
    OBVIOUS
  <2>3. UNCHANGED <<chainVars, addressed, topups, loaded, auxVars>>
    BY <1>8 DEF FinishChunk
  <2>4. CASE Continue(m, "scan", from[m] + ScanChunkBlocks)
    BY <2>1, <2>2, <2>3, <2>4 DEF Continue
  <2> QED
    BY <1>8, <2>1, <2>3, <2>4, TypeEnd DEF FinishChunk
<1> QED
  BY <1>1, <1>2, <1>3, <1>4, <1>5, <1>6, <1>7, <1>8 DEF checkForDeposits

LEMMA TypeStep == TypeInv /\ [Next]_vars => TypeInv'
<1>1. ASSUME TypeInv, UNCHANGED vars
      PROVE  TypeInv'
  BY <1>1 DEF TypeInv, TypeOK, vars, chainVars, pgVars, localVars, auxVars
<1> QED
  BY <1>1, TypeWorld, TypeCycle DEF Next, World

LEMMA TypeInvariant == Spec => []TypeInv
BY TypeInit, TypeStep, PTL DEF Spec

(***************************************************************************)
(* Every variable has its type in every state: no arithmetic on block      *)
(* numbers goes below zero, and only users are credited.                   *)
(***************************************************************************)
THEOREM TypeCorrect == Spec => []TypeOK
<1>1. TypeInv => TypeOK
  BY DEF TypeInv
<1> QED
  BY <1>1, TypeInvariant, PTL
-----------------------------------------------------------------------------
(***************************************************************************)
(* The ledger.  What was read of a settled block stays true: a monitor     *)
(* acts on logs that it read some steps ago.                               *)
(***************************************************************************)
LogsTrue ==
    \A m \in Monitors :
        /\ pc[m] # "logs" => logs[m] = {}
        /\ \A l \in logs[m] : l[2] + ReorgDepth <= current[m] => block[l[1]] = l[2]

(* The chain only grows below its last blocks.                             *)
ChainKept ==
    /\ head <= head'
    /\ \A t \in Transfers :
          /\ block[t] # None /\ Settled(block[t]) => block'[t] = block[t]
          /\ block'[t] # None /\ block'[t] # block[t] => block'[t] + ReorgDepth > head

LEMMA ChainStep ==
    ASSUME TypeInv, [Next]_vars
    PROVE  ChainKept
<1> USE ConstantsAssumption DEF ConstantsAssumption, TypeInv, TypeOK, ChainKept, Settled
<1>1. CASE NewBlock
  BY <1>1 DEF NewBlock
<1>2. CASE Reorg
  BY <1>2 DEF Reorg
<1>3. CASE UNCHANGED chainVars
  BY <1>3 DEF chainVars
<1>4. ASSUME NEW m \in Monitors, checkForDeposits(m) \/ Crash(m)
      PROVE  UNCHANGED chainVars
  BY <1>4 DEF checkForDeposits, Crash, ReadHead, ReadCursor, FastForward, ReadAddresses,
              FilterLogs, ReadFails, ProcessLog, FinishChunk
<1>5. ASSUME NEW u \in Users, CreateAddress(u)
      PROVE  UNCHANGED chainVars
  BY <1>5 DEF CreateAddress
<1> QED
  BY <1>1, <1>2, <1>3, <1>4, <1>5 DEF Next, SetCursorToZero, vars

LEMMA LogsInit == Init => LogsTrue
BY DEF Init, LogsTrue

LEMMA LogsStep ==
    ASSUME TypeInv, LogsTrue, [Next]_vars
    PROVE  LogsTrue'
<1> USE ConstantsAssumption DEF ConstantsAssumption, TypeInv, TypeOK
<1>1. ChainKept
  BY ChainStep
<1>2. ASSUME NEW n \in Monitors, logs'[n] \subseteq logs[n], current'[n] = current[n],
             NEW l \in logs'[n], l[2] + ReorgDepth <= current[n]
      PROVE  block'[l[1]] = l[2]
  <2>1. l \in Transfers \X Nat /\ block[l[1]] = l[2]
    BY <1>2 DEF LogsTrue
  <2>2. Settled(block[l[1]])
    BY <1>2, <2>1 DEF Settled
  <2> QED
    BY <1>1, <2>1, <2>2 DEF ChainKept
<1>3. ASSUME NEW m \in Monitors, checkForDeposits(m) \/ Crash(m), NEW n \in Monitors
      PROVE  /\ pc'[n] # "logs" => logs'[n] = {}
             /\ \/ logs'[n] \subseteq logs[n] /\ current'[n] = current[n]
                \/ \A l \in logs'[n] : block'[l[1]] = l[2]
  <2> USE DEF LogsTrue, chainVars
  <2>1. CASE ReadCursor(m)
    BY <1>3, <2>1 DEF ReadCursor, Continue, EndCycle
  <2>2. CASE FastForward(m) \/ ProcessLog(m)
    BY <1>3, <2>2 DEF FastForward, Continue, ProcessLog
  <2>3. CASE ReadAddresses(m) \/ ReadFails(m) \/ Crash(m)
    BY <1>3, <2>3 DEF ReadAddresses, ReadFails, Crash, EndCycle
  <2>4. CASE FilterLogs(m)
    BY <1>3, <2>4 DEF FilterLogs
  <2>5. CASE FinishChunk(m)
    BY <1>3, <2>5 DEF FinishChunk, Continue, EndCycle
  <2>6. CASE ReadHead(m)
    BY <1>3, <2>6 DEF ReadHead
  <2> QED
    BY <1>3, <2>1, <2>2, <2>3, <2>4, <2>5, <2>6 DEF checkForDeposits
<1>4. CASE World \/ UNCHANGED vars
  <2>1. UNCHANGED localVars
    BY <1>4 DEF World, NewBlock, Reorg, SetCursorToZero, CreateAddress, vars
  <2> QED
    BY <1>2, <2>1 DEF LogsTrue, localVars
<1>5. ASSUME NEW m \in Monitors, checkForDeposits(m) \/ Crash(m)
      PROVE  LogsTrue'
  <2> SUFFICES ASSUME NEW n \in Monitors
               PROVE  /\ pc'[n] # "logs" => logs'[n] = {}
                      /\ \A l \in logs'[n] :
                            l[2] + ReorgDepth <= current'[n] => block'[l[1]] = l[2]
    BY DEF LogsTrue
  <2> QED
    BY <1>2, <1>3, <1>5
<1> QED
  BY <1>4, <1>5 DEF Next, World

LEMMA LogsInvariant == Spec => []LogsTrue
BY LogsInit, LogsStep, TypeInvariant, PTL DEF Spec

(* What a step does to the rows of topups and to the wallets.              *)
Credits(m, l) ==
    /\ l \in logs[m]
    /\ Creditable(m, l)
    /\ ~Booked(TxOf[l[1]])
    /\ topups' = [topups EXCEPT ![TxOf[l[1]]] = l[1]]
    /\ loaded' = [loaded EXCEPT ![Owner[l[1]]] = @ + Amount[l[1]]]
    /\ UNCHANGED chainVars

LEMMA CreditActions ==
    ASSUME [Next]_vars
    PROVE  \/ UNCHANGED <<topups, loaded>>
           \/ \E m \in Monitors : \E l \in logs[m] : Credits(m, l)
<1>1. CASE World \/ UNCHANGED vars
  BY <1>1 DEF World, NewBlock, Reorg, SetCursorToZero, CreateAddress, pgVars, vars
<1>2. ASSUME NEW m \in Monitors, ProcessLog(m)
      PROVE  UNCHANGED <<topups, loaded>> \/ \E l \in logs[m] : Credits(m, l)
  BY <1>2 DEF ProcessLog, CreditDeposit, Credits
<1>3. ASSUME NEW m \in Monitors, checkForDeposits(m) \/ Crash(m), ~ProcessLog(m)
      PROVE  UNCHANGED <<topups, loaded>>
  BY <1>3 DEF checkForDeposits, Crash, ReadHead, ReadCursor, FastForward, ReadAddresses,
              FilterLogs, ReadFails, FinishChunk, pgVars
<1> QED
  BY <1>1, <1>2, <1>3 DEF Next, World

LEMMA LedgerInit == Init => Ledger!Init
BY ConstantsAssumption
   DEF ConstantsAssumption, Init, Ledger!Init, Final, Credited, Hashes

LEMMA LedgerStep ==
    ASSUME TypeInv, LogsTrue, [Next]_vars
    PROVE  [Ledger!Next]_Ledger!vars
<1> USE ConstantsAssumption DEF ConstantsAssumption, TypeInv, TypeOK
<1>0. head' \in Nat
  BY TypeStep
<1>1. Final \subseteq Final' /\ Final' \subseteq Transfers
  BY <1>0, ChainStep DEF ChainKept, Final, Settled
<1>2. CASE UNCHANGED <<topups, loaded>>
  <2>1. UNCHANGED <<Credited, loaded>>
    BY <1>2 DEF Credited
  <2> QED
    BY <1>1, <2>1 DEF Ledger!Next, Ledger!Confirm
<1>3. ASSUME NEW m \in Monitors, NEW l \in logs[m], Credits(m, l)
      PROVE  Ledger!Credit(l[1])
  <2> DEFINE t == l[1]
  <2>1. t \in Transfers /\ l[2] \in Nat /\ Owner[t] \in Users
    BY <1>3 DEF Credits, Creditable
  <2>2. l[2] + ReorgDepth <= current[m]
    BY <1>3 DEF Credits, Creditable, ConfirmationsReq
  <2>3. t \in Final
    BY <2>1, <2>2 DEF LogsTrue, Final, Settled
  <2>4. t \notin Credited
    BY <1>3, <2>1 DEF Credits, Booked, Credited
  <2>5. Credited' = Credited \cup {t}
    BY <1>3, <2>1 DEF Credits, Booked, Credited, Hashes
  <2>6. Final' = Final
    BY <1>3 DEF Credits, chainVars, Final, Settled
  <2> QED
    BY <1>3, <2>1, <2>3, <2>4, <2>5, <2>6 DEF Credits, Ledger!Credit
<1>4. ASSUME NEW m \in Monitors, NEW l \in logs[m], Credits(m, l)
      PROVE  Ledger!Next
  <2>1. l[1] \in Transfers
    BY <1>4
  <2> QED
    BY <1>3, <1>4, <2>1 DEF Ledger!Next
<1> QED
  BY <1>2, <1>4, CreditActions

(***************************************************************************)
(* The monitors implement the ledger of deposits: with any number of them, *)
(* dying, restarting and scanning blocks again, every transfer is credited *)
(* at most once, in full, to its owner, and after it is final.             *)
(***************************************************************************)
THEOREM LedgerImplemented == Spec => CreditsFollowLedger
<1>1. Spec => Ledger!Init /\ [][Ledger!Next]_Ledger!vars
  BY LedgerInit, LedgerStep, TypeInvariant, LogsInvariant, PTL DEF Spec
<1> QED
  BY <1>1 DEF CreditsFollowLedger, Ledger!Spec
-----------------------------------------------------------------------------
(***************************************************************************)
(* The accounts.                                                           *)
(***************************************************************************)
LEMMA AccountedStep ==
    ASSUME TypeInv, TypeInv', Accounted, [Next]_vars
    PROVE  Accounted'
<1> USE ConstantsAssumption DEF ConstantsAssumption, TypeInv, TypeOK
<1>1. CASE UNCHANGED <<topups, loaded>>
  BY <1>1 DEF Accounted, CreditsOf, Credited
<1>2. ASSUME NEW m \in Monitors, NEW l \in logs[m], Credits(m, l), NEW u \in Users
      PROVE  loaded'[u] = Total(CreditsOf(u))'
  <2> DEFINE t == l[1]
             before == CreditsOf(u)
             after == [s \in Transfers |->
                          IF s \in Credited' /\ Owner[s] = u THEN Amount[s] ELSE 0]
             gain == IF Owner[t] = u THEN Amount[t] ELSE 0
  <2>1. t \in Transfers /\ Owner[t] \in Users
    BY <1>2 DEF Credits, Creditable
  <2>2. t \notin Credited /\ Credited' = Credited \cup {t}
    BY <1>2, <2>1 DEF Credits, Booked, Credited, Hashes
  <2>3. before \in [Transfers -> Nat] /\ after \in [Transfers -> Nat]
    BY DEF CreditsOf
  <2>4. \A s \in Transfers \ {t} : after[s] = before[s]
    BY <2>2 DEF CreditsOf
  <2>5. before[t] = 0 /\ after[t] = gain
    BY <2>1, <2>2 DEF CreditsOf
  <2>6. loaded'[u] = loaded[u] + gain
    BY <1>2, <2>1 DEF Credits
  <2>7. loaded[u] = Total(before)
    BY DEF Accounted
  <2>8. Total(CreditsOf(u))' = Total(after)
    BY DEF CreditsOf
  <2> HIDE DEF before, after
  <2>9. Total(after) = Total(before) - before[t] + after[t]
    <3>1. IsFiniteSet(Transfers)
      OBVIOUS
    <3> HIDE ConstantsAssumption DEF ConstantsAssumption, TypeInv, TypeOK
    <3> QED
      BY <2>1, <2>3, <2>4, <3>1, TotalChange
  <2> QED
    BY <2>1, <2>5, <2>6, <2>7, <2>8, <2>9
<1> QED
  BY <1>1, <1>2, CreditActions DEF Accounted

LEMMA AccountedInit == Init => Accounted
<1> SUFFICES ASSUME Init, NEW u \in Users PROVE loaded[u] = Total(CreditsOf(u))
  BY DEF Accounted
<1>1. Credited = {}
  BY ConstantsAssumption DEF ConstantsAssumption, Init, Credited, Hashes
<1>2. /\ DOMAIN CreditsOf(u) = Transfers
      /\ \A t \in Transfers : CreditsOf(u)[t] = 0
  BY <1>1 DEF CreditsOf
<1>3. Total(CreditsOf(u)) = 0
  BY <1>2, TotalZero
<1> QED
  BY <1>3 DEF Init

(***************************************************************************)
(* In every state a user's total_loaded is the sum of the transfers that   *)
(* were credited to the user (monitor.go:348-398).                         *)
(***************************************************************************)
THEOREM AccountsCorrect == Spec => []Accounted
<1>1. TypeInv /\ TypeInv' /\ Accounted /\ [Next]_vars => Accounted'
  BY AccountedStep
<1> QED
  BY <1>1, AccountedInit, TypeInvariant, PTL DEF Spec
-----------------------------------------------------------------------------
(***************************************************************************)
(* No deposit is skipped, when the query of the cursor and the             *)
(* transactions of credits do not fail and no transaction holds two        *)
(* deposits.  None of the conditions can be dropped: the cursor moves past *)
(* a credit that failed, and past the second deposit of a transaction      *)
(* (monitor.go:270, 365).                                                  *)
(***************************************************************************)
Calm ==
    /\ Faults \cap {"cursor", "credit"} = {}
    /\ \A s, t \in Transfers : TxOf[s] = TxOf[t] => s = t

(* All deposits up to block b are credited, or left out on purpose.        *)
Done(b) ==
    \A t \in Transfers :
        Due(t) /\ block[t] <= b /\ block[t] \notin jumped => t \in Credited

(* The chain has settled up to block b.                                    *)
Firm(b) == b = 0 \/ Settled(b)

(* What monitor m knows during a cycle.  The addresses were read after the *)
(* head, so they include the owner of every transfer below it.             *)
ScanInv(m) ==
    /\ pc[m] \in {"forward", "addresses", "scan", "logs"} =>
          /\ from[m] >= 1
          /\ Firm(from[m] - 1)
          /\ Done(from[m] - 1)
    /\ pc[m] \in {"scan", "logs"} =>
          /\ from[m] <= SafeHead(current[m])
          /\ \A t \in Transfers :
                /\ block[t] # None /\ Owner[t] \in Users
                /\ block[t] + ReorgDepth <= current[m]
                => Owner[t] \in watched[m]
    /\ pc[m] = "logs" =>
          \A t \in Transfers :
              Due(t) /\ block[t] \in from[m] .. ChunkTo(m) /\ block[t] \notin jumped
              => t \in Credited \/ <<t, block[t]>> \in logs[m]

CursorInv == cursor # None => Firm(cursor) /\ Done(cursor)

(* Transfers go to users with an address; topups are booked by their hash. *)
RowsInv ==
    /\ \A t \in Transfers : block[t] # None /\ Owner[t] \in Users => Owner[t] \in addressed
    /\ \A h \in Hashes : topups[h] # None => TxOf[topups[h]] = h

SkipInv == RowsInv /\ CursorInv /\ \A m \in Monitors : ScanInv(m)
-----------------------------------------------------------------------------
(***************************************************************************)
(* What stays true whoever moves.                                          *)
(***************************************************************************)
LEMMA CreditedKept ==
    ASSUME TypeInv, [Next]_vars
    PROVE  Credited \subseteq Credited'
<1>1. CASE UNCHANGED <<topups, loaded>>
  BY <1>1 DEF Credited
<1>2. ASSUME NEW m \in Monitors, NEW l \in logs[m], Credits(m, l)
      PROVE  Credited \subseteq Credited'
  BY <1>2, ConstantsAssumption
     DEF ConstantsAssumption, Credits, Booked, Credited, Hashes, TypeInv, TypeOK
<1> QED
  BY <1>1, <1>2, CreditActions

LEMMA JumpedKept ==
    ASSUME [Next]_vars
    PROVE  jumped \subseteq jumped'
<1>1. CASE World \/ UNCHANGED vars
  BY <1>1 DEF World, NewBlock, Reorg, SetCursorToZero, CreateAddress, auxVars, vars
<1>2. ASSUME NEW m \in Monitors, ReadCursor(m)
      PROVE  jumped \subseteq jumped'
  BY <1>2 DEF ReadCursor
<1>3. ASSUME NEW m \in Monitors, checkForDeposits(m) \/ Crash(m), ~ReadCursor(m)
      PROVE  jumped \subseteq jumped'
  BY <1>3 DEF checkForDeposits, Crash, ReadHead, FastForward, ReadAddresses,
              FilterLogs, ReadFails, ProcessLog, FinishChunk, auxVars
<1> QED
  BY <1>1, <1>2, <1>3 DEF Next, World

(* Where the chain has settled, nothing new is due.                        *)
LEMMA DueKept ==
    ASSUME TypeInv, TypeInv', [Next]_vars, NEW t \in Transfers,
           block'[t] # None, block'[t] + ReorgDepth <= head
    PROVE  block[t] = block'[t]
BY ChainStep, ConstantsAssumption DEF ConstantsAssumption, ChainKept, TypeInv, TypeOK

LEMMA DoneKept ==
    ASSUME TypeInv, TypeInv', [Next]_vars, NEW b \in Nat, Firm(b), Done(b)
    PROVE  Firm(b)' /\ Done(b)'
<1> USE ConstantsAssumption DEF ConstantsAssumption
<1>1. Firm(b)'
  BY ChainStep DEF ChainKept, Firm, Settled, TypeInv, TypeOK
<1>2. ASSUME NEW t \in Transfers, Due(t)', block'[t] <= b, block'[t] \notin jumped'
      PROVE  t \in Credited'
  <2>1. block'[t] \in Nat /\ block'[t] >= 1 /\ block'[t] # None
    BY <1>2 DEF Due, TypeInv, TypeOK
  <2>2. block'[t] + ReorgDepth <= head
    BY <1>2, <2>1 DEF Firm, Settled, TypeInv, TypeOK
  <2>3. block[t] = block'[t]
    BY <2>1, <2>2, DueKept
  <2>4. Due(t) /\ block[t] <= b /\ block[t] \notin jumped
    BY <1>2, <2>1, <2>3, JumpedKept DEF Due
  <2> QED
    BY <2>4, CreditedKept DEF Done
<1> QED
  BY <1>1, <1>2 DEF Done

LEMMA ChunkBounds ==
    ASSUME TypeInv, NEW m \in Monitors, from[m] >= 1, from[m] <= SafeHead(current[m])
    PROVE  /\ ChunkTo(m) \in Nat
           /\ ChunkTo(m) >= from[m]
           /\ ChunkTo(m) + ReorgDepth <= current[m]
           /\ from[m] + ScanChunkBlocks <= SafeHead(current[m])
              => ChunkTo(m) = from[m] + ScanChunkBlocks - 1
BY ConstantsAssumption
   DEF ConstantsAssumption, TypeInv, TypeOK, ChunkTo, SafeHead, ConfirmationsReq

(* A monitor that does not move keeps its knowledge.                       *)
LEMMA ScanKept ==
    ASSUME TypeInv, TypeInv', [Next]_vars, NEW m \in Monitors, ScanInv(m),
           pc'[m] = pc[m], current'[m] = current[m], from'[m] = from[m],
           watched'[m] = watched[m], logs'[m] = logs[m]
    PROVE  ScanInv(m)'
<1> USE ConstantsAssumption DEF ConstantsAssumption
<1>1. current[m] \in Nat /\ from[m] \in Nat /\ current[m] <= head /\ head \in Nat
  BY DEF TypeInv, TypeOK
<1>2. ASSUME pc[m] \in {"forward", "addresses", "scan", "logs"}
      PROVE  (from[m] >= 1 /\ Firm(from[m] - 1) /\ Done(from[m] - 1))'
  <2>1. from[m] >= 1 /\ Firm(from[m] - 1) /\ Done(from[m] - 1)
    BY <1>2 DEF ScanInv
  <2>2. PICK b \in Nat : b = from[m] - 1
    BY <1>1, <2>1
  <2>3. Firm(b)' /\ Done(b)'
    BY <2>1, <2>2, DoneKept
  <2> QED
    BY <2>1, <2>2, <2>3 DEF Firm, Done, Settled
<1>3. ASSUME pc[m] \in {"scan", "logs"}
      PROVE  /\ from[m] >= 1 /\ from[m] <= SafeHead(current[m])
             /\ ChunkTo(m) \in Nat
             /\ ChunkTo(m) + ReorgDepth <= current[m]
             /\ ChunkTo(m)' = ChunkTo(m)
  BY <1>3, ChunkBounds DEF ScanInv, ChunkTo
<1>4. ASSUME pc[m] \in {"scan", "logs"}, NEW t \in Transfers,
             block'[t] # None, Owner[t] \in Users, block'[t] + ReorgDepth <= current[m]
      PROVE  Owner[t] \in watched[m]
  <2>1. block'[t] \in Nat
    BY <1>4 DEF TypeInv, TypeOK
  <2>2. block'[t] + ReorgDepth <= head
    BY <1>1, <1>4, <2>1
  <2>3. block[t] = block'[t]
    BY <1>4, <2>2, DueKept
  <2> QED
    BY <1>4, <2>3 DEF ScanInv
<1>5. ASSUME pc[m] = "logs", NEW t \in Transfers, Due(t)',
             block'[t] \in from[m] .. ChunkTo(m), block'[t] \notin jumped'
      PROVE  t \in Credited' \/ <<t, block'[t]>> \in logs[m]
  <2>1. block'[t] \in Nat /\ block'[t] # None
    BY <1>5 DEF Due, TypeInv, TypeOK
  <2>2. block'[t] + ReorgDepth <= head
    BY <1>1, <1>3, <1>5, <2>1
  <2>3. block[t] = block'[t]
    BY <2>1, <2>2, DueKept
  <2>4. Due(t) /\ block[t] \in from[m] .. ChunkTo(m) /\ block[t] \notin jumped
    BY <1>5, <2>1, <2>3, JumpedKept DEF Due
  <2>5. t \in Credited \/ <<t, block[t]>> \in logs[m]
    BY <1>5, <2>4 DEF ScanInv
  <2> QED
    BY <2>3, <2>5, CreditedKept
<1> QED
  BY <1>2, <1>3, <1>4, <1>5 DEF ScanInv

LEMMA RowsStep ==
    ASSUME TypeInv, RowsInv, [Next]_vars
    PROVE  RowsInv'
<1> USE ConstantsAssumption DEF ConstantsAssumption, TypeInv, TypeOK
<1>1. \A t \in Transfers :
         block'[t] # None /\ Owner[t] \in Users => Owner[t] \in addressed'
  <2>1. CASE NewBlock
    BY <2>1 DEF NewBlock, RowsInv, Payable, pgVars
  <2>2. CASE Reorg
    BY <2>2 DEF Reorg, RowsInv, pgVars
  <2>3. ASSUME NEW u \in Users, CreateAddress(u)
        PROVE  UNCHANGED block /\ addressed \subseteq addressed'
    BY <2>3 DEF CreateAddress, chainVars
  <2>4. CASE SetCursorToZero \/ UNCHANGED vars
    BY <2>4 DEF SetCursorToZero, RowsInv, chainVars, pgVars, vars
  <2>5. ASSUME NEW m \in Monitors, checkForDeposits(m) \/ Crash(m)
        PROVE  UNCHANGED <<block, addressed>>
    BY <2>5 DEF checkForDeposits, Crash, ReadHead, ReadCursor, FastForward, ReadAddresses,
                FilterLogs, ReadFails, ProcessLog, FinishChunk, chainVars, pgVars
  <2> QED
    BY <2>1, <2>2, <2>3, <2>4, <2>5 DEF Next, RowsInv
<1>2. \A h \in Hashes : topups'[h] # None => TxOf[topups'[h]] = h
  <2>1. CASE UNCHANGED <<topups, loaded>>
    BY <2>1 DEF RowsInv
  <2>2. ASSUME NEW m \in Monitors, NEW l \in logs[m], Credits(m, l)
        PROVE  \A h \in Hashes : topups'[h] # None => TxOf[topups'[h]] = h
    BY <2>2 DEF Credits, RowsInv, Hashes
  <2> QED
    BY <2>1, <2>2, CreditActions
<1> QED
  BY <1>1, <1>2 DEF RowsInv

(* While the cursor rests, or a monitor writes that much is done.          *)
LEMMA CursorKept ==
    ASSUME TypeInv, TypeInv', CursorInv, [Next]_vars, cursor' = cursor
    PROVE  CursorInv'
<1> SUFFICES ASSUME cursor # None PROVE Firm(cursor)' /\ Done(cursor)'
  BY DEF CursorInv
<1>1. PICK b \in Nat : b = cursor
  BY DEF TypeInv, TypeOK
<1>2. Firm(b)' /\ Done(b)'
  BY <1>1, DoneKept DEF CursorInv
<1> QED
  BY <1>1, <1>2 DEF Firm, Done, Settled

LEMMA CursorMoved ==
    ASSUME NEW b \in Nat, cursor' = b, Firm(b)', Done(b)'
    PROVE  CursorInv'
BY DEF CursorInv, Firm, Done, Settled

LEMMA WorldStep ==
    ASSUME TypeInv, TypeInv', SkipInv, World \/ UNCHANGED vars
    PROVE  CursorInv' /\ \A m \in Monitors : ScanInv(m)'
<1>1. [Next]_vars
  BY DEF World, Next
<1>2. UNCHANGED localVars
  BY DEF World, NewBlock, Reorg, SetCursorToZero, CreateAddress, vars
<1>3. \A m \in Monitors : ScanInv(m)'
  BY <1>1, <1>2, ScanKept DEF SkipInv, localVars
<1>4. CASE SetCursorToZero
  <2>1. Firm(0)'
    BY DEF Firm
  <2>2. Done(0)'
    BY ConstantsAssumption DEF ConstantsAssumption, Done, Due, TypeInv, TypeOK
  <2> QED
    BY <1>3, <1>4, <2>1, <2>2, CursorMoved DEF SetCursorToZero
<1>5. CASE cursor' = cursor
  BY <1>1, <1>3, <1>5, CursorKept DEF SkipInv
<1> QED
  BY <1>4, <1>5 DEF World, NewBlock, Reorg, CreateAddress, pgVars, vars
-----------------------------------------------------------------------------
(***************************************************************************)
(* The cycle of a monitor.                                                 *)
(***************************************************************************)

(* A monitor between cycles, or before it read the cursor, knows nothing.  *)
LEMMA ScanEnds ==
    ASSUME NEW m \in Monitors, pc'[m] \in {"idle", "cursor"}
    PROVE  ScanInv(m)'
BY DEF ScanInv

(* A monitor that has read the cursor but no addresses.                    *)
LEMMA ScanBegins ==
    ASSUME NEW m \in Monitors, NEW b \in Nat, pc'[m] \in {"forward", "addresses"},
           from'[m] = b + 1, Firm(b)', Done(b)'
    PROVE  ScanInv(m)'
<1>1. from'[m] - 1 = b /\ from'[m] >= 1
  OBVIOUS
<1>2. (from[m] >= 1 /\ Firm(from[m] - 1) /\ Done(from[m] - 1))'
  BY <1>1 DEF Firm, Done, Settled
<1> QED
  BY <1>2 DEF ScanInv

LEMMA ReadCursorStep ==
    ASSUME Calm, TypeInv, TypeInv', SkipInv, NEW m \in Monitors, ReadCursor(m)
    PROVE  ScanInv(m)'
<1> USE ConstantsAssumption DEF ConstantsAssumption, TypeInv, TypeOK
<1> DEFINE last == GetCursor(cursor, current[m])
<1>0. [Next]_vars
  BY DEF Next, checkForDeposits
<1>1. /\ \/ Continue(m, "forward", last + 1)
         \/ EndCycle(m)
         \/ Continue(m, "addresses", last + 1)
      /\ jumped' = jumped \cup IF cursor = None THEN 1 .. last ELSE {}
      /\ UNCHANGED <<chainVars, pgVars>>
  BY DEF ReadCursor, Calm
<1>2. PICK b \in Nat : b = last
  BY GetCursorType
<1>3. Firm(b)' /\ Done(b)'
  <2>1. CASE cursor # None
    BY <1>0, <1>2, <2>1, DoneKept DEF GetCursor, SkipInv, CursorInv
  <2>2. CASE cursor = None
    <3>1. Firm(b)'
      BY <1>1, <1>2, <2>2 DEF GetCursor, Firm, Settled, chainVars
    <3>2. Done(b)'
      BY <1>1, <1>2, <2>2 DEF Done, Due
    <3> QED
      BY <3>1, <3>2
  <2> QED
    BY <2>1, <2>2
<1> HIDE DEF last
<1>4. CASE EndCycle(m)
  BY <1>4, ScanEnds DEF EndCycle
<1>5. ASSUME NEW s \in {"forward", "addresses"}, Continue(m, s, last + 1)
      PROVE  ScanInv(m)'
  BY <1>2, <1>3, <1>5, ScanBegins DEF Continue
<1> QED
  BY <1>1, <1>4, <1>5

LEMMA FastForwardStep ==
    ASSUME TypeInv, TypeInv', SkipInv, NEW m \in Monitors, FastForward(m)
    PROVE  ScanInv(m)' /\ CursorInv'
<1> USE ConstantsAssumption DEF ConstantsAssumption, TypeInv, TypeOK
<1>0. [Next]_vars
  BY DEF Next, checkForDeposits
<1>1. PICK b \in Nat : b = current[m] - BootstrapBlocks
  BY DEF FastForward
<1>2. /\ SaveCursor(b)
      /\ jumped' = jumped \cup (from[m] .. b)
      /\ Continue(m, "addresses", b + 1)
      /\ UNCHANGED <<chainVars, topups>>
  BY <1>1 DEF FastForward
<1>3. Firm(b)'
  BY <1>1, <1>2 DEF Firm, Settled, chainVars
<1>4. Done(b)'
  <2>1. from[m] >= 1 /\ Done(from[m] - 1)
    BY DEF FastForward, SkipInv, ScanInv
  <2>2. ASSUME NEW t \in Transfers, Due(t), block[t] <= b, block[t] \notin jumped'
        PROVE  t \in Credited
    <3>1. block[t] \in Nat /\ block[t] <= from[m] - 1 /\ block[t] \notin jumped
      BY <1>2, <2>1, <2>2 DEF Due
    <3> QED
      BY <2>1, <2>2, <3>1 DEF Done
  <2> QED
    BY <1>2, <2>2 DEF Done, Due, Credited, chainVars
<1>5. ScanInv(m)'
  BY <1>2, <1>3, <1>4, ScanBegins DEF Continue
<1>6. CursorInv'
  BY <1>0, <1>2, <1>3, <1>4, CursorMoved, CursorKept DEF SaveCursor, SkipInv
<1> QED
  BY <1>5, <1>6

LEMMA ReadAddressesStep ==
    ASSUME TypeInv, TypeInv', SkipInv, NEW m \in Monitors, ReadAddresses(m)
    PROVE  ScanInv(m)'
<1> USE ConstantsAssumption DEF ConstantsAssumption, TypeInv, TypeOK
<1>1. CASE EndCycle(m)
  BY <1>1, ScanEnds DEF EndCycle
<1>2. ASSUME from[m] <= SafeHead(current[m]),
             watched' = [watched EXCEPT ![m] = addressed],
             pc' = [pc EXCEPT ![m] = "scan"],
             UNCHANGED <<current, from, logs>>
      PROVE  ScanInv(m)'
  <2>1. from[m] >= 1 /\ Firm(from[m] - 1) /\ Done(from[m] - 1)
    BY DEF ReadAddresses, SkipInv, ScanInv
  <2>2. UNCHANGED <<chainVars, pgVars, auxVars>>
    BY DEF ReadAddresses
  <2>3. (from[m] >= 1 /\ Firm(from[m] - 1) /\ Done(from[m] - 1))'
    BY <1>2, <2>1, <2>2
       DEF Firm, Done, Settled, Due, Credited, chainVars, pgVars, auxVars
  <2>4. (from[m] <= SafeHead(current[m]))'
    BY <1>2 DEF SafeHead
  <2>5. \A t \in Transfers :
           block'[t] # None /\ Owner[t] \in Users => Owner[t] \in watched'[m]
    BY <1>2, <2>2 DEF SkipInv, RowsInv, chainVars
  <2>6. pc'[m] = "scan"
    BY <1>2
  <2> QED
    BY <2>3, <2>4, <2>5, <2>6 DEF ScanInv
<1> QED
  BY <1>1, <1>2 DEF ReadAddresses

LEMMA FilterLogsStep ==
    ASSUME TypeInv, TypeInv', SkipInv, NEW m \in Monitors, FilterLogs(m)
    PROVE  ScanInv(m)'
<1> USE DEF FilterLogs
<1>1. pc[m] = "scan" /\ pc'[m] = "logs"
  BY DEF TypeInv, TypeOK
<1>2. UNCHANGED <<chainVars, pgVars, current, from, watched, auxVars>>
  OBVIOUS
<1>3. ChunkTo(m)' = ChunkTo(m)
  BY <1>2 DEF ChunkTo, SafeHead
<1>4. \A t \in Transfers :
         block[t] \in from[m] .. ChunkTo(m) => <<t, block[t]>> \in logs'[m]
  BY DEF TypeInv, TypeOK
<1>5. (/\ from[m] >= 1
       /\ Firm(from[m] - 1)
       /\ Done(from[m] - 1)
       /\ from[m] <= SafeHead(current[m])
       /\ \A t \in Transfers :
             /\ block[t] # None /\ Owner[t] \in Users
             /\ block[t] + ReorgDepth <= current[m]
             => Owner[t] \in watched[m])'
  BY <1>1, <1>2 DEF SkipInv, ScanInv, Firm, Done, Settled, Due, Credited, SafeHead,
                    chainVars, pgVars, auxVars
<1> QED
  BY <1>1, <1>2, <1>3, <1>4, <1>5 DEF ScanInv, chainVars

(* A log of the chunk that is due is credited when it is processed.        *)
LEMMA LogCredited ==
    ASSUME Calm, TypeInv, SkipInv, NEW m \in Monitors, NEW t \in Transfers,
           pc[m] = "logs", Due(t), block[t] \in from[m] .. ChunkTo(m),
           Creditable(m, <<t, block[t]>>) => CreditDeposit(t)
    PROVE  t \in Credited'
<1> USE ConstantsAssumption DEF ConstantsAssumption, TypeInv, TypeOK
<1>1. /\ from[m] >= 1 /\ from[m] <= SafeHead(current[m])
      /\ block[t] \in Nat /\ block[t] # None
  BY DEF SkipInv, ScanInv, Due
<1>2. ChunkTo(m) \in Nat /\ ChunkTo(m) + ReorgDepth <= current[m]
  BY <1>1, ChunkBounds
<1>3. block[t] + ReorgDepth <= current[m]
  BY <1>1, <1>2
<1>4. Owner[t] \in watched[m]
  BY <1>1, <1>3 DEF SkipInv, ScanInv, Due
<1>5. Creditable(m, <<t, block[t]>>)
  BY <1>3, <1>4 DEF Creditable, ConfirmationsReq, Due
<1>6. CASE Booked(TxOf[t])
  <2>1. topups[TxOf[t]] \in Transfers /\ TxOf[topups[TxOf[t]]] = TxOf[t]
    BY <1>6 DEF Booked, SkipInv, RowsInv, Hashes
  <2>2. topups[TxOf[t]] = t
    BY <2>1 DEF Calm
  <2> QED
    BY <1>5, <1>6, <2>2 DEF CreditDeposit, Credited
<1>7. CASE ~Booked(TxOf[t])
  BY <1>5, <1>7 DEF CreditDeposit, Calm, Credited, Hashes
<1> QED
  BY <1>6, <1>7

LEMMA ProcessLogStep ==
    ASSUME Calm, TypeInv, TypeInv', SkipInv, NEW m \in Monitors, ProcessLog(m)
    PROVE  ScanInv(m)'
<1>0. [Next]_vars
  BY DEF Next, checkForDeposits
<1>1. /\ pc[m] = "logs" /\ pc'[m] = "logs"
      /\ UNCHANGED <<chainVars, current, from, watched, auxVars>>
  BY DEF ProcessLog
<1>2. PICK l \in logs[m] :
         /\ Creditable(m, l) => CreditDeposit(l[1])
         /\ logs'[m] = logs[m] \ {l}
  BY DEF ProcessLog, TypeInv, TypeOK
<1>3. Credited \subseteq Credited'
  BY <1>0, CreditedKept
<1>4. ASSUME NEW t \in Transfers, Due(t), block[t] \in from[m] .. ChunkTo(m),
             block[t] \notin jumped
      PROVE  t \in Credited' \/ <<t, block[t]>> \in logs'[m]
  <2>1. t \in Credited \/ <<t, block[t]>> \in logs[m]
    BY <1>1, <1>4 DEF SkipInv, ScanInv
  <2>2. CASE l = <<t, block[t]>>
    <3>1. Creditable(m, <<t, block[t]>>) => CreditDeposit(t)
      BY <1>2, <2>2
    <3> QED
      BY <1>1, <1>4, <3>1, LogCredited
  <2> QED
    BY <1>2, <1>3, <2>1, <2>2
<1>5. (/\ from[m] >= 1
       /\ Firm(from[m] - 1)
       /\ Done(from[m] - 1)
       /\ from[m] <= SafeHead(current[m])
       /\ \A t \in Transfers :
             /\ block[t] # None /\ Owner[t] \in Users
             /\ block[t] + ReorgDepth <= current[m]
             => Owner[t] \in watched[m])'
  BY <1>1, <1>3 DEF SkipInv, ScanInv, Firm, Done, Settled, Due, SafeHead, chainVars, auxVars
<1>6. ChunkTo(m)' = ChunkTo(m)
  BY <1>1 DEF ChunkTo, SafeHead
<1> QED
  BY <1>1, <1>4, <1>5, <1>6 DEF ScanInv, Due, chainVars, auxVars

LEMMA FinishChunkStep ==
    ASSUME TypeInv, TypeInv', SkipInv, NEW m \in Monitors, FinishChunk(m)
    PROVE  ScanInv(m)' /\ CursorInv'
<1> USE ConstantsAssumption DEF ConstantsAssumption, TypeInv, TypeOK
<1>0. [Next]_vars
  BY DEF Next, checkForDeposits
<1>1. /\ pc[m] = "logs" /\ logs[m] = {}
      /\ SaveCursor(ChunkTo(m))
      /\ UNCHANGED <<chainVars, addressed, topups, loaded, auxVars>>
  BY DEF FinishChunk
<1>2. /\ from[m] >= 1 /\ from[m] <= SafeHead(current[m]) /\ Done(from[m] - 1)
  BY <1>1 DEF SkipInv, ScanInv
<1>3. PICK b \in Nat : b = ChunkTo(m)
  BY <1>2, ChunkBounds
<1>4. b + ReorgDepth <= current[m]
  BY <1>2, <1>3, ChunkBounds
<1>5. Firm(b)'
  BY <1>1, <1>4 DEF Firm, Settled, chainVars
<1>6. Done(b)'
  <2>1. ASSUME NEW t \in Transfers, Due(t), block[t] <= b, block[t] \notin jumped
        PROVE  t \in Credited
    <3>1. CASE block[t] <= from[m] - 1
      BY <1>2, <2>1, <3>1 DEF Done
    <3>2. CASE block[t] \in from[m] .. ChunkTo(m)
      BY <1>1, <2>1, <3>2 DEF SkipInv, ScanInv
    <3> QED
      BY <1>3, <2>1, <3>1, <3>2 DEF Due
  <2> QED
    BY <1>1, <2>1 DEF Done, Due, Credited, chainVars, auxVars
<1>7. CursorInv'
  BY <1>0, <1>1, <1>3, <1>5, <1>6, CursorMoved, CursorKept DEF SaveCursor, SkipInv
<1>8. CASE EndCycle(m)
  BY <1>7, <1>8, ScanEnds DEF EndCycle
<1>9. ASSUME from[m] + ScanChunkBlocks <= SafeHead(current[m]),
             Continue(m, "scan", from[m] + ScanChunkBlocks)
      PROVE  ScanInv(m)'
  <2>1. b = from[m] + ScanChunkBlocks - 1
    BY <1>2, <1>3, <1>9, ChunkBounds
  <2>2. pc'[m] = "scan" /\ from'[m] = b + 1 /\ UNCHANGED <<current, watched>>
    BY <1>9, <2>1 DEF Continue
  <2>3. from'[m] - 1 = b /\ from'[m] >= 1
    BY <2>2
  <2>4. (from[m] >= 1 /\ Firm(from[m] - 1) /\ Done(from[m] - 1))'
    BY <1>5, <1>6, <2>3 DEF Firm, Done, Settled
  <2>5. (from[m] <= SafeHead(current[m]))'
    BY <1>9, <2>1, <2>2 DEF SafeHead
  <2>6. (\A t \in Transfers :
            /\ block[t] # None /\ Owner[t] \in Users
            /\ block[t] + ReorgDepth <= current[m]
            => Owner[t] \in watched[m])'
    BY <1>1, <2>2 DEF SkipInv, ScanInv, chainVars
  <2> QED
    BY <2>2, <2>4, <2>5, <2>6 DEF ScanInv
<1> QED
  BY <1>7, <1>8, <1>9 DEF FinishChunk
-----------------------------------------------------------------------------
LEMMA CycleStep ==
    ASSUME Calm, TypeInv, TypeInv', SkipInv, NEW m \in Monitors,
           checkForDeposits(m) \/ Crash(m)
    PROVE  CursorInv' /\ ScanInv(m)'
<1>0. [Next]_vars
  BY DEF Next
<1>1. ASSUME cursor' = cursor
      PROVE  CursorInv'
  BY <1>0, <1>1, CursorKept DEF SkipInv
<1>2. CASE ReadHead(m)
  BY <1>1, <1>2, ScanEnds DEF ReadHead, pgVars, TypeInv, TypeOK
<1>3. CASE ReadCursor(m)
  BY <1>1, <1>3, ReadCursorStep DEF ReadCursor, pgVars
<1>4. CASE ReadAddresses(m)
  BY <1>1, <1>4, ReadAddressesStep DEF ReadAddresses, pgVars
<1>5. CASE FilterLogs(m)
  BY <1>1, <1>5, FilterLogsStep DEF FilterLogs, pgVars
<1>6. CASE ProcessLog(m)
  BY <1>1, <1>6, ProcessLogStep DEF ProcessLog
<1>7. CASE ReadFails(m) \/ Crash(m)
  BY <1>1, <1>7, ScanEnds DEF ReadFails, Crash, EndCycle, pgVars, TypeInv, TypeOK
<1> QED
  BY <1>2, <1>3, <1>4, <1>5, <1>6, <1>7, FastForwardStep, FinishChunkStep
     DEF checkForDeposits

(* A step of one monitor leaves the variables of the others alone.         *)
LEMMA OthersRest ==
    ASSUME TypeInv, NEW m \in Monitors, checkForDeposits(m) \/ Crash(m),
           NEW n \in Monitors, n # m
    PROVE  /\ pc'[n] = pc[n] /\ current'[n] = current[n] /\ from'[n] = from[n]
           /\ watched'[n] = watched[n] /\ logs'[n] = logs[n]
<1> USE DEF TypeInv, TypeOK, Continue, EndCycle
<1>1. CASE ReadHead(m) \/ ReadCursor(m) \/ FastForward(m)
  BY <1>1 DEF ReadHead, ReadCursor, FastForward
<1>2. CASE ReadAddresses(m) \/ FilterLogs(m) \/ ReadFails(m)
  BY <1>2 DEF ReadAddresses, FilterLogs, ReadFails
<1>3. CASE ProcessLog(m) \/ FinishChunk(m) \/ Crash(m)
  BY <1>3 DEF ProcessLog, FinishChunk, Crash
<1> QED
  BY <1>1, <1>2, <1>3 DEF checkForDeposits

LEMMA SkipInit == Init => SkipInv
BY ConstantsAssumption
   DEF ConstantsAssumption, Init, SkipInv, RowsInv, CursorInv, ScanInv, Hashes

LEMMA SkipStep ==
    ASSUME Calm, TypeInv, TypeInv', SkipInv, [Next]_vars
    PROVE  SkipInv'
<1>1. RowsInv'
  BY RowsStep DEF SkipInv
<1>2. CASE World \/ UNCHANGED vars
  BY <1>1, <1>2, WorldStep DEF SkipInv
<1>3. ASSUME NEW m \in Monitors, checkForDeposits(m) \/ Crash(m)
      PROVE  SkipInv'
  <2>1. ASSUME NEW n \in Monitors, n # m
        PROVE  ScanInv(n)'
    BY <1>3, <2>1, OthersRest, ScanKept DEF SkipInv
  <2> QED
    BY <1>1, <1>3, <2>1, CycleStep DEF SkipInv
<1> QED
  BY <1>2, <1>3 DEF Next, World

(***************************************************************************)
(* No deposit is skipped, by any number of monitors that crash, lose the   *)
(* answers of the chain, cannot save the cursor, see old heads and scan    *)
(* over reorganisations: once the cursor is past a deposit, the deposit is *)
(* credited (monitor.go:183-281).                                          *)
(***************************************************************************)
THEOREM NothingIsSkipped ==
    ASSUME Calm
    PROVE  Spec => []NothingSkipped
<1>1. TypeInv /\ TypeInv' /\ SkipInv /\ [Next]_vars => SkipInv'
  BY SkipStep
<1>2. SkipInv => NothingSkipped
  BY DEF SkipInv, CursorInv, Done, NothingSkipped
<1> QED
  BY <1>1, <1>2, SkipInit, TypeInvariant, PTL DEF Spec
=============================================================================
