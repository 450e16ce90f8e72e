--------------------------- MODULE DepositMonitor ---------------------------
(***************************************************************************)
(* The deposit monitor (internal/monitor/monitor.go): a process that polls *)
(* the Base chain for transfers of USDC to the deposit addresses and       *)
(* credits them in Postgres.  A deployment may have an old and a new       *)
(* monitor running at once, so there is a set of them.                     *)
(*                                                                         *)
(* A cycle of the monitor reads the head of the chain, the cursor and the  *)
(* deposit addresses, then scans chunk by chunk: it asks for the logs of   *)
(* the chunk, credits each and saves the cursor.  Every call to a chain    *)
(* node and every command or transaction of Postgres is one action.        *)
(*                                                                         *)
(* A definition whose name begins with "Bad" is no part of the             *)
(* specification: it is a wrong version of the definition after it, with   *)
(* which the run named in PROJECT.json finds a property violated.          *)
(***************************************************************************)
EXTENDS Money

CONSTANTS
    Transfers,         \* the transfers of USDC that may be sent
    Users,             \* the users
    Monitors,          \* the monitors that run
    TxOf,              \* the hash of the transaction a transfer is part of
    Owner,             \* whose deposit address it goes to
    Amount,            \* how much it transfers
    MinDeposit,        \* smaller deposits are ignored
    ReorgDepth,        \* the chain never replaces a block below that many
    BootstrapBlocks,   \* where the first scan starts, below the head
    MaxCatchUpBlocks,  \* a cursor further behind is not scanned from
    ScanChunkBlocks,   \* the blocks of a chunk
    MaxHead,           \* bound: the chain stops there
    Faults,            \* the faults that may happen, among FaultKinds
    None               \* absence of a value

FaultKinds == {"reorg",     \* the last blocks of the chain are replaced
               "stale",     \* a node answers with an old head
               "reads",     \* reading addresses or logs fails
               "save",      \* saving the cursor fails
               "cursor",    \* reading the cursor fails
               "credit",    \* the transaction of a credit fails
               "crash",     \* a monitor dies and is started again
               "backfill"}  \* an operator sets the cursor to 0

Hashes == {TxOf[t] : t \in Transfers}

ASSUME ConstantsAssumption ==
    /\ IsFiniteSet(Transfers)
    /\ DOMAIN TxOf = Transfers
    /\ DOMAIN Owner = Transfers
    /\ Amount \in [Transfers -> Nat]
    /\ MinDeposit \in Nat
    /\ ReorgDepth \in Nat
    /\ BootstrapBlocks \in Nat /\ BootstrapBlocks > ReorgDepth
    /\ MaxCatchUpBlocks \in Nat /\ MaxCatchUpBlocks >= BootstrapBlocks
    /\ ScanChunkBlocks \in Nat \ {0}
    /\ MaxHead \in Nat
    /\ Faults \subseteq FaultKinds
    /\ None \notin Int \cup Transfers

VARIABLES
    \* the chain
    head,       \* the number of its last block
    block,      \* the block that a transfer is in, or None
    \* Postgres
    addressed,  \* the users who have a row in deposit_addresses
    cursor,     \* monitor_cursor.last_processed_block, or None
    topups,     \* the transfer that is booked under a transaction hash, or None
    loaded,     \* wallets.total_loaded of each user, 0 without a row
    \* each monitor
    pc,         \* its next step
    current,    \* currentBlock, the head it scans under
    from,       \* chunkFrom, where the chunk begins
    watched,    \* addresses: the users whose addresses it knows
    logs,       \* the logs of the chunk left to process
    \* for the properties and bounds only
    jumped,     \* the blocks that were left out of the scan on purpose
    backfill    \* bound: an operator has set the cursor to 0, once

chainVars == <<head, block>>
pgVars == <<addressed, cursor, topups, loaded>>
localVars == <<pc, current, from, watched, logs>>
auxVars == <<jumped, backfill>>
vars == <<chainVars, pgVars, localVars, auxVars>>

Steps == {"idle", "cursor", "forward", "addresses", "scan", "logs"}

Init ==
    /\ head = 0
    /\ block = [t \in Transfers |-> None]
    /\ addressed = {}
    /\ cursor = None
    /\ topups = [h \in Hashes |-> None]
    /\ loaded = [u \in Users |-> 0]
    /\ pc = [m \in Monitors |-> "idle"]
    /\ current = [m \in Monitors |-> 0]
    /\ from = [m \in Monitors |-> 0]
    /\ watched = [m \in Monitors |-> {}]
    /\ logs = [m \in Monitors |-> {}]
    /\ jumped = {}
    /\ backfill = FALSE
-----------------------------------------------------------------------------
(***************************************************************************)
(* The chain and the users.                                                *)
(***************************************************************************)

(* The chain will not replace block b.                                     *)
Settled(b) == b + ReorgDepth <= head

(* The address of a user is known to nobody before it was created.         *)
Payable(t) == Owner[t] \in Users => Owner[t] \in addressed

(* A block with the transfers of some transactions.                        *)
NewBlock ==
    /\ head < MaxHead
    /\ \E txs \in SUBSET Hashes :
          LET mined == {t \in Transfers : TxOf[t] \in txs} IN
          /\ \A t \in mined : block[t] = None /\ Payable(t)
          /\ block' = [t \in Transfers |-> IF t \in mined THEN head + 1 ELSE block[t]]
    /\ head' = head + 1
    /\ UNCHANGED <<pgVars, localVars, auxVars>>

(* Blocks are replaced by others in which a transaction is elsewhere, or   *)
(* nowhere.                                                                *)
Reorg ==
    /\ "reorg" \in Faults
    /\ \E tx \in Hashes, place \in {None} \cup 1 .. head :
          LET moved == {t \in Transfers : TxOf[t] = tx} IN
          /\ \A t \in moved : block[t] # None /\ ~Settled(block[t])
          /\ place # None => ~Settled(place)
          /\ block' = [t \in Transfers |-> IF t \in moved THEN place ELSE block[t]]
    /\ UNCHANGED <<head, pgVars, localVars, auxVars>>

(* GetOrCreateAddress, for a user without an address.                      *)
CreateAddress(u) ==
    /\ u \notin addressed
    /\ addressed' = addressed \cup {u}
    /\ UNCHANGED <<chainVars, cursor, topups, loaded, localVars, auxVars>>

(* "For longer gaps an operator can set the cursor to 0 for a full         *)
(* backfill", while no monitor runs.                                       *)
SetCursorToZero ==
    /\ "backfill" \in Faults
    /\ ~backfill
    /\ \A m \in Monitors : pc[m] = "idle"
    /\ cursor' = 0
    /\ backfill' = TRUE
    /\ UNCHANGED <<chainVars, addressed, topups, loaded, localVars, jumped>>
-----------------------------------------------------------------------------
(***************************************************************************)
(* A cycle of the monitor.                                                 *)
(***************************************************************************)

(* The cycle goes on at step s with the chunk that begins at b.            *)
Continue(m, s, b) ==
    /\ pc' = [pc EXCEPT ![m] = s]
    /\ from' = [from EXCEPT ![m] = b]
    /\ UNCHANGED <<current, watched, logs>>

(* checkForDeposits returns; its variables are gone.                       *)
EndCycle(m) ==
    /\ pc' = [pc EXCEPT ![m] = "idle"]
    /\ current' = [current EXCEPT ![m] = 0]
    /\ from' = [from EXCEPT ![m] = 0]
    /\ watched' = [watched EXCEPT ![m] = {}]
    /\ logs' = [logs EXCEPT ![m] = {}]

BadConfirmationsReq == ReorgDepth - 1

ConfirmationsReq == ReorgDepth

BadSafeHead(h) == h

(* The newest block with enough confirmations under head h.                *)
SafeHead(h) == IF h > ConfirmationsReq THEN h - ConfirmationsReq ELSE 0

ChunkTo(m) ==
    IF from[m] + ScanChunkBlocks - 1 > SafeHead(current[m])
    THEN SafeHead(current[m])
    ELSE from[m] + ScanChunkBlocks - 1

(* A node, the primary or else the fallback, says how long the chain is.   *)
(* When both fail the cycle ends at once.                                  *)
ReadHead(m) ==
    /\ pc[m] = "idle"
    /\ \E h \in IF "stale" \in Faults THEN 0 .. head ELSE {head} :
          current' = [current EXCEPT ![m] = h]
    /\ pc' = [pc EXCEPT ![m] = "cursor"]
    /\ UNCHANGED <<chainVars, pgVars, from, watched, logs, auxVars>>

(* The guard of the subtraction is missing.                                *)
BadGetCursor(found, h) == IF found # None THEN found ELSE h - BootstrapBlocks

(* getCursor, from what the query returned: no row and an error are alike. *)
GetCursor(found, h) ==
    IF found # None THEN found ELSE IF h > BootstrapBlocks THEN h - BootstrapBlocks ELSE 0

TooFarBehind(last, h) == h > last /\ h - last > MaxCatchUpBlocks

(* The scan resumes behind the cursor.  On the first run of all it leaves  *)
(* out what is below the bootstrap window, on purpose.                     *)
ReadCursor(m) ==
    /\ pc[m] = "cursor"
    /\ \E found \in {cursor} \cup IF "cursor" \in Faults THEN {None} ELSE {} :
          LET last == GetCursor(found, current[m]) IN
          /\ \/ TooFarBehind(last, current[m]) /\ Continue(m, "forward", last + 1)
             \/ ~TooFarBehind(last, current[m]) /\ last >= current[m] /\ EndCycle(m)
             \/ /\ ~TooFarBehind(last, current[m]) /\ last < current[m]
                /\ Continue(m, "addresses", last + 1)
          /\ jumped' = jumped \cup IF cursor = None THEN 1 .. last ELSE {}
    /\ UNCHANGED <<chainVars, pgVars, backfill>>

(* saveCursor, best effort.                                                *)
SaveCursor(b) == cursor' = b \/ ("save" \in Faults /\ cursor' = cursor)

(* A fast-forward to the head instead of to the window.                    *)
BadFastForward(m) ==
    /\ pc[m] = "forward"
    /\ LET start == current[m] - BootstrapBlocks IN
          /\ SaveCursor(current[m])
          /\ jumped' = jumped \cup (from[m] .. start)
          /\ Continue(m, "addresses", start + 1)
    /\ UNCHANGED <<chainVars, addressed, topups, loaded, backfill>>

(* A cursor too far behind is given up for the bootstrap window.           *)
FastForward(m) ==
    /\ pc[m] = "forward"
    /\ LET start == current[m] - BootstrapBlocks IN
          /\ SaveCursor(start)
          /\ jumped' = jumped \cup (from[m] .. start)
          /\ Continue(m, "addresses", start + 1)
    /\ UNCHANGED <<chainVars, addressed, topups, loaded, backfill>>

(* getWatchedAddresses, and the head of the loop over the chunks.          *)
ReadAddresses(m) ==
    /\ pc[m] = "addresses"
    /\ \/ /\ addressed # {} /\ from[m] <= SafeHead(current[m])
          /\ watched' = [watched EXCEPT ![m] = addressed]
          /\ pc' = [pc EXCEPT ![m] = "scan"]
          /\ UNCHANGED <<current, from, logs>>
       \/ (addressed = {} \/ from[m] > SafeHead(current[m])) /\ EndCycle(m)
    /\ UNCHANGED <<chainVars, pgVars, auxVars>>

(* A wrong order: the cursor moves before the logs are processed.          *)
BadFilterLogs(m) ==
    /\ pc[m] = "scan"
    /\ logs' = [logs EXCEPT ![m] =
                  {l \in Transfers \X (from[m] .. ChunkTo(m)) : block[l[1]] = l[2]}]
    /\ pc' = [pc EXCEPT ![m] = "logs"]
    /\ cursor' = ChunkTo(m)
    /\ UNCHANGED <<chainVars, addressed, topups, loaded, current, from, watched, auxVars>>

(* filterLogsWithFallback: the transfers in the blocks of the chunk.       *)
FilterLogs(m) ==
    /\ pc[m] = "scan"
    /\ logs' = [logs EXCEPT ![m] =
                  {l \in Transfers \X (from[m] .. ChunkTo(m)) : block[l[1]] = l[2]}]
    /\ pc' = [pc EXCEPT ![m] = "logs"]
    /\ UNCHANGED <<chainVars, pgVars, current, from, watched, auxVars>>

(* Reading the addresses, or the logs, fails: the chunk is left for the    *)
(* next cycle.                                                             *)
ReadFails(m) ==
    /\ "reads" \in Faults
    /\ pc[m] \in {"addresses", "scan"}
    /\ EndCycle(m)
    /\ UNCHANGED <<chainVars, pgVars, auxVars>>

(* What processLog asks of a log before it credits it.                     *)
Creditable(m, l) ==
    /\ Owner[l[1]] \in watched[m]
    /\ Amount[l[1]] >= MinDeposit
    /\ l[2] + ConfirmationsReq <= current[m]

(* No unique index.                                                        *)
BadBooked(tx) == FALSE

(* The unique index on usdc_tx_hash has a row for the transaction.         *)
Booked(tx) == topups[tx] # None

(* creditDeposit: one transaction, that fails on a duplicate.              *)
CreditDeposit(t) ==
    \/ /\ ~Booked(TxOf[t])
       /\ topups' = [topups EXCEPT ![TxOf[t]] = t]
       /\ loaded' = [loaded EXCEPT ![Owner[t]] = @ + Amount[t]]
    \/ /\ Booked(TxOf[t]) \/ "credit" \in Faults
       /\ UNCHANGED <<topups, loaded>>

(* processLog, for the first log that is left.                             *)
ProcessLog(m) ==
    /\ pc[m] = "logs"
    /\ \E l \in logs[m] :
          /\ \A k \in logs[m] : l[2] <= k[2]
          /\ \/ Creditable(m, l) /\ CreditDeposit(l[1])
             \/ ~Creditable(m, l) /\ UNCHANGED <<topups, loaded>>
          /\ logs' = [logs EXCEPT ![m] = @ \ {l}]
    /\ UNCHANGED <<chainVars, addressed, cursor, pc, current, from, watched, auxVars>>

(* The loop looks at the head again, but keeps the addresses.              *)
BadFinishChunk(m) ==
    /\ pc[m] = "logs"
    /\ logs[m] = {}
    /\ SaveCursor(ChunkTo(m))
    /\ LET next == from[m] + ScanChunkBlocks IN
          \/ /\ next <= SafeHead(head)
             /\ current' = [current EXCEPT ![m] = head]
             /\ pc' = [pc EXCEPT ![m] = "scan"]
             /\ from' = [from EXCEPT ![m] = next]
             /\ UNCHANGED <<watched, logs>>
          \/ next > SafeHead(head) /\ EndCycle(m)
    /\ UNCHANGED <<chainVars, addressed, topups, loaded, auxVars>>

(* The chunk is done: the cursor moves to its end.                         *)
FinishChunk(m) ==
    /\ pc[m] = "logs"
    /\ logs[m] = {}
    /\ SaveCursor(ChunkTo(m))
    /\ LET next == from[m] + ScanChunkBlocks IN
          \/ next <= SafeHead(current[m]) /\ Continue(m, "scan", next)
          \/ next > SafeHead(current[m]) /\ EndCycle(m)
    /\ UNCHANGED <<chainVars, addressed, topups, loaded, auxVars>>

(* The monitor dies, or is stopped, and is started again.                  *)
Crash(m) ==
    /\ "crash" \in Faults
    /\ pc[m] # "idle"
    /\ EndCycle(m)
    /\ UNCHANGED <<chainVars, pgVars, auxVars>>
-----------------------------------------------------------------------------
checkForDeposits(m) ==
    \/ ReadHead(m) \/ ReadCursor(m) \/ FastForward(m) \/ ReadAddresses(m)
    \/ FilterLogs(m) \/ ReadFails(m) \/ ProcessLog(m) \/ FinishChunk(m)

Next == \/ NewBlock \/ Reorg \/ SetCursorToZero
        \/ \E u \in Users : CreateAddress(u)
        \/ \E m \in Monitors : checkForDeposits(m) \/ Crash(m)

Spec == Init /\ [][Next]_vars

(***************************************************************************)
(* The ticker starts a cycle every 15 seconds and a cycle runs on by       *)
(* itself; a read that is tried again and again succeeds at some time.     *)
(***************************************************************************)
Fairness ==
    \A m \in Monitors :
        /\ WF_vars(ReadHead(m)) /\ WF_vars(ReadCursor(m)) /\ WF_vars(FastForward(m))
        /\ SF_vars(ReadAddresses(m)) /\ SF_vars(FilterLogs(m))
        /\ WF_vars(ProcessLog(m)) /\ WF_vars(FinishChunk(m))

LiveSpec == Spec /\ Fairness
-----------------------------------------------------------------------------
(* The chain, the rows of Postgres and the variables of the monitors have  *)
(* the types that the code gives them (monitor.go:155-398).                *)
TypeOK ==
    /\ head \in 0 .. MaxHead
    /\ block \in [Transfers -> Nat \cup {None}]
    /\ \A t \in Transfers : block[t] # None => block[t] \in 1 .. head
    /\ addressed \subseteq Users
    /\ cursor \in Nat \cup {None}
    /\ topups \in [Hashes -> Transfers \cup {None}]
    /\ loaded \in [Users -> Nat]
    /\ pc \in [Monitors -> Steps]
    /\ current \in [Monitors -> Nat]
    /\ from \in [Monitors -> Nat]
    /\ watched \in [Monitors -> SUBSET Users]
    /\ logs \in [Monitors -> SUBSET (Transfers \X Nat)]
    /\ jumped \subseteq Nat
    /\ backfill \in BOOLEAN

(* The transfer is in the chain and the monitor is to credit it.           *)
Due(t) == block[t] # None /\ Owner[t] \in Users /\ Amount[t] >= MinDeposit

Credited == {t \in Transfers : topups[TxOf[t]] = t}

(***************************************************************************)
(* No deposit is skipped: once the cursor is past the block of a deposit,  *)
(* the deposit is credited, unless the block was left out on purpose,      *)
(* below the window of the first run or of a fast-forward.  That is        *)
(* "a monitor outage never loses deposits" (monitor.go:183-185) and the    *)
(* "permanent miss" of monitor.go:219-221 that must not be.                *)
(***************************************************************************)
NothingSkipped ==
    cursor # None =>
        \A t \in Transfers :
            Due(t) /\ block[t] <= cursor /\ block[t] \notin jumped => t \in Credited

(***************************************************************************)
(* The monitors, with their crashes, restarts and repeated scans, credit   *)
(* as DepositLedger says: only what is final, to its owner, in full, once. *)
(***************************************************************************)
Final == {t \in Transfers : block[t] # None /\ Settled(block[t])}

Ledger == INSTANCE DepositLedger WITH final <- Final, credited <- Credited

CreditsFollowLedger == Ledger!Spec

(* The amounts credited to u.                                              *)
CreditsOf(u) == [t \in Transfers |->
                    IF t \in Credited /\ Owner[t] = u THEN Amount[t] ELSE 0]

(***************************************************************************)
(* What a user was ever credited is the sum of the transfers booked in     *)
(* topups, even when blocks are scanned again from 0: "Idempotent via      *)
(* INSERT-first" (monitor.go:348-350).                                     *)
(***************************************************************************)
Accounted == \A u \in Users : loaded[u] = Total(CreditsOf(u))

(***************************************************************************)
(* A deposit that is final is credited in the end, unless its block is     *)
(* left out on purpose (monitor.go:128-150, 243-281).                      *)
(***************************************************************************)
DepositsArrive ==
    \A t \in Transfers :
        Due(t) /\ t \in Final ~> t \in Credited \/ block[t] \in jumped
=============================================================================
