------------------------------- MODULE Sweep -------------------------------
(***************************************************************************)
(* The sweep (internal/sweep/sweep.go, internal/handler/sweep.go): an      *)
(* administrator has the USDC of the deposit addresses moved to the        *)
(* treasury.  A request with execute=true passes the rate limit of the     *)
(* handler and starts one goroutine per deposit address, of which a        *)
(* semaphore lets a few run at once.  A goroutine reads balances, has the  *)
(* treasury send ETH for gas when the address lacks it, waits for that     *)
(* transaction, and sends the transfer without waiting for it.             *)
(*                                                                         *)
(* Every call to the chain node is one action.  The price of gas is        *)
(* whatever the node suggests at each call.  Requests with execute=false   *)
(* only read and are left out.                                             *)
(*                                                                         *)
(* A definition whose name begins with "Bad" is no part of the             *)
(* specification: it is a wrong version of the definition after it, with   *)
(* which the run named in PROJECT.json finds a property violated.          *)
(***************************************************************************)
EXTENDS Money

CONSTANTS
    Executions,    \* the requests with execute=true
    Addresses,     \* the deposit addresses
    Treasury,      \* the account of the treasury
    Workers,       \* how many goroutines the semaphore lets run
    MinUSD,        \* an address with less is left alone
    Prices,        \* what SuggestGasPrice may return
    TransferGas,   \* the gas limit of a transfer of USDC
    FundGas,       \* the gas limit of a transfer of ETH
    InitialUsdc,   \* the USDC of each deposit address at the start
    TreasuryEth,   \* the ETH of the treasury at the start
    Deposits,      \* the amounts that users may deposit meanwhile
    MaxUsdc,       \* bound: no deposit beyond that much in all
    Faults         \* the faults that may happen, among FaultKinds

FaultKinds == {"rpc",         \* a call fails, with or without its effect
               "postgres",    \* a query fails
               "disconnect"}  \* the administrator's client goes away

ASSUME ConstantsAssumption ==
    /\ IsFiniteSet(Executions)
    /\ IsFiniteSet(Addresses) /\ Treasury \notin Addresses
    /\ Workers \in Nat \ {0}
    /\ MinUSD \in Nat
    /\ Prices \subseteq Nat
    /\ \E top \in Prices \ {0} : \A p \in Prices : p <= top
    /\ TransferGas \in Nat \ {0}
    /\ FundGas \in Nat
    /\ InitialUsdc \in Nat
    /\ TreasuryEth \in Nat
    /\ Deposits \subseteq Nat
    /\ MaxUsdc \in Nat
    /\ Faults \subseteq FaultKinds

Accounts == Addresses \cup {Treasury}

(* A goroutine of an execution, for one address.                           *)
Jobs == Executions \X Addresses

VARIABLES
    \* the chain
    usdc,      \* the USDC of each account
    eth,       \* its ETH
    nonce,     \* the number of its transactions that are mined
    pool,      \* the transactions that wait to be mined
    mined,     \* the transactions with a receipt of success
    reverted,  \* the transactions with a receipt of failure
    replaced,  \* history: the transactions that another one took the place of
    \* the handler
    recent,    \* lastExecute is less than five minutes ago
    overlaps,  \* history: the executions that started while another was at work
    phase,     \* how far each request is
    gone,      \* its context is cancelled
    report,    \* total_swept of its row in admin_audit_log
    \* each goroutine
    step,      \* its next step
    amount,    \* balMicro
    gas,       \* gasPerTx
    at,        \* the nonce that PendingNonceAt returned
    submitted  \* it has a TxHash

chainVars == <<usdc, eth, nonce, pool, mined, reverted, replaced>>
handlerVars == <<recent, overlaps, phase, gone, report>>
jobVars == <<step, amount, gas, at, submitted>>
vars == <<chainVars, handlerVars, jobVars>>

CallSteps == {"balance", "eth", "treasury", "fund_nonce", "fund", "receipt",
              "transfer_nonce", "transfer"}

Init ==
    /\ usdc = [a \in Accounts |-> IF a = Treasury THEN 0 ELSE InitialUsdc]
    /\ eth = [a \in Accounts |-> IF a = Treasury THEN TreasuryEth ELSE 0]
    /\ nonce = [a \in Accounts |-> 0]
    /\ pool = {} /\ mined = {} /\ reverted = {} /\ replaced = {}
    /\ recent = FALSE
    /\ overlaps = 0
    /\ phase = [e \in Executions |-> "new"]
    /\ gone = [e \in Executions |-> FALSE]
    /\ report = [e \in Executions |-> 0]
    /\ step = [j \in Jobs |-> "wait"]
    /\ amount = [j \in Jobs |-> 0]
    /\ gas = [j \in Jobs |-> 0]
    /\ at = [j \in Jobs |-> 0]
    /\ submitted = [j \in Jobs |-> FALSE]
-----------------------------------------------------------------------------
(***************************************************************************)
(* The chain and its node.                                                 *)
(***************************************************************************)

(* A transaction: "eth" from the treasury to an address, or "usdc" from an *)
(* address to the treasury.                                                *)
Txs == [job : Jobs, kind : {"eth", "usdc"}, nonce : Nat, price : Nat, value : Nat]

From(tx) == IF tx.kind = "eth" THEN Treasury ELSE tx.job[2]

Cost(tx) == IF tx.kind = "eth" THEN tx.value + FundGas * tx.price ELSE TransferGas * tx.price

(* PendingNonceAt counts the transactions that wait.                       *)
PendingNonce(a) == nonce[a] + Cardinality({t \in pool : From(t) = a})

(* SendTransaction: a transaction of the same nonce is replaced only by    *)
(* one that pays more, and all that wait together must be covered.         *)
Takes(tx) ==
    LET others == {t \in pool : From(t) = From(tx) /\ t.nonce # tx.nonce}
        same == {t \in pool : From(t) = From(tx) /\ t.nonce = tx.nonce}
    IN  /\ tx.nonce >= nonce[From(tx)]
        /\ \A t \in same : tx.price > t.price
        /\ eth[From(tx)] >= Cost(tx) + Total([t \in others |-> Cost(t)])

Put(tx) ==
    LET same == {t \in pool : From(t) = From(tx) /\ t.nonce = tx.nonce}
    IN  pool' = (pool \ same) \cup {tx} /\ replaced' = replaced \cup same

(* A transaction is mined.  A transfer of more than there is reverts.      *)
Mine ==
    \E tx \in pool :
        LET from == From(tx)
            covered == tx.kind = "usdc" => usdc[from] >= tx.value
            moved == IF tx.kind = "usdc" /\ covered THEN tx.value ELSE 0
            sent == IF tx.kind = "eth" THEN tx.value ELSE 0
        IN  /\ tx.nonce = nonce[from]
            /\ pool' = pool \ {tx}
            /\ nonce' = [nonce EXCEPT ![from] = @ + 1]
            /\ usdc' = [a \in Accounts |-> IF a = Treasury THEN usdc[a] + moved
                                           ELSE IF a = from THEN usdc[a] - moved
                                           ELSE usdc[a]]
            /\ eth' = [a \in Accounts |-> IF a = from THEN eth[a] - Cost(tx)
                                          ELSE IF a = tx.job[2] THEN eth[a] + sent
                                          ELSE eth[a]]
            /\ mined' = IF covered THEN mined \cup {tx} ELSE mined
            /\ reverted' = IF covered THEN reverted ELSE reverted \cup {tx}
            /\ UNCHANGED <<replaced, handlerVars, jobVars>>

(* A user deposits USDC.                                                   *)
Deposit(a) ==
    /\ \E d \in Deposits :
          /\ Total(usdc) + d <= MaxUsdc
          /\ usdc' = [usdc EXCEPT ![a] = @ + d]
    /\ UNCHANGED <<eth, nonce, pool, mined, reverted, replaced, handlerVars, jobVars>>
-----------------------------------------------------------------------------
(***************************************************************************)
(* The handler.                                                            *)
(***************************************************************************)

(* Another execution is at work, or a transaction of one is not mined yet. *)
Busy == pool # {} \/ \E e \in Executions : phase[e] = "running"

(* Under the mutex: the last execution was not too recent, and this one is *)
(* the last from now on, whatever becomes of it.  Whether the one before   *)
(* is still at work, nobody looks.                                         *)
Accept(e) ==
    /\ phase[e] = "new"
    /\ ~recent
    /\ phase' = [phase EXCEPT ![e] = "running"]
    /\ recent' = TRUE
    /\ overlaps' = IF Busy THEN overlaps + 1 ELSE overlaps
    /\ UNCHANGED <<chainVars, gone, report, jobVars>>

(* "Sweep rate limited".                                                   *)
Refuse(e) ==
    /\ phase[e] = "new"
    /\ recent
    /\ phase' = [phase EXCEPT ![e] = "refused"]
    /\ UNCHANGED <<chainVars, recent, overlaps, gone, report, jobVars>>

(* Five minutes pass since the last execution started, whatever it and its *)
(* transactions do: each address may take half a minute and more, and a    *)
(* transaction may wait for as long as it likes.                           *)
FiveMinutes ==
    /\ recent
    /\ recent' = FALSE
    /\ UNCHANGED <<chainVars, overlaps, phase, gone, report, jobVars>>

(* The query for the deposit addresses fails.                              *)
RunFails(e) ==
    /\ phase[e] = "running"
    /\ gone[e] \/ "postgres" \in Faults
    /\ \A a \in Addresses : step[<<e, a>>] = "wait"
    /\ phase' = [phase EXCEPT ![e] = "failed"]
    /\ UNCHANGED <<chainVars, recent, overlaps, gone, report, jobVars>>

Disconnect(e) ==
    /\ "disconnect" \in Faults
    /\ phase[e] = "running" /\ ~gone[e]
    /\ gone' = [gone EXCEPT ![e] = TRUE]
    /\ UNCHANGED <<chainVars, recent, overlaps, phase, report, jobVars>>

(* Every address that was to be swept.                                     *)
BadReported(e) == [a \in Addresses |-> amount[<<e, a>>]]

(* What counts for total_swept: the addresses with a transaction.          *)
Reported(e) == [a \in Addresses |-> IF submitted[<<e, a>>] THEN amount[<<e, a>>] ELSE 0]

(* All goroutines are done (wg.Wait), and the outcome is written down.     *)
Finish(e) ==
    /\ phase[e] = "running"
    /\ \A a \in Addresses : step[<<e, a>>] = "end"
    /\ \/ /\ ~gone[e]
          /\ phase' = [phase EXCEPT ![e] = "done"]
          /\ report' = [report EXCEPT ![e] = Total(Reported(e))]
       \/ /\ gone[e] \/ "postgres" \in Faults
          /\ phase' = [phase EXCEPT ![e] = "failed"]
          /\ UNCHANGED report
    /\ amount' = [j \in Jobs |-> IF j[1] = e THEN 0 ELSE amount[j]]
    /\ submitted' = [j \in Jobs |-> submitted[j] /\ j[1] # e]
    /\ UNCHANGED <<chainVars, recent, overlaps, gone, step, gas, at>>
-----------------------------------------------------------------------------
(***************************************************************************)
(* A goroutine: processEntry.                                              *)
(***************************************************************************)

Go(j, s) == step' = [step EXCEPT ![j] = s] /\ UNCHANGED <<gas, at>>

(* processEntry returns.                                                   *)
Return(j) ==
    /\ step' = [step EXCEPT ![j] = "end"]
    /\ gas' = [gas EXCEPT ![j] = 0]
    /\ at' = [at EXCEPT ![j] = 0]

(* The goroutine is at step s and its context is live.                     *)
At(j, s) == phase[j[1]] = "running" /\ step[j] = s /\ ~gone[j[1]]

(* The semaphore lets the goroutine run.                                   *)
Begin(j) ==
    /\ phase[j[1]] = "running"
    /\ step[j] = "wait"
    /\ Cardinality({a \in Addresses : step[<<j[1], a>>] \in CallSteps}) < Workers
    /\ Go(j, "balance")
    /\ UNCHANGED <<chainVars, handlerVars, amount, submitted>>

BadReadBalance(j) ==
    /\ At(j, "balance")
    /\ amount' = [amount EXCEPT ![j] = usdc[j[2]]]
    /\ Go(j, "eth")
    /\ UNCHANGED <<chainVars, handlerVars, submitted>>

ReadBalance(j) ==
    /\ At(j, "balance")
    /\ \/ /\ usdc[j[2]] >= MinUSD
          /\ amount' = [amount EXCEPT ![j] = usdc[j[2]]]
          /\ Go(j, "eth")
       \/ usdc[j[2]] < MinUSD /\ Return(j) /\ UNCHANGED amount
    /\ UNCHANGED <<chainVars, handlerVars, submitted>>

(* The gas is sent whether the address has some or not.                    *)
BadReadEth(j) ==
    /\ At(j, "eth")
    /\ \E p \in Prices : gas' = [gas EXCEPT ![j] = TransferGas * p]
    /\ step' = [step EXCEPT ![j] = "treasury"]
    /\ UNCHANGED <<chainVars, handlerVars, amount, at, submitted>>

(* The gas of a transfer is estimated and compared with what there is.     *)
ReadEth(j) ==
    /\ At(j, "eth")
    /\ \E p \in Prices :
          /\ gas' = [gas EXCEPT ![j] = TransferGas * p]
          /\ step' = [step EXCEPT ![j] =
                         IF eth[j[2]] < TransferGas * p THEN "treasury" ELSE "transfer_nonce"]
    /\ UNCHANGED <<chainVars, handlerVars, amount, at, submitted>>

ReadTreasury(j) ==
    /\ At(j, "treasury")
    /\ \/ eth[Treasury] >= gas[j] /\ Go(j, "fund_nonce")
       \/ eth[Treasury] < gas[j] /\ Return(j)
    /\ UNCHANGED <<chainVars, handlerVars, amount, submitted>>

(* Nonces are dealt out to the goroutines that are about to send.          *)
BadReadNonce(j, a, s) ==
    /\ at' = [at EXCEPT ![j] = PendingNonce(a)
                 + Cardinality({k \in Jobs : k # j /\ step[k] = s /\ s = "fund"})]
    /\ step' = [step EXCEPT ![j] = s]
    /\ UNCHANGED <<chainVars, handlerVars, amount, gas, submitted>>

ReadNonce(j, a, s) ==
    /\ at' = [at EXCEPT ![j] = PendingNonce(a)]
    /\ step' = [step EXCEPT ![j] = s]
    /\ UNCHANGED <<chainVars, handlerVars, amount, gas, submitted>>

FundNonce(j) == At(j, "fund_nonce") /\ ReadNonce(j, Treasury, "fund")

(* A transfer whose answer is lost is tried again.                         *)
BadSend(j, kind, value) ==
    \E p \in Prices :
        LET tx == [job |-> j, kind |-> kind, nonce |-> at[j], price |-> p, value |-> value] IN
        \/ /\ Takes(tx) /\ Put(tx)
           /\ \/ kind = "eth" /\ Go(j, "receipt") /\ UNCHANGED submitted
              \/ /\ kind = "usdc" /\ Return(j)
                 /\ submitted' = [submitted EXCEPT ![j] = TRUE]
              \/ /\ Faults \cap {"rpc", "disconnect"} # {}
                 /\ Go(j, "transfer_nonce") /\ UNCHANGED submitted
        \/ ~Takes(tx) /\ Return(j) /\ UNCHANGED <<pool, replaced, submitted>>

(* A transaction is sent at the price of the moment.  The answer may be    *)
(* lost, and is an error then.  A transfer that was taken has a TxHash.    *)
Send(j, kind, value) ==
    \E p \in Prices :
        LET tx == [job |-> j, kind |-> kind, nonce |-> at[j], price |-> p, value |-> value] IN
        \/ /\ Takes(tx) /\ Put(tx)
           /\ \/ kind = "eth" /\ Go(j, "receipt") /\ UNCHANGED submitted
              \/ /\ kind = "usdc" /\ Return(j)
                 /\ submitted' = [submitted EXCEPT ![j] = TRUE]
              \/ /\ Faults \cap {"rpc", "disconnect"} # {}
                 /\ Return(j) /\ UNCHANGED submitted
        \/ ~Takes(tx) /\ Return(j) /\ UNCHANGED <<pool, replaced, submitted>>

fundGas(j) ==
    /\ At(j, "fund")
    /\ Send(j, "eth", gas[j])
    /\ UNCHANGED <<usdc, eth, nonce, mined, reverted, handlerVars, amount>>

(* waitForReceipt: half a minute may also pass without one.                *)
waitForReceipt(j) ==
    /\ At(j, "receipt")
    /\ \/ (\E tx \in mined : tx.job = j /\ tx.kind = "eth") /\ Go(j, "transfer_nonce")
       \/ Return(j)
    /\ UNCHANGED <<chainVars, handlerVars, amount, submitted>>

TransferNonce(j) == At(j, "transfer_nonce") /\ ReadNonce(j, j[2], "transfer")

transferUSDC(j) ==
    /\ At(j, "transfer")
    /\ Send(j, "usdc", amount[j])
    /\ UNCHANGED <<usdc, eth, nonce, mined, reverted, handlerVars, amount>>

(* A call fails, as all do under a cancelled context.                      *)
CallFails(j) ==
    /\ phase[j[1]] = "running"
    /\ step[j] \in CallSteps
    /\ gone[j[1]] \/ ("rpc" \in Faults /\ step[j] # "receipt")
    /\ Return(j)
    /\ UNCHANGED <<chainVars, handlerVars, amount, submitted>>
-----------------------------------------------------------------------------
processEntry(j) ==
    \/ Begin(j) \/ ReadBalance(j) \/ ReadEth(j) \/ ReadTreasury(j) \/ FundNonce(j)
    \/ fundGas(j) \/ waitForReceipt(j) \/ TransferNonce(j) \/ transferUSDC(j)
    \/ CallFails(j)

Handle(e) == Accept(e) \/ Refuse(e) \/ RunFails(e) \/ Disconnect(e) \/ Finish(e)

Next == \/ Mine \/ FiveMinutes
        \/ \E a \in Addresses : Deposit(a)
        \/ \E e \in Executions : Handle(e)
        \/ \E j \in Jobs : processEntry(j)

Spec == Init /\ [][Next]_vars
-----------------------------------------------------------------------------
(***************************************************************************)
(* The types, and what is sent: no transfer is below the minimum           *)
(* (sweep.go:123-127).                                                     *)
(***************************************************************************)
TypeOK ==
    /\ usdc \in [Accounts -> Nat]
    /\ eth \in [Accounts -> Nat]
    /\ nonce \in [Accounts -> Nat]
    /\ pool \subseteq Txs /\ mined \subseteq Txs
    /\ reverted \subseteq Txs /\ replaced \subseteq Txs
    /\ \A tx \in pool \cup mined \cup reverted : tx.kind = "usdc" => tx.value >= MinUSD
    /\ recent \in BOOLEAN
    /\ overlaps \in Nat
    /\ phase \in [Executions -> {"new", "refused", "running", "failed", "done"}]
    /\ gone \in [Executions -> BOOLEAN]
    /\ report \in [Executions -> Nat]
    /\ step \in [Jobs -> {"wait", "end"} \cup CallSteps]
    /\ amount \in [Jobs -> Nat]
    /\ gas \in [Jobs -> Nat]
    /\ at \in [Jobs -> Nat]
    /\ submitted \in [Jobs -> BOOLEAN]

(***************************************************************************)
(* However many goroutines send from the treasury, its transactions have   *)
(* consecutive nonces, so that none waits for ever for one before it       *)
(* (fundGas, sweep.go:247-282).                                            *)
(***************************************************************************)
NoNonceGap ==
    \A tx \in pool : \A n \in nonce[From(tx)] .. tx.nonce :
        \E t \in pool : From(t) = From(tx) /\ t.nonce = n

(* The transfers from a that a node has taken and that moved nothing.      *)
Failed(a) == {tx \in reverted \cup replaced : From(tx) = a}

(***************************************************************************)
(* A transfer fails only because executions overlap.  The rate limit looks *)
(* at the time of the last execution alone, so the next may find it at     *)
(* work, or its transactions waiting; of the transfers from an address     *)
(* that then meet, one reverts, or takes the place of the other, for each  *)
(* execution that so overlapped and no more, although balances are read    *)
(* half a minute before they are moved and answers are lost                *)
(* (handler/sweep.go:122-131, sweep.go:111-188).                           *)
(***************************************************************************)
FailuresByOverlap == \A a \in Addresses : Cardinality(Failed(a)) <= overlaps

(* The gas that is on its way to a.                                        *)
Coming(a) ==
    LET txs == {t \in pool : t.kind = "eth" /\ t.job[2] = a}
    IN  Total([t \in txs |-> t.value])

(***************************************************************************)
(* An address gets no second gas before the first is used, but one for     *)
(* each execution that overlapped: it never has as much as twice what a    *)
(* transfer needs and once more for each of these, although funding may    *)
(* time out, transfers may fail and the price of gas may rise in between   *)
(* (sweep.go:145-180, handler/sweep.go:124).                               *)
(***************************************************************************)
GasFundedOnce ==
    \E p \in Prices : \A a \in Addresses :
        eth[a] + Coming(a) < (2 + overlaps) * TransferGas * p

(* The transfers of e that a node has taken, by what they are worth.       *)
Taken(e) ==
    LET txs == {t \in pool \cup mined \cup reverted \cup replaced :
                   t.kind = "usdc" /\ t.job[1] = e}
    IN  Total([t \in txs |-> t.value])

(* Those of them that wait or have moved it.                               *)
Sent(e) ==
    LET txs == {t \in pool \cup mined : t.kind = "usdc" /\ t.job[1] = e}
    IN  Total([t \in txs |-> t.value])

(***************************************************************************)
(* What the audit log says an execution has swept are transfers of its own *)
(* that a node has taken; where no executions overlapped, the treasury has *)
(* or will have as much (handler/sweep.go:204-226).                        *)
(***************************************************************************)
ReportsTrue ==
    \A e \in Executions :
        /\ report[e] <= Taken(e)
        /\ overlaps = 0 => report[e] <= Sent(e)
=============================================================================
