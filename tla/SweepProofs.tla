---------------------------- MODULE SweepProofs ----------------------------
(***************************************************************************)
(* Proofs about Sweep, for any number of executions, addresses and         *)
(* goroutines and under every fault, however executions overlap: the       *)
(* types, that the treasury leaves no gap in its nonces, that transfers    *)
(* fail and gas is sent again no more often than executions overlap, and   *)
(* that the audit log claims no more than what was sent.                   *)
(***************************************************************************)
EXTENDS Sweep, MoneyTheorems

(* The transactions of a that wait, and what they cost.                    *)
Pending(a) == {t \in pool : From(t) = a}
Due(a) == Total([t \in Pending(a) |-> Cost(t)])

(* An account can pay for all its transactions that wait.                  *)
Solvent == \A a \in Accounts : Due(a) <= eth[a]

(* They have one nonce each, from that of the account on.                  *)
Consecutive ==
    \A a \in Accounts :
        /\ \A t, s \in Pending(a) : t.nonce = s.nonce => t = s
        /\ {t.nonce : t \in Pending(a)} = nonce[a] .. (PendingNonce(a) - 1)

(* A nonce that was read some steps ago may be taken, but never skips one. *)
NonceKnown(j) ==
    /\ step[j] = "fund" => at[j] <= PendingNonce(Treasury)
    /\ step[j] = "transfer" => at[j] <= PendingNonce(j[2])

Funding == {"treasury", "fund_nonce", "fund"}
Funded == {"receipt", "transfer_nonce", "transfer", "end"}
Knows == {"eth"} \cup Funding \cup (Funded \ {"end"})

(* The transactions that a node has taken.                                 *)
Known == pool \cup mined \cup reverted \cup replaced

(* A goroutine sends one transaction of each kind, and is past it then.    *)
Once ==
    \A t \in Known :
        /\ t.kind = "usdc" => step[t.job] = "end"
        /\ t.kind = "eth" => step[t.job] \in Funded
        /\ \A s \in Known : s.kind = t.kind /\ s.job = t.job => s = t

(* What a goroutine knows.                                                 *)
JobKnows(j) ==
    /\ phase[j[1]] = "new" => step[j] = "wait"
    /\ step[j] \in Knows => amount[j] >= MinUSD
    /\ step[j] \in Funding => \E p \in Prices : gas[j] = TransferGas * p

(* A TxHash is that of a transfer of the amount.                           *)
HashTrue(j) ==
    submitted[j] => /\ step[j] = "end"
                    /\ \E t \in Known : t.kind = "usdc" /\ t.job = j /\ t.value = amount[j]

SweepInv ==
    /\ TypeOK /\ IsFiniteSet(Known)
    /\ Solvent /\ Consecutive /\ Once
    /\ \A j \in Jobs : NonceKnown(j) /\ JobKnows(j) /\ HashTrue(j)
-----------------------------------------------------------------------------
(***************************************************************************)
(* Accounts, goroutines and transactions.                                  *)
(***************************************************************************)

(***************************************************************************)
(* The parts of a goroutine and of a transaction.                          *)
(***************************************************************************)
LEMMA JobParts ==
    ASSUME NEW j \in Jobs
    PROVE  j[1] \in Executions /\ j[2] \in Addresses /\ j = <<j[1], j[2]>>
BY DEF Jobs

LEMMA TxParts ==
    ASSUME NEW t \in Txs
    PROVE  /\ t.job \in Jobs /\ t.job[2] \in Addresses /\ t.job[2] # Treasury
           /\ t.kind \in {"eth", "usdc"} /\ t.nonce \in Nat
           /\ t.price \in Nat /\ t.value \in Nat
           /\ From(t) \in Accounts
           /\ Cost(t) \in Nat
<1> USE ConstantsAssumption DEF ConstantsAssumption
<1>1. /\ t.job \in Jobs /\ t.kind \in {"eth", "usdc"} /\ t.nonce \in Nat
      /\ t.price \in Nat /\ t.value \in Nat
  BY DEF Txs
<1>2. t.job[2] \in Addresses /\ t.job[2] # Treasury
  BY <1>1, JobParts
<1>3. From(t) \in Accounts
  BY <1>2 DEF From, Accounts
<1>4. FundGas * t.price \in Nat /\ TransferGas * t.price \in Nat
  BY <1>1
<1> QED
  BY <1>1, <1>2, <1>3, <1>4 DEF Cost

(***************************************************************************)
(* What waits is finite, and the next nonce a number.                      *)
(***************************************************************************)
LEMMA PendingFinite ==
    ASSUME SweepInv, NEW a \in Accounts
    PROVE  /\ IsFiniteSet(Pending(a)) /\ Cardinality(Pending(a)) \in Nat
           /\ PendingNonce(a) = nonce[a] + Cardinality(Pending(a))
           /\ nonce[a] \in Nat /\ PendingNonce(a) \in Nat
<1>1. IsFiniteSet(Pending(a)) /\ Cardinality(Pending(a)) \in Nat
  BY FS_Subset, FS_CardinalityType DEF SweepInv, Pending, Known
<1>2. nonce[a] \in Nat
  BY DEF SweepInv, TypeOK
<1>3. PendingNonce(a) = nonce[a] + Cardinality(Pending(a))
  BY DEF PendingNonce, Pending
<1> QED
  BY <1>1, <1>2, <1>3
-----------------------------------------------------------------------------
(***************************************************************************)
(* The steps, by what they do to the chain.                                *)
(***************************************************************************)

(* The node takes a transaction that goroutine j sends.                    *)
Sends(j, tx) ==
    /\ tx \in Txs /\ tx.job = j /\ tx.nonce = at[j]
    /\ phase[j[1]] = "running"
    /\ \/ /\ tx.kind = "eth" /\ step[j] = "fund" /\ tx.value = gas[j]
          /\ step'[j] \in {"receipt", "end"}
       \/ /\ tx.kind = "usdc" /\ step[j] = "transfer" /\ tx.value = amount[j]
          /\ step'[j] = "end"
    /\ Takes(tx) /\ Put(tx)
    /\ UNCHANGED <<usdc, eth, nonce, mined, reverted>>

(***************************************************************************)
(* A goroutine sends by fundGas and transferUSDC alone, and by these at    *)
(* most one transaction.                                                   *)
(***************************************************************************)
LEMMA SendStep ==
    ASSUME SweepInv, NEW j \in Jobs, fundGas(j) \/ transferUSDC(j)
    PROVE  (\E tx \in Txs : Sends(j, tx)) \/ UNCHANGED chainVars
<1> USE ConstantsAssumption DEF ConstantsAssumption
<1>1. /\ at[j] \in Nat /\ gas[j] \in Nat /\ amount[j] \in Nat
      /\ step \in [Jobs -> {"wait", "end"} \cup CallSteps]
  BY DEF SweepInv, TypeOK
<1>2. CASE fundGas(j)
  <2>1. PICK p \in Prices :
            LET tx == [job |-> j, kind |-> "eth", nonce |-> at[j], price |-> p,
                       value |-> gas[j]]
            IN  (Takes(tx) /\ Put(tx)) \/ UNCHANGED <<pool, replaced>>
    BY <1>2 DEF fundGas, Send
  <2> DEFINE tx == [job |-> j, kind |-> "eth", nonce |-> at[j], price |-> p, value |-> gas[j]]
  <2>2. tx \in Txs
    BY <1>1 DEF Txs
  <2> QED
    <3>1. step'[j] \in {"receipt", "end"}
      BY <1>1, <1>2 DEF fundGas, Send, Go, Return
    <3> QED
      BY <1>2, <2>1, <2>2, <3>1 DEF fundGas, At, Sends, chainVars
<1>3. CASE transferUSDC(j)
  <2>1. PICK p \in Prices :
            LET tx == [job |-> j, kind |-> "usdc", nonce |-> at[j], price |-> p,
                       value |-> amount[j]]
            IN  (Takes(tx) /\ Put(tx)) \/ UNCHANGED <<pool, replaced>>
    BY <1>3 DEF transferUSDC, Send
  <2> DEFINE tx == [job |-> j, kind |-> "usdc", nonce |-> at[j], price |-> p,
                    value |-> amount[j]]
  <2>2. tx \in Txs
    BY <1>1 DEF Txs
  <2> QED
    <3>1. step'[j] = "end"
      BY <1>1, <1>3 DEF transferUSDC, Send, Go, Return
    <3> QED
      BY <1>3, <2>1, <2>2, <3>1 DEF transferUSDC, At, Sends, chainVars
<1> QED
  BY <1>2, <1>3

(***************************************************************************)
(* Every step mines, deposits, sends, or leaves the chain alone.           *)
(***************************************************************************)
LEMMA ChainSteps ==
    ASSUME SweepInv, [Next]_vars
    PROVE  \/ Mine
           \/ \E a \in Addresses : Deposit(a)
           \/ \E j \in Jobs, tx \in Txs : Sends(j, tx)
           \/ UNCHANGED chainVars
<1>1. ASSUME NEW j \in Jobs, processEntry(j)
      PROVE  (\E tx \in Txs : Sends(j, tx)) \/ UNCHANGED chainVars
  <2>1. CASE fundGas(j) \/ transferUSDC(j)
    BY <2>1, SendStep
  <2>2. CASE ~(fundGas(j) \/ transferUSDC(j))
    BY <1>1, <2>2 DEF processEntry, Begin, ReadBalance, ReadEth, ReadTreasury, FundNonce,
        ReadNonce, waitForReceipt, TransferNonce, CallFails
  <2> QED
    BY <2>1, <2>2
<1>2. ASSUME NEW e \in Executions, Handle(e)
      PROVE  UNCHANGED chainVars
  BY <1>2 DEF Handle, Accept, Refuse, RunFails, Disconnect, Finish
<1>3. FiveMinutes => UNCHANGED chainVars
  BY DEF FiveMinutes
<1> QED
  BY <1>1, <1>2, <1>3 DEF Next, vars
-----------------------------------------------------------------------------
(***************************************************************************)
(* The steps, by what they do to a goroutine k.                            *)
(***************************************************************************)

(* It stays where it is; once it has ended, its outcome may be dropped.    *)
Rests(k) ==
    /\ step'[k] = step[k] /\ gas'[k] = gas[k] /\ at'[k] = at[k]
    /\ \/ amount'[k] = amount[k] /\ submitted'[k] = submitted[k]
       \/ step[k] = "end" /\ amount'[k] = 0 /\ submitted'[k] = FALSE

(* It returns without having sent a transfer that it knows of.             *)
Returns(k) ==
    /\ step[k] \in CallSteps /\ step'[k] = "end"
    /\ gas'[k] = 0 /\ at'[k] = 0 /\ amount'[k] = amount[k] /\ submitted'[k] = submitted[k]

(* It learns of its transfer.                                              *)
Submits(k) ==
    /\ step[k] = "transfer" /\ step'[k] = "end"
    /\ gas'[k] = 0 /\ at'[k] = 0 /\ amount'[k] = amount[k] /\ submitted'[k] = TRUE
    /\ \E tx \in Txs : Sends(k, tx) /\ tx.kind = "usdc"

(* It takes one of the other steps of processEntry.                        *)
Reads(k) ==
    /\ submitted'[k] = submitted[k]
    /\ \/ /\ step[k] = "balance" /\ step'[k] = "eth"
          /\ amount'[k] = usdc[k[2]] /\ amount'[k] >= MinUSD
          /\ gas'[k] = gas[k] /\ at'[k] = at[k]
       \/ /\ step[k] = "eth" /\ amount'[k] = amount[k] /\ at'[k] = at[k]
          /\ \E p \in Prices : gas'[k] = TransferGas * p
          /\ \/ step'[k] = "treasury" /\ eth[k[2]] < gas'[k]
             \/ step'[k] = "transfer_nonce"
       \/ /\ amount'[k] = amount[k] /\ gas'[k] = gas[k] /\ at'[k] = at[k]
          /\ <<step[k], step'[k]>> \in
                {<<"wait", "balance">>, <<"treasury", "fund_nonce">>,
                 <<"fund", "receipt">>, <<"receipt", "transfer_nonce">>}
       \/ /\ amount'[k] = amount[k] /\ gas'[k] = gas[k]
          /\ \/ /\ step[k] = "fund_nonce" /\ step'[k] = "fund"
                /\ at'[k] = PendingNonce(Treasury)
             \/ /\ step[k] = "transfer_nonce" /\ step'[k] = "transfer"
                /\ at'[k] = PendingNonce(k[2])

Works(k) ==
    /\ phase[k[1]] = "running" /\ UNCHANGED <<handlerVars, usdc, eth>>
    /\ Returns(k) \/ Submits(k) \/ Reads(k)

(***************************************************************************)
(* A step of processEntry is one of these, and the other goroutines rest.  *)
(***************************************************************************)
LEMMA EntryStep ==
    ASSUME SweepInv, NEW j \in Jobs, processEntry(j)
    PROVE  Works(j) /\ \A k \in Jobs \ {j} : Rests(k)
<1> USE ConstantsAssumption DEF ConstantsAssumption
<1>1. /\ usdc \in [Accounts -> Nat] /\ step \in [Jobs -> {"wait", "end"} \cup CallSteps]
      /\ amount \in [Jobs -> Nat] /\ gas \in [Jobs -> Nat]
      /\ at \in [Jobs -> Nat] /\ submitted \in [Jobs -> BOOLEAN]
  BY DEF SweepInv, TypeOK
<1>2. phase[j[1]] = "running" /\ UNCHANGED <<handlerVars, usdc, eth>>
  BY DEF processEntry, Begin, ReadBalance, ReadEth, ReadTreasury, FundNonce, fundGas,
      waitForReceipt, TransferNonce, transferUSDC, CallFails, At, ReadNonce, handlerVars,
      chainVars
<1> USE DEF Rests, Returns, Reads, At, Go, Return
<1>3. CASE Begin(j)
  BY <1>1, <1>2, <1>3 DEF Begin, Works
<1>4. CASE ReadBalance(j)
  BY <1>1, <1>2, <1>4 DEF ReadBalance, Works, CallSteps
<1>5. CASE ReadEth(j)
  BY <1>1, <1>2, <1>5 DEF ReadEth, Works
<1>6. CASE ReadTreasury(j)
  BY <1>1, <1>2, <1>6 DEF ReadTreasury, Works, CallSteps
<1>7. CASE FundNonce(j)
  BY <1>1, <1>2, <1>7 DEF FundNonce, ReadNonce, Works
<1>8. CASE fundGas(j)
  <2>1. \/ step' = [step EXCEPT ![j] = "receipt"] /\ UNCHANGED <<gas, at, submitted>>
        \/ Return(j) /\ UNCHANGED submitted
    BY <1>8 DEF fundGas, Send
  <2> QED
    BY <1>1, <1>2, <1>8, <2>1 DEF fundGas, Works, CallSteps
<1>9. CASE waitForReceipt(j)
  BY <1>1, <1>2, <1>9 DEF waitForReceipt, Works, CallSteps
<1>10. CASE TransferNonce(j)
  BY <1>1, <1>2, <1>10 DEF TransferNonce, ReadNonce, Works
<1>11. CASE transferUSDC(j)
  <2>1. step[j] = "transfer" /\ Return(j) /\ UNCHANGED amount
    BY <1>11 DEF transferUSDC, Send
  <2>2. CASE UNCHANGED submitted
    BY <1>1, <1>2, <2>1, <2>2 DEF Works, CallSteps
  <2>3. CASE submitted' # submitted
    <3>1. submitted' = [submitted EXCEPT ![j] = TRUE]
      BY <1>11, <2>3 DEF transferUSDC, Send
    <3>2. PICK p \in Prices :
              LET tx == [job |-> j, kind |-> "usdc", nonce |-> at[j], price |-> p,
                         value |-> amount[j]]
              IN  Takes(tx) /\ Put(tx)
      BY <1>11, <2>3 DEF transferUSDC, Send
    <3> DEFINE tx == [job |-> j, kind |-> "usdc", nonce |-> at[j], price |-> p,
                      value |-> amount[j]]
    <3>3. tx \in Txs
      BY <1>1 DEF Txs
    <3>4. Sends(j, tx) /\ tx.kind = "usdc"
      BY <1>1, <1>2, <1>11, <2>1, <3>2, <3>3 DEF transferUSDC, Sends
    <3> QED
      BY <1>1, <1>2, <2>1, <3>1, <3>3, <3>4 DEF Works, Submits
  <2> QED
    BY <2>2, <2>3
<1>12. CASE CallFails(j)
  BY <1>1, <1>2, <1>12 DEF CallFails, Works
<1> QED
  BY <1>3, <1>4, <1>5, <1>6, <1>7, <1>8, <1>9, <1>10, <1>11, <1>12 DEF processEntry

(***************************************************************************)
(* So does every other step let the goroutines rest.                       *)
(***************************************************************************)
LEMMA JobSteps ==
    ASSUME SweepInv, [Next]_vars, NEW k \in Jobs
    PROVE  Rests(k) \/ Works(k)
<1>1. CASE \E j \in Jobs : processEntry(j)
  BY <1>1, EntryStep
<1>2. ASSUME NEW e \in Executions, Finish(e)
      PROVE  Rests(k)
  <2>1. amount \in [Jobs -> Nat] /\ submitted \in [Jobs -> BOOLEAN]
    BY DEF SweepInv, TypeOK
  <2>2. k[1] = e => step[k] = "end"
    BY <1>2, JobParts DEF Finish
  <2>3. /\ amount'[k] = IF k[1] = e THEN 0 ELSE amount[k]
        /\ submitted'[k] = (submitted[k] /\ k[1] # e)
        /\ UNCHANGED <<step, gas, at>>
    BY <1>2 DEF Finish
  <2>4. CASE k[1] = e
    BY <2>2, <2>3, <2>4 DEF Rests
  <2>5. CASE k[1] # e
    BY <2>1, <2>3, <2>5 DEF Rests
  <2> QED
    BY <2>4, <2>5
<1>3. ASSUME UNCHANGED jobVars
      PROVE  Rests(k)
  BY <1>3 DEF jobVars, Rests
<1>4. ASSUME NEW e \in Executions, Handle(e)
      PROVE  Rests(k)
  BY <1>2, <1>3, <1>4 DEF Handle, Accept, Refuse, RunFails, Disconnect
<1>5. Mine \/ FiveMinutes \/ (\E a \in Addresses : Deposit(a)) => UNCHANGED jobVars
  BY DEF Mine, FiveMinutes, Deposit
<1> QED
  BY <1>1, <1>3, <1>4, <1>5 DEF Next, vars

(***************************************************************************)
(* An execution starts once, and counts when another is at work.           *)
(***************************************************************************)
Starts(e) ==
    /\ phase[e] = "new" /\ phase' = [phase EXCEPT ![e] = "running"]
    /\ overlaps' = IF Busy THEN overlaps + 1 ELSE overlaps
    /\ UNCHANGED <<chainVars, jobVars>>

LEMMA PhaseSteps ==
    ASSUME SweepInv, [Next]_vars
    PROVE  \/ \E e \in Executions : Starts(e)
           \/ /\ overlaps' = overlaps
              /\ \A e \in Executions : /\ phase'[e] = "new" => phase[e] = "new"
                                       /\ phase'[e] = "running" => phase[e] = "running"
<1>1. phase \in [Executions -> {"new", "refused", "running", "failed", "done"}]
  BY DEF SweepInv, TypeOK
<1>2. ASSUME NEW f \in Executions, Handle(f), ~Accept(f)
      PROVE  /\ overlaps' = overlaps
             /\ \A e \in Executions : /\ phase'[e] = "new" => phase[e] = "new"
                                      /\ phase'[e] = "running" => phase[e] = "running"
  BY <1>1, <1>2 DEF Handle, Refuse, RunFails, Disconnect, Finish
<1>3. ASSUME NEW f \in Executions, Accept(f)
      PROVE  Starts(f)
  BY <1>3 DEF Accept, Starts
<1>4. ASSUME NEW j \in Jobs, processEntry(j)
      PROVE  UNCHANGED <<phase, overlaps>>
  BY <1>4, EntryStep DEF Works, handlerVars
<1>5. Mine \/ FiveMinutes \/ (\E a \in Addresses : Deposit(a)) => UNCHANGED <<phase, overlaps>>
  BY DEF Mine, FiveMinutes, Deposit, handlerVars
<1> QED
  BY <1>2, <1>3, <1>4, <1>5 DEF Next, vars, handlerVars
-----------------------------------------------------------------------------
(***************************************************************************)
(* The types.                                                              *)
(***************************************************************************)

(***************************************************************************)
(* What Mine does, for the transaction it mines.                           *)
(***************************************************************************)
Covered(tx) == tx.kind = "usdc" => tx.value <= usdc[tx.job[2]]

Mines(tx) ==
    /\ tx \in pool /\ tx.nonce = nonce[From(tx)]
    /\ pool' = pool \ {tx}
    /\ mined' = IF Covered(tx) THEN mined \cup {tx} ELSE mined
    /\ reverted' = IF Covered(tx) THEN reverted ELSE reverted \cup {tx}
    /\ nonce' = [nonce EXCEPT ![From(tx)] = @ + 1]
    /\ usdc' = [a \in Accounts |->
                   IF tx.kind = "usdc" /\ Covered(tx)
                   THEN IF a = Treasury THEN usdc[a] + tx.value
                        ELSE IF a = tx.job[2] THEN usdc[a] - tx.value ELSE usdc[a]
                   ELSE usdc[a]]
    /\ eth' = [a \in Accounts |->
                  IF a = From(tx) THEN eth[a] - Cost(tx)
                  ELSE IF a = tx.job[2] /\ tx.kind = "eth" THEN eth[a] + tx.value
                  ELSE eth[a]]
    /\ UNCHANGED <<replaced, handlerVars, jobVars>>

LEMMA MineStep ==
    ASSUME SweepInv, Mine
    PROVE  \E tx \in pool : Mines(tx)
<1> USE ConstantsAssumption DEF ConstantsAssumption
<1>1. PICK tx \in pool :
          LET from == From(tx)
              covered == tx.kind = "usdc" => usdc[from] >= tx.value
              moved == IF tx.kind = "usdc" /\ covered THEN tx.value ELSE 0
              sent == IF tx.kind = "eth" THEN tx.value ELSE 0
          IN  /\ tx.nonce = nonce[from]
              /\ pool' = pool \ {tx}
              /\ nonce' = [nonce EXCEPT ![from] = @ + 1]
              /\ usdc' = [a \in Accounts |-> IF a = Treasury THEN usdc[a] + moved
                                             ELSE IF a = from THEN usdc[a] - moved
                                             ELSE usdc[a]]
              /\ eth' = [a \in Accounts |-> IF a = from THEN eth[a] - Cost(tx)
                                            ELSE IF a = tx.job[2] THEN eth[a] + sent
                                            ELSE eth[a]]
              /\ mined' = IF covered THEN mined \cup {tx} ELSE mined
              /\ reverted' = IF covered THEN reverted ELSE reverted \cup {tx}
              /\ UNCHANGED <<replaced, handlerVars, jobVars>>
  BY DEF Mine
<1>2. tx \in Txs /\ usdc \in [Accounts -> Nat] /\ eth \in [Accounts -> Nat]
  BY DEF SweepInv, TypeOK
<1>3. tx.kind \in {"eth", "usdc"} /\ tx.value \in Nat /\ tx.job[2] # Treasury
  BY <1>2, TxParts
<1>4. tx.kind = "usdc" => From(tx) = tx.job[2]
  BY DEF From
<1>5. (tx.kind = "usdc" => usdc[From(tx)] >= tx.value) <=> Covered(tx)
  <2>1. usdc[From(tx)] \in Nat
    BY <1>2, TxParts
  <2> QED
    BY <1>3, <1>4, <2>1 DEF Covered
<1>6. /\ tx.nonce = nonce[From(tx)] /\ pool' = pool \ {tx}
      /\ mined' = IF Covered(tx) THEN mined \cup {tx} ELSE mined
      /\ reverted' = IF Covered(tx) THEN reverted ELSE reverted \cup {tx}
      /\ nonce' = [nonce EXCEPT ![From(tx)] = @ + 1]
      /\ UNCHANGED <<replaced, handlerVars, jobVars>>
  BY <1>1, <1>5
<1>7. usdc' = [a \in Accounts |->
                  IF tx.kind = "usdc" /\ Covered(tx)
                  THEN IF a = Treasury THEN usdc[a] + tx.value
                       ELSE IF a = tx.job[2] THEN usdc[a] - tx.value ELSE usdc[a]
                  ELSE usdc[a]]
  <2>1. CASE tx.kind = "usdc" /\ Covered(tx)
    BY <1>1, <1>4, <1>5, <2>1
  <2>2. CASE ~(tx.kind = "usdc" /\ Covered(tx))
    <3>1. usdc' = [a \in Accounts |-> IF a = Treasury THEN usdc[a] + 0
                                      ELSE IF a = From(tx) THEN usdc[a] - 0 ELSE usdc[a]]
      BY <1>1, <1>5, <2>2
    <3> QED
      BY <1>2, <2>2, <3>1
  <2> QED
    BY <2>1, <2>2
<1>8. eth' = [a \in Accounts |->
                 IF a = From(tx) THEN eth[a] - Cost(tx)
                 ELSE IF a = tx.job[2] /\ tx.kind = "eth" THEN eth[a] + tx.value
                 ELSE eth[a]]
  <2>1. CASE tx.kind = "usdc"
    BY <1>1, <1>4, <2>1
  <2>2. CASE tx.kind = "eth"
    BY <1>1, <2>2
  <2> QED
    BY <1>3, <2>1, <2>2
<1>9. Mines(tx)
  BY <1>6, <1>7, <1>8 DEF Mines
<1> QED
  BY <1>9

(***************************************************************************)
(* The sender of a transaction that waits can pay for it.                  *)
(***************************************************************************)
LEMMA CostCovered ==
    ASSUME SweepInv, NEW tx \in pool
    PROVE  /\ Due(From(tx)) \in Nat /\ Due(From(tx)) <= eth[From(tx)]
           /\ Cost(tx) <= Due(From(tx)) /\ Cost(tx) <= eth[From(tx)]
           /\ Total([t \in Pending(From(tx)) \ {tx} |-> Cost(t)]) = Due(From(tx)) - Cost(tx)
<1> DEFINE a == From(tx)
           costs == [t \in Pending(a) |-> Cost(t)]
<1>1. tx \in Txs /\ a \in Accounts /\ Cost(tx) \in Nat
  BY TxParts DEF SweepInv, TypeOK
<1>2. tx \in Pending(a) /\ IsFiniteSet(Pending(a))
  BY <1>1, PendingFinite DEF Pending
<1>3. costs \in [Pending(a) -> Nat]
  BY TxParts DEF Pending, SweepInv, TypeOK
<1>4. Due(a) <= eth[a] /\ eth[a] \in Nat
  BY <1>1 DEF SweepInv, Solvent, TypeOK
<1>5. [t \in Pending(a) \ {tx} |-> Cost(t)] = [t \in Pending(a) \ {tx} |-> costs[t]]
  OBVIOUS
<1>6. /\ Total([t \in Pending(a) \ {tx} |-> costs[t]]) \in Nat
      /\ Total(costs) = costs[tx] + Total([t \in Pending(a) \ {tx} |-> costs[t]])
  <2> HIDE DEF costs
  <2> QED
    BY <1>2, <1>3, TotalSplit
<1>7. costs[tx] = Cost(tx) /\ Due(a) = Total(costs)
  BY <1>2 DEF Due
<1>8. Total([t \in Pending(a) \ {tx} |-> Cost(t)]) \in Nat
  BY <1>5, <1>6
<1>9. Due(a) = Cost(tx) + Total([t \in Pending(a) \ {tx} |-> Cost(t)])
  BY <1>5, <1>6, <1>7
<1> HIDE DEF costs
<1> QED
  BY <1>1, <1>4, <1>8, <1>9

(***************************************************************************)
(* A transaction that a node has taken is never forgotten.                 *)
(***************************************************************************)
LEMMA KnownGrows ==
    ASSUME SweepInv, [Next]_vars
    PROVE  /\ Known' = Known \/ \E j \in Jobs, tx \in Txs : Sends(j, tx) /\ Known' = Known \cup {tx}
           /\ Known \subseteq Known'
<1>1. CASE Mine
  BY <1>1, MineStep DEF Mines, Known
<1>2. CASE \E j \in Jobs, tx \in Txs : Sends(j, tx)
  BY <1>2 DEF Sends, Put, Known
<1>3. CASE UNCHANGED <<pool, mined, reverted, replaced>>
  BY <1>3 DEF Known
<1> QED
  BY <1>1, <1>2, <1>3, ChainSteps DEF Deposit, chainVars

(***************************************************************************)
(* The accounts of the chain keep their types.                             *)
(***************************************************************************)
ChainTypes ==
    /\ usdc \in [Accounts -> Nat]
    /\ eth \in [Accounts -> Nat]
    /\ nonce \in [Accounts -> Nat]
    /\ Known \subseteq Txs /\ IsFiniteSet(Known)
    /\ \A tx \in pool \cup mined \cup reverted : tx.kind = "usdc" => tx.value >= MinUSD

LEMMA ChainTypeStep ==
    ASSUME SweepInv, [Next]_vars
    PROVE  ChainTypes'
<1> USE ConstantsAssumption DEF ConstantsAssumption
<1>1. ChainTypes
  BY DEF SweepInv, TypeOK, ChainTypes, Known
<1>2. Known' \subseteq Txs /\ IsFiniteSet(Known')
  BY <1>1, KnownGrows, FS_AddElement DEF ChainTypes
<1>3. CASE Mine
  <2>1. PICK tx \in pool : Mines(tx)
    BY <1>3, MineStep
  <2>2. tx \in Txs /\ From(tx) \in Accounts /\ tx.value \in Nat /\ Cost(tx) \in Nat
    BY <1>1, TxParts DEF ChainTypes, Known
  <2>3. usdc' \in [Accounts -> Nat]
    BY <1>1, <2>1, <2>2 DEF Mines, Covered, ChainTypes
  <2>4. Cost(tx) <= eth[From(tx)]
    BY CostCovered
  <2>5. eth' \in [Accounts -> Nat]
    BY <1>1, <2>1, <2>2, <2>4 DEF Mines, ChainTypes
  <2>6. nonce' \in [Accounts -> Nat]
    BY <1>1, <2>1, <2>2 DEF Mines, ChainTypes
  <2>7. pool' \cup mined' \cup reverted' \subseteq pool \cup mined \cup reverted
    BY <2>1 DEF Mines
  <2>8. \A t \in pool' \cup mined' \cup reverted' : t.kind = "usdc" => t.value >= MinUSD
    BY <1>1, <2>7 DEF ChainTypes
  <2> QED
    BY <1>2, <2>3, <2>5, <2>6, <2>8 DEF ChainTypes
<1>4. CASE \E a \in Addresses : Deposit(a)
  <2>1. PICK a \in Addresses, d \in Deposits :
            /\ usdc' = [usdc EXCEPT ![a] = @ + d]
            /\ UNCHANGED <<eth, nonce, pool, mined, reverted>>
    BY <1>4 DEF Deposit
  <2>2. usdc' \in [Accounts -> Nat]
    BY <1>1, <2>1 DEF ChainTypes, Accounts
  <2> QED
    BY <1>1, <1>2, <2>1, <2>2 DEF ChainTypes
<1>5. CASE \E j \in Jobs, tx \in Txs : Sends(j, tx)
  <2>1. PICK j \in Jobs, tx \in Txs : Sends(j, tx)
    BY <1>5
  <2>2. pool' \subseteq pool \cup {tx} /\ UNCHANGED <<usdc, eth, nonce, mined, reverted>>
    BY <2>1 DEF Sends, Put
  <2>3. tx.kind = "usdc" => tx.value >= MinUSD
    BY <2>1 DEF Sends, SweepInv, JobKnows, Knows, Funded
  <2> QED
    BY <1>1, <1>2, <2>2, <2>3 DEF ChainTypes
<1>6. CASE UNCHANGED chainVars
  BY <1>1, <1>2, <1>6 DEF chainVars, ChainTypes
<1> QED
  BY <1>3, <1>4, <1>5, <1>6, ChainSteps

(***************************************************************************)
(* So do all the others.                                                   *)
(***************************************************************************)
LEMMA TypeStep ==
    ASSUME SweepInv, [Next]_vars
    PROVE  TypeOK'
<1> USE ConstantsAssumption DEF ConstantsAssumption
<1>1. ChainTypes'
  BY ChainTypeStep
<1> DEFINE Phases == {"new", "refused", "running", "failed", "done"}
           HandlerTypes == /\ recent \in BOOLEAN /\ overlaps \in Nat
                           /\ phase \in [Executions -> Phases]
                           /\ gone \in [Executions -> BOOLEAN]
                           /\ report \in [Executions -> Nat]
           Shapes == /\ step = [j \in Jobs |-> step[j]] /\ amount = [j \in Jobs |-> amount[j]]
                     /\ gas = [j \in Jobs |-> gas[j]] /\ at = [j \in Jobs |-> at[j]]
                     /\ submitted = [j \in Jobs |-> submitted[j]]
<1>2. HandlerTypes /\ Shapes
  BY DEF SweepInv, TypeOK
<1>3. ASSUME NEW e \in Executions
      PROVE  Total(Reported(e)) \in Nat
  <2>1. Reported(e) \in [Addresses -> Nat]
    BY DEF Reported, SweepInv, TypeOK, Jobs
  <2> QED
    BY <2>1, TotalType
<1>4. HandlerTypes'
  <2>1. ASSUME NEW e \in Executions, Handle(e)
        PROVE  HandlerTypes'
    <3>1. CASE Accept(e)
      <4>1. overlaps' \in Nat
        BY <1>2, <3>1 DEF Accept
      <4> QED
        BY <1>2, <3>1, <4>1 DEF Accept
    <3>2. CASE Refuse(e) \/ RunFails(e) \/ Disconnect(e)
      BY <1>2, <3>2 DEF Refuse, RunFails, Disconnect
    <3>3. CASE Finish(e)
      BY <1>2, <1>3, <3>3 DEF Finish
    <3> QED
      BY <2>1, <3>1, <3>2, <3>3 DEF Handle
  <2>2. ASSUME NEW j \in Jobs, processEntry(j)
        PROVE  UNCHANGED handlerVars
    BY <2>2, EntryStep DEF Works
  <2>3. Mine \/ (\E a \in Addresses : Deposit(a)) => UNCHANGED handlerVars
    BY DEF Mine, Deposit
  <2>4. FiveMinutes => HandlerTypes'
    BY <1>2 DEF FiveMinutes
  <2> QED
    BY <1>2, <2>1, <2>2, <2>3, <2>4 DEF Next, vars, handlerVars
<1>5. Shapes'
  <2>1. ASSUME NEW j \in Jobs, processEntry(j)
        PROVE  Shapes'
    <3>1. /\ \/ UNCHANGED step
             \/ \E s \in CallSteps \cup {"end"} : step' = [step EXCEPT ![j] = s]
          /\ UNCHANGED gas \/ \E n : gas' = [gas EXCEPT ![j] = n]
          /\ UNCHANGED at \/ \E n : at' = [at EXCEPT ![j] = n]
          /\ UNCHANGED amount \/ \E n : amount' = [amount EXCEPT ![j] = n]
          /\ UNCHANGED submitted \/ \E n : submitted' = [submitted EXCEPT ![j] = n]
      <4> USE DEF Go, Return, CallSteps
      <4>1. CASE fundGas(j)
        BY <4>1 DEF fundGas, Send
      <4>2. CASE transferUSDC(j)
        BY <4>2 DEF transferUSDC, Send
      <4>3. CASE Begin(j) \/ ReadBalance(j) \/ ReadTreasury(j)
        BY <4>3 DEF Begin, ReadBalance, ReadTreasury
      <4>4. CASE ReadEth(j)
        BY <4>4 DEF ReadEth
      <4>5. CASE FundNonce(j) \/ TransferNonce(j)
        BY <4>5 DEF FundNonce, TransferNonce, ReadNonce
      <4>6. CASE waitForReceipt(j) \/ CallFails(j)
        BY <4>6 DEF waitForReceipt, CallFails
      <4> QED
        BY <2>1, <4>1, <4>2, <4>3, <4>4, <4>5, <4>6 DEF processEntry
    <3> QED
      BY <1>2, <3>1
  <2>2. ASSUME NEW e \in Executions, Handle(e)
        PROVE  Shapes'
    BY <1>2, <2>2 DEF Handle, Accept, Refuse, RunFails, Disconnect, Finish, jobVars
  <2>3. Mine \/ FiveMinutes \/ (\E a \in Addresses : Deposit(a)) => UNCHANGED jobVars
    BY DEF Mine, FiveMinutes, Deposit
  <2> QED
    BY <1>2, <2>1, <2>2, <2>3 DEF Next, vars, jobVars
<1>6. ASSUME NEW k \in Jobs
      PROVE  /\ step'[k] \in {"wait", "end"} \cup CallSteps
             /\ amount'[k] \in Nat /\ gas'[k] \in Nat /\ at'[k] \in Nat
  <2>1. /\ step[k] \in {"wait", "end"} \cup CallSteps
        /\ amount[k] \in Nat /\ gas[k] \in Nat /\ at[k] \in Nat
    BY DEF SweepInv, TypeOK
  <2>2. usdc[k[2]] \in Nat /\ PendingNonce(Treasury) \in Nat /\ PendingNonce(k[2]) \in Nat
    BY PendingFinite, JobParts DEF SweepInv, TypeOK, Accounts
  <2>3. CASE Rests(k)
    BY <2>1, <2>3 DEF Rests
  <2>4. CASE Returns(k)
    BY <2>1, <2>4 DEF Returns
  <2>5. CASE Submits(k)
    BY <2>1, <2>5 DEF Submits
  <2>6. CASE Reads(k)
    <3>1. \A p \in Prices : TransferGas * p \in Nat
      OBVIOUS
    <3> QED
      BY <2>1, <2>2, <2>6, <3>1 DEF Reads, CallSteps
  <2> QED
    BY <2>3, <2>4, <2>5, <2>6, JobSteps DEF Works
<1>7. ASSUME NEW k \in Jobs
      PROVE  submitted'[k] \in BOOLEAN
  <2>1. submitted[k] \in BOOLEAN
    BY DEF SweepInv, TypeOK
  <2>2. submitted'[k] = submitted[k] \/ submitted'[k] = FALSE \/ submitted'[k] = TRUE
    BY JobSteps DEF Works, Rests, Returns, Submits, Reads
  <2> QED
    BY <2>1, <2>2, Zenon
<1>8. /\ step' \in [Jobs -> {"wait", "end"} \cup CallSteps]
      /\ amount' \in [Jobs -> Nat] /\ gas' \in [Jobs -> Nat] /\ at' \in [Jobs -> Nat]
  BY <1>5, <1>6
<1>9. submitted' \in [Jobs -> BOOLEAN]
  BY <1>5, <1>7, Zenon
<1> HIDE DEF Shapes
<1> QED
  BY <1>1, <1>4, <1>8, <1>9 DEF TypeOK, ChainTypes, Known
-----------------------------------------------------------------------------
(***************************************************************************)
(* Nonces and money.                                                       *)
(***************************************************************************)

(* A goroutine read the nonce it sends with a while ago.                   *)
LEMMA SendsKnown ==
    ASSUME SweepInv, NEW j \in Jobs, NEW tx \in Txs, Sends(j, tx)
    PROVE  tx.nonce <= PendingNonce(From(tx)) /\ tx.nonce >= nonce[From(tx)]
<1>1. NonceKnown(j)
  BY DEF SweepInv
<1> QED
  BY <1>1 DEF Sends, Takes, NonceKnown, From

(***************************************************************************)
(* What a transaction that is sent makes of those that wait: the sender    *)
(* has one of each nonce, as before, and no gap.                           *)
(***************************************************************************)
LEMMA SendsPending ==
    ASSUME SweepInv, NEW j \in Jobs, NEW tx \in Txs, Sends(j, tx)
    PROVE  LET a == From(tx)
           IN  /\ \A b \in Accounts \ {a} : Pending(b)' = Pending(b)
               /\ Pending(a)' = {t \in Pending(a) : t.nonce # tx.nonce} \cup {tx}
               /\ \A t, s \in Pending(a)' : t.nonce = s.nonce => t = s
               /\ {t.nonce : t \in Pending(a)'} = nonce[a] .. (PendingNonce(a)' - 1)
               /\ PendingNonce(a)' >= PendingNonce(a)
               /\ PendingNonce(a)' \in Nat
<1> DEFINE a == From(tx)
           P == Pending(a)
           Q == Pending(a)'
           n == nonce[a]
<1>1. a \in Accounts /\ tx.nonce \in Nat
  BY TxParts
<1>2. /\ IsFiniteSet(P) /\ Cardinality(P) \in Nat /\ n \in Nat
      /\ PendingNonce(a) = n + Cardinality(P)
  BY <1>1, PendingFinite
<1>3. /\ \A t, s \in P : t.nonce = s.nonce => t = s
      /\ {t.nonce : t \in P} = n .. (PendingNonce(a) - 1)
  BY <1>1 DEF SweepInv, Consecutive
<1>4. n <= tx.nonce /\ tx.nonce <= PendingNonce(a)
  BY <1>1, <1>2, SendsKnown
<1>5. /\ \A b \in Accounts \ {a} : Pending(b)' = Pending(b)
      /\ Q = {t \in P : t.nonce # tx.nonce} \cup {tx}
  BY DEF Sends, Put, Pending, From
<1>6. PendingNonce(a)' = n + Cardinality(Q)
  BY DEF PendingNonce, Pending, Sends
<1>7. \A t, s \in Q : t.nonce = s.nonce => t = s
  BY <1>3, <1>5
<1> HIDE DEF a, P, Q, n
<1>8. CASE tx.nonce = PendingNonce(a)
  <2>1. \A t \in P : t.nonce \in n .. (PendingNonce(a) - 1)
    BY <1>3
  <2>2. \A t \in P : t.nonce # tx.nonce
    BY <1>2, <1>8, <2>1
  <2>3. Q = P \cup {tx} /\ tx \notin P
    BY <1>5, <2>2
  <2>4. Cardinality(Q) = Cardinality(P) + 1
    BY <1>2, <2>3, FS_AddElement
  <2>5. {t.nonce : t \in Q} = {t.nonce : t \in P} \cup {tx.nonce}
    BY <2>3
  <2>6. PendingNonce(a)' = PendingNonce(a) + 1
    BY <1>2, <1>6, <2>4
  <2>7. {t.nonce : t \in Q} = n .. (PendingNonce(a)' - 1)
    <3>1. PendingNonce(a) \in Nat /\ PendingNonce(a) >= n
      BY <1>2
    <3>2. \A M \in Nat : M >= n => (n .. (M - 1)) \cup {M} = n .. (M + 1 - 1)
      BY <1>2
    <3>3. {t.nonce : t \in Q} = (n .. (PendingNonce(a) - 1)) \cup {PendingNonce(a)}
      BY <1>3, <1>8, <2>5
    <3> QED
      BY <2>6, <3>1, <3>2, <3>3
  <2> QED
    BY <1>2, <1>5, <1>7, <2>6, <2>7 DEF a, P, Q, n
<1>9. CASE tx.nonce # PendingNonce(a)
  <2>1. tx.nonce \in n .. (PendingNonce(a) - 1)
    BY <1>1, <1>2, <1>4, <1>9
  <2>2. PICK s \in P : s.nonce = tx.nonce
    BY <1>3, <2>1
  <2>3. {t \in P : t.nonce # tx.nonce} = P \ {s}
    BY <1>3, <2>2
  <2>4. Q = (P \ {s}) \cup {tx} /\ tx \notin P \ {s}
    BY <1>5, <2>3
  <2>5. IsFiniteSet(P \ {s}) /\ Cardinality(P \ {s}) = Cardinality(P) - 1
    BY <1>2, FS_RemoveElement
  <2>6. Cardinality(Q) = Cardinality(P)
    <3>1. Cardinality((P \ {s}) \cup {tx}) = Cardinality(P \ {s}) + 1
      BY <2>4, <2>5, FS_AddElement
    <3> QED
      BY <1>2, <2>4, <2>5, <3>1
  <2>7. {t.nonce : t \in Q} = {t.nonce : t \in P}
    BY <2>2, <2>4
  <2>8. PendingNonce(a)' = PendingNonce(a)
    BY <1>2, <1>6, <2>6
  <2> QED
    BY <1>2, <1>3, <1>5, <1>7, <2>7, <2>8 DEF a, P, Q, n
<1> QED
  BY <1>8, <1>9

(***************************************************************************)
(* What mining makes of them: the first is gone, and the nonce of the next *)
(* transaction is what it was.                                             *)
(***************************************************************************)
LEMMA MinesPending ==
    ASSUME SweepInv, NEW tx \in pool, Mines(tx)
    PROVE  LET a == From(tx)
           IN  /\ \A b \in Accounts \ {a} : Pending(b)' = Pending(b) /\ nonce'[b] = nonce[b]
               /\ Pending(a)' = Pending(a) \ {tx} /\ tx \in Pending(a)
               /\ nonce'[a] = nonce[a] + 1
               /\ {t.nonce : t \in Pending(a)'} = nonce'[a] .. (PendingNonce(a)' - 1)
               /\ PendingNonce(a)' = PendingNonce(a)
               /\ PendingNonce(a)' \in Nat
<1> DEFINE a == From(tx)
           P == Pending(a)
           Q == Pending(a)'
<1>1. a \in Accounts /\ nonce \in [Accounts -> Nat]
  BY TxParts DEF SweepInv, TypeOK
<1>2. /\ IsFiniteSet(P) /\ Cardinality(P) \in Nat /\ nonce[a] \in Nat
      /\ PendingNonce(a) = nonce[a] + Cardinality(P)
  BY <1>1, PendingFinite
<1>3. /\ \A t, s \in P : t.nonce = s.nonce => t = s
      /\ {t.nonce : t \in P} = nonce[a] .. (PendingNonce(a) - 1)
  BY <1>1 DEF SweepInv, Consecutive
<1>4. /\ \A b \in Accounts \ {a} : Pending(b)' = Pending(b) /\ nonce'[b] = nonce[b]
      /\ nonce'[a] = nonce[a] + 1 /\ tx.nonce = nonce[a]
  BY <1>1 DEF Mines, Pending, From
<1>5. Q = P \ {tx} /\ tx \in P
  BY DEF Mines, Pending, From
<1>6. PendingNonce(a)' = nonce'[a] + Cardinality(Q)
  BY DEF PendingNonce, Pending
<1> HIDE DEF a, P, Q
<1>7. Cardinality(Q) = Cardinality(P) - 1
  BY <1>2, <1>5, FS_RemoveElement
<1>8. PendingNonce(a)' = PendingNonce(a)
  BY <1>2, <1>4, <1>6, <1>7
<1>9. {t.nonce : t \in Q} = {t.nonce : t \in P} \ {tx.nonce}
  BY <1>3, <1>5
<1>10. {t.nonce : t \in Q} = (nonce[a] + 1) .. (PendingNonce(a) - 1)
  BY <1>2, <1>3, <1>4, <1>9
<1> QED
  BY <1>2, <1>4, <1>5, <1>8, <1>10 DEF a, P, Q

(***************************************************************************)
(* Nonces stay consecutive, and the next one never goes down.              *)
(***************************************************************************)
LEMMA ConsecutiveStep ==
    ASSUME SweepInv, [Next]_vars
    PROVE  /\ Consecutive'
           /\ \A a \in Accounts : /\ PendingNonce(a) \in Nat /\ PendingNonce(a)' \in Nat
                                  /\ PendingNonce(a)' >= PendingNonce(a)
<1>1. \A a \in Accounts : PendingNonce(a) \in Nat
  BY PendingFinite
<1>2. ASSUME NEW a \in Accounts, Pending(a)' = Pending(a), nonce'[a] = nonce[a]
      PROVE  /\ PendingNonce(a)' = PendingNonce(a)
             /\ \A t, s \in Pending(a)' : t.nonce = s.nonce => t = s
             /\ {t.nonce : t \in Pending(a)'} = nonce'[a] .. (PendingNonce(a)' - 1)
  <2>1. PendingNonce(a)' = PendingNonce(a)
    BY <1>2 DEF PendingNonce, Pending
  <2> QED
    BY <1>2, <2>1 DEF SweepInv, Consecutive
<1>3. CASE UNCHANGED <<nonce, pool>>
  <2>1. \A a \in Accounts : Pending(a)' = Pending(a) /\ nonce'[a] = nonce[a]
    BY <1>3 DEF Pending
  <2> QED
    BY <1>1, <1>2, <2>1 DEF Consecutive
<1>4. CASE Mine
  <2>1. PICK tx \in pool : Mines(tx)
    BY <1>4, MineStep
  <2>2. \A a \in Accounts \ {From(tx)} : Pending(a)' = Pending(a) /\ nonce'[a] = nonce[a]
    BY <2>1, MinesPending
  <2>3. \A t, s \in Pending(From(tx))' : t.nonce = s.nonce => t = s
    BY <2>1, MinesPending, TxParts DEF SweepInv, Consecutive, TypeOK
  <2>4. ASSUME NEW a \in Accounts
        PROVE  /\ PendingNonce(a)' = PendingNonce(a)
               /\ \A t, s \in Pending(a)' : t.nonce = s.nonce => t = s
               /\ {t.nonce : t \in Pending(a)'} = nonce'[a] .. (PendingNonce(a)' - 1)
    BY <1>2, <2>1, <2>2, <2>3, MinesPending
  <2> QED
    BY <1>1, <2>4 DEF Consecutive
<1>5. CASE \E j \in Jobs, tx \in Txs : Sends(j, tx)
  <2>1. PICK j \in Jobs, tx \in Txs : Sends(j, tx)
    BY <1>5
  <2>2. /\ nonce' = nonce
        /\ \A a \in Accounts \ {From(tx)} : Pending(a)' = Pending(a)
    BY <2>1, SendsPending DEF Sends
  <2>3. ASSUME NEW a \in Accounts
        PROVE  /\ PendingNonce(a)' \in Nat /\ PendingNonce(a)' >= PendingNonce(a)
               /\ \A t, s \in Pending(a)' : t.nonce = s.nonce => t = s
               /\ {t.nonce : t \in Pending(a)'} = nonce'[a] .. (PendingNonce(a)' - 1)
    <3>1. CASE a = From(tx)
      BY <2>1, <2>2, <3>1, SendsPending
    <3>2. CASE a # From(tx)
      BY <1>1, <1>2, <2>2, <3>2
    <3> QED
      BY <3>1, <3>2
  <2> QED
    BY <1>1, <2>3 DEF Consecutive
<1> QED
  BY <1>3, <1>4, <1>5, ChainSteps DEF Deposit, chainVars

(***************************************************************************)
(* The nonce that a goroutine read stays known.                            *)
(***************************************************************************)
LEMMA NonceStep ==
    ASSUME SweepInv, [Next]_vars, NEW k \in Jobs
    PROVE  NonceKnown(k)'
<1>1. NonceKnown(k) /\ at[k] \in Nat
  BY DEF SweepInv, TypeOK
<1>2. k[2] \in Accounts /\ Treasury \in Accounts
  BY JobParts DEF Accounts
<1>3. /\ PendingNonce(k[2]) \in Nat /\ PendingNonce(k[2])' \in Nat
      /\ PendingNonce(k[2])' >= PendingNonce(k[2])
      /\ PendingNonce(Treasury) \in Nat /\ PendingNonce(Treasury)' \in Nat
      /\ PendingNonce(Treasury)' >= PendingNonce(Treasury)
  BY <1>2, ConsecutiveStep
<1>4. CASE Rests(k)
  BY <1>1, <1>3, <1>4 DEF Rests, NonceKnown
<1>5. CASE Works(k)
  BY <1>1, <1>3, <1>5 DEF Works, Returns, Submits, Reads, NonceKnown
<1> QED
  BY <1>4, <1>5, JobSteps

(***************************************************************************)
(* Every account can still pay for what it has sent.                       *)
(***************************************************************************)
LEMMA SolventStep ==
    ASSUME SweepInv, [Next]_vars
    PROVE  Solvent'
<1>1. eth \in [Accounts -> Nat] /\ Solvent /\ pool \subseteq Txs
  BY DEF SweepInv, TypeOK
<1>2. \A a \in Accounts : Due(a) \in Nat
  <2>1. ASSUME NEW a \in Accounts
        PROVE  Due(a) \in Nat
    <3>1. [t \in Pending(a) |-> Cost(t)] \in [Pending(a) -> Nat]
      BY <1>1, TxParts DEF Pending
    <3> QED
      BY <3>1, PendingFinite, TotalType DEF Due
  <2> QED
    BY <2>1
<1>3. ASSUME NEW a \in Accounts, Pending(a)' = Pending(a)
      PROVE  Due(a)' = Due(a)
  BY <1>3 DEF Due, Pending
<1>4. CASE UNCHANGED <<eth, pool>>
  <2>1. \A a \in Accounts : Pending(a)' = Pending(a)
    BY <1>4 DEF Pending
  <2> QED
    BY <1>1, <1>3, <1>4, <2>1 DEF Solvent
<1>5. CASE Mine
  <2>1. PICK tx \in pool : Mines(tx)
    BY <1>5, MineStep
  <2>2. tx \in Txs /\ From(tx) \in Accounts /\ Cost(tx) \in Nat /\ tx.value \in Nat
    BY <1>1, TxParts
  <2>3. ASSUME NEW a \in Accounts \ {From(tx)}
        PROVE  Due(a)' <= eth'[a]
    <3>1. Due(a)' = Due(a) /\ Due(a) <= eth[a] /\ eth[a] \in Nat /\ Due(a) \in Nat
      BY <1>1, <1>2, <1>3, <2>1, MinesPending DEF Solvent
    <3>2. eth'[a] = eth[a] \/ eth'[a] = eth[a] + tx.value
      BY <2>1 DEF Mines
    <3> QED
      BY <2>2, <3>1, <3>2
  <2>4. Due(From(tx))' = Due(From(tx)) - Cost(tx)
    <3>1. Pending(From(tx))' = Pending(From(tx)) \ {tx}
      BY <2>1, MinesPending
    <3> QED
      BY <3>1, CostCovered DEF Due
  <2>5. eth'[From(tx)] = eth[From(tx)] - Cost(tx)
    BY <2>1, <2>2 DEF Mines
  <2>6. Due(From(tx)) \in Nat /\ eth[From(tx)] \in Nat /\ Due(From(tx)) <= eth[From(tx)]
    BY <1>1, <1>2, <2>2 DEF Solvent
  <2>7. Due(From(tx))' <= eth'[From(tx)]
    BY <2>2, <2>4, <2>5, <2>6
  <2> QED
    BY <2>3, <2>7 DEF Solvent
<1>6. CASE \E j \in Jobs, tx \in Txs : Sends(j, tx)
  <2>1. PICK j \in Jobs, tx \in Txs : Sends(j, tx)
    BY <1>6
  <2> DEFINE a == From(tx)
             others == {t \in Pending(a) : t.nonce # tx.nonce}
             costs == [t \in Pending(a)' |-> Cost(t)]
  <2>2. a \in Accounts /\ eth' = eth
    BY <2>1, TxParts DEF Sends
  <2>3. Pending(a)' = others \cup {tx} /\ tx \notin others
    BY <2>1, SendsPending
  <2>4. eth[a] >= Cost(tx) + Total([t \in others |-> Cost(t)])
    <3>1. others = {t \in pool : From(t) = From(tx) /\ t.nonce # tx.nonce}
      BY DEF Pending
    <3> HIDE DEF others
    <3> QED
      BY <2>1, <3>1 DEF Sends, Takes
  <2>5. IsFiniteSet(Pending(a)') /\ tx \in Pending(a)' /\ Pending(a)' \ {tx} = others
    <3>1. IsFiniteSet(Pending(a))
      BY <2>2, PendingFinite
    <3>2. IsFiniteSet(others)
      BY <3>1, FS_Subset
    <3> HIDE DEF others
    <3> QED
      BY <2>3, <3>2, FS_AddElement
  <2>6. costs \in [Pending(a)' -> Nat] /\ costs[tx] = Cost(tx)
    BY <1>1, <2>5, TxParts, ChainTypeStep DEF Pending, ChainTypes
  <2>7. [t \in Pending(a)' \ {tx} |-> costs[t]] = [t \in others |-> Cost(t)]
    BY <2>5
  <2>8. Total(costs) = costs[tx] + Total([t \in Pending(a)' \ {tx} |-> costs[t]])
    <3> HIDE DEF costs
    <3> QED
      BY <2>5, <2>6, TotalSplit
  <2>9. Due(a)' = Total(costs)
    BY DEF Due, Pending
  <2>10. Due(a)' <= eth'[a]
    <3>1. Due(a)' = Cost(tx) + Total([t \in others |-> Cost(t)])
      BY <2>6, <2>7, <2>8, <2>9
    <3>2. Due(a)' \in Nat
      <4> HIDE DEF costs
      <4> QED
        BY <2>5, <2>6, <2>9, TotalType
    <3>3. eth[a] \in Nat
      BY <1>1, <2>2
    <3> QED
      BY <2>2, <2>4, <3>1, <3>2, <3>3
  <2>11. ASSUME NEW b \in Accounts \ {a}
         PROVE  Due(b)' <= eth'[b]
    BY <1>1, <1>3, <2>1, <2>2, SendsPending DEF Solvent
  <2> QED
    BY <2>10, <2>11 DEF Solvent
<1> QED
  BY <1>4, <1>5, <1>6, ChainSteps DEF Deposit, chainVars
-----------------------------------------------------------------------------
(***************************************************************************)
(* What a goroutine sends, and what it knows.                              *)
(***************************************************************************)

LEMMA OnceStep ==
    ASSUME SweepInv, [Next]_vars
    PROVE  Once'
<1>1. Once /\ Known \subseteq Txs /\ step \in [Jobs -> {"wait", "end"} \cup CallSteps]
  BY DEF SweepInv, TypeOK, Known
<1>2. ASSUME NEW t \in Known
      PROVE  /\ t.kind = "usdc" => step'[t.job] = "end"
             /\ t.kind = "eth" => step'[t.job] \in Funded
  <2> DEFINE k == t.job
  <2>1. k \in Jobs
    BY <1>1, TxParts
  <2>2. (t.kind = "usdc" => step[k] = "end") /\ (t.kind = "eth" => step[k] \in Funded)
    BY <1>1 DEF Once
  <2> HIDE DEF k
  <2>3. CASE Rests(k)
    BY <2>2, <2>3 DEF Rests, k
  <2>4. CASE Works(k)
    BY <2>2, <2>4 DEF Works, Returns, Submits, Reads, Funded, CallSteps, k
  <2> QED
    BY <2>1, <2>3, <2>4, JobSteps
<1>3. CASE Known' = Known
  BY <1>1, <1>2, <1>3 DEF Once
<1>4. ASSUME NEW j \in Jobs, NEW tx \in Txs, Sends(j, tx), Known' = Known \cup {tx}
      PROVE  Once'
  <2>1. /\ tx.job = j
        /\ (tx.kind = "usdc" => step'[j] = "end")
        /\ (tx.kind = "eth" => step'[j] \in Funded)
    BY <1>4 DEF Sends, Funded
  <2>2. \A s \in Known : ~(s.kind = tx.kind /\ s.job = tx.job)
    BY <1>1, <1>4 DEF Sends, Once, Funded
  <2> QED
    BY <1>1, <1>2, <1>4, <2>1, <2>2 DEF Once
<1> QED
  BY <1>3, <1>4, KnownGrows

LEMMA KnowsStep ==
    ASSUME SweepInv, [Next]_vars, NEW k \in Jobs
    PROVE  JobKnows(k)'
<1>1. /\ JobKnows(k) /\ amount[k] \in Nat /\ gas[k] \in Nat
      /\ step[k] \in {"wait", "end"} \cup CallSteps /\ k[1] \in Executions
      /\ usdc[k[2]] \in Nat /\ MinUSD \in Nat
  BY JobParts, ConstantsAssumption
     DEF SweepInv, TypeOK, Accounts, ConstantsAssumption
<1>2. phase'[k[1]] = "new" => step'[k] = "wait"
  <2>1. phase'[k[1]] = "new" => phase[k[1]] = "new"
    <3>1. ASSUME NEW e \in Executions, Starts(e)
          PROVE  phase'[k[1]] = "new" => phase[k[1]] = "new"
      BY <1>1, <3>1 DEF Starts, SweepInv, TypeOK
    <3>2. \/ \E e \in Executions : Starts(e)
          \/ \A e \in Executions : phase'[e] = "new" => phase[e] = "new"
      BY PhaseSteps
    <3>3. k[1] \in Executions
      BY <1>1
    <3> QED
      BY <3>1, <3>2, <3>3
  <2> QED
    BY <1>1, <2>1, JobSteps DEF JobKnows, Rests, Works
<1>3. step'[k] \in Knows => amount'[k] >= MinUSD
  <2>1. CASE Rests(k)
    BY <1>1, <2>1 DEF JobKnows, Rests, Knows, Funding, Funded
  <2>2. CASE Works(k)
    BY <1>1, <2>2 DEF JobKnows, Works, Returns, Submits, Reads, Knows, Funding, Funded
  <2> QED
    BY <2>1, <2>2, JobSteps
<1>4. step'[k] \in Funding => \E p \in Prices : gas'[k] = TransferGas * p
  <2>1. CASE Rests(k)
    BY <1>1, <2>1 DEF JobKnows, Rests
  <2>2. CASE Works(k)
    BY <1>1, <2>2 DEF JobKnows, Works, Returns, Submits, Reads, Funding
  <2> QED
    BY <2>1, <2>2, JobSteps
<1> QED
  BY <1>2, <1>3, <1>4 DEF JobKnows, Knows, Funding, Funded

LEMMA HashStep ==
    ASSUME SweepInv, [Next]_vars, NEW k \in Jobs
    PROVE  HashTrue(k)'
<1>1. HashTrue(k) /\ Known \subseteq Known'
  BY KnownGrows DEF SweepInv
<1>2. CASE submitted[k] /\ Rests(k)
  BY <1>1, <1>2 DEF HashTrue, Rests
<1>3. CASE ~submitted[k] /\ Rests(k)
  BY <1>3 DEF HashTrue, Rests
<1>4. CASE Submits(k)
  BY <1>4 DEF HashTrue, Submits, Sends, Put, Known
<1>5. CASE Returns(k) \/ Reads(k)
  BY <1>1, <1>5 DEF HashTrue, Returns, Reads, CallSteps
<1> QED
  BY <1>2, <1>3, <1>4, <1>5, JobSteps DEF Works
-----------------------------------------------------------------------------
(***************************************************************************)
(* The invariant.                                                          *)
(***************************************************************************)

LEMMA SweepInit == Init => SweepInv
<1> SUFFICES ASSUME Init PROVE SweepInv
  OBVIOUS
<1> USE ConstantsAssumption DEF ConstantsAssumption, Init
<1>1. TypeOK
  BY DEF TypeOK
<1>2. Known = {} /\ IsFiniteSet(Known)
  BY FS_EmptySet DEF Known
<1>3. \A a \in Accounts : Pending(a) = {}
  BY DEF Pending
<1>4. \A a \in Accounts : PendingNonce(a) = 0
  <2>1. ASSUME NEW a \in Accounts
        PROVE  PendingNonce(a) = 0
    <3>1. {t \in pool : From(t) = a} = {}
      OBVIOUS
    <3> QED
      BY <3>1, FS_EmptySet DEF PendingNonce
  <2> QED
    BY <2>1
<1>5. Consecutive
  BY <1>3, <1>4 DEF Consecutive
<1>6. Solvent
  <2>1. ASSUME NEW a \in Accounts
        PROVE  Due(a) = 0 /\ eth[a] \in Nat
    <3> DEFINE costs == [t \in Pending(a) |-> Cost(t)]
    <3>1. DOMAIN costs = Pending(a) /\ \A t \in Pending(a) : costs[t] = 0
      BY <1>3
    <3>2. Total(costs) = 0
      <4> HIDE DEF costs
      <4> QED
        BY <3>1, TotalZero
    <3> QED
      BY <1>1, <3>2 DEF Due, TypeOK
  <2> QED
    BY <2>1 DEF Solvent
<1>7. Once
  BY <1>2 DEF Once
<1>8. ASSUME NEW j \in Jobs
      PROVE  NonceKnown(j) /\ JobKnows(j) /\ HashTrue(j)
  BY DEF NonceKnown, JobKnows, HashTrue, Knows, Funding, Funded
<1> QED
  BY <1>1, <1>2, <1>5, <1>6, <1>7, <1>8 DEF SweepInv

LEMMA SweepStep == SweepInv /\ [Next]_vars => SweepInv'
<1> SUFFICES ASSUME SweepInv, [Next]_vars PROVE SweepInv'
  OBVIOUS
<1>1. TypeOK' /\ IsFiniteSet(Known)'
  BY TypeStep, ChainTypeStep DEF ChainTypes
<1>2. Solvent' /\ Consecutive' /\ Once'
  BY SolventStep, ConsecutiveStep, OnceStep
<1>3. \A j \in Jobs : NonceKnown(j)' /\ JobKnows(j)' /\ HashTrue(j)'
  BY NonceStep, KnowsStep, HashStep
<1> QED
  BY <1>1, <1>2, <1>3 DEF SweepInv

LEMMA SweepInvariant == Spec => []SweepInv
BY SweepInit, SweepStep, PTL DEF Spec

(***************************************************************************)
(* The types are right in every state; in particular no account goes below *)
(* zero, and no transfer is below the minimum (sweep.go:123-127).          *)
(***************************************************************************)
THEOREM TypeCorrect == Spec => []TypeOK
<1>1. SweepInv => TypeOK
  BY DEF SweepInv
<1> QED
  BY <1>1, SweepInvariant, PTL

(***************************************************************************)
(* However many goroutines send from the treasury, and however their reads *)
(* of the nonce interleave, no nonce is left out (sweep.go:247-282).       *)
(***************************************************************************)
THEOREM NoncesConsecutive == Spec => []NoNonceGap
<1>1. SweepInv => NoNonceGap
  <2> SUFFICES ASSUME SweepInv, NEW tx \in pool, NEW n \in nonce[From(tx)] .. tx.nonce
               PROVE  \E t \in pool : From(t) = From(tx) /\ t.nonce = n
    BY DEF NoNonceGap
  <2> DEFINE a == From(tx)
  <2>1. a \in Accounts /\ tx \in Pending(a) /\ tx.nonce \in Nat
    BY TxParts DEF Pending, SweepInv, TypeOK
  <2>2. {t.nonce : t \in Pending(a)} = nonce[a] .. (PendingNonce(a) - 1)
    BY <2>1 DEF SweepInv, Consecutive
  <2>3. tx.nonce \in nonce[a] .. (PendingNonce(a) - 1)
    BY <2>1, <2>2
  <2>4. nonce[a] \in Nat /\ PendingNonce(a) \in Nat
    BY <2>1, PendingFinite
  <2>5. n \in nonce[a] .. (PendingNonce(a) - 1)
    BY <2>1, <2>3, <2>4
  <2>6. PICK t \in Pending(a) : t.nonce = n
    BY <2>2, <2>5
  <2> QED
    BY <2>6 DEF Pending
<1> QED
  BY <1>1, SweepInvariant, PTL
-----------------------------------------------------------------------------
(***************************************************************************)
(* Failures.                                                               *)
(***************************************************************************)

(* The executions that may yet move USDC from a, by a goroutine or by a    *)
(* transfer that waits.                                                    *)
Open(a) ==
    {e \in Executions : \/ phase[e] = "running" /\ step[<<e, a>>] # "end"
                        \/ \E t \in pool : t.kind = "usdc" /\ t.job = <<e, a>>}

(* One of them means to move more than there is.                           *)
AtRisk(a) ==
    \/ \E e \in Executions : /\ phase[e] = "running" /\ step[<<e, a>>] \in Knows
                             /\ amount[<<e, a>>] > usdc[a]
    \/ \E t \in pool : t.kind = "usdc" /\ t.job[2] = a /\ t.value > usdc[a]

(* Those that failed and those that may: each but the first overlapped.    *)
Load(a) == Cardinality(Failed(a)) + Cardinality(Open(a))

FewFail(a) ==
    /\ Cardinality(Failed(a)) <= overlaps
    /\ Load(a) <= 1 + overlaps
    /\ AtRisk(a) => Load(a) <= overlaps

FailSizes ==
    \A a \in Addresses : /\ IsFiniteSet(Failed(a)) /\ Cardinality(Failed(a)) \in Nat
                         /\ IsFiniteSet(Open(a)) /\ Cardinality(Open(a)) \in Nat

LEMMA FailSized == SweepInv => FailSizes
<1> SUFFICES ASSUME SweepInv, NEW a \in Addresses
             PROVE  IsFiniteSet(Failed(a)) /\ IsFiniteSet(Open(a))
  BY FS_CardinalityType DEF FailSizes
<1>1. IsFiniteSet(Failed(a))
  BY FS_Subset DEF Failed, SweepInv, Known
<1>2. IsFiniteSet(Open(a))
  BY FS_Subset, ConstantsAssumption DEF Open, ConstantsAssumption
<1> QED
  BY <1>1, <1>2

LEMMA FailSizedNext == SweepInv' => FailSizes'
<1>1. (SweepInv => FailSizes)'
  BY FailSized, PTL
<1> QED
  BY <1>1

(***************************************************************************)
(* Nothing fails, and nobody comes to move anything.                       *)
(***************************************************************************)
LEMMA FailsSame ==
    ASSUME SweepInv, SweepInv', NEW a \in Addresses, FewFail(a), overlaps' >= overlaps,
           Failed(a)' \subseteq Failed(a), Open(a)' \subseteq Open(a),
           AtRisk(a)' => AtRisk(a)
    PROVE  FewFail(a)'
<1>1. /\ Cardinality(Failed(a)) \in Nat /\ Cardinality(Open(a)) \in Nat
      /\ Cardinality(Failed(a)') \in Nat /\ Cardinality(Open(a)') \in Nat
  BY FailSized, FailSizedNext DEF FailSizes
<1>2. /\ Cardinality(Failed(a)') <= Cardinality(Failed(a))
      /\ Cardinality(Open(a)') <= Cardinality(Open(a))
  BY FailSized, FS_Subset DEF FailSizes
<1>3. overlaps \in Nat /\ overlaps' \in Nat
  BY DEF SweepInv, TypeOK
<1> QED
  BY <1>1, <1>2, <1>3 DEF FewFail, Load

(***************************************************************************)
(* A transfer is mined, or replaced, and at most one fails.                *)
(***************************************************************************)
LEMMA FailsOne ==
    ASSUME SweepInv, SweepInv', NEW a \in Addresses, FewFail(a), overlaps' = overlaps,
           NEW e \in Open(a), Open(a)' \subseteq Open(a) \ {e},
           NEW x, Failed(a)' \subseteq Failed(a) \cup {x},
           \/ Failed(a)' \subseteq Failed(a)
           \/ AtRisk(a)
           \/ Open(a)' # {} /\ (AtRisk(a)' => AtRisk(a))
    PROVE  FewFail(a)'
<1>1. /\ Cardinality(Failed(a)) \in Nat /\ Cardinality(Open(a)) \in Nat
      /\ Cardinality(Failed(a)') \in Nat /\ Cardinality(Open(a)') \in Nat
      /\ IsFiniteSet(Failed(a)) /\ IsFiniteSet(Open(a)) /\ IsFiniteSet(Open(a)')
  BY FailSized, FailSizedNext DEF FailSizes
<1>2. overlaps \in Nat
  BY DEF SweepInv, TypeOK
<1>3. Cardinality(Open(a)') <= Cardinality(Open(a)) - 1
  <2>1. IsFiniteSet(Open(a) \ {e}) /\ Cardinality(Open(a) \ {e}) = Cardinality(Open(a)) - 1
    BY <1>1, FS_RemoveElement
  <2>2. Cardinality(Open(a)') <= Cardinality(Open(a) \ {e})
    BY <2>1, FS_Subset
  <2> QED
    BY <2>1, <2>2
<1>4. Cardinality(Failed(a)') <= Cardinality(Failed(a)) + 1
  <2>1. /\ IsFiniteSet(Failed(a) \cup {x})
        /\ \/ Cardinality(Failed(a) \cup {x}) = Cardinality(Failed(a))
           \/ Cardinality(Failed(a) \cup {x}) = Cardinality(Failed(a)) + 1
    BY <1>1, FS_AddElement
  <2>2. Cardinality(Failed(a)') <= Cardinality(Failed(a) \cup {x})
    BY <2>1, FS_Subset
  <2> QED
    BY <1>1, <2>1, <2>2
<1>5. CASE Failed(a)' \subseteq Failed(a)
  <2>1. Cardinality(Failed(a)') <= Cardinality(Failed(a))
    BY <1>1, <1>5, FS_Subset
  <2> QED
    BY <1>1, <1>2, <1>3, <2>1 DEF FewFail, Load
<1>6. CASE AtRisk(a)
  BY <1>1, <1>2, <1>3, <1>4, <1>6 DEF FewFail, Load
<1>7. CASE Open(a)' # {} /\ (AtRisk(a)' => AtRisk(a))
  <2>1. Cardinality(Open(a)') # 0
    BY <1>1, <1>7, FS_EmptySet
  <2> QED
    BY <1>1, <1>2, <1>3, <1>4, <1>7, <2>1 DEF FewFail, Load
<1> QED
  BY <1>5, <1>6, <1>7

(***************************************************************************)
(* Who has no goroutine and no transfer gets none but by a new execution,  *)
(* and a goroutine that reads a balance knows no more than there is.       *)
(***************************************************************************)
LEMMA OpenKept ==
    ASSUME SweepInv, SweepInv', [Next]_vars, NEW a \in Addresses,
           \A e \in Executions : phase'[e] = "running" => phase[e] = "running",
           \A t \in pool' \ pool : ~(t.kind = "usdc" /\ t.job[2] = a),
           usdc'[a] >= usdc[a]
    PROVE  Open(a)' \subseteq Open(a) /\ (AtRisk(a)' => AtRisk(a))
<1>1. usdc[a] \in Nat /\ usdc'[a] \in Nat /\ pool \subseteq Txs /\ pool' \subseteq Txs
  BY DEF SweepInv, TypeOK, Accounts
<1>2. ASSUME NEW e \in Executions
      PROVE  /\ step'[<<e, a>>] # "end" => step[<<e, a>>] # "end"
             /\ step'[<<e, a>>] \in Knows /\ amount'[<<e, a>>] > usdc'[a] =>
                   step[<<e, a>>] \in Knows /\ amount[<<e, a>>] > usdc[a]
  <2> DEFINE k == <<e, a>>
  <2>1. k \in Jobs /\ k[2] = a
    BY DEF Jobs
  <2>2. amount[k] \in Nat /\ amount'[k] \in Nat
    BY <2>1 DEF SweepInv, TypeOK
  <2> HIDE DEF k
  <2>3. CASE Rests(k)
    BY <1>1, <2>2, <2>3 DEF Rests, Knows, Funding, Funded, k
  <2>4. CASE Works(k)
    <3>1. step[k] # "end"
      BY <2>4 DEF Works, Returns, Submits, Reads, CallSteps
    <3>2. CASE Returns(k) \/ Submits(k)
      BY <3>1, <3>2 DEF Returns, Submits, Knows, Funding, Funded, k
    <3>3. CASE Reads(k)
      BY <1>1, <2>1, <2>2, <3>1, <3>3 DEF Reads, Knows, Funding, Funded, k
    <3> QED
      BY <2>4, <3>2, <3>3 DEF Works
  <2> QED
    BY <2>1, <2>3, <2>4, JobSteps
<1>3. \A e \in Executions, t \in pool' : t.kind = "usdc" /\ t.job = <<e, a>> => t \in pool
  OBVIOUS
<1>4. Open(a)' \subseteq Open(a)
  BY <1>2, <1>3 DEF Open
<1>5. ASSUME AtRisk(a)'
      PROVE  AtRisk(a)
  <2>1. CASE \E e \in Executions : /\ phase'[e] = "running" /\ step'[<<e, a>>] \in Knows
                                   /\ amount'[<<e, a>>] > usdc'[a]
    BY <1>2, <2>1 DEF AtRisk
  <2>2. CASE \E t \in pool' : t.kind = "usdc" /\ t.job[2] = a /\ t.value > usdc'[a]
    <3>1. PICK t \in pool' : t.kind = "usdc" /\ t.job[2] = a /\ t.value > usdc'[a]
      BY <2>2
    <3>2. t \in pool /\ t.value \in Nat
      BY <1>1, <3>1, TxParts
    <3> QED
      BY <1>1, <3>1, <3>2 DEF AtRisk
  <2> QED
    BY <1>5, <2>1, <2>2 DEF AtRisk
<1> QED
  BY <1>4, <1>5

(***************************************************************************)
(* Mining takes a transfer from those that may fail, and fails it only     *)
(* when it was at risk.                                                    *)
(***************************************************************************)
LEMMA MineFails ==
    ASSUME SweepInv, SweepInv', Mine, NEW a \in Addresses, FewFail(a)
    PROVE  FewFail(a)'
<1>1. PICK tx \in pool : Mines(tx)
  BY MineStep
<1>2. /\ tx \in Txs /\ tx.job \in Jobs /\ tx.job[1] \in Executions /\ tx.job[2] \in Addresses
      /\ tx.kind \in {"eth", "usdc"} /\ tx.value \in Nat
      /\ tx.job = <<tx.job[1], tx.job[2]>>
  BY TxParts, JobParts DEF SweepInv, TypeOK
<1>3. /\ a \in Accounts /\ a # Treasury /\ usdc \in [Accounts -> Nat] /\ usdc[a] \in Nat
  BY ConstantsAssumption DEF ConstantsAssumption, Accounts, SweepInv, TypeOK
<1>4. UNCHANGED <<phase, step, amount, overlaps, replaced>> /\ pool' \subseteq pool
  BY <1>1 DEF Mines, handlerVars, jobVars
<1>5. CASE ~(tx.kind = "usdc" /\ tx.job[2] = a)
  <2>1. usdc'[a] = usdc[a]
    BY <1>1, <1>3, <1>5 DEF Mines
  <2>2. Failed(a)' \subseteq Failed(a)
    <3>1. From(tx) # a
      BY <1>2, <1>3, <1>5 DEF From
    <3> QED
      BY <1>1, <1>4, <3>1 DEF Failed, Mines
  <2>3. Open(a)' \subseteq Open(a)
    BY <1>4 DEF Open
  <2>4. AtRisk(a)' => AtRisk(a)
    BY <1>4, <2>1 DEF AtRisk
  <2>5. overlaps' >= overlaps
    BY <1>4 DEF SweepInv, TypeOK
  <2> QED
    BY <2>2, <2>3, <2>4, <2>5, FailsSame
<1>6. CASE tx.kind = "usdc" /\ tx.job[2] = a
  <2> DEFINE e == tx.job[1]
  <2>1. tx.job = <<e, a>> /\ e \in Open(a)
    BY <1>2, <1>6 DEF Open
  <2>2. Open(a)' \subseteq Open(a) \ {e}
    <3>1. step[<<e, a>>] = "end"
      BY <1>6, <2>1 DEF SweepInv, Once, Known
    <3>2. \A t \in pool' : ~(t.kind = "usdc" /\ t.job = <<e, a>>)
      BY <1>1, <1>6, <2>1 DEF SweepInv, Once, Known, Mines
    <3>3. e \notin Open(a)'
      BY <1>4, <3>1, <3>2 DEF Open
    <3>4. Open(a)' \subseteq Open(a)
      BY <1>4 DEF Open
    <3> QED
      BY <3>3, <3>4
  <2>3. Failed(a)' \subseteq Failed(a) \cup {tx}
    BY <1>1, <1>4 DEF Failed, Mines
  <2>4. Failed(a)' \subseteq Failed(a) \/ AtRisk(a)
    <3>1. CASE Covered(tx)
      BY <1>1, <1>4, <3>1 DEF Failed, Mines
    <3>2. CASE ~Covered(tx)
      BY <1>2, <1>3, <1>6, <3>2 DEF Covered, AtRisk
    <3> QED
      BY <3>1, <3>2
  <2> HIDE DEF e
  <2> QED
    BY <1>4, <2>1, <2>2, <2>3, <2>4, FailsOne
<1> QED
  BY <1>5, <1>6

(***************************************************************************)
(* A transfer that is sent may take the place of one of another execution. *)
(***************************************************************************)
LEMMA SendFails ==
    ASSUME SweepInv, SweepInv', [Next]_vars, NEW a \in Addresses, FewFail(a),
           NEW j \in Jobs, NEW tx \in Txs, Sends(j, tx)
    PROVE  FewFail(a)'
<1> DEFINE same == {t \in pool : From(t) = From(tx) /\ t.nonce = tx.nonce}
<1>1. /\ pool' = (pool \ same) \cup {tx} /\ replaced' = replaced \cup same
      /\ UNCHANGED <<usdc, eth, nonce, mined, reverted>>
  BY DEF Sends, Put
<1>2. /\ a \in Accounts /\ a # Treasury /\ usdc[a] \in Nat /\ pool \subseteq Txs
  BY ConstantsAssumption DEF ConstantsAssumption, Accounts, SweepInv, TypeOK
<1>3. tx.job = j /\ phase[j[1]] = "running" /\ j[1] \in Executions /\ j = <<j[1], j[2]>>
  BY JobParts DEF Sends
<1>4. UNCHANGED <<phase, overlaps>>
  <2>1. tx \in pool' /\ tx \notin pool
    BY <1>1 DEF Sends, SweepInv, Once, Known, Funded
  <2>2. ~Starts(j[1]) /\ ~(UNCHANGED pool)
    BY <2>1 DEF Starts, chainVars
  <2>3. \A k \in Jobs : processEntry(k) => UNCHANGED handlerVars
    BY EntryStep DEF Works
  <2>4. (\E e \in Executions : Handle(e)) => UNCHANGED pool
    BY DEF Handle, Accept, Refuse, RunFails, Disconnect, Finish, chainVars
  <2>5. FiveMinutes \/ (\E b \in Addresses : Deposit(b)) => UNCHANGED pool
    BY DEF FiveMinutes, Deposit, chainVars
  <2>6. Mine => UNCHANGED handlerVars
    BY DEF Mine
  <2> QED
    BY <2>2, <2>3, <2>4, <2>5, <2>6 DEF Next, vars, chainVars, handlerVars
<1>5. usdc'[a] >= usdc[a] /\ overlaps' >= overlaps
  BY <1>1, <1>2, <1>4 DEF SweepInv, TypeOK
<1> HIDE DEF same
<1>6. CASE ~(tx.kind = "usdc" /\ tx.job[2] = a)
  <2>1. Open(a)' \subseteq Open(a) /\ (AtRisk(a)' => AtRisk(a))
    BY <1>1, <1>4, <1>5, <1>6, OpenKept
  <2>2. From(tx) # a
    BY <1>2, <1>6, TxParts DEF From
  <2>3. Failed(a)' \subseteq Failed(a)
    BY <1>1, <2>2 DEF Failed, same
  <2> QED
    BY <1>5, <2>1, <2>3, FailsSame
<1>7. CASE tx.kind = "usdc" /\ tx.job[2] = a
  <2>1. step[j] = "transfer" /\ tx.value = amount[j] /\ j = <<j[1], a>>
    BY <1>3, <1>7 DEF Sends
  <2>2. j[1] \in Open(a) /\ j[1] \in Open(a)'
    BY <1>1, <1>3, <1>7, <2>1 DEF Open
  <2>3. \A e \in Executions : step'[<<e, a>>] # "end" => step[<<e, a>>] # "end"
    <3>1. ASSUME NEW e \in Executions, step[<<e, a>>] = "end"
          PROVE  step'[<<e, a>>] = "end"
      <4>1. <<e, a>> \in Jobs
        BY DEF Jobs
      <4>2. Rests(<<e, a>>)
        BY <3>1, <4>1, JobSteps DEF Works, Returns, Submits, Reads, CallSteps
      <4> QED
        BY <3>1, <4>2 DEF Rests
    <3> QED
      BY <3>1
  <2>4. Open(a)' \subseteq Open(a)
    <3>1. ASSUME NEW e \in Executions, NEW t \in pool', t.kind = "usdc", t.job = <<e, a>>
          PROVE  e \in Open(a)
      <4>1. CASE t = tx
        BY <1>3, <2>1, <2>2, <3>1, <4>1
      <4>2. CASE t \in pool
        BY <3>1, <4>2 DEF Open
      <4> QED
        BY <1>1, <4>1, <4>2
    <3> QED
      BY <1>4, <2>3, <3>1 DEF Open
  <2>5. ASSUME AtRisk(a)'
        PROVE  AtRisk(a)
    <3>1. ASSUME NEW e \in Executions, phase[e] = "running", step'[<<e, a>>] \in Knows,
                 amount'[<<e, a>>] > usdc[a]
          PROVE  AtRisk(a)
      <4> DEFINE k == <<e, a>>
      <4>1. k \in Jobs /\ k[2] = a
        BY DEF Jobs
      <4>2. amount[k] \in Nat /\ amount'[k] \in Nat
        BY <4>1 DEF SweepInv, TypeOK
      <4>3. step[k] \in Knows /\ amount'[k] = amount[k]
        <5> HIDE DEF k
        <5>1. CASE Rests(k)
          BY <3>1, <5>1 DEF Rests, Knows, Funding, Funded, k
        <5>2. CASE Returns(k) \/ Submits(k)
          BY <3>1, <5>2 DEF Returns, Submits, Knows, Funding, Funded, k
        <5>3. CASE Reads(k)
          <6>1. step[k] # "balance"
            BY <1>2, <3>1, <4>1, <5>3 DEF Reads, k
          <6> QED
            BY <3>1, <5>3, <6>1 DEF Reads, Knows, Funding, Funded, k
        <5> QED
          BY <4>1, <5>1, <5>2, <5>3, JobSteps DEF Works
      <4> QED
        BY <3>1, <4>3 DEF AtRisk
    <3>2. ASSUME NEW t \in pool', t.kind = "usdc", t.job[2] = a, t.value > usdc[a]
          PROVE  AtRisk(a)
      <4>1. CASE t = tx
        BY <1>3, <2>1, <3>2, <4>1 DEF AtRisk, Knows, Funded
      <4>2. CASE t \in pool
        BY <3>2, <4>2 DEF AtRisk
      <4> QED
        BY <1>1, <4>1, <4>2
    <3> QED
      BY <1>1, <1>4, <2>5, <3>1, <3>2 DEF AtRisk
  <2>6. CASE same = {}
    <3>1. Failed(a)' \subseteq Failed(a)
      BY <1>1, <2>6 DEF Failed
    <3> QED
      BY <1>5, <2>4, <2>5, <3>1, FailsSame
  <2>7. ASSUME NEW s \in same
        PROVE  FewFail(a)'
    <3>1. s \in pool /\ From(s) = a /\ s \in Txs /\ From(tx) = a
      BY <1>2, <1>7, <2>7 DEF same, From
    <3>2. /\ s.kind = "usdc" /\ s.job[2] = a /\ s.job \in Jobs /\ s.job[1] \in Executions
          /\ s.job = <<s.job[1], a>>
      <4>1. s.kind = "usdc" /\ s.job[2] = a
        BY <1>2, <3>1, TxParts DEF From
      <4> QED
        BY <3>1, <4>1, TxParts, JobParts
    <3> DEFINE e == s.job[1]
    <3>3. e \in Open(a)
      BY <3>1, <3>2 DEF Open
    <3>4. same = {s}
      <4>1. same \subseteq Pending(a)
        BY <3>1 DEF same, Pending
      <4>2. \A t \in same : t = s
        BY <1>2, <2>7, <4>1 DEF same, SweepInv, Consecutive
      <4> QED
        BY <2>7, <4>2
    <3>5. e \notin Open(a)'
      <4>1. step[s.job] = "end" /\ s.job # j
        BY <2>1, <3>1, <3>2 DEF SweepInv, Once, Known
      <4>2. step'[<<e, a>>] = "end"
        BY <2>3, <3>2, <4>1
      <4>3. \A t \in pool' : ~(t.kind = "usdc" /\ t.job = <<e, a>>)
        <5>1. \A t \in pool \ {s} : ~(t.kind = "usdc" /\ t.job = s.job)
          BY <3>1, <3>2 DEF SweepInv, Once, Known
        <5> QED
          BY <1>1, <1>3, <3>2, <3>4, <4>1, <5>1
      <4> QED
        BY <4>2, <4>3 DEF Open
    <3>6. Failed(a)' \subseteq Failed(a) \cup {s}
      BY <1>1, <3>4 DEF Failed
    <3> HIDE DEF e
    <3> QED
      BY <1>4, <2>2, <2>4, <2>5, <3>3, <3>5, <3>6, FailsOne
  <2> QED
    BY <2>6, <2>7
<1> QED
  BY <1>6, <1>7

(***************************************************************************)
(* An execution that starts counts, if it finds anybody there.             *)
(***************************************************************************)
LEMMA StartFails ==
    ASSUME SweepInv, SweepInv', NEW a \in Addresses, FewFail(a),
           NEW f \in Executions, Starts(f)
    PROVE  FewFail(a)'
<1>1. /\ phase \in [Executions -> {"new", "refused", "running", "failed", "done"}]
      /\ overlaps \in Nat
  BY DEF SweepInv, TypeOK
<1>2. /\ UNCHANGED <<usdc, pool, reverted, replaced, step, amount>>
      /\ \A e \in Executions : phase'[e] = "running" <=> phase[e] = "running" \/ e = f
      /\ phase[f] = "new"
  BY <1>1 DEF Starts, chainVars, jobVars
<1>3. step[<<f, a>>] = "wait"
  <2>1. <<f, a>> \in Jobs
    BY DEF Jobs
  <2> QED
    BY <1>2, <2>1 DEF SweepInv, JobKnows
<1>4. Failed(a)' = Failed(a)
  BY <1>2 DEF Failed
<1>5. Open(a)' = Open(a) \cup {f}
  BY <1>2, <1>3 DEF Open
<1>6. AtRisk(a)' => AtRisk(a)
  BY <1>2, <1>3 DEF AtRisk, Knows, Funding, Funded
<1>7. /\ Cardinality(Failed(a)) \in Nat /\ Cardinality(Open(a)) \in Nat
      /\ IsFiniteSet(Open(a))
  BY FailSized DEF FailSizes
<1>8. Cardinality(Open(a) \cup {f}) \in {Cardinality(Open(a)), Cardinality(Open(a)) + 1}
  BY <1>7, FS_AddElement
<1>9. CASE Busy
  <2>1. overlaps' = overlaps + 1
    BY <1>9 DEF Starts
  <2> QED
    BY <1>1, <1>4, <1>5, <1>6, <1>7, <1>8, <2>1 DEF FewFail, Load
<1>10. CASE ~Busy
  <2>1. overlaps' = overlaps
    BY <1>10 DEF Starts
  <2>2. pool = {} /\ \A e \in Executions : phase[e] # "running"
    BY <1>10 DEF Busy
  <2>3. Open(a) = {} /\ ~AtRisk(a)
    BY <2>2 DEF Open, AtRisk
  <2>4. Cardinality(Open(a)) = 0
    BY <2>3, FS_EmptySet
  <2> QED
    BY <1>1, <1>4, <1>5, <1>6, <1>7, <1>8, <2>1, <2>3, <2>4 DEF FewFail, Load
<1> QED
  BY <1>9, <1>10

LEMMA FailsStep ==
    ASSUME SweepInv, SweepInv', [Next]_vars, NEW a \in Addresses, FewFail(a)
    PROVE  FewFail(a)'
<1>1. CASE Mine
  BY <1>1, MineFails
<1>2. CASE \E j \in Jobs, tx \in Txs : Sends(j, tx)
  BY <1>2, SendFails
<1>3. CASE \E e \in Executions : Starts(e)
  BY <1>3, StartFails
<1>4. ASSUME UNCHANGED <<pool, reverted, replaced>>, usdc'[a] >= usdc[a], overlaps' = overlaps,
             \A e \in Executions : phase'[e] = "running" => phase[e] = "running"
      PROVE  FewFail(a)'
  <2>1. Failed(a)' \subseteq Failed(a)
    BY <1>4 DEF Failed
  <2>2. Open(a)' \subseteq Open(a) /\ (AtRisk(a)' => AtRisk(a))
    BY <1>4, OpenKept
  <2>3. overlaps' >= overlaps
    BY <1>4 DEF SweepInv, TypeOK
  <2> QED
    BY <2>1, <2>2, <2>3, FailsSame
<1>5. usdc[a] \in Nat /\ a \in Accounts
  BY DEF SweepInv, TypeOK, Accounts
<1>6. CASE \E b \in Addresses : Deposit(b)
  <2>1. PICK b \in Addresses, d \in Deposits :
            /\ usdc' = [usdc EXCEPT ![b] = @ + d]
            /\ UNCHANGED <<pool, reverted, replaced, handlerVars>>
    BY <1>6 DEF Deposit
  <2>2. d \in Nat /\ usdc \in [Accounts -> Nat]
    BY ConstantsAssumption DEF ConstantsAssumption, SweepInv, TypeOK
  <2>3. usdc'[a] >= usdc[a]
    BY <1>5, <2>1, <2>2
  <2> QED
    BY <1>4, <2>1, <2>3 DEF handlerVars
<1>7. CASE UNCHANGED chainVars /\ ~\E e \in Executions : Starts(e)
  <2>1. usdc'[a] >= usdc[a]
    BY <1>5, <1>7 DEF chainVars
  <2>2. /\ overlaps' = overlaps
        /\ \A e \in Executions : phase'[e] = "running" => phase[e] = "running"
    BY <1>7, PhaseSteps
  <2> QED
    BY <1>4, <1>7, <2>1, <2>2 DEF chainVars
<1> QED
  BY <1>1, <1>2, <1>3, <1>6, <1>7, ChainSteps

(***************************************************************************)
(* From no address do more transfers revert, or get replaced, than         *)
(* executions have started while another, or its transactions, were under  *)
(* way (handler/sweep.go:122-131): alone, an execution loses none,         *)
(* whatever users deposit meanwhile and whatever fails.                    *)
(***************************************************************************)
THEOREM FailuresBounded == Spec => []FailuresByOverlap
<1> DEFINE Inv == \A a \in Addresses : FewFail(a)
<1>1. Init => Inv
  <2> SUFFICES ASSUME Init, NEW a \in Addresses PROVE FewFail(a)
    OBVIOUS
  <2>1. Failed(a) = {} /\ Open(a) = {} /\ ~AtRisk(a) /\ overlaps = 0
    BY DEF Init, Failed, Open, AtRisk
  <2> QED
    BY <2>1, FS_EmptySet DEF FewFail, Load
<1>2. SweepInv /\ SweepInv' /\ Inv /\ [Next]_vars => Inv'
  BY FailsStep
<1>3. Inv => FailuresByOverlap
  BY DEF FewFail, FailuresByOverlap
<1> HIDE DEF Inv
<1> QED
  BY <1>1, <1>2, <1>3, SweepInvariant, PTL DEF Spec
-----------------------------------------------------------------------------
(***************************************************************************)
(* Gas.                                                                    *)
(***************************************************************************)

(* The transactions with gas for a that wait.                              *)
GasFor(a) == {t \in pool : t.kind = "eth" /\ t.job[2] = a}

(* The executions that may yet send gas to a, and those about to do so.    *)
Asking(a) == {e \in Executions : phase[e] = "running" /\ step[<<e, a>>] \in Funding}
Claims(a) == {e \in Executions : /\ phase[e] = "running"
                                 /\ step[<<e, a>>] \in {"wait", "balance", "eth"} \cup Funding}

(* Each but the first overlapped.                                          *)
FewClaims(a) == Cardinality(GasFor(a)) + Cardinality(Claims(a)) <= 1 + overlaps

(* No funding is larger than most.                                         *)
GasPriced(most) == \A t \in pool : t.kind = "eth" => t.value <= most

(* What a has, and is to have, was asked for by those, but for less than   *)
(* what one of them found there.                                           *)
GasBelow(a, most) ==
    eth[a] + Coming(a) + Cardinality(Asking(a)) * most < (2 + overlaps) * most

GasInv(most) == GasPriced(most) /\ \A a \in Addresses : FewClaims(a) /\ GasBelow(a, most)

GasSums ==
    \A a \in Addresses :
        /\ IsFiniteSet(GasFor(a)) /\ Cardinality(GasFor(a)) \in Nat
        /\ IsFiniteSet(Claims(a)) /\ Cardinality(Claims(a)) \in Nat
        /\ IsFiniteSet(Asking(a)) /\ Cardinality(Asking(a)) \in Nat
        /\ [t \in GasFor(a) |-> t.value] \in [GasFor(a) -> Nat]
        /\ Coming(a) = Total([t \in GasFor(a) |-> t.value])
        /\ Coming(a) \in Nat /\ eth[a] \in Nat

LEMMA GasForSum == SweepInv => GasSums
<1> SUFFICES ASSUME SweepInv, NEW a \in Addresses
             PROVE  /\ IsFiniteSet(GasFor(a)) /\ IsFiniteSet(Claims(a)) /\ IsFiniteSet(Asking(a))
                    /\ [t \in GasFor(a) |-> t.value] \in [GasFor(a) -> Nat]
                    /\ Coming(a) = Total([t \in GasFor(a) |-> t.value])
                    /\ Coming(a) \in Nat /\ eth[a] \in Nat
  BY FS_CardinalityType DEF GasSums
<1>1. IsFiniteSet(GasFor(a))
  BY FS_Subset DEF GasFor, SweepInv, Known
<1>2. IsFiniteSet(Claims(a)) /\ IsFiniteSet(Asking(a))
  BY FS_Subset, ConstantsAssumption DEF Claims, Asking, ConstantsAssumption
<1>3. [t \in GasFor(a) |-> t.value] \in [GasFor(a) -> Nat]
  BY TxParts DEF GasFor, SweepInv, TypeOK
<1>4. Coming(a) = Total([t \in GasFor(a) |-> t.value])
  BY DEF Coming, GasFor
<1>5. eth[a] \in Nat
  BY DEF SweepInv, TypeOK, Accounts
<1> QED
  BY <1>1, <1>2, <1>3, <1>4, <1>5, TotalType

LEMMA GasForSumNext == SweepInv' => GasSums'
<1>1. (SweepInv => GasSums)'
  BY GasForSum, PTL
<1> QED
  BY <1>1

(***************************************************************************)
(* Multiples.                                                              *)
(***************************************************************************)
LEMMA Times ==
    ASSUME NEW m \in Nat, NEW n \in Nat, NEW k \in Nat
    PROVE  /\ n * m \in Nat
           /\ (n + 1) * m = n * m + m
           /\ (n + k) * m = n * m + k * m
           /\ n <= k => n * m <= k * m
OBVIOUS

(***************************************************************************)
(* An address with as much ETH and no more gas on its way has no more.     *)
(***************************************************************************)
LEMMA GasSmaller ==
    ASSUME SweepInv, SweepInv', NEW a \in Addresses,
           GasFor(a)' \subseteq GasFor(a), eth'[a] <= eth[a]
    PROVE  eth'[a] + Coming(a)' <= eth[a] + Coming(a)
<1> DEFINE values == [t \in GasFor(a) |-> t.value]
<1>1. IsFiniteSet(GasFor(a)) /\ values \in [GasFor(a) -> Nat] /\ Coming(a) = Total(values)
      /\ Coming(a) \in Nat /\ eth[a] \in Nat
  BY GasForSum DEF GasSums
<1>2. [t \in GasFor(a)' |-> t.value] = [t \in GasFor(a)' |-> values[t]]
  OBVIOUS
<1>3. Coming(a)' = Total([t \in GasFor(a)' |-> t.value])
  BY DEF Coming, GasFor
<1>4. eth'[a] \in Nat
  BY DEF SweepInv, TypeOK, Accounts
<1> HIDE DEF values
<1>5. /\ Total([t \in GasFor(a)' |-> values[t]]) <= Total(values)
      /\ Total([t \in GasFor(a)' |-> values[t]]) \in Nat
  BY <1>1, TotalSubset
<1>6. Coming(a)' <= Coming(a) /\ Coming(a)' \in Nat
  BY <1>1, <1>2, <1>3, <1>5
<1> QED
  BY <1>1, <1>4, <1>6

(***************************************************************************)
(* Another transaction adds no more than its value.                        *)
(***************************************************************************)
LEMMA GasLarger ==
    ASSUME SweepInv, SweepInv', NEW a \in Addresses,
           NEW tx \in GasFor(a)', GasFor(a)' \subseteq GasFor(a) \cup {tx}
    PROVE  Coming(a)' <= Coming(a) + tx.value
<1> DEFINE old == [t \in GasFor(a) |-> t.value]
           new == [t \in GasFor(a)' |-> t.value]
           rest == GasFor(a)' \ {tx}
<1>1. IsFiniteSet(GasFor(a)) /\ old \in [GasFor(a) -> Nat] /\ Coming(a) = Total(old)
  BY GasForSum DEF GasSums
<1>2. IsFiniteSet(GasFor(a)') /\ new \in [GasFor(a)' -> Nat] /\ Coming(a)' = Total(new)
  BY GasForSumNext DEF GasSums
<1>3. new[tx] = tx.value /\ rest \subseteq GasFor(a)
  OBVIOUS
<1>4. [t \in rest |-> new[t]] = [t \in rest |-> old[t]]
  BY <1>3
<1> HIDE DEF old, new
<1>5. Total(new) = new[tx] + Total([t \in rest |-> new[t]])
  BY <1>2, TotalSplit
<1>6. Total([t \in rest |-> old[t]]) <= Total(old) /\ Total([t \in rest |-> old[t]]) \in Nat
  BY <1>1, <1>3, TotalSubset
<1>7. Total(old) \in Nat /\ tx.value \in Nat
  BY <1>1, <1>2, <1>3, TotalType
<1> QED
  BY <1>1, <1>2, <1>3, <1>4, <1>5, <1>6, <1>7

(***************************************************************************)
(* Outside of the start of an execution nobody comes to claim gas, and who *)
(* comes to ask for it has found less than it takes.                       *)
(***************************************************************************)
LEMMA ClaimsStep ==
    ASSUME NEW most \in Nat, \A p \in Prices : TransferGas * p <= most,
           SweepInv, SweepInv', [Next]_vars, NEW a \in Addresses,
           \A e \in Executions : phase'[e] = "running" => phase[e] = "running"
    PROVE  /\ Claims(a)' \subseteq Claims(a)
           /\ Asking(a)' \subseteq Asking(a) \/ eth'[a] < most
<1>1. ASSUME NEW e \in Executions
      PROVE  /\ step'[<<e, a>>] \in {"wait", "balance", "eth"} \cup Funding =>
                   step[<<e, a>>] \in {"wait", "balance", "eth"} \cup Funding
             /\ step'[<<e, a>>] \in Funding => step[<<e, a>>] \in Funding \/ eth'[a] < most
  <2> DEFINE k == <<e, a>>
  <2>1. k \in Jobs /\ k[2] = a
    BY DEF Jobs
  <2>2. gas'[k] \in Nat /\ eth[a] \in Nat
    BY <2>1 DEF SweepInv, TypeOK, Accounts
  <2> HIDE DEF k
  <2>3. CASE Rests(k)
    BY <2>3 DEF Rests, k
  <2>4. CASE Works(k)
    <3>1. CASE Returns(k) \/ Submits(k)
      BY <3>1 DEF Returns, Submits, Funding, k
    <3>2. CASE Reads(k)
      <4>1. eth' = eth
        BY <2>4 DEF Works
      <4>2. CASE step[k] = "eth" /\ step'[k] = "treasury"
        <5>1. eth[a] < gas'[k] /\ \E p \in Prices : gas'[k] = TransferGas * p
          BY <2>1, <3>2, <4>2 DEF Reads
        <5>2. gas'[k] <= most
          BY <5>1
        <5>3. eth'[a] < most
          BY <2>2, <4>1, <5>1, <5>2
        <5> QED
          BY <4>2, <5>3 DEF k
      <4>3. CASE ~(step[k] = "eth" /\ step'[k] = "treasury")
        BY <3>2, <4>3 DEF Reads, Funding, k
      <4> QED
        BY <4>2, <4>3
    <3> QED
      BY <2>4, <3>1, <3>2 DEF Works
  <2> QED
    BY <2>1, <2>3, <2>4, JobSteps
<1>2. Claims(a)' \subseteq Claims(a)
  BY <1>1 DEF Claims
<1>3. Asking(a)' \subseteq Asking(a) \/ eth'[a] < most
  BY <1>1 DEF Asking
<1> QED
  BY <1>2, <1>3

(***************************************************************************)
(* The numbers are numbers.                                                *)
(***************************************************************************)
LEMMA GasCounts ==
    ASSUME SweepInv, SweepInv', NEW a \in Addresses
    PROVE  /\ IsFiniteSet(GasFor(a)) /\ Cardinality(GasFor(a)) \in Nat
           /\ IsFiniteSet(Claims(a)) /\ Cardinality(Claims(a)) \in Nat
           /\ IsFiniteSet(Asking(a)) /\ Cardinality(Asking(a)) \in Nat
           /\ Cardinality(GasFor(a)') \in Nat
           /\ IsFiniteSet(Claims(a)') /\ Cardinality(Claims(a)') \in Nat
           /\ Cardinality(Asking(a)') \in Nat
           /\ overlaps \in Nat /\ overlaps' \in Nat
<1>1. overlaps \in Nat /\ overlaps' \in Nat
  BY DEF SweepInv, TypeOK
<1> QED
  BY <1>1, GasForSum, GasForSumNext DEF GasSums

(***************************************************************************)
(* Who sends gas has claimed it until then, and does so no more.           *)
(***************************************************************************)
LEMMA SendClaims ==
    ASSUME SweepInv, SweepInv', [Next]_vars, NEW a \in Addresses,
           NEW j \in Jobs, NEW tx \in Txs, Sends(j, tx), tx.kind = "eth", tx.job[2] = a,
           \A e \in Executions : phase'[e] = "running" => phase[e] = "running"
    PROVE  /\ j[1] \in Claims(a) /\ j[1] \in Asking(a)
           /\ j[1] \notin Claims(a)' /\ j[1] \notin Asking(a)'
<1>1. j = <<j[1], a>> /\ j[1] \in Executions
  BY JobParts DEF Sends
<1>2. /\ step[<<j[1], a>>] = "fund" /\ step'[<<j[1], a>>] \in {"receipt", "end"}
      /\ phase[j[1]] = "running"
  BY <1>1 DEF Sends
<1> QED
  BY <1>1, <1>2 DEF Claims, Asking, Funding

(***************************************************************************)
(* Each claim, and each gas that waits, but the first is of an execution   *)
(* that overlapped.                                                        *)
(***************************************************************************)
LEMMA FewClaimsStep ==
    ASSUME NEW most \in Nat, \A p \in Prices : TransferGas * p <= most,
           SweepInv, SweepInv', [Next]_vars, NEW a \in Addresses, FewClaims(a)
    PROVE  FewClaims(a)'
<1>1. ASSUME GasFor(a)' \subseteq GasFor(a), Claims(a)' \subseteq Claims(a),
             overlaps' >= overlaps
      PROVE  FewClaims(a)'
  <2>1. /\ Cardinality(GasFor(a)') <= Cardinality(GasFor(a))
        /\ Cardinality(Claims(a)') <= Cardinality(Claims(a))
    BY <1>1, GasCounts, FS_Subset
  <2> QED
    BY <1>1, <2>1, GasCounts DEF FewClaims
<1>2. CASE \E e \in Executions : Starts(e)
  <2>1. PICK f \in Executions : Starts(f)
    BY <1>2
  <2>2. phase \in [Executions -> {"new", "refused", "running", "failed", "done"}]
    BY DEF SweepInv, TypeOK
  <2>3. /\ GasFor(a)' = GasFor(a) /\ Claims(a)' \subseteq Claims(a) \cup {f}
    BY <2>1, <2>2 DEF Starts, chainVars, jobVars, GasFor, Claims
  <2>4. Cardinality(Claims(a)') <= Cardinality(Claims(a)) + 1
    <3>1. /\ IsFiniteSet(Claims(a) \cup {f})
          /\ \/ Cardinality(Claims(a) \cup {f}) = Cardinality(Claims(a))
             \/ Cardinality(Claims(a) \cup {f}) = Cardinality(Claims(a)) + 1
      BY GasCounts, FS_AddElement
    <3>2. Cardinality(Claims(a)') <= Cardinality(Claims(a) \cup {f})
      BY <2>3, <3>1, FS_Subset
    <3> QED
      BY <3>1, <3>2, GasCounts
  <2>5. CASE Busy
    <3>1. overlaps' = overlaps + 1
      BY <2>1, <2>5 DEF Starts
    <3> QED
      BY <2>3, <2>4, <3>1, GasCounts DEF FewClaims
  <2>6. CASE ~Busy
    <3>1. GasFor(a) = {} /\ Claims(a) = {} /\ overlaps' = overlaps
      BY <2>1, <2>6 DEF Starts, Busy, GasFor, Claims
    <3>2. Cardinality(GasFor(a)) = 0 /\ Cardinality(Claims(a)) = 0
      BY <3>1, FS_EmptySet
    <3> QED
      BY <2>3, <2>4, <3>1, <3>2, GasCounts DEF FewClaims
  <2> QED
    BY <2>5, <2>6
<1>3. CASE ~\E e \in Executions : Starts(e)
  <2>1. /\ overlaps' = overlaps
        /\ \A e \in Executions : phase'[e] = "running" => phase[e] = "running"
    BY <1>3, PhaseSteps
  <2>2. Claims(a)' \subseteq Claims(a) /\ overlaps' >= overlaps
    BY <2>1, ClaimsStep, GasCounts
  <2>3. CASE pool' \subseteq pool
    <3>1. GasFor(a)' \subseteq GasFor(a)
      BY <2>3 DEF GasFor
    <3> QED
      BY <1>1, <2>2, <3>1
  <2>4. CASE \E j \in Jobs, tx \in Txs : Sends(j, tx)
    <3>1. PICK j \in Jobs, tx \in Txs : Sends(j, tx)
      BY <2>4
    <3>2. pool' \subseteq pool \cup {tx}
      BY <3>1 DEF Sends, Put
    <3>3. CASE ~(tx.kind = "eth" /\ tx.job[2] = a)
      <4>1. GasFor(a)' \subseteq GasFor(a)
        BY <3>2, <3>3 DEF GasFor
      <4> QED
        BY <1>1, <2>2, <4>1
    <3>4. CASE tx.kind = "eth" /\ tx.job[2] = a
      <4>1. GasFor(a)' \subseteq GasFor(a) \cup {tx}
        BY <3>2 DEF GasFor
      <4>2. Claims(a)' \subseteq Claims(a) \ {j[1]} /\ j[1] \in Claims(a)
        BY <2>1, <2>2, <3>1, <3>4, SendClaims
      <4>3. Cardinality(GasFor(a)') <= Cardinality(GasFor(a)) + 1
        <5>1. /\ IsFiniteSet(GasFor(a) \cup {tx})
              /\ \/ Cardinality(GasFor(a) \cup {tx}) = Cardinality(GasFor(a))
                 \/ Cardinality(GasFor(a) \cup {tx}) = Cardinality(GasFor(a)) + 1
          BY GasCounts, FS_AddElement
        <5>2. Cardinality(GasFor(a)') <= Cardinality(GasFor(a) \cup {tx})
          BY <4>1, <5>1, FS_Subset
        <5> QED
          BY <5>1, <5>2, GasCounts
      <4>4. Cardinality(Claims(a)') <= Cardinality(Claims(a)) - 1
        <5>1. /\ IsFiniteSet(Claims(a) \ {j[1]})
              /\ Cardinality(Claims(a) \ {j[1]}) = Cardinality(Claims(a)) - 1
          BY <4>2, GasCounts, FS_RemoveElement
        <5>2. Cardinality(Claims(a)') <= Cardinality(Claims(a) \ {j[1]})
          BY <4>2, <5>1, FS_Subset
        <5> QED
          BY <5>1, <5>2
      <4> QED
        BY <2>1, <4>3, <4>4, GasCounts DEF FewClaims
    <3> QED
      BY <3>3, <3>4
  <2>5. Mine => pool' \subseteq pool
    BY MineStep DEF Mines
  <2> QED
    BY <2>3, <2>4, <2>5, ChainSteps DEF Deposit, chainVars
<1> QED
  BY <1>2, <1>3

(***************************************************************************)
(* No funding is priced above the highest price.                           *)
(***************************************************************************)
LEMMA GasPricedStep ==
    ASSUME NEW most \in Nat, \A p \in Prices : TransferGas * p <= most,
           SweepInv, SweepInv', [Next]_vars, GasPriced(most)
    PROVE  GasPriced(most)'
<1>1. CASE pool' \subseteq pool
  BY <1>1 DEF GasPriced
<1>2. CASE \E j \in Jobs, tx \in Txs : Sends(j, tx)
  <2>1. PICK j \in Jobs, tx \in Txs : Sends(j, tx)
    BY <1>2
  <2>2. pool' \subseteq pool \cup {tx}
    BY <2>1 DEF Sends, Put
  <2>3. tx.kind = "eth" => tx.value <= most
    <3>1. tx.kind = "eth" => step[j] \in Funding /\ tx.value = gas[j]
      BY <2>1 DEF Sends, Funding
    <3>2. step[j] \in Funding => \E p \in Prices : gas[j] = TransferGas * p
      BY DEF SweepInv, JobKnows
    <3> QED
      BY <3>1, <3>2
  <2> QED
    BY <2>2, <2>3 DEF GasPriced
<1>3. Mine => pool' \subseteq pool
  BY MineStep DEF Mines
<1> QED
  BY <1>1, <1>2, <1>3, ChainSteps DEF Deposit, chainVars

(***************************************************************************)
(* Mining gas moves it from what is to come to what is there.              *)
(***************************************************************************)
LEMMA GasArrives ==
    ASSUME SweepInv, SweepInv', NEW tx \in pool, Mines(tx), tx.kind = "eth"
    PROVE  eth'[tx.job[2]] + Coming(tx.job[2])' = eth[tx.job[2]] + Coming(tx.job[2])
<1> DEFINE a == tx.job[2]
           values == [t \in GasFor(a) |-> t.value]
<1>1. tx.value \in Nat /\ a \in Addresses /\ a # Treasury
  BY TxParts DEF SweepInv, TypeOK
<1>2. /\ IsFiniteSet(GasFor(a)) /\ values \in [GasFor(a) -> Nat] /\ Coming(a) = Total(values)
      /\ Coming(a) \in Nat /\ eth[a] \in Nat
  BY <1>1, GasForSum DEF GasSums
<1>3. tx \in GasFor(a) /\ GasFor(a)' = GasFor(a) \ {tx}
  BY DEF GasFor, Mines
<1>4. Coming(a)' = Total([t \in GasFor(a) \ {tx} |-> values[t]])
  <2>1. Coming(a)' = Total([t \in GasFor(a)' |-> t.value])
    BY DEF Coming, GasFor, Mines
  <2>2. [t \in GasFor(a)' |-> t.value] = [t \in GasFor(a) \ {tx} |-> values[t]]
    BY <1>3
  <2> QED
    BY <2>1, <2>2
<1>5. values[tx] = tx.value
  BY <1>3
<1>6. eth'[a] = eth[a] + tx.value
  BY <1>1 DEF Mines, From, Accounts
<1> HIDE DEF values, a
<1>7. /\ Total(values) = values[tx] + Total([t \in GasFor(a) \ {tx} |-> values[t]])
      /\ Total([t \in GasFor(a) \ {tx} |-> values[t]]) \in Nat
  <2> DEFINE S == GasFor(a)
  <2>1. IsFiniteSet(S) /\ values \in [S -> Nat] /\ tx \in S
    BY <1>2, <1>3
  <2> HIDE DEF S
  <2>2. /\ Total(values) = values[tx] + Total([t \in S \ {tx} |-> values[t]])
        /\ Total([t \in S \ {tx} |-> values[t]]) \in Nat
    BY ONLY <2>1, TotalSplit
  <2> QED
    BY <2>2 DEF S
<1>8. eth'[a] + Coming(a)' = eth[a] + Coming(a)
  BY <1>1, <1>2, <1>4, <1>5, <1>6, <1>7
<1> QED
  BY <1>8 DEF a

(***************************************************************************)
(* An address poorer than most has what is to come, which is no more than  *)
(* the claims allow.                                                       *)
(***************************************************************************)
LEMMA GasPoor ==
    ASSUME NEW most \in Nat, SweepInv, NEW a \in Addresses, FewClaims(a), GasPriced(most),
           eth[a] < most
    PROVE  GasBelow(a, most)
<1> DEFINE g == Cardinality(GasFor(a))
           c == Cardinality(Claims(a))
           k == Cardinality(Asking(a))
           values == [t \in GasFor(a) |-> t.value]
<1>1. /\ g \in Nat /\ c \in Nat /\ k \in Nat /\ overlaps \in Nat
      /\ eth[a] \in Nat /\ Coming(a) \in Nat
  BY GasForSum DEF GasSums, SweepInv, TypeOK
<1>2. Coming(a) <= g * most
  <2>1. /\ IsFiniteSet(GasFor(a)) /\ values \in [GasFor(a) -> Nat]
        /\ Coming(a) = Total(values)
    BY GasForSum DEF GasSums
  <2>2. \A t \in GasFor(a) : values[t] <= most
    BY DEF GasPriced, GasFor
  <2> HIDE DEF values
  <2> QED
    BY <2>1, <2>2, TotalBounded
<1>3. k <= c
  <2>1. Asking(a) \subseteq Claims(a) /\ IsFiniteSet(Claims(a))
    BY GasForSum DEF Asking, Claims, GasSums
  <2> QED
    BY <2>1, FS_Subset
<1>4. g + c <= 1 + overlaps
  BY DEF FewClaims
<1> HIDE DEF g, c, k
<1>5. g + k <= 1 + overlaps
  BY <1>1, <1>3, <1>4
<1>6. (g + k) * most = g * most + k * most /\ (g + k) * most <= (1 + overlaps) * most
  BY ONLY most \in Nat, <1>1, <1>5, Times
<1>7. (2 + overlaps) * most = (1 + overlaps) * most + most
  BY ONLY most \in Nat, <1>1
<1>8. g * most \in Nat /\ k * most \in Nat /\ (1 + overlaps) * most \in Nat
  BY ONLY most \in Nat, <1>1, Times
<1>9. eth[a] + Coming(a) + k * most < (2 + overlaps) * most
  BY <1>1, <1>2, <1>6, <1>7, <1>8
<1> QED
  BY <1>9 DEF GasBelow, k

PoorBelow(most) ==
    \A a \in Addresses :
        FewClaims(a) /\ GasPriced(most) /\ eth[a] < most => GasBelow(a, most)

LEMMA GasPoorNext ==
    ASSUME NEW most \in Nat
    PROVE  SweepInv' => PoorBelow(most)'
<1>1. SweepInv => PoorBelow(most)
  BY GasPoor DEF PoorBelow
<1>2. (SweepInv => PoorBelow(most))'
  BY <1>1, PTL
<1> QED
  BY <1>2

(***************************************************************************)
(* What is there, is to come and is asked for grows in no other way.       *)
(***************************************************************************)
LEMMA GasBelowStep ==
    ASSUME NEW most \in Nat, \A p \in Prices : TransferGas * p <= most,
           SweepInv, SweepInv', [Next]_vars, NEW a \in Addresses,
           FewClaims(a)', GasPriced(most)', GasBelow(a, most)
    PROVE  GasBelow(a, most)'
<1>1. /\ overlaps \in Nat /\ overlaps' \in Nat /\ eth[a] \in Nat /\ eth'[a] \in Nat
      /\ Coming(a) \in Nat /\ Coming(a)' \in Nat
      /\ Cardinality(Asking(a)) \in Nat /\ Cardinality(Asking(a)') \in Nat
  BY GasCounts, GasForSum, GasForSumNext DEF GasSums
<1>2. ASSUME overlaps' >= overlaps, NEW k \in Nat, Cardinality(Asking(a)') <= k,
             eth'[a] + Coming(a)' + k * most <=
                 eth[a] + Coming(a) + Cardinality(Asking(a)) * most
      PROVE  GasBelow(a, most)'
  <2>1. /\ Cardinality(Asking(a)') * most <= k * most
        /\ Cardinality(Asking(a)') * most \in Nat /\ k * most \in Nat
        /\ Cardinality(Asking(a)) * most \in Nat
        /\ (2 + overlaps) * most \in Nat /\ (2 + overlaps') * most \in Nat
        /\ (2 + overlaps) * most <= (2 + overlaps') * most
    BY ONLY most \in Nat, <1>1, <1>2, Times
  <2>2. eth[a] + Coming(a) + Cardinality(Asking(a)) * most < (2 + overlaps) * most
    BY DEF GasBelow
  <2>3. eth'[a] + Coming(a)' + Cardinality(Asking(a)') * most < (2 + overlaps') * most
    BY <1>1, <1>2, <2>1, <2>2
  <2> QED
    BY <2>3 DEF GasBelow
<1>3. ASSUME overlaps' >= overlaps, Asking(a)' \subseteq Asking(a),
             eth'[a] + Coming(a)' <= eth[a] + Coming(a)
      PROVE  GasBelow(a, most)'
  <2>1. Cardinality(Asking(a)') <= Cardinality(Asking(a))
    BY <1>3, GasCounts, FS_Subset
  <2>2. Cardinality(Asking(a)) * most \in Nat
    BY <1>1
  <2> QED
    BY <1>1, <1>2, <1>3, <2>1, <2>2
<1>4. CASE \E e \in Executions : Starts(e)
  <2>1. PICK f \in Executions : Starts(f)
    BY <1>4
  <2>2. UNCHANGED <<eth, pool, step>> /\ overlaps' >= overlaps
    BY <1>1, <2>1 DEF Starts, chainVars, jobVars
  <2>3. Asking(a)' \subseteq Asking(a)
    <3>1. <<f, a>> \in Jobs /\ phase[f] = "new"
      BY <2>1 DEF Jobs, Starts
    <3>2. step[<<f, a>>] = "wait"
      BY <3>1 DEF SweepInv, JobKnows
    <3>3. \A e \in Executions \ {f} : phase'[e] = phase[e]
      BY <2>1 DEF Starts, SweepInv, TypeOK
    <3> QED
      BY <2>2, <3>2, <3>3 DEF Asking, Funding
  <2>4. eth'[a] + Coming(a)' <= eth[a] + Coming(a)
    <3>1. GasFor(a)' \subseteq GasFor(a) /\ eth'[a] <= eth[a]
      BY <1>1, <2>2 DEF GasFor
    <3> QED
      BY <3>1, GasSmaller
  <2> QED
    BY <1>3, <2>2, <2>3, <2>4
<1>5. CASE (~\E e \in Executions : Starts(e)) /\ ~(eth'[a] < most)
  <2>1. /\ overlaps' = overlaps
        /\ \A e \in Executions : phase'[e] = "running" => phase[e] = "running"
    BY <1>5, PhaseSteps
  <2>2. Asking(a)' \subseteq Asking(a)
    BY <1>5, <2>1, ClaimsStep
  <2>3. overlaps' >= overlaps
    BY <1>1, <2>1
  <2>4. ASSUME GasFor(a)' \subseteq GasFor(a), eth'[a] <= eth[a]
        PROVE  GasBelow(a, most)'
    BY <1>3, <2>2, <2>3, <2>4, GasSmaller
  <2>5. CASE Mine
    <3>1. PICK tx \in pool : Mines(tx)
      BY <2>5, MineStep
    <3>2. CASE tx.kind = "eth" /\ tx.job[2] = a
      <4>1. eth'[a] + Coming(a)' = eth[a] + Coming(a)
        BY <3>1, <3>2, GasArrives
      <4> QED
        BY <1>1, <1>3, <2>2, <2>3, <4>1
    <3>3. CASE ~(tx.kind = "eth" /\ tx.job[2] = a)
      <4>1. a \in Accounts /\ Cost(tx) \in Nat
        BY TxParts DEF Accounts, SweepInv, TypeOK
      <4>2. eth'[a] = eth[a] - Cost(tx) \/ eth'[a] = eth[a]
        BY <3>1, <3>3, <4>1 DEF Mines
      <4>3. GasFor(a)' \subseteq GasFor(a) /\ eth'[a] <= eth[a]
        BY <1>1, <3>1, <4>1, <4>2 DEF GasFor, Mines
      <4> QED
        BY <2>4, <4>3
    <3> QED
      BY <3>2, <3>3
  <2>6. CASE \E j \in Jobs, tx \in Txs : Sends(j, tx)
    <3>1. PICK j \in Jobs, tx \in Txs : Sends(j, tx)
      BY <2>6
    <3>2. pool' \subseteq pool \cup {tx} /\ tx \in pool' /\ eth' = eth
      BY <3>1 DEF Sends, Put
    <3>3. CASE ~(tx.kind = "eth" /\ tx.job[2] = a)
      <4>1. GasFor(a)' \subseteq GasFor(a) /\ eth'[a] <= eth[a]
        BY <1>1, <3>2, <3>3 DEF GasFor
      <4> QED
        BY <2>4, <4>1
    <3>4. CASE tx.kind = "eth" /\ tx.job[2] = a
      <4>1. tx \in GasFor(a)' /\ GasFor(a)' \subseteq GasFor(a) \cup {tx}
        BY <3>2, <3>4 DEF GasFor
      <4>2. Coming(a)' <= Coming(a) + tx.value
        BY <4>1, GasLarger
      <4>3. tx.value <= most /\ tx.value \in Nat
        BY <3>2, <3>4, TxParts DEF GasPriced
      <4> DEFINE k == Cardinality(Asking(a)) - 1
      <4>4. Asking(a)' \subseteq Asking(a) \ {j[1]} /\ j[1] \in Asking(a)
        BY <2>1, <2>2, <3>1, <3>4, SendClaims
      <4>5. Cardinality(Asking(a)') <= k
        <5>1. /\ IsFiniteSet(Asking(a) \ {j[1]})
              /\ Cardinality(Asking(a) \ {j[1]}) = Cardinality(Asking(a)) - 1
          BY <4>4, GasCounts, FS_RemoveElement
        <5>2. Cardinality(Asking(a)') <= Cardinality(Asking(a) \ {j[1]})
          BY <4>4, <5>1, FS_Subset
        <5> QED
          BY <5>1, <5>2
      <4>6. k \in Nat /\ Cardinality(Asking(a)) = k + 1
        BY <1>1, <4>5
      <4> HIDE DEF k
      <4>7. Cardinality(Asking(a)) * most = k * most + most /\ k * most \in Nat
        BY ONLY most \in Nat, <4>6, Times
      <4>8. eth'[a] + Coming(a)' + k * most <=
                eth[a] + Coming(a) + Cardinality(Asking(a)) * most
        BY <1>1, <3>2, <4>2, <4>3, <4>7
      <4> QED
        BY <1>2, <2>3, <4>5, <4>6, <4>8
    <3> QED
      BY <3>3, <3>4
  <2>7. CASE UNCHANGED <<eth, pool>>
    <3>1. GasFor(a)' \subseteq GasFor(a) /\ eth'[a] <= eth[a]
      BY <1>1, <2>7 DEF GasFor
    <3> QED
      BY <2>4, <3>1
  <2> QED
    BY <2>5, <2>6, <2>7, ChainSteps DEF Deposit, chainVars
<1>6. CASE eth'[a] < most
  BY <1>6, GasPoorNext DEF PoorBelow
<1> QED
  BY <1>4, <1>5, <1>6

(***************************************************************************)
(* No address is ever sent gas twice before it uses it, but once for each  *)
(* execution that overlapped, whatever fails or times out and however the  *)
(* price of gas moves (sweep.go:145-180, handler/sweep.go:124).            *)
(***************************************************************************)
THEOREM GasByOverlap == Spec => []GasFundedOnce
<1>1. PICK top \in Prices : top # 0 /\ \A p \in Prices : p <= top
  BY ConstantsAssumption DEF ConstantsAssumption
<1>2. /\ top \in Nat \ {0} /\ TransferGas \in Nat \ {0} /\ Treasury \notin Addresses
      /\ Prices \subseteq Nat
  BY <1>1, ConstantsAssumption DEF ConstantsAssumption
<1> DEFINE most == TransferGas * top
<1>3. most \in Nat /\ most > 0 /\ \A p \in Prices : TransferGas * p <= most
  BY <1>1, <1>2
<1> HIDE DEF most
<1>4. Init => GasInv(most)
  <2> SUFFICES ASSUME Init PROVE GasInv(most)
    OBVIOUS
  <2>1. pool = {} /\ overlaps = 0 /\ SweepInv
    BY SweepInit DEF Init
  <2>2. ASSUME NEW a \in Addresses PROVE FewClaims(a) /\ GasBelow(a, most)
    <3>1. GasFor(a) = {} /\ Claims(a) = {}
      BY <2>1 DEF Init, GasFor, Claims
    <3>2. Cardinality(GasFor(a)) = 0 /\ Cardinality(Claims(a)) = 0
      BY <3>1, FS_EmptySet
    <3>3. FewClaims(a)
      BY <2>1, <3>2 DEF FewClaims
    <3>4. eth[a] = 0
      BY <1>2 DEF Init, Accounts
    <3> QED
      BY <1>3, <2>1, <3>3, <3>4, GasPoor DEF GasPriced
  <2> QED
    BY <2>1, <2>2 DEF GasInv, GasPriced
<1>5. SweepInv /\ SweepInv' /\ GasInv(most) /\ [Next]_vars => GasInv(most)'
  <2> SUFFICES ASSUME SweepInv, SweepInv', GasInv(most), [Next]_vars
               PROVE  GasInv(most)'
    OBVIOUS
  <2>1. GasPriced(most)'
    BY <1>3, GasPricedStep DEF GasInv
  <2>2. \A a \in Addresses : FewClaims(a)'
    BY <1>3, FewClaimsStep DEF GasInv
  <2>3. \A a \in Addresses : GasBelow(a, most)'
    BY <1>3, <2>1, <2>2, GasBelowStep DEF GasInv
  <2> QED
    BY <2>1, <2>2, <2>3 DEF GasInv
<1>6. SweepInv /\ GasInv(most) => GasFundedOnce
  <2> SUFFICES ASSUME SweepInv, GasInv(most), NEW a \in Addresses
               PROVE  eth[a] + Coming(a) < (2 + overlaps) * TransferGas * top
    BY <1>1 DEF GasFundedOnce
  <2>1. /\ overlaps \in Nat /\ eth[a] \in Nat /\ Coming(a) \in Nat
        /\ Cardinality(Asking(a)) * most \in Nat
    BY <1>3, GasForSum, Times DEF GasSums, SweepInv, TypeOK
  <2>2. eth[a] + Coming(a) + Cardinality(Asking(a)) * most < (2 + overlaps) * most
    BY DEF GasInv, GasBelow
  <2>3. (2 + overlaps) * most = (2 + overlaps) * TransferGas * top
    BY <1>2, <2>1 DEF most
  <2>4. (2 + overlaps) * most \in Nat
    BY <1>3, <2>1
  <2>5. eth[a] + Coming(a) < (2 + overlaps) * most
    BY <2>1, <2>2, <2>4
  <2> QED
    BY <2>3, <2>5
<1> QED
  BY <1>4, <1>5, <1>6, SweepInvariant, PTL DEF Spec
-----------------------------------------------------------------------------
(***************************************************************************)
(* Reports.                                                                *)
(***************************************************************************)

(* The transfers of e that a node has taken.                               *)
TransfersOf(e) == {t \in Known : t.kind = "usdc" /\ t.job[1] = e}

TransferSums ==
    \A e \in Executions :
        /\ IsFiniteSet(TransfersOf(e))
        /\ [t \in TransfersOf(e) |-> t.value] \in [TransfersOf(e) -> Nat]
        /\ Taken(e) = Total([t \in TransfersOf(e) |-> t.value])
        /\ Taken(e) \in Nat

LEMMA TransfersSum == SweepInv => TransferSums
<1> SUFFICES ASSUME SweepInv, NEW e \in Executions
             PROVE  /\ IsFiniteSet(TransfersOf(e))
                    /\ [t \in TransfersOf(e) |-> t.value] \in [TransfersOf(e) -> Nat]
                    /\ Taken(e) = Total([t \in TransfersOf(e) |-> t.value])
                    /\ Taken(e) \in Nat
  BY DEF TransferSums
<1>1. IsFiniteSet(TransfersOf(e))
  BY FS_Subset DEF TransfersOf, SweepInv
<1>2. [t \in TransfersOf(e) |-> t.value] \in [TransfersOf(e) -> Nat]
  BY TxParts DEF TransfersOf, SweepInv, TypeOK, Known
<1>3. Taken(e) = Total([t \in TransfersOf(e) |-> t.value])
  BY DEF Taken, TransfersOf, Known
<1> QED
  BY <1>1, <1>2, <1>3, TotalType

LEMMA TransfersSumNext == SweepInv' => TransferSums'
<1>1. (SweepInv => TransferSums)'
  BY TransfersSum, PTL
<1> QED
  BY <1>1

(***************************************************************************)
(* What nodes have taken of an execution only grows.                       *)
(***************************************************************************)
LEMMA TakenGrows ==
    ASSUME SweepInv, SweepInv', [Next]_vars, NEW e \in Executions
    PROVE  Taken(e) <= Taken(e)'
<1> DEFINE S == TransfersOf(e)
           T == TransfersOf(e)'
           values == [t \in T |-> t.value]
<1>1. S \subseteq T
  BY KnownGrows DEF TransfersOf
<1>2. IsFiniteSet(T) /\ values \in [T -> Nat] /\ Taken(e)' = Total(values)
  BY TransfersSumNext DEF TransferSums
<1>3. Taken(e) = Total([t \in S |-> t.value])
  BY TransfersSum DEF TransferSums
<1>4. [t \in S |-> t.value] = [t \in S |-> values[t]]
  BY <1>1
<1> HIDE DEF S, T, values
<1> QED
  BY <1>1, <1>2, <1>3, <1>4, TotalSubset

(***************************************************************************)
(* What a report counts was sent, each amount by a transfer of its own.    *)
(***************************************************************************)
LEMMA ReportedTaken ==
    ASSUME SweepInv, NEW e \in Executions
    PROVE  Total(Reported(e)) <= Taken(e)
<1> DEFINE D == {a \in Addresses : submitted[<<e, a>>]}
           f == [a \in D |-> amount[<<e, a>>]]
           T == TransfersOf(e)
           values == [t \in T |-> t.value]
           h == [a \in D |-> CHOOSE t \in T : t.job = <<e, a>> /\ t.value = amount[<<e, a>>]]
<1>1. \A a \in Addresses : <<e, a>> \in Jobs /\ amount[<<e, a>>] \in Nat
  BY DEF Jobs, SweepInv, TypeOK
<1>2. ASSUME NEW a \in D
      PROVE  h[a] \in T /\ h[a].job = <<e, a>> /\ h[a].value = amount[<<e, a>>]
  <2>1. HashTrue(<<e, a>>) /\ submitted[<<e, a>>]
    BY <1>1 DEF SweepInv
  <2>2. \E t \in T : t.job = <<e, a>> /\ t.value = amount[<<e, a>>]
    BY <2>1 DEF HashTrue, TransfersOf
  <2> QED
    BY <2>2
<1>3. Total(Reported(e)) = Total(f)
  <2> DEFINE r == Reported(e)
  <2>1. /\ DOMAIN r = Addresses /\ DOMAIN f = D /\ D \subseteq Addresses
        /\ \A a \in D : r[a] = f[a]
        /\ \A a \in Addresses \ D : r[a] = 0
    BY DEF Reported
  <2> HIDE DEF r, f, D
  <2>2. \A a \in D : Coins(r, a) = Coins(f, a)
    BY <2>1 DEF Coins
  <2>3. \A a \in Addresses \ D : Coins(r, a) = {}
    BY <2>1 DEF Coins
  <2>4. Purse(r) = Purse(f)
    BY <2>1, <2>2, <2>3 DEF Purse
  <2> QED
    BY <2>4 DEF Total, r
<1>4. f \in [D -> Nat] /\ h \in [D -> T]
  BY <1>1, <1>2
<1> HIDE DEF h
<1>5. \A a, b \in D : h[a] = h[b] => a = b
  <2>1. ASSUME NEW a \in D, NEW b \in D, h[a] = h[b]
        PROVE  <<e, a>> = <<e, b>>
    BY <1>2, <2>1
  <2> QED
    BY <2>1
<1>6. \A a \in D : f[a] <= values[h[a]]
  <2>1. ASSUME NEW a \in D
        PROVE  f[a] = amount[<<e, a>>] /\ values[h[a]] = h[a].value /\ f[a] \in Nat
    BY <1>1, <1>2
  <2>2. ASSUME NEW a \in D
        PROVE  values[h[a]] = f[a] /\ f[a] \in Nat
    BY <1>2, <2>1
  <2> QED
    BY <2>2
<1>7. IsFiniteSet(T) /\ values \in [T -> Nat] /\ Taken(e) = Total(values)
  BY TransfersSum DEF TransferSums
<1> HIDE DEF D, f, T, values, h
<1> QED
  BY <1>3, <1>4, <1>5, <1>6, <1>7, TotalInjection

(* No report claims more than was taken.                                   *)
ReportsTaken == \A e \in Executions : report[e] <= Taken(e)

LEMMA ReportsStep ==
    ASSUME SweepInv, SweepInv', ReportsTaken, [Next]_vars
    PROVE  ReportsTaken'
<1>1. \A e \in Executions : report[e] \in Nat /\ Taken(e) \in Nat /\ Taken(e) <= Taken(e)'
  BY TransfersSum, TakenGrows DEF SweepInv, TypeOK, TransferSums
<1>2. \A e \in Executions : Taken(e)' \in Nat
  BY TransfersSumNext DEF TransferSums
<1>3. ASSUME UNCHANGED report
      PROVE  ReportsTaken'
  BY <1>1, <1>2, <1>3 DEF ReportsTaken
<1>4. ASSUME NEW e \in Executions, Finish(e)
      PROVE  ReportsTaken'
  <2>1. CASE UNCHANGED report
    BY <1>3, <2>1
  <2>2. CASE report' = [report EXCEPT ![e] = Total(Reported(e))]
    <3>1. Total(Reported(e)) <= Taken(e) /\ Total(Reported(e)) \in Nat
      <4>1. Reported(e) \in [Addresses -> Nat]
        BY DEF Reported, SweepInv, TypeOK, Jobs
      <4>2. Total(Reported(e)) \in Nat
        BY <4>1, TotalType, ConstantsAssumption DEF ConstantsAssumption
      <4> QED
        BY <4>2, ReportedTaken
    <3>2. report \in [Executions -> Nat]
      BY DEF SweepInv, TypeOK
    <3>3. \A x \in Executions : report'[x] <= Taken(x) /\ report'[x] \in Nat
      BY <1>1, <2>2, <3>1, <3>2 DEF ReportsTaken
    <3> QED
      BY <1>1, <1>2, <3>3 DEF ReportsTaken
  <2> QED
    BY <1>4, <2>1, <2>2 DEF Finish
<1>5. ASSUME NEW e \in Executions, Handle(e)
      PROVE  ReportsTaken'
  BY <1>3, <1>4, <1>5 DEF Handle, Accept, Refuse, RunFails, Disconnect
<1>6. ASSUME NEW j \in Jobs, processEntry(j)
      PROVE  UNCHANGED report
  BY <1>6, EntryStep DEF Works, handlerVars
<1>7. Mine \/ FiveMinutes \/ (\E a \in Addresses : Deposit(a)) => UNCHANGED report
  BY DEF Mine, FiveMinutes, Deposit, handlerVars
<1> QED
  BY <1>3, <1>5, <1>6, <1>7 DEF Next, vars, handlerVars

(***************************************************************************)
(* Where no transfer failed, all that were taken wait or have moved what   *)
(* they are worth.                                                         *)
(***************************************************************************)
LEMMA NoneFailed ==
    ASSUME SweepInv, FailuresByOverlap, overlaps = 0, NEW e \in Executions
    PROVE  Sent(e) = Taken(e)
<1>1. ASSUME NEW t \in reverted \cup replaced, t.kind = "usdc"
      PROVE  FALSE
  <2>1. t \in Txs
    BY DEF SweepInv, TypeOK
  <2>2. t.job[2] \in Addresses /\ From(t) = t.job[2]
    BY <1>1, <2>1, TxParts DEF From
  <2> DEFINE a == t.job[2]
  <2>3. t \in Failed(a) /\ Cardinality(Failed(a)) <= 0
    BY <2>2 DEF Failed, FailuresByOverlap
  <2>4. IsFiniteSet(Failed(a)) /\ Cardinality(Failed(a)) \in Nat
    BY <2>2, FailSized DEF FailSizes
  <2> HIDE DEF a
  <2>5. Cardinality(Failed(a)) = 0
    BY <2>3, <2>4
  <2> QED
    BY <2>3, <2>4, <2>5, FS_EmptySet
<1>2. {t \in pool \cup mined : t.kind = "usdc" /\ t.job[1] = e}
      = {t \in pool \cup mined \cup reverted \cup replaced : t.kind = "usdc" /\ t.job[1] = e}
  BY <1>1
<1> QED
  BY <1>2 DEF Sent, Taken

(***************************************************************************)
(* Under every fault, what the audit log says an execution has swept are   *)
(* transfers of its own that a node has taken, and where no executions     *)
(* overlapped the treasury has or will have as much                        *)
(* (handler/sweep.go:204-226).                                             *)
(***************************************************************************)
THEOREM ReportsAreTrue == Spec => []ReportsTrue
<1>1. Init => ReportsTaken
  <2> SUFFICES ASSUME Init, NEW e \in Executions
               PROVE  report[e] <= Taken(e)
    BY DEF ReportsTaken
  <2>1. Taken(e) \in Nat
    BY SweepInit, TransfersSum DEF TransferSums
  <2> QED
    BY <2>1 DEF Init
<1>2. SweepInv /\ SweepInv' /\ ReportsTaken /\ [Next]_vars => ReportsTaken'
  BY ReportsStep
<1>3. SweepInv /\ FailuresByOverlap /\ ReportsTaken => ReportsTrue
  <2> SUFFICES ASSUME SweepInv, FailuresByOverlap, ReportsTaken, NEW e \in Executions
               PROVE  report[e] <= Taken(e) /\ (overlaps = 0 => report[e] <= Sent(e))
    BY DEF ReportsTrue
  <2>1. report[e] <= Taken(e)
    BY DEF ReportsTaken
  <2>2. overlaps = 0 => Sent(e) = Taken(e)
    BY NoneFailed
  <2> QED
    BY <2>1, <2>2
<1> QED
  BY <1>1, <1>2, <1>3, SweepInvariant, FailuresBounded, PTL DEF Spec
=============================================================================
