-------------------------- MODULE MCDepositMonitor --------------------------
(***************************************************************************)
(* Instances of DepositMonitor for TLC: two transfers, to one user or to    *)
(* two.                                                                    *)
(***************************************************************************)
EXTENDS DepositMonitor

TwoTransfers == {"rent", "gift"}
OneUser == {"ann"}
TwoUsers == {"ann", "bob"}

ToAnn == [t \in TwoTransfers |-> "ann"]
ToBoth == [t \in TwoTransfers |-> IF t = "rent" THEN "ann" ELSE "bob"]

OwnTransactions == [t \in TwoTransfers |-> t]

TwoAmounts == [t \in TwoTransfers |-> IF t = "rent" THEN 2 ELSE 1]

ReadFaults == {"reads"}

(* All but a failing query of the cursor and a failing credit.             *)
HarmlessFaults == FaultKinds \ {"cursor", "credit"}
=============================================================================
