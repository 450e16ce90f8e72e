-------------------------- MODULE MCBillingEngine --------------------------
(***************************************************************************)
(* Instances of BillingEngine for TLC.                                     *)
(***************************************************************************)
EXTENDS BillingEngine, TLC

(* The requests of one user do not differ but in their names.              *)
Symmetry == Permutations(Reqs)

NoPeriod == {}
DayAndMonth == {"day", "month"}

Unlimited == [p \in {} |-> None]
BothLimits == [p \in {"day", "month"} |-> IF p = "day" THEN 4 ELSE 3]

AnyFault == FaultKinds
CutsShort == {"postgres", "disconnect", "crash"}
=============================================================================
