----------------------------- MODULE MCKeyPool -----------------------------
(***************************************************************************)
(* Instances of KeyPool for TLC.                                           *)
(***************************************************************************)
EXTENDS KeyPool, TLC

(* Calls do not differ but in their names.                                 *)
Symmetry == Permutations(Calls)

NoFault == {}
AnyFault == FaultKinds
=============================================================================
