------------------------------ MODULE MCAccess ------------------------------
(***************************************************************************)
(* Instances of Access for TLC.                                            *)
(***************************************************************************)
EXTENDS Access, TLC

(* Requests do not differ but in their names.                              *)
Symmetry == Permutations(Requests)

AnyFault == FaultKinds
=============================================================================
