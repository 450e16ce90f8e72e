------------------------------ MODULE MCSweep ------------------------------
(***************************************************************************)
(* Instances of Sweep for TLC.                                             *)
(***************************************************************************)
EXTENDS Sweep, TLC

(* Neither requests nor addresses differ but in their names.               *)
Symmetry == Permutations(Executions) \cup Permutations(Addresses)

CheapOrDear == {1, 2}
AnyFault == FaultKinds
=============================================================================
