-------------------------- MODULE MCAddressManager --------------------------
(***************************************************************************)
(* Instances of AddressManager for TLC.                                    *)
(***************************************************************************)
EXTENDS AddressManager, TLC

(* Calls do not differ but in their names, and neither do users.           *)
Symmetry == Permutations(Calls) \cup Permutations(Users)

AnyFault == FaultKinds
=============================================================================
