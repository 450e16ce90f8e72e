--------------------------- MODULE DepositLedger ---------------------------
(***************************************************************************)
(* What the gateway promises about deposits, without scanning, restarts or *)
(* a database: a transfer counts once it is final on the chain, and then   *)
(* its whole amount is credited to its owner, once.                        *)
(***************************************************************************)
EXTENDS Naturals

CONSTANTS Transfers,  \* the transfers of USDC
          Users,      \* the users
          Owner,      \* whose deposit address a transfer goes to
          Amount      \* how much it transfers

VARIABLES final,      \* the transfers that are part of the chain for good
          credited,   \* those that were credited
          loaded      \* what was credited to each user

vars == <<final, credited, loaded>>

Init == /\ final = {}
        /\ credited = {}
        /\ loaded = [u \in Users |-> 0]

(* More transfers are final.                                               *)
Confirm == /\ final \subseteq final'
           /\ final' \subseteq Transfers
           /\ UNCHANGED <<credited, loaded>>

Credit(t) == /\ t \in final \ credited
             /\ Owner[t] \in Users
             /\ credited' = credited \cup {t}
             /\ loaded' = [loaded EXCEPT ![Owner[t]] = @ + Amount[t]]
             /\ UNCHANGED final

Next == Confirm \/ \E t \in Transfers : Credit(t)

Spec == Init /\ [][Next]_vars
=============================================================================
