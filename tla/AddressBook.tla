---------------------------- MODULE AddressBook ----------------------------
(***************************************************************************)
(* What the gateway promises about deposit addresses: every address of the *)
(* wallet, in the order of its derivation index, is given to one user, for *)
(* good; and a user is told only of addresses that were given to him.      *)
(***************************************************************************)
EXTENDS Integers

CONSTANTS
    Users,
    MaxRows,        \* bound on the addresses
    None

Indices == 0..(MaxRows - 1)

VARIABLES
    owner,          \* the user of each derivation index, None if it is free
    told            \* pairs of a user and an index: the addresses users know

Init ==
    /\ owner = [i \in Indices |-> None]
    /\ told = {}

(* The user gets the first index that is free, and all below it are taken. *)
Assign(u) ==
    \E i \in Indices :
        /\ \A j \in Indices : owner[j] # None <=> j < i
        /\ owner' = [owner EXCEPT ![i] = u]
        /\ UNCHANGED told

Tell(u) ==
    \E i \in Indices :
        /\ owner[i] = u
        /\ told' = told \cup {<<u, i>>}
        /\ UNCHANGED owner

Next == \E u \in Users : Assign(u) \/ Tell(u)

Spec == Init /\ [][Next]_<<owner, told>>
=============================================================================
