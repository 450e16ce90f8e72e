--------------------------- MODULE AddressManager ---------------------------
(***************************************************************************)
(* GetOrCreateAddress (internal/wallet/address.go): concurrent calls give  *)
(* derivation indices to users by inserting rows in deposit_addresses.     *)
(*                                                                         *)
(* One action is one query.  A query may fail, or the client may leave, at *)
(* any step; an INSERT may have happened although its answer is an error.  *)
(* Different indices have different addresses (hd.go), so that an address  *)
(* is its index, which is unique in the table.                             *)
(***************************************************************************)
EXTENDS Integers, FiniteSets

CONSTANTS
    Users,
    Calls,          \* calls that may be in progress at once, in any process
    MaxAttempts,    \* 5 in the code
    MaxRows,        \* bound on the rows of the table
    Faults,         \* which of FaultKinds may happen
    None

FaultKinds == {"query"}

ASSUME ConstantsAssumption ==
    /\ IsFiniteSet(Calls)
    /\ MaxAttempts \in Nat \ {0}
    /\ MaxRows \in Nat
    /\ Faults \subseteq FaultKinds
    /\ None \notin Users
    /\ None \notin Int

Indices == 0..(MaxRows - 1)

VARIABLES
    owner,          \* Postgres: user_id of each derivation_index, None without a row
    pc,             \* where a call is: idle, max, insert, verify
    user,           \* its user
    nextIdx,        \* the index it tries
    attempt,        \* how often it has tried before
    first,          \* history: the first index it tried, None before
    told            \* history: the addresses that were returned, and to whom

call == <<user, nextIdx, attempt, first>>
vars == <<owner, pc, call, told>>

TypeOK ==
    /\ owner \in [Indices -> Users \cup {None}]
    /\ pc \in [Calls -> {"idle", "max", "insert", "verify"}]
    /\ user \in [Calls -> Users \cup {None}]
    /\ nextIdx \in [Calls -> Indices \cup {None}]
    /\ attempt \in [Calls -> 0..(MaxAttempts - 1)]
    /\ first \in [Calls -> Indices \cup {None}]
    /\ told \subseteq Users \X Indices

Init ==
    /\ owner = [i \in Indices |-> None]
    /\ pc = [c \in Calls |-> "idle"]
    /\ user = [c \in Calls |-> None]
    /\ nextIdx = [c \in Calls |-> None]
    /\ attempt = [c \in Calls |-> 0]
    /\ first = [c \in Calls |-> None]
    /\ told = {}

Used == {i \in Indices : owner[i] # None}
RowsOf(u) == {i \in Indices : owner[i] = u}

-----------------------------------------------------------------------------
(* The call returns, with an address or an error.                          *)
Return(c) ==
    /\ pc' = [pc EXCEPT ![c] = "idle"]
    /\ user' = [user EXCEPT ![c] = None]
    /\ nextIdx' = [nextIdx EXCEPT ![c] = None]
    /\ attempt' = [attempt EXCEPT ![c] = 0]
    /\ first' = [first EXCEPT ![c] = None]

Fail(c) ==
    /\ "query" \in Faults
    /\ pc[c] # "idle"
    /\ Return(c)
    /\ UNCHANGED <<owner, told>>

(* ORDER BY derivation_index ASC LIMIT 1                                   *)
IsFirst(i, u) == i \in RowsOf(u) /\ \A j \in RowsOf(u) : i <= j

(* The user has an address.  (A query that fails ends the call, which has  *)
(* then not begun.)                                                        *)
Lookup(c, u) ==
    /\ pc[c] = "idle"
    /\ \E i \in Indices : IsFirst(i, u) /\ told' = told \cup {<<u, i>>}
    /\ UNCHANGED <<owner, pc, call>>

BadHasNone(u) == TRUE
HasNone(u) == RowsOf(u) = {}

Begin(c, u) ==
    /\ pc[c] = "idle"
    /\ HasNone(u)
    /\ pc' = [pc EXCEPT ![c] = "max"]
    /\ user' = [user EXCEPT ![c] = u]
    /\ UNCHANGED <<owner, nextIdx, attempt, first, told>>

BadIsNext(c, i) ==  \* tries the lost index again
    /\ nextIdx[c] # None => i = nextIdx[c]
    /\ nextIdx[c] = None => i \notin Used /\ (i = 0 \/ i - 1 \in Used)

(* COALESCE(MAX(derivation_index), -1) + 1                                 *)
IsNext(c, i) ==
    /\ \A j \in Used : j < i
    /\ i = 0 \/ i - 1 \in Used

(* MaxRows bounds the table here.                                          *)
ReadMax(c) ==
    /\ pc[c] = "max"
    /\ \E i \in Indices :
          /\ IsNext(c, i)
          /\ nextIdx' = [nextIdx EXCEPT ![c] = i]
          /\ first' = [first EXCEPT ![c] = IF @ = None THEN i ELSE @]
    /\ pc' = [pc EXCEPT ![c] = "insert"]
    /\ UNCHANGED <<owner, user, attempt, told>>

(* ON CONFLICT DO NOTHING: the row stays as it is if there is one.         *)
InsertRow(i, u) == owner' = [owner EXCEPT ![i] = IF @ = None THEN u ELSE @]

Insert(c) ==
    /\ pc[c] = "insert"
    /\ InsertRow(nextIdx[c], user[c])
    /\ \/ /\ pc' = [pc EXCEPT ![c] = "verify"]
          /\ UNCHANGED call
       \/ "query" \in Faults /\ Return(c)
    /\ UNCHANGED told

BadMine(c) == TRUE
Mine(c) == owner[nextIdx[c]] = user[c]

VerifyMine(c) ==
    /\ pc[c] = "verify"
    /\ Mine(c)
    /\ told' = told \cup {<<user[c], nextIdx[c]>>}
    /\ Return(c)
    /\ UNCHANGED owner

BadMayRetry(c) == attempt[c] < MaxAttempts
MayRetry(c) == attempt[c] + 1 < MaxAttempts

Retry(c) ==
    /\ pc[c] = "verify"
    /\ ~Mine(c)
    /\ MayRetry(c)
    /\ attempt' = [attempt EXCEPT ![c] = @ + 1]
    /\ pc' = [pc EXCEPT ![c] = "max"]
    /\ UNCHANGED <<owner, user, nextIdx, first, told>>

GiveUp(c) ==
    /\ pc[c] = "verify"
    /\ ~Mine(c)
    /\ ~MayRetry(c)
    /\ Return(c)
    /\ UNCHANGED <<owner, told>>

GetOrCreateAddress(c) ==
    \/ \E u \in Users : Lookup(c, u) \/ Begin(c, u)
    \/ ReadMax(c) \/ Insert(c) \/ VerifyMine(c) \/ Retry(c) \/ GiveUp(c) \/ Fail(c)

Next == \E c \in Calls : GetOrCreateAddress(c)

Spec == Init /\ [][Next]_vars

-----------------------------------------------------------------------------
(* Properties.                                                             *)

(* Concurrent first calls are safe (address.go:26-28): the table is an     *)
(* AddressBook.  An index is never given away twice nor left out, and no   *)
(* user is told of the address of another.                                 *)
Book == INSTANCE AddressBook WITH owner <- owner, told <- told

ImplementsBook == Book!Spec

(* The address of a user never changes once there is one, although         *)
(* concurrent first calls may give him several (address.go:33-34).         *)
AddressStable ==
    [][\A u \in Users, i \in Indices : IsFirst(i, u) => IsFirst(i, u)']_vars

(* A user gets no more addresses than calls of his ran at once when he had *)
(* none, whatever failed and was called again.                             *)
FewAddresses == \A u \in Users : Cardinality(RowsOf(u)) <= Cardinality(Calls)

(* A call gives up only when it lost MaxAttempts indices to other users:   *)
(* it does not compete with the calls of its own user, nor for an index    *)
(* that it has lost before (address.go:44-45, 82).                         *)
GivesUpForCause ==
    [][\A c \in Calls : GiveUp(c) =>
          Cardinality({i \in Used : i >= first[c] /\ owner[i] # user[c]}) >= MaxAttempts]_vars
=============================================================================
