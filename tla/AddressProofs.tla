--------------------------- MODULE AddressProofs ----------------------------
(***************************************************************************)
(* Theorems about AddressManager: the table of addresses implements        *)
(* AddressBook and the address of a user stays, for any number of users,   *)
(* concurrent calls, attempts and rows, and whichever queries fail.        *)
(***************************************************************************)
EXTENDS AddressManager, FiniteSetTheorems, TLAPS

(* Indices are given in order: there is no gap below one that is used.     *)
NoGap == \A i, j \in Indices : owner[i] # None /\ j < i => owner[j] # None

(* What a call knows: the indices below the one it tries are used.         *)
CallInv(c) ==
    /\ pc[c] # "idle" => user[c] \in Users
    /\ pc[c] \in {"insert", "verify"} =>
          /\ nextIdx[c] \in Indices
          /\ \A j \in Indices : j < nextIdx[c] => owner[j] # None

Inv == TypeOK /\ NoGap /\ \A c \in Calls : CallInv(c)
-----------------------------------------------------------------------------
(* What an INSERT does: it takes the first index that is free for the      *)
(* user, or leaves the table as it is because another call took it.        *)
Takes(i, u) ==
    /\ \A j \in Indices : owner[j] # None <=> j < i
    /\ owner' = [owner EXCEPT ![i] = u]

LEMMA InsertTakes ==
    ASSUME Inv, NEW c \in Calls, Insert(c)
    PROVE  /\ user[c] \in Users /\ nextIdx[c] \in Indices
           /\ Takes(nextIdx[c], user[c]) \/ owner' = owner
<1>1. /\ user[c] \in Users /\ nextIdx[c] \in Indices
      /\ \A j \in Indices : j < nextIdx[c] => owner[j] # None
  BY DEF Insert, Inv, CallInv
<1>2. CASE owner[nextIdx[c]] = None
  <2>1. \A j \in Indices : owner[j] # None => j < nextIdx[c]
    BY <1>1, <1>2 DEF Inv, NoGap, Indices
  <2>2. QED
    BY <1>1, <1>2, <2>1 DEF Insert, InsertRow, Takes, Inv, TypeOK
<1>3. CASE owner[nextIdx[c]] # None
  <2>1. owner' = owner
    BY <1>1, <1>3 DEF Insert, InsertRow, Inv, TypeOK
  <2>2. QED
    BY <1>1, <2>1
<1>4. QED
  BY <1>2, <1>3

(* Rows are only added, and a step that is no INSERT leaves the table.     *)
LEMMA TableSteps ==
    ASSUME Inv, [Next]_vars
    PROVE  \/ owner' = owner
           \/ \E c \in Calls : /\ user[c] \in Users /\ nextIdx[c] \in Indices
                               /\ Takes(nextIdx[c], user[c]) /\ told' = told
<1>1. CASE UNCHANGED vars
  BY <1>1 DEF vars
<1>2. ASSUME NEW c \in Calls, Insert(c)
      PROVE  \/ owner' = owner
             \/ /\ user[c] \in Users /\ nextIdx[c] \in Indices
                /\ Takes(nextIdx[c], user[c]) /\ told' = told
  BY <1>2, InsertTakes DEF Insert
<1>3. ASSUME NEW c \in Calls, GetOrCreateAddress(c), ~Insert(c)
      PROVE  owner' = owner
  BY <1>3 DEF GetOrCreateAddress, Lookup, Begin, ReadMax, VerifyMine, Retry, GiveUp, Fail
<1>4. QED
  BY <1>1, <1>2, <1>3 DEF Next

LEMMA RowsKept ==
    ASSUME Inv, [Next]_vars, NEW i \in Indices, owner[i] # None
    PROVE  owner'[i] = owner[i]
<1>1. ASSUME NEW n \in Indices, NEW u \in Users, Takes(n, u) PROVE owner'[i] = owner[i]
  BY <1>1 DEF Takes, Inv, TypeOK, Indices
<1>2. QED
  BY <1>1, TableSteps
-----------------------------------------------------------------------------
LEMMA InitInv == Init => Inv
BY ConstantsAssumption
   DEF ConstantsAssumption, Init, Inv, TypeOK, NoGap, CallInv

LEMMA NoGapKept ==
    ASSUME Inv, [Next]_vars PROVE NoGap'
<1>1. CASE owner' = owner
  BY <1>1 DEF Inv, NoGap
<1>2. ASSUME NEW n \in Indices, NEW u \in Users, Takes(n, u)
      PROVE  NoGap'
  <2>1. \A j \in Indices : owner'[j] # None <=> j <= n
    BY <1>2, ConstantsAssumption DEF ConstantsAssumption, Takes, Inv, TypeOK, Indices
  <2>2. QED
    BY <2>1 DEF NoGap, Indices
<1>3. QED
  BY TableSteps, <1>1, <1>2

(* A call that does not move knows what it knew; one that moves learns.    *)
LEMMA CallKept ==
    ASSUME Inv, [Next]_vars, NEW c \in Calls PROVE CallInv(c)'
<1> USE DEF Inv
<1>1. ASSUME UNCHANGED <<pc[c], user[c], nextIdx[c]>> PROVE CallInv(c)'
  BY <1>1, RowsKept DEF CallInv
<1>2. ASSUME NEW d \in Calls, GetOrCreateAddress(d), d # c PROVE CallInv(c)'
  BY <1>1, <1>2
     DEF GetOrCreateAddress, Lookup, Begin, ReadMax, Insert, VerifyMine, Retry, GiveUp,
         Fail, Return, call, TypeOK
<1>3. ASSUME GetOrCreateAddress(c) PROVE CallInv(c)'
  <2>1. ASSUME NEW u \in Users, Lookup(c, u) PROVE CallInv(c)'
    BY <1>1, <2>1 DEF Lookup, call
  <2>2. ASSUME NEW u \in Users, Begin(c, u) PROVE CallInv(c)'
    BY <2>2 DEF Begin, CallInv, TypeOK
  <2>3. CASE ReadMax(c)
    <3>1. PICK i \in Indices : /\ IsNext(c, i)
                               /\ nextIdx' = [nextIdx EXCEPT ![c] = i]
      BY <2>3 DEF ReadMax
    <3>2. \A j \in Indices : j < i => owner[j] # None
      BY <3>1 DEF IsNext, Used, NoGap, Indices
    <3>3. /\ user[c] \in Users /\ UNCHANGED <<owner, user>>
      BY <2>3 DEF ReadMax, CallInv
    <3>4. QED
      BY <3>1, <3>2, <3>3 DEF CallInv, TypeOK
  <2>4. CASE Insert(c)
    <3>1. CASE pc' = [pc EXCEPT ![c] = "verify"] /\ UNCHANGED call
      BY <2>4, <3>1, RowsKept DEF Insert, CallInv, call, TypeOK
    <3>2. CASE Return(c)
      BY <3>2 DEF Return, CallInv, TypeOK
    <3>3. QED
      BY <2>4, <3>1, <3>2 DEF Insert
  <2>5. CASE Retry(c)
    BY <2>5 DEF Retry, CallInv, TypeOK
  <2>6. CASE VerifyMine(c) \/ GiveUp(c) \/ Fail(c)
    BY <2>6 DEF VerifyMine, GiveUp, Fail, Return, CallInv, TypeOK
  <2>7. QED
    BY <1>3, <2>1, <2>2, <2>3, <2>4, <2>5, <2>6 DEF GetOrCreateAddress
<1>4. CASE UNCHANGED vars
  BY <1>1, <1>4 DEF vars, call
<1>5. QED
  BY <1>2, <1>3, <1>4 DEF Next

LEMMA TypeKept ==
    ASSUME Inv, [Next]_vars PROVE TypeOK'
<1> USE DEF Inv, TypeOK
<1>1. owner' \in [Indices -> Users \cup {None}]
  BY TableSteps DEF Takes
<1>2. CASE UNCHANGED vars
  BY <1>2 DEF vars, call
<1>3. ASSUME NEW c \in Calls, Return(c), told' \subseteq Users \X Indices PROVE TypeOK'
  BY <1>1, <1>3, ConstantsAssumption DEF ConstantsAssumption, Return
<1>4. ASSUME NEW c \in Calls, GetOrCreateAddress(c) PROVE TypeOK'
  <2>1. ASSUME NEW u \in Users, Lookup(c, u) PROVE TypeOK'
    BY <1>1, <2>1 DEF Lookup, call
  <2>2. ASSUME NEW u \in Users, Begin(c, u) PROVE TypeOK'
    BY <1>1, <2>2 DEF Begin
  <2>3. CASE ReadMax(c)
    BY <1>1, <2>3 DEF ReadMax
  <2>4. CASE Insert(c)
    BY <1>1, <1>3, <2>4 DEF Insert, call
  <2>5. CASE Retry(c)
    BY <1>1, <2>5, ConstantsAssumption DEF ConstantsAssumption, Retry, MayRetry
  <2>6. CASE VerifyMine(c)
    <3>1. user[c] \in Users /\ nextIdx[c] \in Indices
      BY <2>6 DEF VerifyMine, CallInv
    <3>2. QED
      BY <1>3, <2>6, <3>1 DEF VerifyMine
  <2>7. CASE GiveUp(c) \/ Fail(c)
    BY <1>3, <2>7 DEF GiveUp, Fail
  <2>8. QED
    BY <1>4, <2>1, <2>2, <2>3, <2>4, <2>5, <2>6, <2>7 DEF GetOrCreateAddress
<1>5. QED
  BY <1>2, <1>4 DEF Next

LEMMA Invariance == Spec => []Inv
<1>1. Inv /\ [Next]_vars => Inv'
  BY TypeKept, NoGapKept, CallKept DEF Inv
<1>2. QED
  BY InitInv, <1>1, PTL DEF Spec

(* Every query of every call leaves a state of the right type.             *)
THEOREM TypeCorrect == Spec => []TypeOK
<1>1. Inv => TypeOK
  BY DEF Inv
<1>2. QED
  BY Invariance, <1>1, PTL
-----------------------------------------------------------------------------
(* A call tells its user of an address that the table gives him.           *)
LEMMA TellSteps ==
    ASSUME Inv, [Next]_vars
    PROVE  \/ told' = told
           \/ \E u \in Users : Book!Tell(u)
<1>1. CASE UNCHANGED vars
  BY <1>1 DEF vars
<1>2. ASSUME NEW c \in Calls, NEW u \in Users, Lookup(c, u) PROVE Book!Tell(u)
  BY <1>2 DEF Lookup, IsFirst, RowsOf, Book!Tell, Indices, Book!Indices
<1>3. ASSUME NEW c \in Calls, VerifyMine(c) PROVE \E u \in Users : Book!Tell(u)
  <2>1. user[c] \in Users /\ nextIdx[c] \in Indices
    BY <1>3 DEF VerifyMine, Inv, CallInv
  <2>2. Book!Tell(user[c])
    BY <1>3, <2>1 DEF VerifyMine, Mine, Book!Tell, Indices, Book!Indices
  <2>3. QED
    BY <2>1, <2>2
<1>4. ASSUME NEW c \in Calls, GetOrCreateAddress(c),
             ~VerifyMine(c), ~\E u \in Users : Lookup(c, u)
      PROVE  told' = told
  BY <1>4 DEF GetOrCreateAddress, Begin, ReadMax, Insert, Retry, GiveUp, Fail
<1>5. QED
  BY <1>1, <1>2, <1>3, <1>4 DEF Next

(* Concurrent calls implement the book of addresses (address.go:26-28):    *)
(* every index goes to one user, in order and for good, and a user is told *)
(* only of his own.                                                        *)
THEOREM BookImplemented == Spec => ImplementsBook
<1>1. Init => Book!Init
  BY DEF Init, Book!Init, Indices, Book!Indices
<1>2. Inv /\ [Next]_vars => [Book!Next]_<<owner, told>>
  <2> SUFFICES ASSUME Inv, [Next]_vars PROVE [Book!Next]_<<owner, told>>
    OBVIOUS
  <2>1. ASSUME NEW i \in Indices, NEW u \in Users, Takes(i, u), told' = told
        PROVE  Book!Next
    BY <2>1 DEF Takes, Book!Next, Book!Assign, Indices, Book!Indices
  <2>2. CASE owner' = owner
    BY <2>2, TellSteps DEF Book!Next
  <2>3. QED
    BY <2>1, <2>2, TableSteps
<1>3. QED
  BY Invariance, <1>1, <1>2, PTL DEF Spec, ImplementsBook, Book!Spec

(* A later row never comes before the one that a user has already.         *)
THEOREM AddressKept == Spec => AddressStable
<1>1. ASSUME Inv, [Next]_vars, NEW u \in Users, NEW i \in Indices, IsFirst(i, u)
      PROVE  IsFirst(i, u)'
  <2>1. CASE owner' = owner
    BY <1>1, <2>1 DEF IsFirst, RowsOf
  <2>2. ASSUME NEW n \in Indices, NEW v \in Users, Takes(n, v) PROVE IsFirst(i, u)'
    BY <1>1, <2>2, ConstantsAssumption
       DEF ConstantsAssumption, Takes, IsFirst, RowsOf, Inv, TypeOK, Indices
  <2>3. QED
    BY <1>1, <2>1, <2>2, TableSteps
<1>2. Inv /\ [Next]_vars => [\A u \in Users, i \in Indices : IsFirst(i, u) => IsFirst(i, u)']_vars
  BY <1>1
<1>3. QED
  BY Invariance, <1>2, PTL DEF Spec, AddressStable
-----------------------------------------------------------------------------
(* The calls for u that may still insert a row: they found none, and have  *)
(* not yet seen their own.                                                 *)
Running(u) ==
    {c \in Calls : /\ user[c] = u
                   /\ \/ pc[c] \in {"max", "insert"}
                      \/ pc[c] = "verify" /\ ~Mine(c)}

(* Each row of u takes the place of a call.                                *)
PlacesKept == \A u \in Users : Cardinality(RowsOf(u)) + Cardinality(Running(u)) <= Cardinality(Calls)

LEMMA PlacesFinite ==
    ASSUME NEW u
    PROVE  /\ IsFiniteSet(RowsOf(u)) /\ Cardinality(RowsOf(u)) \in Nat
           /\ IsFiniteSet(Running(u)) /\ Cardinality(Running(u)) \in Nat
           /\ Cardinality(Running(u)) <= Cardinality(Calls) /\ Cardinality(Calls) \in Nat
<1>1. IsFiniteSet(Indices) /\ RowsOf(u) \subseteq Indices
  BY FS_Interval, ConstantsAssumption DEF ConstantsAssumption, Indices, RowsOf
<1>2. IsFiniteSet(Calls) /\ Running(u) \subseteq Calls
  BY ConstantsAssumption DEF ConstantsAssumption, Running
<1>3. QED
  BY <1>1, <1>2, FS_Subset, FS_CardinalityType

(* What a step does to the rows and the calls of u.                        *)
Begins(u) == RowsOf(u) = {} /\ RowsOf(u)' = {}
Stays(u) == RowsOf(u)' = RowsOf(u) /\ Running(u)' \subseteq Running(u)
Moves(u) ==
    \E c \in Running(u), i \in Indices : /\ RowsOf(u)' = RowsOf(u) \cup {i}
                                         /\ Running(u)' \subseteq Running(u) \ {c}

(* A call that does not move does not come to count.                       *)
LEMMA OthersStay ==
    ASSUME Inv, [Next]_vars, NEW u \in Users, NEW d \in Calls, d \in Running(u)',
           UNCHANGED <<pc[d], user[d], nextIdx[d]>>
    PROVE  d \in Running(u)
<1>1. CASE pc[d] # "verify"
  BY <1>1 DEF Running
<1>2. CASE pc[d] = "verify"
  <2>1. user[d] = u /\ owner'[nextIdx[d]] # u /\ nextIdx[d] \in Indices
    BY <1>2 DEF Running, Mine, Inv, CallInv
  <2>2. owner[nextIdx[d]] # u
    BY <2>1, RowsKept, ConstantsAssumption DEF ConstantsAssumption
  <2>3. QED
    BY <1>2, <2>1, <2>2 DEF Running, Mine
<1>3. QED
  BY <1>1, <1>2

LEMMA PlaceSteps ==
    ASSUME Inv, [Next]_vars, NEW u \in Users
    PROVE  Begins(u) \/ Stays(u) \/ Moves(u)
<1> USE DEF Inv
<1>1. CASE UNCHANGED vars
  BY <1>1 DEF vars, call, Stays, RowsOf, Running, Mine
<1>2. ASSUME NEW c \in Calls, GetOrCreateAddress(c)
      PROVE  Begins(u) \/ Stays(u) \/ Moves(u)
  <2>1. \A d \in Calls \ {c} : UNCHANGED <<pc[d], user[d], nextIdx[d]>>
    BY <1>2
       DEF GetOrCreateAddress, Lookup, Begin, ReadMax, Insert, VerifyMine, Retry, GiveUp,
           Fail, Return, call, TypeOK
  <2>2. Running(u)' \subseteq Running(u) \cup {c}
    <3>1. \A d \in Running(u)' : d \in Calls
      BY DEF Running
    <3>2. QED
      BY <2>1, <3>1, OthersStay
  <2>3. ASSUME owner' = owner, c \in Running(u)' => c \in Running(u)
        PROVE  Stays(u)
    BY <2>2, <2>3 DEF Stays, RowsOf
  <2>4. ASSUME NEW v \in Users, Lookup(c, v) PROVE Stays(u)
    BY <2>3, <2>4 DEF Lookup, call, Running, Mine
  <2>5. ASSUME NEW v \in Users, Begin(c, v) PROVE Begins(u) \/ Stays(u)
    <3>1. CASE v = u
      BY <2>5, <3>1 DEF Begin, HasNone, Begins, RowsOf
    <3>2. CASE v # u
      BY <2>3, <2>5, <3>2 DEF Begin, Running, TypeOK
    <3>3. QED
      BY <3>1, <3>2
  <2>6. CASE ReadMax(c) \/ Retry(c)
    BY <2>3, <2>6 DEF ReadMax, Retry, Running, Mine, TypeOK
  <2>7. CASE VerifyMine(c) \/ GiveUp(c) \/ Fail(c)
    BY <2>3, <2>7 DEF VerifyMine, GiveUp, Fail, Return, Running, TypeOK
  <2>8. CASE Insert(c)
    <3>1. /\ user[c] \in Users /\ nextIdx[c] \in Indices
          /\ Takes(nextIdx[c], user[c]) \/ owner' = owner
      BY <2>8, InsertTakes
    <3>2. \/ pc'[c] = "idle"
          \/ pc'[c] = "verify" /\ user'[c] = user[c] /\ nextIdx'[c] = nextIdx[c]
      BY <2>8 DEF Insert, Return, call, TypeOK
    <3>3. c \in Running(u) <=> user[c] = u
      BY <2>8 DEF Insert, Running
    <3>4. CASE owner' = owner
      <4>1. c \in Running(u)' => c \in Running(u)
        BY <3>2, <3>3 DEF Running
      <4>2. QED
        BY <2>3, <3>4, <4>1
    <3>5. CASE Takes(nextIdx[c], user[c])
      <4>1. owner' = [owner EXCEPT ![nextIdx[c]] = user[c]] /\ owner[nextIdx[c]] = None
        BY <3>1, <3>5 DEF Takes, TypeOK, Indices
      <4>2. c \notin Running(u)'
        BY <3>1, <3>2, <4>1 DEF Running, Mine, TypeOK
      <4>3. CASE user[c] = u
        <5>1. RowsOf(u)' = RowsOf(u) \cup {nextIdx[c]}
          BY <3>1, <4>1, <4>3 DEF RowsOf, TypeOK
        <5>2. Running(u)' \subseteq Running(u) \ {c}
          BY <2>2, <4>2
        <5>3. QED
          BY <3>1, <3>3, <4>3, <5>1, <5>2 DEF Moves
      <4>4. CASE user[c] # u
        <5>1. RowsOf(u)' = RowsOf(u)
          BY <3>1, <4>1, <4>4, ConstantsAssumption DEF ConstantsAssumption, RowsOf, TypeOK
        <5>2. QED
          BY <2>2, <4>2, <5>1 DEF Stays
      <4>5. QED
        BY <4>3, <4>4
    <3>6. QED
      BY <3>1, <3>4, <3>5
  <2>9. QED
    BY <1>2, <2>4, <2>5, <2>6, <2>7, <2>8 DEF GetOrCreateAddress
<1>3. QED
  BY <1>1, <1>2 DEF Next

LEMMA PlacesStep ==
    ASSUME Inv, PlacesKept, [Next]_vars PROVE PlacesKept'
<1> SUFFICES ASSUME NEW u \in Users
             PROVE  Cardinality(RowsOf(u))' + Cardinality(Running(u))' <= Cardinality(Calls)
  BY DEF PlacesKept
<1>1. /\ IsFiniteSet(RowsOf(u)) /\ Cardinality(RowsOf(u)) \in Nat
      /\ IsFiniteSet(Running(u)) /\ Cardinality(Running(u)) \in Nat
      /\ Cardinality(RowsOf(u)) + Cardinality(Running(u)) <= Cardinality(Calls)
      /\ Cardinality(Calls) \in Nat
  BY PlacesFinite DEF PlacesKept
<1>2. /\ IsFiniteSet(RowsOf(u)') /\ Cardinality(RowsOf(u)') \in Nat
      /\ IsFiniteSet(Running(u)') /\ Cardinality(Running(u)') \in Nat
      /\ Cardinality(Running(u)') <= Cardinality(Calls)
  <2>1. (/\ IsFiniteSet(RowsOf(u)) /\ Cardinality(RowsOf(u)) \in Nat
         /\ IsFiniteSet(Running(u)) /\ Cardinality(Running(u)) \in Nat
         /\ Cardinality(Running(u)) <= Cardinality(Calls))'
    BY PlacesFinite, PTL
  <2>2. QED
    BY <2>1
<1>3. CASE Begins(u)
  BY <1>2, <1>3, FS_EmptySet DEF Begins
<1>4. CASE Stays(u)
  <2>1. Cardinality(Running(u)') <= Cardinality(Running(u))
    BY <1>1, <1>4, FS_Subset DEF Stays
  <2>2. QED
    BY <1>1, <1>2, <1>4, <2>1 DEF Stays
<1>5. CASE Moves(u)
  <2>1. PICK c \in Running(u), i \in Indices : /\ RowsOf(u)' = RowsOf(u) \cup {i}
                                               /\ Running(u)' \subseteq Running(u) \ {c}
    BY <1>5 DEF Moves
  <2>2. Cardinality(RowsOf(u)') <= Cardinality(RowsOf(u)) + 1
    <3> DEFINE rows == RowsOf(u)
    <3> HIDE DEF rows
    <3>1. Cardinality(rows \cup {i}) <= Cardinality(rows) + 1
      <4>1. IsFiniteSet(rows) /\ Cardinality(rows) \in Nat
        BY <1>1 DEF rows
      <4>2. Cardinality(rows \cup {i})
              = IF i \in rows THEN Cardinality(rows) ELSE Cardinality(rows) + 1
        BY <4>1, FS_AddElement
      <4>3. QED
        BY <4>1, <4>2
    <3>2. QED
      BY <2>1, <3>1 DEF rows
  <2>3. /\ IsFiniteSet(Running(u) \ {c})
        /\ Cardinality(Running(u) \ {c}) = Cardinality(Running(u)) - 1
    BY <1>1, <2>1, FS_RemoveElement
  <2>4. Cardinality(Running(u)') <= Cardinality(Running(u)) - 1
    BY <2>1, <2>3, FS_Subset
  <2>5. QED
    BY <1>1, <1>2, <2>2, <2>4
<1>6. QED
  BY <1>3, <1>4, <1>5, PlaceSteps

(* A user gets no more addresses than calls of his ran at once when he had *)
(* none: each call inserts at most one row, whatever it tries again and    *)
(* however many fail.                                                      *)
THEOREM AddressesFew == Spec => []FewAddresses
<1>1. Init => PlacesKept
  <2> SUFFICES ASSUME Init, NEW u \in Users
               PROVE  Cardinality(RowsOf(u)) + Cardinality(Running(u)) <= Cardinality(Calls)
    BY DEF PlacesKept
  <2>1. RowsOf(u) = {} /\ Running(u) = {}
    BY ConstantsAssumption DEF ConstantsAssumption, Init, RowsOf, Running
  <2>2. QED
    BY <2>1, PlacesFinite, FS_EmptySet
<1>2. Inv /\ PlacesKept /\ [Next]_vars => PlacesKept'
  BY PlacesStep
<1>3. PlacesKept => FewAddresses
  BY PlacesFinite DEF PlacesKept, FewAddresses
<1>4. QED
  BY <1>1, <1>2, <1>3, Invariance, PTL DEF Spec
-----------------------------------------------------------------------------
(* The indices that a call has found with other users.                     *)
Lost(c) == {i \in Used : /\ first[c] <= i
                         /\ pc[c] = "max" \/ i < nextIdx[c]
                         /\ owner[i] # user[c]}

(* A call has lost an index in each attempt before the one it is at.       *)
Trying(c) ==
    /\ pc[c] = "idle" => first[c] = None /\ attempt[c] = 0
    /\ Cardinality(Lost(c)) >= attempt[c]
    /\ pc[c] = "max" => (first[c] = None /\ attempt[c] = 0) \/ first[c] \in Used
    /\ pc[c] \in {"insert", "verify"} => first[c] \in Indices /\ first[c] <= nextIdx[c]
    /\ pc[c] = "verify" => owner[nextIdx[c]] # None

Lists == \A c \in Calls : IsFiniteSet(Lost(c)) /\ Cardinality(Lost(c)) \in Nat

(* Only finitely many indices can be lost.                                 *)
LEMMA LostFinite == Lists
<1>1. IsFiniteSet(Indices) /\ \A c \in Calls : Lost(c) \subseteq Indices
  BY FS_Interval, ConstantsAssumption DEF ConstantsAssumption, Indices, Lost, Used
<1>2. QED
  BY <1>1, FS_Subset, FS_CardinalityType DEF Lists

(* An index that is lost stays lost: a call that does not lose count of    *)
(* the indices has no fewer.                                               *)
LEMMA LostStays ==
    ASSUME Inv, [Next]_vars, NEW c \in Calls, first'[c] = first[c], user'[c] = user[c],
           \A i \in Used : pc[c] = "max" \/ i < nextIdx[c] => pc'[c] = "max" \/ i < nextIdx'[c]
    PROVE  /\ Lost(c) \subseteq Lost(c)'
           /\ Cardinality(Lost(c)) <= Cardinality(Lost(c)')
<1>1. \A i \in Indices : owner[i] # None => owner'[i] = owner[i]
  BY RowsKept
<1>2. Lost(c) \subseteq Lost(c)'
  BY <1>1 DEF Lost, Used
<1>3. Lists'
  BY LostFinite, PTL
<1>4. QED
  BY <1>2, <1>3, FS_Subset DEF Lists

(* The index that a call has just lost is one more.                        *)
LEMMA OneMore ==
    ASSUME Inv, NEW c \in Calls, pc[c] = "verify"
    PROVE  Cardinality(Lost(c) \cup {nextIdx[c]}) = Cardinality(Lost(c)) + 1
<1>1. nextIdx[c] \notin Lost(c)
  BY DEF Lost, Inv, CallInv, Indices
<1>2. QED
  BY <1>1, LostFinite, FS_AddElement DEF Lists

(* Every query leaves each call with as many lost indices as attempts.     *)
LEMMA TryingStep ==
    ASSUME Inv, [Next]_vars, NEW c \in Calls, Trying(c)
    PROVE  Trying(c)'
<1> USE DEF Inv
<1>0. /\ attempt[c] \in Nat /\ Cardinality(Lost(c)) \in Nat /\ Cardinality(Lost(c)') \in Nat
      /\ IsFiniteSet(Lost(c)) /\ IsFiniteSet(Lost(c)')
  <2>1. Lists /\ Lists'
    BY LostFinite, PTL
  <2>2. QED
    BY <2>1, ConstantsAssumption DEF ConstantsAssumption, TypeOK, Lists
<1>1. ASSUME UNCHANGED <<pc[c], user[c], nextIdx[c], attempt[c], first[c]>>
      PROVE  Trying(c)'
  <2>1. /\ pc'[c] = pc[c] /\ user'[c] = user[c] /\ nextIdx'[c] = nextIdx[c]
        /\ attempt'[c] = attempt[c] /\ first'[c] = first[c]
    BY <1>1
  <2>2. Cardinality(Lost(c)') >= attempt[c]
    BY <1>0, <2>1, LostStays DEF Trying
  <2>3. pc[c] = "verify" => owner'[nextIdx[c]] # None
    BY RowsKept DEF Trying, CallInv
  <2>4. first[c] \in Used => first[c] \in Used'
    BY RowsKept DEF Used
  <2>5. QED
    BY <2>1, <2>2, <2>3, <2>4 DEF Trying
<1>2. ASSUME NEW d \in Calls, GetOrCreateAddress(d), d # c PROVE Trying(c)'
  BY <1>1, <1>2
     DEF GetOrCreateAddress, Lookup, Begin, ReadMax, Insert, VerifyMine, Retry, GiveUp,
         Fail, Return, call, TypeOK
<1>3. ASSUME Return(c) PROVE Trying(c)'
  <2>1. pc'[c] = "idle" /\ attempt'[c] = 0 /\ first'[c] = None
    BY <1>3 DEF Return, TypeOK
  <2>2. QED
    BY <1>0, <2>1 DEF Trying
<1>4. ASSUME GetOrCreateAddress(c) PROVE Trying(c)'
  <2>1. ASSUME NEW u \in Users, Lookup(c, u) PROVE Trying(c)'
    BY <1>1, <2>1 DEF Lookup, call
  <2>2. ASSUME NEW u \in Users, Begin(c, u) PROVE Trying(c)'
    <3>1. pc'[c] = "max" /\ attempt'[c] = 0 /\ first'[c] = None
      BY <2>2 DEF Begin, TypeOK, Trying
    <3>2. QED
      BY <1>0, <3>1 DEF Trying
  <2>3. CASE ReadMax(c)
    <3>1. PICK i \in Indices :
              /\ IsNext(c, i)
              /\ nextIdx' = [nextIdx EXCEPT ![c] = i]
              /\ first' = [first EXCEPT ![c] = IF @ = None THEN i ELSE @]
      BY <2>3 DEF ReadMax
    <3>2. /\ pc[c] = "max" /\ pc'[c] = "insert" /\ attempt'[c] = attempt[c]
          /\ user'[c] = user[c] /\ nextIdx'[c] = i
          /\ first'[c] = IF first[c] = None THEN i ELSE first[c]
      BY <2>3, <3>1 DEF ReadMax, TypeOK
    <3>3. CASE first[c] = None /\ attempt[c] = 0
      BY <1>0, <3>2, <3>3 DEF Trying, Indices
    <3>4. CASE first[c] \in Used
      <4>1. first[c] # None /\ first'[c] = first[c] /\ first[c] \in Indices /\ first[c] <= i
        BY <3>1, <3>2, <3>4, ConstantsAssumption
           DEF ConstantsAssumption, IsNext, Used, Indices
      <4>2. \A j \in Used : j < nextIdx'[c]
        BY <3>1, <3>2 DEF IsNext
      <4>3. Cardinality(Lost(c)) <= Cardinality(Lost(c)')
        BY <3>2, <4>1, <4>2, LostStays
      <4>4. Cardinality(Lost(c)') >= attempt'[c]
        BY <1>0, <3>2, <4>3 DEF Trying
      <4>5. QED
        BY <3>2, <4>1, <4>4 DEF Trying
    <3>5. QED
      BY <3>2, <3>3, <3>4 DEF Trying
  <2>4. CASE Insert(c)
    <3>1. CASE pc' = [pc EXCEPT ![c] = "verify"] /\ UNCHANGED call
      <4>1. /\ pc[c] = "insert" /\ pc'[c] = "verify" /\ attempt'[c] = attempt[c]
            /\ user'[c] = user[c] /\ nextIdx'[c] = nextIdx[c] /\ first'[c] = first[c]
        BY <2>4, <3>1 DEF Insert, call, TypeOK
      <4>2. Cardinality(Lost(c)') >= attempt[c]
        BY <1>0, <4>1, LostStays DEF Trying
      <4>3. owner'[nextIdx[c]] # None
        <5>1. nextIdx[c] \in Indices /\ user[c] \in Users
          BY <4>1 DEF CallInv
        <5>2. QED
          BY <2>4, <5>1, ConstantsAssumption
             DEF ConstantsAssumption, Insert, InsertRow, TypeOK
      <4>4. QED
        BY <4>1, <4>2, <4>3 DEF Trying
    <3>2. CASE Return(c)
      BY <1>3, <3>2
    <3>3. QED
      BY <2>4, <3>1, <3>2 DEF Insert
  <2>5. CASE Retry(c)
    <3>1. /\ pc[c] = "verify" /\ pc'[c] = "max" /\ attempt'[c] = attempt[c] + 1
          /\ user'[c] = user[c] /\ nextIdx'[c] = nextIdx[c] /\ first'[c] = first[c]
          /\ owner' = owner /\ owner[nextIdx[c]] # user[c]
      BY <2>5 DEF Retry, TypeOK, Mine
    <3>2. Cardinality(Lost(c) \cup {nextIdx[c]}) = Cardinality(Lost(c)) + 1
      BY <3>1, OneMore DEF Trying
    <3>3. Lost(c) \cup {nextIdx[c]} \subseteq Lost(c)'
      <4>1. nextIdx[c] \in Used /\ first[c] <= nextIdx[c]
        BY <3>1 DEF Trying, Used, CallInv
      <4>2. QED
        BY <3>1, <4>1 DEF Lost, Used
    <3>4. Cardinality(Lost(c)') >= attempt[c] + 1
      <4>1. Cardinality(Lost(c) \cup {nextIdx[c]}) <= Cardinality(Lost(c)')
        BY <1>0, <3>3, FS_Subset
      <4>2. QED
        BY <1>0, <3>2, <4>1 DEF Trying
    <3>5. first[c] \in Used'
      BY <3>1 DEF Trying, Used, CallInv, NoGap, Indices
    <3>6. QED
      BY <3>1, <3>4, <3>5 DEF Trying
  <2>6. CASE VerifyMine(c) \/ GiveUp(c) \/ Fail(c)
    BY <1>3, <2>6 DEF VerifyMine, GiveUp, Fail
  <2>7. QED
    BY <1>4, <2>1, <2>2, <2>3, <2>4, <2>5, <2>6 DEF GetOrCreateAddress
<1>5. CASE UNCHANGED vars
  BY <1>1, <1>5 DEF vars, call
<1>6. QED
  BY <1>2, <1>4, <1>5 DEF Next

(* A call gives up only when it lost MaxAttempts indices to other users,   *)
(* for any number of users, calls and attempts (address.go:44-45, 82).     *)
THEOREM GivingUpHasCause == Spec => GivesUpForCause
<1> DEFINE Tries == \A c \in Calls : Trying(c)
<1>1. Init => Tries
  <2> SUFFICES ASSUME Init, NEW c \in Calls PROVE Trying(c)
    OBVIOUS
  <2>1. Cardinality(Lost(c)) \in Nat
    BY LostFinite DEF Lists
  <2>2. QED
    BY <2>1 DEF Init, Trying
<1>2. Inv /\ Tries /\ [Next]_vars => Tries'
  BY TryingStep
<1>3. ASSUME Inv, Tries, NEW c \in Calls, GiveUp(c)
      PROVE  Cardinality({i \in Used : i >= first[c] /\ owner[i] # user[c]}) >= MaxAttempts
  <2> DEFINE lost == {i \in Used : i >= first[c] /\ owner[i] # user[c]}
  <2>1. pc[c] = "verify" /\ owner[nextIdx[c]] # user[c] /\ attempt[c] + 1 >= MaxAttempts
    BY <1>3, ConstantsAssumption DEF ConstantsAssumption, GiveUp, Mine, MayRetry, Inv, TypeOK
  <2>2. Trying(c) /\ CallInv(c)
    BY <1>3 DEF Inv
  <2>3. Lost(c) \cup {nextIdx[c]} \subseteq lost
    BY <2>1, <2>2 DEF Lost, Trying, CallInv, Used, Indices
  <2>4. IsFiniteSet(lost)
    <3>1. IsFiniteSet(Indices) /\ lost \subseteq Indices
      BY FS_Interval, ConstantsAssumption DEF ConstantsAssumption, Indices, Used
    <3>2. QED
      BY <3>1, FS_Subset
  <2> HIDE DEF lost
  <2>5. /\ Cardinality(Lost(c) \cup {nextIdx[c]}) <= Cardinality(lost)
        /\ Cardinality(lost) \in Nat
    BY <2>3, <2>4, FS_Subset, FS_CardinalityType
  <2>6. /\ Cardinality(Lost(c) \cup {nextIdx[c]}) = Cardinality(Lost(c)) + 1
        /\ Cardinality(Lost(c)) \in Nat /\ Cardinality(Lost(c)) >= attempt[c]
        /\ attempt[c] \in Nat /\ MaxAttempts \in Nat
    BY <1>3, <2>1, <2>2, OneMore, LostFinite, ConstantsAssumption
       DEF ConstantsAssumption, Lists, Trying, Inv, TypeOK
  <2>7. Cardinality(lost) >= MaxAttempts
    BY <2>1, <2>5, <2>6
  <2>8. QED
    BY <2>7 DEF lost
<1>4. Inv /\ Tries /\ [Next]_vars =>
          [\A c \in Calls : GiveUp(c) =>
              Cardinality({i \in Used : i >= first[c] /\ owner[i] # user[c]}) >= MaxAttempts]_vars
  BY <1>3
<1> HIDE DEF Tries
<1>5. QED
  BY <1>1, <1>2, <1>4, Invariance, PTL DEF Spec, GivesUpForCause
=============================================================================
