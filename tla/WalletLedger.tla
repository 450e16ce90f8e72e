---------------------------- MODULE WalletLedger ----------------------------
(***************************************************************************)
(* What the gateway promises about a wallet, without caches, holds or      *)
(* faults.  Funds come in by top-ups and leave only as the price of a      *)
(* request that was served; every request is settled at most once, in full *)
(* or not at all, and one is let off only when the wallet cannot cover it. *)
(***************************************************************************)
EXTENDS Money

CONSTANTS Reqs,     \* the requests of the owner of the wallet
          NoPrice   \* the price of a request not served yet, no number

VARIABLES funds,    \* what the wallet holds
          loaded,   \* what was ever paid into it
          price,    \* the price of each request that was served
          bill      \* how each request was settled

vars == <<funds, loaded, price, bill>>

Bills == {"open", "paid", "waived"}

(* A wallet may hold money before the first request.                       *)
Init == /\ funds \in Nat
        /\ loaded = funds
        /\ price = [r \in Reqs |-> NoPrice]
        /\ bill = [r \in Reqs |-> "open"]

(* A deposit, of any amount.                                               *)
TopUp == /\ funds' \in Nat
         /\ funds' >= funds
         /\ loaded' = loaded + (funds' - funds)
         /\ UNCHANGED <<price, bill>>

(* The request was served: its price is known from now on.                 *)
Serve(r) == /\ price[r] = NoPrice
            /\ bill[r] = "open"
            /\ price'[r] \in Nat
            /\ price' = [price EXCEPT ![r] = price'[r]]
            /\ UNCHANGED <<funds, loaded, bill>>

Settles(r, how) == /\ price[r] # NoPrice
                   /\ bill[r] = "open"
                   /\ bill' = [bill EXCEPT ![r] = how]
                   /\ UNCHANGED <<loaded, price>>

Pay(r) == /\ Settles(r, "paid")
          /\ price[r] <= funds
          /\ funds' = funds - price[r]

Waive(r) == /\ Settles(r, "waived")
            /\ price[r] > funds
            /\ funds' = funds

Next == TopUp \/ \E r \in Reqs : Serve(r) \/ Pay(r) \/ Waive(r)

Spec == Init /\ [][Next]_vars
-----------------------------------------------------------------------------
Paid == [r \in Reqs |-> IF bill[r] = "paid" THEN price[r] ELSE 0]

(***************************************************************************)
(* Not a unit of money appears or vanishes: what was paid in is what is    *)
(* left and what the paid requests cost.                                   *)
(***************************************************************************)
Conserved == loaded = funds + Total(Paid)
=============================================================================
