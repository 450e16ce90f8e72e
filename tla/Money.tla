------------------------------- MODULE Money -------------------------------
(***************************************************************************)
(* Sums of amounts of money.  The gateway keeps money in NUMERIC columns   *)
(* and in Redis floats; the specifications count it in indivisible units,  *)
(* so an amount is a natural number and the sum of the amounts f[x] is the *)
(* number of units that there are in all of them together.                 *)
(*                                                                         *)
(* Counting units, instead of adding one amount after the other, makes the *)
(* sum independent of an order and lets the theorems about finite sets     *)
(* speak of it (see MoneyTheorems).  Numbers of requests are added up in   *)
(* the same way (Access).                                                  *)
(***************************************************************************)
EXTENDS Integers, FiniteSets

(* The units of the amount that f gives to x.                              *)
Coins(f, x) == {x} \X (1 .. f[x])

(* The units of all the amounts of f.                                      *)
Purse(f) == UNION {Coins(f, x) : x \in DOMAIN f}

(* The sum of f[x] over the domain of f, for f with values in Nat.         *)
Total(f) == Cardinality(Purse(f))
=============================================================================
