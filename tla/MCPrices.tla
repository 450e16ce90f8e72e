------------------------------ MODULE MCPrices ------------------------------
(***************************************************************************)
(* Instances of Prices for TLC.                                            *)
(***************************************************************************)
EXTENDS Prices, TLC

Q(bestIn, bestOut, bestCache) ==
    [directIn |-> 100, directOut |-> 200,
     bestIn |-> bestIn, bestOut |-> bestOut, bestCache |-> bestCache]

(* A deep discount with a price for cached tokens; a discount below the    *)
(* spread; none; a market above the reference whose output is cheap; one   *)
(* that discounts input alone; and a model that is free.                   *)
SomeQuotes ==
    {Q(20, 40, 10), Q(90, 180, 9), Q(100, 200, 10), Q(120, 100, 10), Q(50, 190, 0), Q(0, 0, 0)}

(* The upstream reports more cached tokens than tokens, or fewer than 0.   *)
SomeUsages == [prompt : {0, 2}, completion : {0, 1}, cacheRead : {-1, 0, 1, 3}]

AnyFault == FaultKinds
=============================================================================
