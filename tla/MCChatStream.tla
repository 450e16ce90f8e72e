---------------------------- MODULE MCChatStream ----------------------------
(***************************************************************************)
(* An instance of ChatStream for TLC.                                      *)
(***************************************************************************)
EXTENDS ChatStream

Silent == [f \in ChunkFields |->
             CASE f \in {"json", "usage"} -> TRUE
               [] f = "exponent" -> FALSE
               [] OTHER -> 0]

(* "usage":null, as in every chunk but the last.                           *)
NoUsage == [Silent EXCEPT !.id = 1]

(* The form of today: byok, the cost in the details; cached tokens in      *)
(* several fields, and more than the prompt has.                           *)
Current == [Silent EXCEPT !.prompt = 2, !.completion = 1, !.reasoning = 1,
                          !.anthropic = 3, !.details = 1, !.costDetails = 2]

(* The old form, with the cost beside the usage.                           *)
Legacy == [Silent EXCEPT !.prompt = 3, !.hit = 1, !.topCost = 4]

(* A cost so small that it is written with an exponent, and no tokens.     *)
Tiny == [Silent EXCEPT !.cost = 1, !.exponent = TRUE]

(* Text that is not JSON.                                                  *)
Broken == [Silent EXCEPT !.json = FALSE, !.prompt = 1]

AllChunks == {NoUsage, Current, Legacy, Tiny, Broken}
BothModes == {"stream", "whole"}
=============================================================================
