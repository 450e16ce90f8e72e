----------------------------- MODULE ChatStream -----------------------------
(***************************************************************************)
(* The answer to a chat request that the upstream accepted: how the        *)
(* gateway passes it on and what it bills for it (handleStreamResponse and *)
(* handleNonStreamResponse in internal/handler/chat.go, usage_capture.go,  *)
(* parseUsage in internal/provider/client.go, internal/masking/body.go).   *)
(*                                                                         *)
(* The upstream sends lines of server-sent events, or one JSON body.  The  *)
(* gateway reads line by line while the upstream goes on, the client may   *)
(* go away and the connection may break or take too long.  FinalizeDeduc-  *)
(* tion is one action here; BillingEngine has its steps.                   *)
(*                                                                         *)
(* A chunk is what a line, or the body, says of usage and costs; amounts   *)
(* are numbers of units and 0 stands for a field that is absent or null.   *)
(*                                                                         *)
(* Some names begin with Chat so that one module (ChargeProofs) can extend *)
(* both this one and Prices.                                               *)
(***************************************************************************)
EXTENDS Integers, Sequences, SequencesExt

CONSTANTS
    Chunks,         \* the JSON objects the upstream may send
    Modes,          \* whether the request asks for a stream
    MaxLines,       \* bound on the lines of an answer
    MaxAhead,       \* bound on the lines that are sent and not read yet
    Nothing         \* stands for nil

(* The fields of a chunk.                                                  *)
ChunkFields == {"id",           \* what it says besides
                "json",         \* it can be parsed
                "usage",        \* the text "usage" occurs in it
                "prompt", "completion", "reasoning",
                "hit", "anthropic", "cached", "details",    \* cached tokens
                "cost", "costDetails",          \* in the usage object
                "topCost", "topCostDetails",    \* beside it
                "exponent"}     \* a cost is written as 1.07e-05

Flags == {"json", "usage", "exponent"}

ASSUME ChatAssumption ==
    /\ \A c \in Chunks :
          /\ DOMAIN c = ChunkFields
          /\ \A f \in ChunkFields : c[f] \in IF f \in Flags THEN BOOLEAN ELSE Int
    /\ Nothing \notin Chunks
    /\ Modes \subseteq {"stream", "whole"}
    /\ MaxLines \in Nat
    /\ MaxAhead \in Nat

Line(kind, chunk) == [kind |-> kind, chunk |-> chunk]
Blank == Line("blank", Nothing)
Done == Line("done", Nothing)      \* data: [DONE]
Data(c) == Line("data", c)

VARIABLES
    mode,           \* of the request
    sent,           \* the lines the upstream sent
    upstream,       \* open, closed (the answer is complete) or broken
    client,         \* there, gone (context cancelled) or deaf (WriteTimeout passed)
    phase,          \* reading, settling, answering, settled, released
    next,           \* the number of lines that were read
    usage,          \* UsageCapture.Usage, or result.Usage
    cost,           \* UpstreamCost of either
    got,            \* the lines the client received
    bill,           \* what FinalizeDeduction was called with, Nothing before
    lastUsed,       \* api_keys.last_used_at was set
    complete        \* history: the answer was read to its end

remote == <<sent, upstream>>
capture == <<usage, cost>>
outcome == <<bill, lastUsed>>
chatVars == <<mode, remote, client, phase, next, capture, got, outcome, complete>>

ChatInit ==
    /\ mode \in Modes
    /\ sent = <<>>
    /\ upstream = "open"
    /\ client = "there"
    /\ phase = "reading"
    /\ next = 0
    /\ usage = Nothing
    /\ cost = 0
    /\ got = <<>>
    /\ bill = Nothing
    /\ lastUsed = FALSE
    /\ complete = FALSE
-----------------------------------------------------------------------------
(***************************************************************************)
(* What the gateway reads from a chunk.                                    *)
(***************************************************************************)

FirstPositive(s) ==
    LET P == {i \in DOMAIN s : s[i] > 0}
    IN IF P = {} THEN 0 ELSE s[Min(P)]

(* ParseCacheReadTokens                                                    *)
CacheRead(c) == FirstPositive(<<c.hit, c.anthropic, c.cached, c.details>>)

BadUpstreamCost(c) == FirstPositive(<<c.cost, c.topCost>>)
(* A cost of 0 (byok) falls through to the details, and what is nested in  *)
(* the usage object comes before what is beside it.                        *)
UpstreamCost(c) ==
    FirstPositive(<<c.cost, c.costDetails, c.topCost, c.topCostDetails>>)

UsageOf(c) == [prompt |-> c.prompt, completion |-> c.completion,
               cacheRead |-> CacheRead(c), reasoning |-> c.reasoning]

HasTokens(c) == c.prompt > 0 \/ c.completion > 0

(* ParseFromChunk: a line that says nothing leaves what was captured.      *)
BadSums(c) ==  \* the costs of all chunks
    /\ usage' = IF HasTokens(c) THEN UsageOf(c) ELSE usage
    /\ cost' = cost + UpstreamCost(c)
BadParse(c) ==  \* a later chunk without usage resets it
    /\ usage' = IF HasTokens(c) THEN UsageOf(c) ELSE Nothing
    /\ cost' = IF UpstreamCost(c) > 0 THEN UpstreamCost(c) ELSE cost
Parse(c) ==
    /\ usage' = IF HasTokens(c) THEN UsageOf(c) ELSE usage
    /\ cost' = IF UpstreamCost(c) > 0 THEN UpstreamCost(c) ELSE cost

Captured(l) ==
    IF l.kind = "data" /\ l.chunk.usage /\ l.chunk.json
    THEN Parse(l.chunk)
    ELSE UNCHANGED capture

(* SanitizeResponseBody: the settlement fields are cut out.  A number with *)
(* an exponent is cut in two, and its rest damages the field before it.    *)
Sanitized(l) ==
    IF l.kind # "data" THEN l
    ELSE IF l.chunk.exponent THEN Line("damaged", Nothing)
    ELSE Data([l.chunk EXCEPT !.cost = 0, !.costDetails = 0,
                              !.topCost = 0, !.topCostDetails = 0])

(* w.Write, whose error is ignored.                                        *)
Forward(l) == got' = IF client = "there" THEN Append(got, l) ELSE got
-----------------------------------------------------------------------------
(***************************************************************************)
(* The upstream and the client.                                            *)
(***************************************************************************)
InFlight == phase = "reading" /\ upstream = "open"

(* After [DONE] there is only the blank line that ends its event.          *)
Sends(l) ==
    /\ InFlight
    /\ Len(sent) < MaxLines
    /\ Len(sent) - next < MaxAhead
    /\ Done \in ToSet(sent) => l = Blank
    /\ mode = "whole" => sent = <<>> /\ l.kind = "data"
    /\ sent' = Append(sent, l)
    /\ UNCHANGED <<mode, upstream, client, phase, next, capture, got, outcome, complete>>

Lines == {Blank, Done} \cup {Data(c) : c \in Chunks}
         \cup {Line(k, Nothing) : k \in {"comment", "long"}}

UpstreamEnds ==
    /\ InFlight
    /\ mode = "whole" => sent # <<>>
    /\ upstream' = "closed"
    /\ UNCHANGED <<mode, sent, client, phase, next, capture, got, outcome, complete>>

(* The connection breaks, or the call took 300 seconds (client.go:32).     *)
UpstreamBreaks ==
    /\ InFlight
    /\ upstream' = "broken"
    /\ UNCHANGED <<mode, sent, client, phase, next, capture, got, outcome, complete>>

(* Leaving cancels the context of the call.  A client that is there after  *)
(* 300 seconds (main.go:58) receives nothing more, but nothing is          *)
(* cancelled.                                                              *)
ClientLeaves(how) ==
    /\ phase \in {"reading", "settling", "answering"}
    /\ client = "there"
    /\ client' = how
    /\ UNCHANGED <<mode, remote, phase, next, capture, got, outcome, complete>>
-----------------------------------------------------------------------------
(***************************************************************************)
(* A stream.                                                               *)
(***************************************************************************)
Reads(l) == /\ phase = "reading"
            /\ mode = "stream"
            /\ next < Len(sent)
            /\ l = sent[next + 1]

(* Comments are left out, blank lines are passed on.                       *)
BadPassedOn(l) == l.kind \notin {"comment", "blank"}
PassedOn(l) == l.kind # "comment"

ReadLine(l) ==
    /\ Reads(l)
    /\ l.kind # "long"
    /\ next' = next + 1
    /\ Captured(l)
    /\ IF PassedOn(l) THEN Forward(Sanitized(l)) ELSE UNCHANGED got
    /\ phase' = IF l = Done THEN "settling" ELSE "reading"
    /\ complete' = (l = Done)
    /\ UNCHANGED <<mode, remote, client, outcome>>

(* The rest of a line that broke off is passed on like a line.  JSON that  *)
(* broke off is no JSON.                                                   *)
ScanStops ==
    /\ phase = "reading"
    /\ mode = "stream"
    /\ \/ /\ Reads(Line("long", Nothing))        \* longer than 1 MB
          /\ UNCHANGED <<got, complete>>
       \/ /\ upstream = "closed" /\ next = Len(sent)
          /\ complete' = TRUE
          /\ UNCHANGED got
       \/ /\ upstream = "broken" \/ client = "gone"
          /\ \/ UNCHANGED got
             \/ Forward(Line("cut", Nothing))
          /\ UNCHANGED complete
    /\ phase' = "settling"
    /\ UNCHANGED <<mode, remote, client, next, capture, outcome>>

(* FinalizeDeduction and UpdateLastUsed, in a context that nobody cancels. *)
BadFinalized(u, c) ==  \* in the context of the request
    IF client = "gone" THEN Nothing ELSE [usage |-> u, cost |-> c]
Finalized(u, c) == [usage |-> u, cost |-> c]

Settle ==
    /\ phase = "settling"
    /\ bill' = Finalized(usage, cost)
    /\ lastUsed' = TRUE
    /\ phase' = IF mode = "stream" THEN "settled" ELSE "answering"
    /\ UNCHANGED <<mode, remote, client, next, capture, got, complete>>
-----------------------------------------------------------------------------
(***************************************************************************)
(* A whole body.                                                           *)
(***************************************************************************)
Body == sent[1].chunk

(* parseUsage                                                              *)
BodyUsage(c) == IF c.json /\ HasTokens(c) THEN UsageOf(c) ELSE Nothing
BodyCost(c) == IF c.json THEN UpstreamCost(c) ELSE 0

ReadBody ==
    /\ phase = "reading"
    /\ mode = "whole"
    /\ upstream = "closed"
    /\ usage' = BodyUsage(Body)
    /\ cost' = BodyCost(Body)
    /\ next' = 1
    /\ complete' = TRUE
    /\ phase' = "settling"
    /\ UNCHANGED <<mode, remote, client, got, outcome>>

(* ChatCompletion fails: the hold is released and nothing is billed.       *)
ReadBodyFails ==
    /\ phase = "reading"
    /\ mode = "whole"
    /\ upstream = "broken" \/ client = "gone"
    /\ phase' = "released"
    /\ UNCHANGED <<mode, remote, client, next, capture, got, outcome, complete>>

(* The body is written after it was paid for, with the price (X-Cost).     *)
Answer ==
    /\ phase = "answering"
    /\ Forward(Sanitized(sent[1]))
    /\ phase' = "settled"
    /\ UNCHANGED <<mode, remote, client, next, capture, outcome, complete>>
-----------------------------------------------------------------------------
Gateway == \/ \E l \in Lines : ReadLine(l)
           \/ ScanStops \/ Settle \/ ReadBody \/ ReadBodyFails \/ Answer

Over == phase \in {"settled", "released"} /\ UNCHANGED chatVars

ChatNext == \/ \E l \in Lines : Sends(l)
            \/ UpstreamEnds \/ UpstreamBreaks
            \/ \E how \in {"gone", "deaf"} : ClientLeaves(how)
            \/ Gateway
            \/ Over

(* The goroutine of the request runs, and the 300 seconds pass.            *)
ChatSpec == ChatInit /\ [][ChatNext]_chatVars
            /\ WF_chatVars(Gateway) /\ WF_chatVars(UpstreamBreaks)
-----------------------------------------------------------------------------
(***************************************************************************)
(* Properties.                                                             *)
(***************************************************************************)
(* What the client may receive: lines, and what is left of one.            *)
Passed == {Sanitized(l) : l \in {k \in Lines : k.kind \notin {"comment", "long"}}}
          \cup {Line("cut", Nothing)}

Amounts == {0} \cup UNION {{c.cost, c.costDetails, c.topCost, c.topCostDetails} : c \in Chunks}

ChatTypeOK ==
    /\ mode \in Modes
    /\ sent \in Seq(Lines) /\ Len(sent) <= MaxLines
    /\ upstream \in {"open", "closed", "broken"}
    /\ client \in {"there", "gone", "deaf"}
    /\ phase \in {"reading", "settling", "answering", "settled", "released"}
    /\ next \in 0..Len(sent)
    /\ usage \in {UsageOf(c) : c \in Chunks} \cup {Nothing}
    /\ cost \in Amounts
    /\ got \in Seq(Passed)
    /\ lastUsed \in BOOLEAN
    /\ bill # Nothing => bill = [usage |-> usage, cost |-> cost]
    /\ complete \in BOOLEAN

(* The lines that report something of the kind.                            *)
Reporting(Says(_)) ==
    {i \in DOMAIN sent :
        /\ sent[i].kind = "data"
        /\ sent[i].chunk.json
        /\ mode = "stream" => sent[i].chunk.usage
        /\ Says(sent[i].chunk)}

(* What was reported last, as if it had been the usage of a whole body.    *)
UsageAsReported ==
    LET R == Reporting(HasTokens)
    IN bill.usage = IF R = {} THEN Nothing ELSE BodyUsage(sent[Max(R)].chunk)

Charges(c) == c.cost + c.costDetails + c.topCost + c.topCostDetails > 0

CostNotLost == Reporting(Charges) # {} => bill.cost > 0

(* Whoever reads an answer to its end pays for what the upstream reported  *)
(* last, whatever chunks with another form, with "usage":null or without   *)
(* costs come before or after it, and whether or not the client still      *)
(* listens (chat.go:193-236, usage_capture.go:19-23, client.go:151-154).   *)
(* The margin accounting never silently zeroes (client.go:156-159): if the *)
(* upstream reports its charge in any of the known shapes, in a stream     *)
(* within a chunk that has the text "usage" (chat.go:193), it is recorded. *)
BilledAsReported == complete /\ bill # Nothing => UsageAsReported /\ CostNotLost

(* What a strict client makes of a line (chat.go:175-180): it ignores      *)
(* comments, and an event is the lines up to a blank one.                  *)
NothingTaken == [events |-> <<>>, open |-> <<>>]

Takes(acc, l) ==
    CASE l.kind = "comment" -> acc
      [] l.kind = "blank" ->
            [events |-> IF acc.open = <<>> THEN acc.events ELSE Append(acc.events, acc.open),
             open |-> <<>>]
      [] OTHER -> [acc EXCEPT !.open = Append(@, l)]

(* The same for every number of lines, the first ones.                     *)
TakenUpTo(lines) ==
    LET taken[n \in 0 .. Len(lines)] ==
            IF n = 0 THEN NothingTaken ELSE Takes(taken[n - 1], lines[n])
    IN  taken

Dispatched(lines) == TakenUpTo(lines)[Len(lines)].events

SettlementFields == {"cost", "costDetails", "topCost", "topCostDetails"}

(* Line l is line k without the settlement fields, and else the same.      *)
Unharmed(l, k) ==
    /\ l.kind = k.kind
    /\ k.kind = "data" =>
          \A f \in ChunkFields :
              l.chunk[f] = IF f \in SettlementFields THEN 0 ELSE k.chunk[f]

(* A cost in line l is written with an exponent.                           *)
Exponential(l) == l.kind = "data" /\ l.chunk.exponent

(* The client dispatches the events of the upstream, in their order, line  *)
(* for line, and no other, and no comments, which can name upstream        *)
(* internals (chat.go:175-176).  Every line of them lacks the settlement   *)
(* fields and nothing else, but a line with a cost that is written with an *)
(* exponent: of what is left of such a line nothing is said here (see      *)
(* RestIdentical).  When he listened to the end he got all events but the  *)
(* last one, [DONE], whose blank line the gateway no longer reads          *)
(* (chat.go:208-210).                                                      *)
EventsFaithful ==
    mode = "stream" =>
        LET events == Dispatched(sent)
            taken == Dispatched(got)
        IN /\ Len(taken) <= Len(events)
           /\ \A i \in DOMAIN taken :
                 /\ DOMAIN taken[i] = DOMAIN events[i]
                 /\ \A j \in DOMAIN events[i] :
                       Exponential(events[i][j]) \/ Unharmed(taken[i][j], events[i][j])
           /\ complete /\ client = "there" =>
                 \A i \in DOMAIN events \ DOMAIN taken : Done \in ToSet(events[i])
           /\ \A i \in DOMAIN got : got[i].kind # "comment"

(* What the comments and a test say of every line that is passed on: it    *)
(* stays valid JSON, and everything but the fields that are stripped stays *)
(* byte-identical (masking/body.go:42-44, 54-57, body_test.go:95).  A cost *)
(* that is written with an exponent refutes it.                            *)
RestIdentical ==
    \A i \in DOMAIN got : got[i].kind = "cut" \/ \E k \in ToSet(sent) : Unharmed(got[i], k)

(* Every answer is settled, or the hold released, although the client may  *)
(* leave and the upstream may never end (chat.go:222-224).                 *)
AlwaysSettled == <>(bill # Nothing \/ phase = "released")
=============================================================================
