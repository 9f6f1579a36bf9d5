--------------------------- MODULE ResponsesRelay ---------------------------
(***************************************************************************)
(* One request to /v1/responses (proxy_responses of app/proxy.py), from    *)
(* the first upstream it is sent to until its client is answered: the      *)
(* upstreams that are tried one after the other, what each attempt counts  *)
(* for or against its channel, the upstream responses that are open, and   *)
(* the usage that is recorded.                                             *)
(*                                                                         *)
(* Payloads, headers and the account pool of Gemini are left out.          *)
(* Priorities, weights and affinity are abstracted: any channel that the   *)
(* router may choose is chosen.                                            *)
(***************************************************************************)
EXTENDS Integers, FiniteSets

CONSTANTS
  Channels,       \* provider channels with a route for the model
  Catalog,        \* the model's own upstream, taken when no channel is available
  System,         \* the same upstream as system fallback of a channel
  Legacy,         \* the backend that legacy routing falls back to
  None,
  MaxAttempts,    \* CHANNEL_FALLBACK_MAX_ATTEMPTS
  FirstOutputTimeout,  \* upstream_first_output_timeout_seconds is not 0
  FailoverWindow       \* responses_stream_failover_window_seconds is not 0

ASSUME RelayAssumption ==
  /\ IsFiniteSet(Channels)
  /\ Channels \cap {Catalog, System, Legacy, None} = {}
  /\ Catalog \notin {System, Legacy, None} /\ System \notin {Legacy, None} /\ Legacy # None
  /\ MaxAttempts \in Nat \ {0}
  /\ {FirstOutputTimeout, FailoverWindow} \subseteq BOOLEAN

Targets == Channels \cup {Catalog, System, Legacy}

VARIABLES
  cooling,    \* channels that ChannelRouter takes as unavailable
  pc,         \* where the handler stands
  used,       \* used_cfg
  tried,      \* its fallback_from_channel_id
  legacy,     \* can_fallback: legacy routing, and the backend not used yet
  system,     \* the catalog has an upstream and a key for the model
  stream,     \* the payload asks for a stream
  foreign,    \* the input holds encrypted items of another account
  encrypted,  \* encrypted_retry_used
  switched,   \* first_output_switched
  nonSse,     \* non_sse_fallback_used
  answer,     \* the upstream response that is looked at
  open,       \* upstream calls and responses that are not closed
  sent,       \* history: attempts at each target
  verdicts,   \* history: what the attempt counted for its channel
  usage,      \* usage records
  outcome     \* what the client got: None, "error", "body", "stream", "gone"

route == <<used, tried, legacy>>
flags == <<foreign, encrypted, switched, nonSse>>
ended == <<usage, outcome>>
vars == <<cooling, system, pc, route, stream, flags, answer, open, sent, verdicts, ended>>

Statuses == {"ok", "auth", "fault", "refused"}  \* < 400; 401, 403; 408, 409, 429, 5xx; the rest
(* A stream, a JSON answer, one with an error, one without any output,     *)
(* another content type, and JSON that cannot be parsed.                   *)
Bodies == {"sse", "good", "error", "empty", "text", "broken"}
Answers == [status : Statuses, body : Bodies]

ASSUME NoneAssumption ==
  None \notin Answers /\ None \notin {"error", "body", "stream", "gone"}

Init ==
  /\ cooling \in SUBSET Channels
  /\ pc = "new" /\ used = Catalog /\ tried = {} /\ legacy \in BOOLEAN /\ system \in BOOLEAN
  /\ stream \in BOOLEAN /\ foreign \in BOOLEAN
  /\ encrypted = FALSE /\ switched = FALSE /\ nonSse = FALSE
  /\ answer = None /\ open = 0
  /\ sent = [t \in Targets |-> 0]
  /\ verdicts = 0 /\ usage = 0 /\ outcome = None

(* Bound of the history: three attempts at a target stand for more.        *)
Again(n) == IF n < 3 THEN n + 1 ELSE n

-----------------------------------------------------------------------------
(* Routing. *)

(* resolve_public_model: a channel that is not cooling, or the catalog's.  *)
Resolve ==
  /\ pc = "new"
  /\ used' \in IF Channels \subseteq cooling THEN {Catalog} ELSE Channels \ cooling
  /\ pc' = "ready"
  /\ UNCHANGED <<cooling, system, tried, legacy, stream, flags, answer, open, sent, verdicts, ended>>

(* Slips: plausible errors, each put in place of the operator it is named  *)
(* after to see that a property fails.                                     *)
SlipAttempted == {used} \cap Channels       \* only the last channel is excluded

(* _channel_attempted_ids. *)
Attempted == tried \cup ({used} \cap Channels)

(* select_for_model with exclude_channel_ids. *)
Routable == Channels \ (cooling \cup Attempted)

(* _next_provider_or_system_fallback_config: another channel, or else the  *)
(* system fallback, which is terminal.                                     *)
Fallbacks ==
  IF used \notin Channels THEN {}
  ELSE IF Cardinality(Attempted) < MaxAttempts /\ Routable # {} THEN Routable
  ELSE IF system THEN {System} ELSE {}

(* _should_try_channel_fallback, and 401 and 403, which try it as well.    *)
Retryable(status) == status \in {"auth", "fault"}

SlipCanAdvance(ok, last) == (ok /\ Routable # {}) \/ (legacy /\ last)  \* no system fallback

(* _advance_stream_fallback: `ok` says whether the reason is one for       *)
(* another channel, `last` whether it is one for the legacy backend.       *)
CanAdvance(ok, last) == (ok /\ Fallbacks # {}) \/ (legacy /\ last)

Advance(ok, last) ==
  IF ok /\ Fallbacks # {}
  THEN /\ used' \in Fallbacks
       /\ tried' = Attempted
       /\ legacy' = (legacy /\ used' # System)
  ELSE /\ legacy /\ last
       /\ used' = Legacy /\ tried' = {used} \cap Channels /\ legacy' = FALSE

(* A status that the legacy backend is tried for. *)
ForLegacy(status) == used \notin Channels \/ status = "fault"

(* _record_channel_failure and record_success know provider channels only. *)
Count(n) == verdicts' = verdicts + IF used \in Channels THEN n ELSE 0
Counts(status) == IF Retryable(status) THEN 1 ELSE 0

SlipClosed(n) == n  \* the response that is given up stays open

Closed(n) == n - 1

MoveOn(ok, last) ==
  /\ Advance(ok, last)
  /\ open' = Closed(open)
  /\ pc' = "ready"
  /\ UNCHANGED ended

GiveUp ==
  /\ open' = open - 1
  /\ pc' = "done" /\ outcome' = "error"
  /\ UNCHANGED <<usage, route>>

(* The one retry at the same upstream, without the encrypted items.        *)
RetrySame ==
  /\ foreign /\ ~encrypted
  /\ foreign' = FALSE /\ encrypted' = TRUE
  /\ open' = open - 1
  /\ pc' = "ready"
  /\ UNCHANGED <<cooling, system, route, stream, switched, nonSse, answer, sent, verdicts, ended>>

Send ==
  /\ pc = "ready"
  /\ pc' = "sent"
  /\ sent' = [sent EXCEPT ![used] = Again(@)]
  /\ open' = open + 1
  /\ verdicts' = 0 /\ answer' = None
  /\ UNCHANGED <<cooling, system, route, stream, flags, ended>>

(* A connect or read error; for want of a connection of its own pool the   *)
(* request ends at once, and no channel is blamed.                         *)
TransportError ==
  /\ pc = "sent"
  /\ \/ /\ Count(1)
        /\ IF CanAdvance(TRUE, TRUE) THEN MoveOn(TRUE, TRUE) ELSE GiveUp
     \/ GiveUp /\ UNCHANGED verdicts
  /\ UNCHANGED <<cooling, system, stream, flags, answer, sent>>

-----------------------------------------------------------------------------
(* A stream. *)

Deadline == FirstOutputTimeout /\ ~switched

(* _leave_slow_channel, while the call or while its stream gives nothing.  *)
LeaveSlow ==
  /\ stream /\ pc \in {"sent", "held"} /\ Deadline
  /\ CanAdvance(TRUE, TRUE)
  /\ MoveOn(TRUE, TRUE)
  /\ Count(1)
  /\ switched' = TRUE
  /\ UNCHANGED <<cooling, system, stream, foreign, encrypted, nonSse, answer, sent>>

Headers ==
  /\ stream /\ pc = "sent"
  /\ answer' \in Answers
  /\ pc' = "headers"
  /\ UNCHANGED <<cooling, system, route, stream, flags, open, sent, verdicts, ended>>

(* Reading the body of an error raises: nothing catches it here.           *)
ErrorBodyLost ==
  /\ pc = "headers" /\ answer.status # "ok" /\ answer.body # "sse"
  /\ GiveUp
  /\ UNCHANGED <<cooling, system, stream, flags, answer, sent, verdicts>>

ForeignRefused ==
  /\ pc = "headers" /\ answer.status = "refused" /\ answer.body # "sse"
  /\ RetrySame

OnStatus ==
  /\ pc = "headers" /\ answer.status # "ok"
  /\ Count(Counts(answer.status))
  /\ LET ok == Retryable(answer.status)
         last == ForLegacy(answer.status)
     IN IF CanAdvance(ok, last) THEN MoveOn(ok, last)
        ELSE pc' = "typed" /\ UNCHANGED <<route, open, ended>>
  /\ UNCHANGED <<cooling, system, stream, flags, answer, sent>>

SlipTyped == pc = "headers" /\ answer.status = "ok"  \* an error that nobody is left for

Typed == pc = "typed" \/ (pc = "headers" /\ answer.status = "ok")

SlipTypeCounts(status) == 1  \* an error is counted again for its type

TypeCounts(status) == IF status = "ok" THEN 1 ELSE 0

(* An answer that is no stream: once, another upstream is tried.           *)
OnType ==
  /\ Typed /\ answer.body # "sse"
  /\ nonSse' = TRUE
  /\ IF nonSse THEN UNCHANGED verdicts ELSE Count(TypeCounts(answer.status))
  /\ IF ~nonSse /\ CanAdvance(TRUE, TRUE)
     THEN MoveOn(TRUE, TRUE)
     ELSE /\ pc' = "done" /\ outcome' = "body" /\ open' = open - 1
          /\ UNCHANGED <<route, usage>>
  /\ UNCHANGED <<cooling, system, stream, foreign, encrypted, switched, answer, sent>>

(* The stream is held back for its first output, or handed over at once.   *)
OnStream ==
  /\ Typed /\ answer.body = "sse"
  /\ pc' = IF answer.status # "ok" \/ ~(FailoverWindow \/ Deadline) THEN "handed" ELSE "held"
  /\ UNCHANGED <<cooling, system, route, stream, flags, answer, open, sent, verdicts, ended>>

(* Output has come, or the time is over and no upstream is left.           *)
FirstOutput ==
  /\ pc = "held"
  /\ pc' = "handed"
  /\ UNCHANGED <<cooling, system, route, stream, flags, answer, open, sent, verdicts, ended>>

ForeignFailed == pc = "held" /\ RetrySame

(* An error event, the end of the stream or a read error before any output.*)
FailsEarly ==
  /\ pc = "held"
  /\ \/ CanAdvance(TRUE, TRUE) /\ Count(1) /\ MoveOn(TRUE, TRUE)
     \/ ~CanAdvance(TRUE, TRUE) /\ Count(1) /\ GiveUp
     \/ pc' = "handed" /\ UNCHANGED <<route, open, verdicts, ended>>
  /\ UNCHANGED <<cooling, system, stream, flags, answer, sent>>

(* StreamingResponse calls iter_bytes after it has sent the headers.       *)
RelayStarts ==
  /\ pc = "handed"
  /\ pc' = "relaying"
  /\ UNCHANGED <<cooling, system, route, stream, flags, answer, open, sent, verdicts, ended>>

LeavesBeforeRelay ==
  /\ pc = "handed"
  /\ pc' = "done" /\ outcome' = "gone"
  /\ UNCHANGED <<cooling, system, route, stream, flags, answer, open, sent, verdicts, usage>>

SlipBillable(status) == TRUE  \* an error that is relayed as a stream is billed

Billable(status) == status = "ok"

(* iter_bytes: the outcome is counted unless the request was at fault; the *)
(* usage is scheduled last.                                                *)
RelayEnds ==
  /\ pc = "relaying"
  /\ pc' = "done" /\ outcome' = "stream" /\ open' = open - 1
  /\ usage' = usage + IF Billable(answer.status) THEN 1 ELSE 0
  /\ \E n \in {0, 1} : Count(IF answer.status = "ok" THEN n ELSE 0)
  /\ UNCHANGED <<cooling, system, route, stream, flags, answer, sent>>

(* The client goes away: what is awaited before the usage may be cut.      *)
LeavesRelay ==
  /\ pc = "relaying"
  /\ pc' = "done" /\ outcome' = "gone" /\ open' = open - 1
  /\ \/ usage' = usage + IF Billable(answer.status) THEN 1 ELSE 0
     \/ UNCHANGED usage
  /\ UNCHANGED <<cooling, system, route, stream, flags, answer, sent, verdicts>>

-----------------------------------------------------------------------------
(* No stream: the answer is read as a whole and then decided upon. *)

JsonAnswer(a) == ~stream /\ pc = "sent" /\ answer' = a /\ UNCHANGED <<cooling, system, stream, sent>>

JsonForeign ==
  /\ ~stream /\ pc = "sent"
  /\ RetrySame

MovesByStatus(a) ==
  a.status # "ok" /\ CanAdvance(Retryable(a.status), ForLegacy(a.status))

Unreadable(a) == a.body \in {"sse", "text", "broken"}
EmptySuccess(a) == a.status = "ok" /\ a.body = "empty"

JsonMoves(a) ==
  /\ JsonAnswer(a)
  /\ \/ /\ MovesByStatus(a)
        /\ MoveOn(Retryable(a.status), ForLegacy(a.status)) /\ Count(Counts(a.status))
     \/ /\ ~MovesByStatus(a) /\ Unreadable(a) /\ CanAdvance(TRUE, TRUE)
        /\ MoveOn(TRUE, TRUE) /\ Count(1)
     \/ /\ EmptySuccess(a) /\ CanAdvance(TRUE, FALSE)
        /\ MoveOn(TRUE, FALSE) /\ Count(1)
  /\ UNCHANGED flags

JsonEnds(a) ==
  /\ JsonAnswer(a)
  /\ ~MovesByStatus(a)
  /\ \/ /\ Unreadable(a) /\ ~CanAdvance(TRUE, TRUE)
        /\ GiveUp /\ Count(1)
     \/ /\ EmptySuccess(a) /\ ~CanAdvance(TRUE, FALSE)
        /\ GiveUp /\ Count(1)
     \/ /\ a.body = "error"
        /\ GiveUp /\ Count(IF a.status = "ok" THEN 1 ELSE Counts(a.status))
     \/ /\ a.body \in {"good", "empty"} /\ a.status # "ok"
        /\ GiveUp /\ Count(Counts(a.status))
     \/ /\ a.body = "good" /\ a.status = "ok"
        /\ usage' = usage + 1
        /\ pc' = "done" /\ outcome' = "body" /\ open' = open - 1
        /\ Count(1) /\ UNCHANGED route
  /\ UNCHANGED flags

-----------------------------------------------------------------------------
(* Other requests, time and operators change what is available while the   *)
(* handler awaits what it decides upon.                                    *)
Cool ==
  /\ pc \in {"sent", "held"}
  /\ \E c \in Channels : cooling' = IF c \in cooling THEN cooling \ {c} ELSE cooling \cup {c}
  /\ UNCHANGED <<system, pc, route, stream, flags, answer, open, sent, verdicts, ended>>

Progress ==
  \/ Resolve \/ Send \/ TransportError
  \/ LeaveSlow \/ Headers \/ ErrorBodyLost \/ ForeignRefused \/ OnStatus \/ OnType \/ OnStream
  \/ FirstOutput \/ ForeignFailed \/ FailsEarly \/ RelayStarts \/ RelayEnds
  \/ JsonForeign \/ \E a \in Answers : JsonMoves(a) \/ JsonEnds(a)

Next == Progress \/ LeavesBeforeRelay \/ LeavesRelay \/ Cool

-----------------------------------------------------------------------------
(* Types of the handler's variables. *)
TypeOK ==
  /\ cooling \subseteq Channels
  /\ pc \in {"new", "ready", "sent", "headers", "typed", "held", "handed", "relaying", "done"}
  /\ used \in Targets /\ tried \subseteq Channels /\ legacy \in BOOLEAN
  /\ {system, stream, foreign, encrypted, switched, nonSse} \subseteq BOOLEAN
  /\ answer \in Answers \cup {None}
  /\ open \in Nat /\ sent \in [Targets -> 0 .. 3] /\ verdicts \in Nat /\ usage \in Nat
  /\ outcome \in {None, "error", "body", "stream", "gone"}

(* No upstream gets the request twice, over channels, system fallback and  *)
(* legacy backend, but for the one retry without encrypted items.          *)
EachUpstreamOnce ==
  \A t \in Targets : sent[t] <= IF encrypted THEN 2 ELSE 1

(* One upstream call is open at a time, and none at the end, unless the    *)
(* client left before the relay of its stream began.                       *)
ResponsesClosed ==
  /\ open <= 1
  /\ pc = "done" /\ outcome # "gone" => open = 0
=============================================================================
