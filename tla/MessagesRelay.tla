---------------------------- MODULE MessagesRelay ----------------------------
(***************************************************************************)
(* One request to /v1/messages (anthropic_messages of                      *)
(* app/anthropic_compat.py): the channels that are tried until the client  *)
(* would see an event, the relay of an Anthropic stream as it is and of an *)
(* OpenAI stream in translation, and the records of attempts. Routing,     *)
(* channels and the life of an upstream response are those of              *)
(* ResponsesRelay, without a system fallback or a legacy backend.          *)
(*                                                                         *)
(* Pings, request identifiers and alerts are left out; after [DONE] or     *)
(* message_stop an upstream sends nothing but the end of its stream.       *)
(*                                                                         *)
(* With the handlers of ModelRelay it makes EndpointSpec, one request to   *)
(* any of the seven.                                                       *)
(***************************************************************************)
EXTENDS ModelRelay, AnthropicStream

VARIABLES
  native,   \* attempt.is_native
  wire,     \* the events the upstream sends, "openai" or "anthropic"
  state,    \* stream_state, and the client that reads what is yielded
  logged,   \* records of failed attempts
  failures  \* those that are terminal, with requests = 1

relay == <<native, wire, state>>
records == <<logged, failures>>
endpointVars == <<vars, api, relay, records>>

NothingRelayed == wire = "openai" /\ state = Fresh /\ logged = 0 /\ failures = 0

MessagesInit ==
  /\ api = "messages"
  /\ Init /\ ~legacy /\ ~system /\ ~foreign
  /\ native \in BOOLEAN /\ NothingRelayed

-----------------------------------------------------------------------------
(* Slips: plausible errors, each put in place of the operator it is named  *)
(* after to see that a property fails.                                     *)
SlipRecord(terminal) ==   \* every record counts a request
  logged' = logged + 1 /\ failures' = failures + 1

(* _record_failed_attempt with a status or an error that counts. *)
Record(terminal) ==
  /\ logged' = logged + 1
  /\ failures' = failures + IF terminal THEN 1 ELSE 0

(* A failure before the client has seen an event: another channel is       *)
(* chosen first, then the attempt is recorded as terminal or not.          *)
AttemptFails(n, retryable) ==
  /\ Count(n)
  /\ LET another == retryable /\ Fallbacks # {}
     IN /\ Record(~another)
        /\ IF another THEN MoveOn(TRUE, FALSE) ELSE GiveUp

MessagesRoute == Resolve /\ UNCHANGED <<relay, records>>

(* A lane or a channel of its own decides whether the upstream is native.  *)
MessagesSend == Send /\ native' \in BOOLEAN /\ UNCHANGED <<wire, state, records>>

(* Without a connection of the own pool no channel is blamed.              *)
MessagesCallFails ==
  /\ pc = "sent"
  /\ \/ AttemptFails(1, TRUE)
     \/ Record(TRUE) /\ GiveUp /\ UNCHANGED verdicts
  /\ UNCHANGED <<cooling, system, stream, flags, answer, sent, relay>>

(* A stream or not, 401, 403, 408, 429 and 5xx go to another channel; 409, *)
(* among the rest, counts for the channel all the same.                    *)
MessagesStatus ==
  /\ pc = "sent"
  /\ \E a \in Answers :
       /\ a.status # "ok" /\ answer' = a
       /\ \/ AttemptFails(Counts(a.status), Retryable(a.status))
          \/ a.status = "refused" /\ AttemptFails(1, FALSE)
  /\ UNCHANGED <<cooling, system, stream, flags, sent, relay>>

-----------------------------------------------------------------------------
(* A stream, whatever its content type. *)

(* The lines are read until there is an event for the client ...           *)
PreflightReads ==
  /\ stream /\ pc = "sent"
  /\ answer' \in {a \in Answers : a.status = "ok" /\ a.body = "sse"}
  /\ wire' \in IF native THEN {"openai", "anthropic"} ELSE {"openai"}
  /\ pc' = "handed"
  /\ UNCHANGED <<cooling, system, route, stream, flags, open, sent, verdicts, ended>>
  /\ UNCHANGED <<native, state, records>>

(* ... or the stream ends, breaks, or has an error or unreadable event.    *)
PreflightFails ==
  /\ stream /\ pc = "sent"
  /\ answer' \in {a \in Answers : a.status = "ok"}
  /\ AttemptFails(1, TRUE)
  /\ UNCHANGED <<cooling, system, stream, flags, sent, relay>>

(* The relay begins with the event that was held, then reads on.           *)
SlipRelaying == pc = "relaying"   \* the event that was held is not handed over

Relaying == pc = "relaying" \/ pc = "handed"

Streams(s) ==
  /\ pc' = "relaying" /\ state' = s
  /\ UNCHANGED <<cooling, system, route, stream, flags, answer, open, sent, verdicts, ended>>
  /\ UNCHANGED <<native, wire, records>>

RelaysChunk ==
  /\ Relaying /\ wire = "openai" /\ ~state.stopped
  /\ \E s \in Translations(state) : Streams(s)

RelaysUsage ==
  /\ pc = "relaying" /\ wire = "openai" /\ ~state.stopped
  /\ Streams(NamesUsage(state))

RelaysDone ==
  /\ Relaying /\ wire = "openai" /\ ~state.stopped
  /\ Streams(Finalize(state))

(* The events of an Anthropic upstream are passed on; message_start and    *)
(* message_delta name the usage, if it does. Content stays out.            *)
RelaysEvent ==
  /\ Relaying /\ wire = "anthropic"
  /\ \E kind \in {"start", "end", "stop"}, u \in BOOLEAN :
       /\ Expects(state.reader, Event(kind, NoBlock))
       /\ u => kind # "stop"
       /\ Streams(Emit([state EXCEPT !.started = TRUE, !.stopped = (kind = "stop"), !.usage = @ \/ u],
                       kind, NoBlock))

Goodbye == state' = Emit(state, "error", NoBlock)

Closing(result) ==
  /\ pc' = "done" /\ outcome' = result /\ open' = open - 1
  /\ UNCHANGED <<cooling, system, route, stream, flags, answer, sent, native, wire>>

SlipCut == ~state.started   \* the end of a stream is taken for its completion

(* The stream ends: not without a message_stop, and billed if it named a   *)
(* usage.                                                                  *)
Cut == ~state.stopped

Succeeds == IF state.usage THEN usage' = usage + 1 /\ Count(1) ELSE UNCHANGED <<usage, verdicts>>

StreamEnds ==
  /\ pc = "relaying"
  /\ IF Cut
     THEN /\ Count(1) /\ Record(TRUE) /\ Goodbye
          /\ UNCHANGED usage
     ELSE Succeeds /\ UNCHANGED <<state, records>>
  /\ Closing("stream")

(* A read error, even after message_stop, is an error for the client.      *)
StreamBreaks ==
  /\ pc = "relaying"
  /\ Count(1) /\ Record(TRUE) /\ Goodbye
  /\ IF native THEN Closing("stream") /\ UNCHANGED usage
     ELSE /\ pc' = "failing"
          /\ UNCHANGED <<cooling, system, route, stream, flags, answer, open, sent, ended>>
          /\ UNCHANGED <<native, wire>>

(* An error event of the upstream is passed on, then recorded.             *)
RelaysError ==
  /\ pc = "relaying" /\ wire = "anthropic" /\ ~state.stopped
  /\ pc' = "failing"
  /\ Goodbye
  /\ UNCHANGED <<cooling, system, route, stream, flags, answer, open, sent, verdicts, ended>>
  /\ UNCHANGED <<native, wire, records>>

FailureEnds ==
  /\ pc = "failing"
  /\ IF native THEN Count(1) /\ Record(TRUE) ELSE UNCHANGED <<verdicts, records>>
  /\ Closing("stream")
  /\ UNCHANGED <<usage, state>>

-----------------------------------------------------------------------------
(* The client goes away while the generator is suspended. *)

(* The native relay closes the upstream and records nothing more.          *)
LeavesNative ==
  /\ native /\ pc \in {"relaying", "failing"}
  /\ Closing("gone")
  /\ UNCHANGED <<usage, verdicts, state, records>>

(* The finally clause of the other takes a message that is not complete    *)
(* for a failure, once more if one was recorded; the event it yields then  *)
(* keeps it from closing the upstream. The record may be cut.              *)
LeavesOpenai ==
  /\ ~native /\ pc \in {"relaying", "failing"}
  /\ IF Cut
     THEN /\ Count(1)
          /\ Record(TRUE) \/ UNCHANGED records
          /\ pc' = "done" /\ outcome' = "gone"
          /\ UNCHANGED <<cooling, system, route, stream, flags, answer, open, sent, usage>>
          /\ UNCHANGED <<native, wire>>
     ELSE Succeeds /\ Closing("gone") /\ UNCHANGED records
  /\ UNCHANGED state

LeavesUnread == LeavesBeforeRelay /\ UNCHANGED <<relay, records>>

-----------------------------------------------------------------------------
(* No stream: the answer is read as a whole. *)

WholeAnswer(a) == ~stream /\ pc = "sent" /\ a.status = "ok" /\ answer' = a

(* A native upstream may answer with a stream nevertheless.                *)
WholeStreamCut ==
  /\ native
  /\ \E a \in Answers : a.body = "sse" /\ WholeAnswer(a)
  /\ AttemptFails(1, TRUE)
  /\ UNCHANGED <<cooling, system, stream, flags, sent, relay>>

(* What is no JSON is delivered as it is, a complete stream billed if it   *)
(* named a usage.                                                          *)
WholeText ==
  /\ \E a \in Answers : a.body \in {"sse", "text"} /\ WholeAnswer(a)
  /\ \E u \in BOOLEAN :
       /\ u => native /\ answer'.body = "sse"
       /\ state' = [state EXCEPT !.usage = u]
       /\ usage' = usage + IF u THEN 1 ELSE 0
       /\ Count(IF u THEN 1 ELSE 0)
  /\ pc' = "done" /\ outcome' = "body" /\ open' = open - 1
  /\ UNCHANGED <<cooling, system, route, stream, flags, sent, native, wire, records>>

(* What cannot be parsed ends the request. *)
WholeBroken ==
  /\ \E a \in Answers : a.body = "broken" /\ WholeAnswer(a)
  /\ AttemptFails(1, FALSE)
  /\ UNCHANGED <<cooling, system, stream, flags, sent, relay>>

(* Any JSON answer of a success is a message, and billed. *)
WholeMessage ==
  /\ \E a \in Answers : a.body \in {"good", "error", "empty"} /\ WholeAnswer(a)
  /\ usage' = usage + 1 /\ Count(1)
  /\ pc' = "done" /\ outcome' = "body" /\ open' = open - 1
  /\ UNCHANGED <<cooling, system, route, stream, flags, sent, relay, records>>

-----------------------------------------------------------------------------
MessagesProgress ==
  \/ MessagesRoute \/ MessagesSend \/ MessagesCallFails \/ MessagesStatus
  \/ PreflightReads \/ PreflightFails \/ RelaysChunk \/ RelaysUsage \/ RelaysDone \/ RelaysEvent
  \/ StreamEnds \/ StreamBreaks \/ RelaysError \/ FailureEnds
  \/ WholeStreamCut \/ WholeText \/ WholeBroken \/ WholeMessage

MessagesNext ==
  \/ MessagesProgress \/ LeavesNative \/ LeavesOpenai \/ LeavesUnread
  \/ Cool /\ UNCHANGED <<relay, records>>

(* One request to any of the handlers.                                     *)
EndpointInit == MessagesInit \/ (RelayInit /\ native = FALSE /\ NothingRelayed)

HandlerProgress == api \in Handlers /\ RelayProgress /\ UNCHANGED <<relay, records>>

EndpointNext ==
  \/ api \in Handlers /\ RelayNext /\ UNCHANGED <<relay, records>>
  \/ api = "messages" /\ MessagesNext /\ UNCHANGED api

EndpointSpec == EndpointInit /\ [][EndpointNext]_endpointVars

(* An upstream answers or a timeout of httpx ends the wait. The stream of  *)
(* a message may go on for ever.                                           *)
EndpointFairSpec == EndpointSpec /\ WF_endpointVars(HandlerProgress)

-----------------------------------------------------------------------------
(* The client reads one well-formed message: one message_start, deltas in  *)
(* open blocks only, blocks closed before message_delta and message_stop,  *)
(* and never a message_stop after an error (docs/operations/               *)
(* claude-code-upstream-runbook.md).                                       *)
StreamWellFormed == state.reader.phase # "lost"

Attempts == Cardinality({t \in Targets : sent[t] > 0})

(* Every failed attempt is logged, and only the last can be terminal; a    *)
(* request that the client saw to its end is one terminal failure or one   *)
(* success, unless the answer named no usage.                              *)
AttemptsRecorded ==
  pc = "done" /\ outcome # "gone" =>
    /\ failures + usage <= 1
    /\ logged = Attempts - IF failures = 1 THEN 0 ELSE 1
    /\ failures + usage = 0 =>
         /\ answer.status = "ok" /\ answer.body \in {"sse", "text"} /\ ~state.usage
         /\ outcome = "stream" => state.reader.phase = "stopped"

(* A message is billed if and only if the client could read it to its end: *)
(* a stream that ends in an error never is.                                *)
BilledAsShown ==
  pc = "done" /\ outcome = "stream" =>
    /\ state.reader.phase = "failed" => usage = 0 /\ failures = 1
    /\ state.reader.phase = "stopped" /\ state.usage => usage = 1
    /\ state.reader.phase \in {"failed", "stopped"}

(* What is recorded of a request, its attempts, its outcome and its bill,  *)
(* is what the client has seen.                                            *)
RecordedAsShown == api = "messages" => AttemptsRecorded /\ BilledAsShown
=============================================================================
