------------------------------ MODULE ModelRelay ------------------------------
(***************************************************************************)
(* One request to a model, whatever handler serves it: /v1/responses       *)
(* (ResponsesRelay), /v1/chat/completions, which has the same failover in  *)
(* code of its own, and the handlers that know a single upstream: the      *)
(* Kiro-Go lane of both endpoints, chat over an Anthropic upstream, chat   *)
(* over the Gemini pool, and embeddings (app/openai_compat.py).            *)
(***************************************************************************)
EXTENDS ResponsesRelay

VARIABLE api   \* the handler that serves the request

Failover == {"responses", "chat"}
Direct == {"kiro", "claude", "gemini", "embeddings"}
Handlers == Failover \cup Direct
Streaming == Failover \cup {"kiro", "claude"}

RelayInit ==
  /\ Init
  /\ api \in Handlers
  /\ api # "responses" => ~foreign
  /\ api \in Direct => ~legacy /\ ~system
  /\ stream => api \in Streaming

-----------------------------------------------------------------------------
(* /v1/chat/completions. *)

ChatSend == api = "chat" /\ Send

(* The call fails, or gives nothing before the deadline for first output.  *)
ChatCallFails == api = "chat" /\ TransportError
ChatLeavesSlow == api = "chat" /\ LeaveSlow

ChatHeaders == api = "chat" /\ Headers
ChatStatus == api = "chat" /\ (ErrorBodyLost \/ OnStatus)

(* An answer that is no stream moves on once, and then is answered as it   *)
(* is: an empty one as an error that counts for the channel once more, one *)
(* that cannot be parsed as an error of the handler.                       *)
ChatType ==
  /\ api = "chat" /\ Typed /\ answer.body # "sse"
  /\ LET first == IF nonSse THEN 0 ELSE TypeCounts(answer.status)
         success == answer.status = "ok"
     IN \/ /\ ~nonSse /\ CanAdvance(TRUE, TRUE)
           /\ MoveOn(TRUE, TRUE) /\ Count(first)
        \/ /\ nonSse \/ ~CanAdvance(TRUE, TRUE)
           /\ pc' = "done" /\ open' = open - 1
           /\ outcome' = IF success /\ answer.body \in {"empty", "broken"} THEN "error" ELSE "body"
           /\ Count(first + IF success /\ answer.body = "empty" THEN 1 ELSE 0)
           /\ UNCHANGED <<route, usage>>
  /\ nonSse' = TRUE
  /\ UNCHANGED <<cooling, system, stream, foreign, encrypted, switched, answer, sent>>

ChatHolds == api = "chat" /\ (OnStream \/ FirstOutput \/ FailsEarly)
ChatRelays == api = "chat" /\ (RelayStarts \/ RelayEnds)
ChatClientLeaves == api = "chat" /\ (LeavesBeforeRelay \/ LeavesRelay)

(* Without a stream, the legacy backend is tried for any error status.     *)
ChatMovesByStatus(a) == a.status # "ok" /\ CanAdvance(Retryable(a.status), TRUE)

ChatJsonMoves(a) ==
  /\ api = "chat" /\ JsonAnswer(a)
  /\ \/ /\ ChatMovesByStatus(a)
        /\ MoveOn(Retryable(a.status), TRUE) /\ Count(Counts(a.status))
     \/ /\ ~ChatMovesByStatus(a) /\ Unreadable(a) /\ CanAdvance(TRUE, TRUE)
        /\ MoveOn(TRUE, TRUE) /\ Count(1)
     \/ /\ EmptySuccess(a) /\ CanAdvance(TRUE, FALSE)
        /\ MoveOn(TRUE, FALSE) /\ Count(1)
  /\ UNCHANGED flags

(* _record_channel_failure with a status does not count 401 and 403.       *)
Faulty(status) == IF status = "fault" THEN 1 ELSE 0

ChatJsonEnds(a) ==
  /\ api = "chat" /\ JsonAnswer(a)
  /\ ~ChatMovesByStatus(a)
  /\ \/ Unreadable(a) /\ ~CanAdvance(TRUE, TRUE) /\ GiveUp /\ Count(1)
     \/ EmptySuccess(a) /\ ~CanAdvance(TRUE, FALSE) /\ GiveUp /\ Count(1)
     \/ /\ a.body = "error"
        /\ GiveUp /\ Count(IF a.status = "ok" THEN 1 ELSE Counts(a.status))
     \/ /\ a.body \in {"good", "empty"} /\ a.status # "ok"
        /\ GiveUp /\ Count(Faulty(a.status))
     \/ /\ a.body = "good" /\ a.status = "ok"
        /\ usage' = usage + 1
        /\ pc' = "done" /\ outcome' = "body" /\ open' = open - 1
        /\ Count(1) /\ UNCHANGED route
  /\ UNCHANGED flags

ChatJson == \E a \in Answers : ChatJsonMoves(a) \/ ChatJsonEnds(a)

ChatProgress ==
  \/ ChatSend \/ ChatCallFails \/ ChatLeavesSlow \/ ChatHeaders \/ ChatStatus \/ ChatType
  \/ ChatHolds \/ ChatRelays \/ ChatJson

-----------------------------------------------------------------------------
(* A single upstream. *)

DirectSend == api \in Direct /\ Send

(* A transport error counts, unless the process's own pool was exhausted.  *)
DirectFails ==
  /\ api \in Direct /\ pc = "sent"
  /\ GiveUp
  /\ Count(1) \/ UNCHANGED verdicts
  /\ UNCHANGED <<cooling, system, stream, flags, answer, sent>>

(* Whatever status and type it has, the answer is relayed as a stream.     *)
DirectHeaders ==
  /\ api \in Direct /\ stream /\ pc = "sent"
  /\ answer' \in Answers
  /\ pc' = "handed"
  /\ UNCHANGED <<cooling, system, route, stream, flags, open, sent, verdicts, ended>>

DirectStarts == api \in Direct /\ RelayStarts

Result(n, result) ==
  /\ open' = open - 1
  /\ pc' = "done" /\ outcome' = result
  /\ usage' = usage + n
  /\ UNCHANGED route

(* The finally clause of the Kiro-Go relay, at the end of the stream or on *)
(* a read error: any stream of a success is one, whatever was relayed.     *)
KiroStreamEnds(result) ==
  /\ api = "kiro" /\ pc = "relaying"
  /\ Result(IF Billable(answer.status) THEN 1 ELSE 0, result)
  /\ Count(IF answer.status = "ok" THEN 1 ELSE Faulty(answer.status))
  /\ UNCHANGED <<cooling, system, stream, flags, answer, sent>>

(* The Anthropic relay asks for usage as well. *)
ClaudeStreamEnds(result) ==
  /\ api = "claude" /\ pc = "relaying"
  /\ \E seen \in BOOLEAN :
       /\ Result(IF Billable(answer.status) /\ seen THEN 1 ELSE 0, result)
       /\ Count(IF answer.status = "ok" /\ seen THEN 1 ELSE Faulty(answer.status))
  /\ UNCHANGED <<cooling, system, stream, flags, answer, sent>>

(* A client that leaves cuts what comes after the close of the upstream.   *)
DirectClientLeaves ==
  \/ KiroStreamEnds("gone") \/ ClaudeStreamEnds("gone")
  \/ /\ api \in Direct /\ pc = "relaying"
     /\ Result(0, "gone")
     /\ UNCHANGED <<cooling, system, stream, flags, answer, sent, verdicts>>
  \/ api \in Direct /\ LeavesBeforeRelay

Whole(a) == JsonAnswer(a) /\ UNCHANGED flags
Text(a) == a.body \in {"sse", "text"}
Delivered(a) == a.status = "ok"

KiroJson(a) ==
  /\ api = "kiro" /\ Whole(a)
  /\ \/ a.body = "broken" /\ GiveUp /\ Count(1)
     \/ a.body = "error" /\ GiveUp /\ Count(Faulty(a.status))
     \/ a.body \notin {"broken", "error"} /\ ~Delivered(a) /\ GiveUp /\ Count(Faulty(a.status))
     \/ Text(a) /\ Delivered(a) /\ Result(0, "body") /\ Count(1)
     \/ a.body \in {"good", "empty"} /\ Delivered(a) /\ Result(1, "body") /\ Count(1)

(* What is neither a message nor a list of choices is an invalid answer.   *)
ClaudeJson(a) ==
  /\ api = "claude" /\ Whole(a)
  /\ \/ (Text(a) \/ a.body = "broken") /\ GiveUp /\ Count(1)
     \/ /\ a.body = "error" \/ (a.body \in {"good", "empty"} /\ ~Delivered(a))
        /\ GiveUp /\ Count(Faulty(a.status))
     \/ a.body = "empty" /\ Delivered(a) /\ GiveUp /\ Count(1)
     \/ a.body = "good" /\ Delivered(a) /\ Result(1, "body") /\ Count(1)

(* A failure counts when it is received and again when it is answered.     *)
GeminiCounts(a) == 2 * Faulty(a.status)

GeminiJson(a) ==
  /\ api = "gemini" /\ Whole(a)
  /\ \/ a.body = "broken" /\ GiveUp /\ Count(1)
     \/ a.body # "broken" /\ ~Delivered(a) /\ GiveUp /\ Count(GeminiCounts(a))
     \/ a.body = "error" /\ Delivered(a) /\ GiveUp /\ Count(1)
     \/ Text(a) /\ Delivered(a) /\ Result(0, "body") /\ Count(1)
     \/ a.body \in {"good", "empty"} /\ Delivered(a) /\ Result(1, "body") /\ Count(1)

(* A success is recorded whatever it holds. *)
EmbeddingsJson(a) ==
  /\ api = "embeddings" /\ Whole(a)
  /\ \/ a.body = "broken" /\ GiveUp /\ Count(1)
     \/ a.body # "broken" /\ ~Delivered(a) /\ GiveUp /\ Count(Faulty(a.status))
     \/ a.body # "broken" /\ Delivered(a) /\ Result(1, "body") /\ Count(1)

DirectProgress ==
  \/ DirectSend \/ DirectFails \/ DirectHeaders \/ DirectStarts
  \/ KiroStreamEnds("stream") \/ ClaudeStreamEnds("stream")
  \/ \E a \in Answers : KiroJson(a) \/ ClaudeJson(a) \/ GeminiJson(a) \/ EmbeddingsJson(a)

-----------------------------------------------------------------------------
RelayProgress ==
  /\ \/ api = "responses" /\ Progress
     \/ api # "responses" /\ Resolve
     \/ ChatProgress \/ DirectProgress
  /\ UNCHANGED api

RelayNext ==
  \/ RelayProgress
  \/ /\ \/ api = "responses" /\ (LeavesBeforeRelay \/ LeavesRelay)
        \/ ChatClientLeaves \/ DirectClientLeaves \/ Cool
     /\ UNCHANGED api

-----------------------------------------------------------------------------
(* An attempt counts once at most for its channel, whatever checks it      *)
(* passes on its way (allowed_fails counts failed requests, not checks).   *)
(* Two places count twice: an empty JSON answer to a chat stream, and a    *)
(* failure of the Gemini pool.                                             *)
OneVerdict ==
  \/ verdicts <= 1
  \/ /\ verdicts = 2 /\ pc = "done" /\ outcome = "error"
     /\ \/ api = "chat" /\ stream /\ answer = [status |-> "ok", body |-> "empty"]
        \/ api = "gemini" /\ answer.status = "fault"

(* At the end one usage record for a success that was delivered as it was  *)
(* asked for, none for an error, one at most when the client left. Text is *)
(* not billed, nor an Anthropic stream that names no usage.                *)
UsageOnce ==
  pc = "done" =>
    /\ usage <= 1
    /\ outcome = "error" \/ answer.status # "ok" => usage = 0
    /\ outcome = "stream" /\ answer.status = "ok" /\ api # "claude" => usage = 1
    /\ outcome = "body" /\ ~stream => usage = 1 \/ (api \in Direct /\ Text(answer))

(* No upstream gets a request twice, and a request is accounted for as it  *)
(* ended, whichever of the six handlers served it and at whichever step it *)
(* failed, moved on or lost its client (MessagesRelay has the accounts of  *)
(* the seventh).                                                           *)
AccountedOnce == EachUpstreamOnce /\ (api \in Handlers => OneVerdict /\ UsageOnce)

(* README.zh-CN.md, fallback: a request ends with an error that counts     *)
(* against a channel only if no channel and no system fallback is left;    *)
(* an answer of status 200 that holds an error is the exception, and an    *)
(* empty one to a chat stream that had an answer of the wrong type before. *)
NoEarlySurrender ==
  [][ (api \in Failover /\ pc # "done" /\ outcome' = "error" /\ verdicts' > verdicts)
      => \/ Fallbacks = {}
         \/ /\ answer' # None /\ answer'.status = "ok"
            /\ answer'.body = "error" \/ (api = "chat" /\ nonSse /\ answer'.body = "empty") ]_<<vars, api>>

(* However upstreams fail, the client is answered. *)
RequestEnds == api \in Handlers ~> pc = "done"

(* What becomes of a request whose upstreams fail: all that are left are   *)
(* tried, and the client is answered.                                      *)
AnsweredInTheEnd == NoEarlySurrender /\ RequestEnds
=============================================================================
