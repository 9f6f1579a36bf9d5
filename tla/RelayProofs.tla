------------------------------ MODULE RelayProofs ------------------------------
(***************************************************************************)
(* Proofs about a request to any of the seven model handlers, for any      *)
(* channels, number of attempts and tools.                                 *)
(***************************************************************************)
EXTENDS MessagesRelay, FiniteSetTheorems, TLAPS

USE RelayAssumption DEF RelayAssumption

-----------------------------------------------------------------------------
(* The course of a request: where the handler stands, the upstream that it *)
(* uses, and the responses that are open.                                  *)

Waiting == {"sent", "headers", "typed", "held", "handed", "relaying", "failing"}

CourseTypes ==
  /\ pc \in {"new", "ready", "done"} \cup Waiting
  /\ used \in Targets /\ tried \subseteq Channels
  /\ legacy \in BOOLEAN /\ encrypted \in BOOLEAN
  /\ sent \in [Targets -> 0 .. 3]

(* A response is open exactly while the handler waits for it or for the    *)
(* client that reads it; a client that leaves may leave one open.          *)
OpenWhileWaiting ==
  /\ pc \in {"new", "ready"} => open = 0
  /\ pc \in Waiting => open = 1
  /\ pc = "done" => open \in {0, 1} /\ (outcome # "gone" => open = 0)

(* The attempt that is due has been made at most once, if it is the retry. *)
NowUsed ==
  sent[used] <= (IF encrypted THEN 1 ELSE 0) + (IF pc \in {"new", "ready"} THEN 0 ELSE 1)

(* Only channels that count as attempted were sent the request before, and *)
(* system fallback and legacy backend are the last upstream of a request.  *)
Course ==
  /\ used \in Channels => /\ used \notin tried
                          /\ \A t \in Targets \ (tried \cup {used}) : sent[t] = 0
  /\ used = Catalog => \A t \in Targets \ {Catalog} : sent[t] = 0
  /\ used \in {System, Legacy} => ~legacy
  /\ pc = "new" => used = Catalog /\ tried = {} /\ ~encrypted

CourseInv == CourseTypes /\ OpenWhileWaiting /\ NowUsed /\ Course /\ EachUpstreamOnce

-----------------------------------------------------------------------------
(* What any step does to the course. *)
Rests == UNCHANGED <<pc, route, sent, encrypted, open, outcome>>
GoesOn == pc \in Waiting /\ pc' \in Waiting /\ UNCHANGED <<route, sent, encrypted, open>>
Finishes ==
  /\ pc \in Waiting /\ pc' = "done"
  /\ open' = open - 1 \/ (open' = open /\ outcome' = "gone")
  /\ UNCHANGED <<route, sent, encrypted>>
Advances ==
  /\ pc \in Waiting /\ pc' = "ready" /\ open' = open - 1
  /\ \E ok, last \in BOOLEAN : Advance(ok, last)
  /\ UNCHANGED <<sent, encrypted>>
Repeats ==
  /\ pc \in Waiting /\ pc' = "ready" /\ open' = open - 1
  /\ ~encrypted /\ encrypted' = TRUE
  /\ UNCHANGED <<route, sent>>

CourseStep == Rests \/ GoesOn \/ Finishes \/ Advances \/ Repeats \/ Resolve \/ Send

LEMMA MoveOnAdvances ==
  ASSUME NEW ok \in BOOLEAN, NEW last \in BOOLEAN, MoveOn(ok, last), pc \in Waiting,
         UNCHANGED <<sent, encrypted>>
  PROVE  Advances
  BY DEF MoveOn, Closed, Advances

LEMMA GiveUpFinishes ==
  ASSUME GiveUp, pc \in Waiting, UNCHANGED <<sent, encrypted>>
  PROVE  Finishes
  BY DEF GiveUp, Finishes, route

LEMMA RetryRepeats == ASSUME RetrySame, pc \in Waiting PROVE Repeats
  BY DEF RetrySame, Repeats, route

(* The steps of /v1/responses and /v1/chat/completions. *)
LEMMA FailoverCourse ==
  ASSUME RelayNext, api \in Failover
  PROVE  CourseStep
<1> USE DEF CourseStep
<1>1. CASE TransportError
  BY <1>1, MoveOnAdvances, GiveUpFinishes DEF TransportError, flags, Waiting
<1>2. CASE LeaveSlow
  BY <1>2, MoveOnAdvances DEF LeaveSlow, Waiting
<1>3. CASE Headers \/ OnStream \/ FirstOutput \/ RelayStarts
  BY <1>3 DEF Headers, OnStream, Typed, FirstOutput, RelayStarts, GoesOn, Waiting, route, flags
<1>4. CASE ErrorBodyLost
  BY <1>4, GiveUpFinishes DEF ErrorBodyLost, flags, Waiting
<1>5. CASE OnStatus
  <2>1. Retryable(answer.status) \in BOOLEAN /\ ForLegacy(answer.status) \in BOOLEAN
    BY DEF Retryable, ForLegacy
  <2> QED BY <1>5, <2>1, MoveOnAdvances DEF OnStatus, GoesOn, Waiting, flags
<1>6. CASE OnType
  BY <1>6, MoveOnAdvances DEF OnType, Typed, Finishes, Waiting, route
<1>7. CASE FailsEarly
  BY <1>7, MoveOnAdvances, GiveUpFinishes DEF FailsEarly, GoesOn, Waiting, flags
<1>8. CASE RelayEnds \/ LeavesRelay \/ LeavesBeforeRelay
  BY <1>8 DEF RelayEnds, LeavesRelay, LeavesBeforeRelay, Finishes, Waiting, route, flags
<1>9. CASE ForeignRefused \/ ForeignFailed \/ JsonForeign
  BY <1>9, RetryRepeats DEF ForeignRefused, ForeignFailed, JsonForeign, Waiting
<1>10. ASSUME NEW a \in Answers, JsonMoves(a) \/ JsonEnds(a) \/ ChatJsonMoves(a) \/ ChatJsonEnds(a)
       PROVE  CourseStep
  <2>1. Retryable(a.status) \in BOOLEAN /\ ForLegacy(a.status) \in BOOLEAN
    BY DEF Retryable, ForLegacy
  <2>2. pc \in Waiting /\ UNCHANGED <<sent, encrypted>>
    BY <1>10 DEF JsonMoves, JsonEnds, ChatJsonMoves, ChatJsonEnds, JsonAnswer, Waiting, flags
  <2>3. CASE JsonMoves(a) \/ ChatJsonMoves(a)
    BY <2>1, <2>2, <2>3, MoveOnAdvances DEF JsonMoves, ChatJsonMoves
  <2>4. CASE JsonEnds(a) \/ ChatJsonEnds(a)
    BY <2>2, <2>4, GiveUpFinishes DEF JsonEnds, ChatJsonEnds, Finishes, route
  <2> QED BY <1>10, <2>3, <2>4
<1>11. CASE ChatType
  BY <1>11, MoveOnAdvances DEF ChatType, Typed, Finishes, Waiting, route
<1>12. CASE Cool
  BY <1>12 DEF Cool, Rests, flags, ended
<1> QED
  BY <1>1, <1>2, <1>3, <1>4, <1>5, <1>6, <1>7, <1>8, <1>9, <1>10, <1>11, <1>12
     DEF RelayNext, RelayProgress, Progress, ChatProgress, DirectProgress, Failover, Direct,
         ChatSend, ChatCallFails, ChatLeavesSlow, ChatHeaders, ChatStatus, ChatHolds, ChatRelays,
         ChatJson, ChatClientLeaves, DirectClientLeaves, DirectSend, DirectFails, DirectHeaders,
         DirectStarts, KiroStreamEnds, ClaudeStreamEnds, KiroJson, ClaudeJson, GeminiJson,
         EmbeddingsJson

(* The steps of the handlers with a single upstream. *)
LEMMA DirectCourse ==
  ASSUME RelayNext, api \in Direct
  PROVE  CourseStep
<1> USE DEF CourseStep
<1>1. CASE DirectFails
  BY <1>1, GiveUpFinishes DEF DirectFails, flags, Waiting
<1>2. CASE DirectHeaders \/ RelayStarts
  BY <1>2 DEF DirectHeaders, RelayStarts, GoesOn, Waiting, route, flags
<1>3. ASSUME NEW r, KiroStreamEnds(r) \/ ClaudeStreamEnds(r) PROVE CourseStep
  BY <1>3 DEF KiroStreamEnds, ClaudeStreamEnds, Result, Finishes, Waiting, route, flags
<1>4. CASE DirectClientLeaves
  BY <1>3, <1>4 DEF DirectClientLeaves, LeavesBeforeRelay, Result, Finishes, Waiting, route, flags
<1>5. ASSUME NEW a \in Answers, KiroJson(a) \/ ClaudeJson(a) \/ GeminiJson(a) \/ EmbeddingsJson(a)
      PROVE  CourseStep
  <2>1. pc \in Waiting /\ UNCHANGED <<sent, encrypted>>
    BY <1>5 DEF KiroJson, ClaudeJson, GeminiJson, EmbeddingsJson, Whole, JsonAnswer, Waiting, flags
  <2>2. GiveUp \/ (\E n : Result(n, "body"))
    BY <1>5 DEF KiroJson, ClaudeJson, GeminiJson, EmbeddingsJson
  <2> QED BY <2>1, <2>2, GiveUpFinishes DEF Result, Finishes
<1>6. CASE Cool
  BY <1>6 DEF Cool, Rests, flags, ended
<1> QED
  BY <1>1, <1>2, <1>3, <1>4, <1>5, <1>6
     DEF RelayNext, RelayProgress, ChatProgress, DirectProgress, Failover, Direct,
         ChatSend, ChatCallFails, ChatLeavesSlow, ChatHeaders, ChatStatus, ChatType, ChatHolds,
         ChatRelays, ChatJson, ChatJsonMoves, ChatJsonEnds, ChatClientLeaves, DirectSend,
         DirectStarts

(* The steps of /v1/messages. *)
LEMMA MessagesCourse ==
  ASSUME MessagesNext
  PROVE  CourseStep
<1> USE DEF CourseStep
<1>1. ASSUME NEW n, NEW b \in BOOLEAN, AttemptFails(n, b), pc \in Waiting, UNCHANGED <<sent, encrypted>>
      PROVE  CourseStep
  BY <1>1, MoveOnAdvances, GiveUpFinishes DEF AttemptFails
<1>2. CASE MessagesCallFails
  BY <1>1, <1>2, GiveUpFinishes DEF MessagesCallFails, flags, Waiting
<1>3. CASE MessagesStatus
  <2> PICK a \in Answers :
        \/ AttemptFails(Counts(a.status), Retryable(a.status))
        \/ AttemptFails(1, FALSE)
    BY <1>3 DEF MessagesStatus
  <2>1. Retryable(a.status) \in BOOLEAN
    BY DEF Retryable
  <2> QED BY <1>1, <1>3, <2>1 DEF MessagesStatus, flags, Waiting
<1>4. CASE PreflightReads
  BY <1>4 DEF PreflightReads, GoesOn, Waiting, route, flags
<1>5. CASE PreflightFails \/ WholeStreamCut \/ WholeBroken
  BY <1>1, <1>5 DEF PreflightFails, WholeStreamCut, WholeBroken, WholeAnswer, flags, Waiting
<1>6. ASSUME NEW s, Streams(s), Relaying PROVE CourseStep
  BY <1>6 DEF Streams, Relaying, GoesOn, Waiting, route, flags
<1>7. CASE RelaysChunk \/ RelaysUsage \/ RelaysDone \/ RelaysEvent
  <2>1. CASE RelaysChunk \/ RelaysUsage \/ RelaysDone
    BY <1>6, <2>1 DEF RelaysChunk, RelaysUsage, RelaysDone, Relaying
  <2>2. CASE RelaysEvent
    <3>1. Relaying /\ \E s : Streams(s)
      BY <2>2 DEF RelaysEvent
    <3> QED BY <1>6, <3>1
  <2> QED BY <1>7, <2>1, <2>2
<1>8. CASE StreamEnds \/ FailureEnds
  BY <1>8 DEF StreamEnds, FailureEnds, Closing, Finishes, Waiting, route, flags
<1>9. CASE StreamBreaks \/ RelaysError
  BY <1>9 DEF StreamBreaks, RelaysError, Closing, Finishes, GoesOn, Waiting, route, flags
<1>10. CASE WholeText \/ WholeMessage
  BY <1>10 DEF WholeText, WholeMessage, WholeAnswer, Finishes, Waiting, route, flags
<1>11. CASE LeavesNative \/ LeavesOpenai \/ LeavesUnread
  BY <1>11 DEF LeavesNative, LeavesOpenai, LeavesUnread, LeavesBeforeRelay, Closing, Finishes,
     Waiting, route, flags
<1>12. CASE Cool
  BY <1>12 DEF Cool, Rests, flags, ended
<1> QED
  BY <1>2, <1>3, <1>4, <1>5, <1>7, <1>8, <1>9, <1>10, <1>11, <1>12
     DEF MessagesNext, MessagesProgress, MessagesRoute, MessagesSend

LEMMA EveryStep == EndpointNext => CourseStep
<1>1. \A x : x \in Handlers => x \in Failover \/ x \in Direct
  BY DEF Handlers
<1> QED BY <1>1, FailoverCourse, DirectCourse, MessagesCourse DEF EndpointNext

-----------------------------------------------------------------------------
LEMMA CourseInit == EndpointInit => CourseInv
<1> SUFFICES ASSUME Init PROVE CourseInv
  BY DEF EndpointInit, MessagesInit, RelayInit
<1>1. /\ pc = "new" /\ used = Catalog /\ tried = {} /\ legacy \in BOOLEAN /\ encrypted = FALSE
      /\ open = 0 /\ sent = [t \in Targets |-> 0]
  BY DEF Init
<1>2. Catalog \in Targets /\ Catalog \notin Channels \cup {System, Legacy}
  BY DEF Targets
<1>3. \A t \in Targets : sent[t] = 0
  BY <1>1
<1>4. CourseTypes
  <2>1. pc \in {"new", "ready", "done"} \cup Waiting
    BY <1>1
  <2>2. sent \in [Targets -> 0 .. 3]
    BY <1>1
  <2> QED BY <1>1, <1>2, <2>1, <2>2 DEF CourseTypes
<1>6. OpenWhileWaiting
  BY <1>1 DEF OpenWhileWaiting, Waiting
<1>5. NowUsed /\ Course /\ EachUpstreamOnce
  BY <1>1, <1>2, <1>3 DEF NowUsed, Course, EachUpstreamOnce
<1> QED BY <1>4, <1>5, <1>6 DEF CourseInv

(* The next upstream is one that has not had the request. *)
LEMMA AdvanceIsFresh ==
  ASSUME CourseInv, NEW ok \in BOOLEAN, NEW last \in BOOLEAN, Advance(ok, last), pc \in Waiting
  PROVE  /\ used' \in Targets /\ tried' \subseteq Channels /\ legacy' \in BOOLEAN
         /\ sent[used'] = 0
         /\ used' \in Channels => /\ used' \notin tried'
                                  /\ \A t \in Targets \ (tried' \cup {used'}) : sent[t] = 0
         /\ used' # Catalog
         /\ used' \in {System, Legacy} => ~legacy'
<1> USE DEF CourseInv, CourseTypes, Course
<1>1. CASE ok /\ Fallbacks # {}
  <2>1. used' \in Fallbacks /\ tried' = Attempted /\ legacy' = (legacy /\ used' # System)
    BY <1>1 DEF Advance
  <2>2. used \in Channels /\ Attempted = tried \cup {used}
    BY <2>1 DEF Fallbacks, Attempted
  <2>3. used' \in Channels \ Attempted \/ used' = System
    BY <2>1 DEF Fallbacks, Routable
  <2> QED BY <2>1, <2>2, <2>3 DEF Targets
<1>2. CASE ~(ok /\ Fallbacks # {})
  <2>1. legacy /\ used' = Legacy /\ tried' = {used} \cap Channels /\ legacy' = FALSE
    BY <1>2 DEF Advance
  <2>2. used \in Channels \/ used = Catalog
    BY <2>1 DEF Targets
  <2>3. sent[Legacy] = 0
    BY <2>2 DEF Targets
  <2> QED BY <2>1, <2>3 DEF Targets
<1> QED BY <1>1, <1>2

LEMMA CourseNext == CourseInv /\ [EndpointNext]_endpointVars => CourseInv'
<1> SUFFICES ASSUME CourseInv, [EndpointNext]_endpointVars PROVE CourseInv'
  OBVIOUS
<1> USE DEF CourseInv, CourseTypes, OpenWhileWaiting, NowUsed, Course, EachUpstreamOnce, Waiting
<1>1. CASE Rests \/ UNCHANGED endpointVars
  <2>1. UNCHANGED <<pc, used, tried, legacy, sent, encrypted, open, outcome>>
    BY <1>1 DEF Rests, endpointVars, vars, route, flags, ended
  <2> QED BY <2>1
<1>2. CASE GoesOn
  BY <1>2 DEF GoesOn, route
<1>3. CASE Finishes
  BY <1>3 DEF Finishes, route
<1>4. CASE Advances
  <2> PICK ok \in BOOLEAN, last \in BOOLEAN : Advance(ok, last)
    BY <1>4 DEF Advances
  <2>1. /\ used' \in Targets /\ tried' \subseteq Channels /\ legacy' \in BOOLEAN
        /\ sent[used'] = 0
        /\ used' \in Channels => /\ used' \notin tried'
                                 /\ \A t \in Targets \ (tried' \cup {used'}) : sent[t] = 0
        /\ used' # Catalog
        /\ used' \in {System, Legacy} => ~legacy'
    BY <1>4, AdvanceIsFresh DEF Advances
  <2>2. pc' = "ready" /\ open' = 0 /\ sent' = sent /\ encrypted' = encrypted
    BY <1>4 DEF Advances
  <2> QED BY <2>1, <2>2
<1>5. CASE Repeats
  BY <1>5 DEF Repeats, route
<1>6. CASE Resolve
  <2>1. used' \in Channels \cup {Catalog}
    BY <1>6 DEF Resolve
  <2>2. \A t \in Targets : sent[t] = 0
    BY <1>6 DEF Resolve
  <2> QED BY <1>6, <2>1, <2>2 DEF Resolve, Targets, flags, ended
<1>7. CASE Send
  <2>1. pc = "ready" /\ pc' = "sent" /\ open' = 1
        /\ UNCHANGED <<used, tried, legacy, encrypted>>
    BY <1>7 DEF Send, route, flags
  <2>3. sent[used] \in 0 .. 1 /\ (~encrypted => sent[used] = 0)
    BY <2>1
  <2>4. sent' = [sent EXCEPT ![used] = sent[used] + 1]
    <3>1. Again(sent[used]) = sent[used] + 1
      BY <2>3 DEF Again
    <3> QED BY <1>7, <3>1 DEF Send
  <2> QED BY <2>1, <2>3, <2>4
<1> QED BY <1>1, <1>2, <1>3, <1>4, <1>5, <1>6, <1>7, EveryStep DEF CourseStep

(* The invariant of the course. *)
LEMMA CourseInvariant == EndpointSpec => []CourseInv
  BY CourseInit, CourseNext, PTL DEF EndpointSpec

(* Whichever handler serves a request and however it ends: one upstream    *)
(* response is open at a time, and none is left open but by a client that  *)
(* went away.                                                              *)
THEOREM ResponsesAreClosed == EndpointSpec => []ResponsesClosed
<1>1. CourseInv => ResponsesClosed
  BY DEF CourseInv, CourseTypes, OpenWhileWaiting, ResponsesClosed, Waiting
<1> QED BY <1>1, CourseInvariant, PTL

(* No upstream gets a request twice, over any sequence of channels, system *)
(* fallback and legacy backend, but for the retry without encrypted items. *)
THEOREM UpstreamsAskedOnce == EndpointSpec => []EachUpstreamOnce
<1>1. CourseInv => EachUpstreamOnce
  BY DEF CourseInv
<1> QED BY <1>1, CourseInvariant, PTL
-----------------------------------------------------------------------------
(* The accounts of the six handlers of ModelRelay: what the current        *)
(* attempt has counted by the time the handler stands where it stands, and *)
(* the usage, which nothing but the end of the request records.            *)

AnswerKnown ==
  /\ pc # "failing"
  /\ pc \in {"headers", "typed", "held", "handed", "relaying"} => stream /\ answer \in Answers
  /\ pc = "typed" => answer.status # "ok"
  /\ pc = "held" => answer.status = "ok"

VerdictsSoFar ==
  /\ verdicts \in Nat
  /\ pc \in {"new", "ready"} => verdicts <= 1
  /\ pc \in {"sent", "headers", "held"} => verdicts = 0
  /\ pc \in {"typed", "handed", "relaying"} => verdicts <= 1
  /\ pc \in {"handed", "relaying"} /\ (api \in Direct \/ answer.status = "ok") => verdicts = 0
  /\ pc = "done" => OneVerdict

UsageSoFar == usage \in Nat /\ (pc # "done" => usage = 0 /\ outcome = None) /\ UsageOnce

Accounts == AnswerKnown /\ VerdictsSoFar /\ UsageSoFar

AccountInv == api \in Handlers => Accounts

LEMMA CountBounds ==
  ASSUME verdicts \in Nat, NEW n \in Nat, Count(n)
  PROVE  verdicts' \in Nat /\ verdicts <= verdicts' /\ verdicts' <= verdicts + n
  BY DEF Count

(* An attempt that is given up for another, or for good, and counts for    *)
(* its channel once at most.                                               *)
LEMMA MoveOnAccounts ==
  ASSUME Accounts, NEW ok, NEW last, MoveOn(ok, last), pc # "done",
         verdicts' \in 0 .. 1, api' = api
  PROVE  Accounts'
  BY DEF MoveOn, Accounts, AnswerKnown, VerdictsSoFar, UsageSoFar, UsageOnce, OneVerdict, ended

LEMMA GiveUpAccounts ==
  ASSUME Accounts, GiveUp, pc # "done", verdicts' \in 0 .. 1, api' = api
  PROVE  Accounts'
  BY DEF GiveUp, Accounts, AnswerKnown, VerdictsSoFar, UsageSoFar, UsageOnce, OneVerdict

(* The whole of a success is delivered and recorded. *)
LEMMA DeliverAccounts ==
  ASSUME Accounts, pc # "done", pc' = "done", verdicts' \in 0 .. 1, api' = api,
         ~stream', outcome' = "body", answer' \in Answers,
         \/ usage' = usage + 1 /\ answer'.status = "ok"
         \/ usage' = usage /\ api \in Direct /\ Text(answer')
  PROVE  Accounts'
  BY DEF Accounts, AnswerKnown, VerdictsSoFar, UsageSoFar, UsageOnce, OneVerdict, Text

LEMMA CountOnce ==
  ASSUME Accounts, NEW n \in 0 .. 1, Count(n), verdicts = 0
  PROVE  verdicts' \in 0 .. 1
<1>1. verdicts \in Nat /\ n \in Nat
  BY DEF Accounts, VerdictsSoFar
<1> QED BY <1>1, CountBounds

LEMMA CountsOnce == \A status : Counts(status) \in 0 .. 1 /\ Faulty(status) \in 0 .. 1
  BY DEF Counts, Faulty

(* The steps of /v1/responses and /v1/chat/completions. *)
LEMMA FailoverAccounts ==
  ASSUME Accounts, RelayNext, api \in Failover
  PROVE  Accounts'
<1> USE DEF Accounts
<1>0. api' = api /\ api \notin Direct
  BY DEF RelayNext, RelayProgress, Failover, Direct
<1>1. CASE Resolve \/ Cool \/ Send
  BY <1>0, <1>1 DEF Resolve, Cool, Send, AnswerKnown, VerdictsSoFar, UsageSoFar, UsageOnce,
     OneVerdict, route, flags, ended
<1>2. CASE TransportError
  <2>1. pc # "done" /\ (MoveOn(TRUE, TRUE) \/ GiveUp)
    BY <1>2 DEF TransportError
  <2>2. verdicts' \in 0 .. 1
    <3>1. verdicts = 0
      BY <1>2 DEF TransportError, VerdictsSoFar
    <3>2. CASE Count(1)
      BY <3>1, <3>2, CountOnce
    <3>3. CASE UNCHANGED verdicts
      BY <3>1, <3>3
    <3> QED BY <1>2, <3>2, <3>3 DEF TransportError
  <2> QED BY <1>0, <2>1, <2>2, MoveOnAccounts, GiveUpAccounts
<1>3. CASE LeaveSlow
  <2>1. verdicts' \in 0 .. 1
    BY <1>3, CountOnce DEF LeaveSlow, VerdictsSoFar
  <2> QED BY <1>0, <1>3, <2>1, MoveOnAccounts DEF LeaveSlow
<1>4. CASE Headers \/ OnStream \/ FirstOutput \/ RelayStarts
  BY <1>0, <1>4 DEF Headers, OnStream, Typed, FirstOutput, RelayStarts, AnswerKnown,
     VerdictsSoFar, UsageSoFar, UsageOnce, OneVerdict, route, flags, ended
<1>5. CASE ErrorBodyLost
  <2>1. verdicts' \in 0 .. 1
    BY <1>5 DEF ErrorBodyLost, VerdictsSoFar
  <2> QED BY <1>0, <1>5, <2>1, GiveUpAccounts DEF ErrorBodyLost
<1>6. CASE OnStatus
  <2>1. verdicts' \in 0 .. 1
    BY <1>6, CountOnce, CountsOnce DEF OnStatus, VerdictsSoFar
  <2>2. CASE \E ok, last : MoveOn(ok, last)
    BY <1>0, <1>6, <2>1, <2>2, MoveOnAccounts DEF OnStatus
  <2>3. CASE pc' = "typed" /\ UNCHANGED <<route, open, ended>>
    BY <1>0, <1>6, <2>1, <2>3 DEF OnStatus, AnswerKnown, VerdictsSoFar, UsageSoFar, UsageOnce,
       OneVerdict, ended
  <2> QED BY <1>6, <2>2, <2>3 DEF OnStatus
<1>7. CASE FailsEarly
  <2>1. CASE pc' = "handed" /\ UNCHANGED <<route, open, verdicts, ended>>
    BY <1>0, <1>7, <2>1 DEF FailsEarly, AnswerKnown, VerdictsSoFar, UsageSoFar, UsageOnce,
       OneVerdict, ended
  <2>2. CASE Count(1) /\ (MoveOn(TRUE, TRUE) \/ GiveUp)
    <3>1. verdicts' \in 0 .. 1
      BY <1>7, <2>2, CountOnce DEF FailsEarly, VerdictsSoFar
    <3> QED BY <1>0, <1>7, <2>2, <3>1, MoveOnAccounts, GiveUpAccounts DEF FailsEarly
  <2> QED BY <1>7, <2>1, <2>2 DEF FailsEarly
<1>8. CASE RelayEnds \/ LeavesRelay \/ LeavesBeforeRelay
  BY <1>0, <1>8 DEF RelayEnds, LeavesRelay, LeavesBeforeRelay, Count, Billable, AnswerKnown,
     VerdictsSoFar, UsageSoFar, UsageOnce, OneVerdict, Failover, route, flags, ended
<1>9. CASE ForeignRefused \/ ForeignFailed \/ JsonForeign
  BY <1>0, <1>9 DEF ForeignRefused, ForeignFailed, JsonForeign, RetrySame, AnswerKnown,
     VerdictsSoFar, UsageSoFar, UsageOnce, OneVerdict, ended
<1>10. ASSUME NEW a \in Answers, JsonMoves(a) \/ JsonEnds(a) \/ ChatJsonMoves(a) \/ ChatJsonEnds(a)
       PROVE  Accounts'
  <2>1. pc = "sent" /\ ~stream /\ stream' = stream /\ answer' = a /\ verdicts = 0
    BY <1>10 DEF JsonMoves, JsonEnds, ChatJsonMoves, ChatJsonEnds, JsonAnswer, VerdictsSoFar
  <2>2. verdicts' \in 0 .. 1
    <3>1. \E n : Count(n) /\ n \in {1, Counts(a.status), Faulty(a.status)}
      <4>1. CASE JsonMoves(a)
        BY <4>1 DEF JsonMoves
      <4>2. CASE JsonEnds(a)
        BY <4>2 DEF JsonEnds
      <4>3. CASE ChatJsonMoves(a)
        BY <4>3 DEF ChatJsonMoves
      <4>4. CASE ChatJsonEnds(a)
        BY <4>4 DEF ChatJsonEnds
      <4> QED BY <1>10, <4>1, <4>2, <4>3, <4>4
    <3>2. Counts(a.status) \in 0 .. 1 /\ Faulty(a.status) \in 0 .. 1
      BY CountsOnce
    <3> QED BY <2>1, <3>1, <3>2, CountOnce
  <2>3. CASE \E ok, last : MoveOn(ok, last)
    BY <1>0, <2>1, <2>2, <2>3, MoveOnAccounts
  <2>4. CASE GiveUp
    BY <1>0, <2>1, <2>2, <2>4, GiveUpAccounts
  <2>5. CASE usage' = usage + 1 /\ pc' = "done" /\ outcome' = "body" /\ a.status = "ok"
    BY <1>0, <2>1, <2>2, <2>5, DeliverAccounts
  <2> QED BY <1>10, <2>3, <2>4, <2>5 DEF JsonMoves, JsonEnds, ChatJsonMoves, ChatJsonEnds
<1>11. CASE OnType
  <2>1. TypeCounts(answer.status) \in 0 .. 1
    BY DEF TypeCounts
  <2>2. verdicts' \in 0 .. 1 /\ pc # "done"
    BY <1>11, <2>1, CountOnce DEF OnType, Typed, TypeCounts, AnswerKnown, VerdictsSoFar, Count
  <2>3. CASE MoveOn(TRUE, TRUE)
    BY <1>0, <2>2, <2>3, MoveOnAccounts
  <2>4. CASE pc' = "done" /\ outcome' = "body" /\ UNCHANGED usage
    BY <1>0, <1>11, <2>2, <2>4 DEF OnType, Typed, AnswerKnown, VerdictsSoFar, UsageSoFar,
       UsageOnce, OneVerdict
  <2> QED BY <1>11, <2>3, <2>4 DEF OnType
<1>12. CASE ChatType
  <2> DEFINE first == IF nonSse THEN 0 ELSE TypeCounts(answer.status)
             more == IF answer.status = "ok" /\ answer.body = "empty" THEN 1 ELSE 0
  <2>1. pc \in {"headers", "typed"} /\ stream /\ stream' /\ answer \in Answers /\ answer' = answer
        /\ verdicts \in 0 .. 1 /\ (answer.status = "ok" => verdicts = 0)
    BY <1>12 DEF ChatType, Typed, AnswerKnown, VerdictsSoFar
  <2>2. first \in 0 .. 1 /\ (answer.status # "ok" => first = 0) /\ more \in 0 .. 1
        /\ (more = 1 => answer.status = "ok" /\ answer.body = "empty")
    BY DEF TypeCounts
  <2>3. CASE MoveOn(TRUE, TRUE) /\ Count(first)
    <3>1. verdicts' \in 0 .. 1
      BY <2>1, <2>2, <2>3 DEF Count
    <3> QED BY <1>0, <2>1, <2>3, <3>1, MoveOnAccounts
  <2>4. CASE /\ pc' = "done" /\ UNCHANGED usage
             /\ outcome' \in {"error", "body"}
             /\ more = 1 => outcome' = "error"
             /\ Count(first + more)
    <3>1. verdicts' \in Nat /\ verdicts' <= verdicts + first + more
      BY <2>1, <2>2, <2>4 DEF Count
    <3>2. verdicts' <= 1 \/ (verdicts' = 2 /\ more = 1)
      BY <2>1, <2>2, <3>1
    <3>3. OneVerdict'
      <4>1. more = 1 => answer' = [status |-> "ok", body |-> "empty"]
        BY <2>1, <2>2 DEF Answers
      <4> QED BY <1>0, <1>12, <2>1, <2>4, <3>2, <4>1 DEF OneVerdict, ChatType
    <3>4. UsageOnce' /\ usage' \in Nat
      BY <1>0, <2>1, <2>4 DEF UsageOnce, UsageSoFar
    <3> QED BY <2>4, <3>1, <3>3, <3>4 DEF AnswerKnown, VerdictsSoFar, UsageSoFar
  <2>5. CASE /\ pc' = "done" /\ UNCHANGED usage
             /\ outcome' = IF answer.status = "ok" /\ answer.body \in {"empty", "broken"}
                           THEN "error" ELSE "body"
             /\ Count(first + more)
    <3>1. more = 1 => outcome' = "error"
      BY <2>5
    <3>2. outcome' \in {"error", "body"}
      BY <2>5
    <3> QED BY <2>4, <2>5, <3>1, <3>2
  <2> QED BY <1>12, <2>3, <2>5 DEF ChatType
<1> QED
  BY <1>1, <1>2, <1>3, <1>4, <1>5, <1>6, <1>7, <1>8, <1>9, <1>10, <1>11, <1>12
     DEF RelayNext, RelayProgress, Progress, ChatProgress, DirectProgress, Failover, Direct,
         ChatSend, ChatCallFails, ChatLeavesSlow, ChatHeaders, ChatStatus, ChatHolds, ChatRelays,
         ChatJson, ChatClientLeaves, DirectClientLeaves, DirectSend, DirectFails, DirectHeaders,
         DirectStarts, KiroStreamEnds, ClaudeStreamEnds, KiroJson, ClaudeJson, GeminiJson,
         EmbeddingsJson

(* The steps of the handlers with a single upstream. *)
LEMMA DirectAccounts ==
  ASSUME Accounts, RelayNext, api \in Direct
  PROVE  Accounts'
<1> USE DEF Accounts
<1>0. api' = api /\ api \notin Failover
  BY DEF RelayNext, RelayProgress, Failover, Direct
<1>1. CASE Resolve \/ Cool \/ Send
  BY <1>0, <1>1 DEF Resolve, Cool, Send, AnswerKnown, VerdictsSoFar, UsageSoFar, UsageOnce,
     OneVerdict, route, flags, ended
<1>2. CASE DirectFails
  <2>1. verdicts = 0 /\ pc # "done" /\ GiveUp
    BY <1>2 DEF DirectFails, VerdictsSoFar
  <2>2. verdicts' \in 0 .. 1
    <3>1. CASE Count(1)
      BY <2>1, <3>1, CountOnce
    <3>2. CASE UNCHANGED verdicts
      BY <2>1, <3>2
    <3> QED BY <1>2, <3>1, <3>2 DEF DirectFails
  <2> QED BY <1>0, <2>1, <2>2, GiveUpAccounts
<1>3. CASE DirectHeaders \/ RelayStarts \/ LeavesBeforeRelay
  BY <1>0, <1>3 DEF DirectHeaders, RelayStarts, LeavesBeforeRelay, AnswerKnown,
     VerdictsSoFar, UsageSoFar, UsageOnce, OneVerdict, route, flags, ended
<1>4. ASSUME NEW n \in 0 .. 1, NEW m \in 0 .. 1, NEW result \in {"stream", "gone"},
             pc = "relaying", Result(n, result), Count(m) \/ UNCHANGED verdicts,
             UNCHANGED <<stream, answer>>,
             n = 1 => answer.status = "ok",
             result = "stream" /\ answer.status = "ok" /\ api # "claude" => n = 1
      PROVE  Accounts'
  <2>1. verdicts = 0 /\ usage = 0 /\ stream /\ answer \in Answers
    BY <1>4 DEF AnswerKnown, VerdictsSoFar, UsageSoFar
  <2>2. verdicts' \in 0 .. 1
    BY <1>4, <2>1, CountOnce
  <2> QED BY <1>0, <1>4, <2>1, <2>2 DEF Result, AnswerKnown, VerdictsSoFar, UsageSoFar,
             UsageOnce, OneVerdict
<1>5. ASSUME NEW result \in {"stream", "gone"}, KiroStreamEnds(result)
      PROVE  Accounts'
  <2> DEFINE n == IF Billable(answer.status) THEN 1 ELSE 0
             m == IF answer.status = "ok" THEN 1 ELSE Faulty(answer.status)
  <2>1. n \in 0 .. 1 /\ m \in 0 .. 1 /\ (n = 1 <=> answer.status = "ok")
    BY DEF Billable, Faulty
  <2>2. pc = "relaying" /\ Result(n, result) /\ Count(m) /\ UNCHANGED <<stream, answer>>
    BY <1>5 DEF KiroStreamEnds
  <2> HIDE DEF n, m
  <2> QED BY <1>4, <2>1, <2>2
<1>6. ASSUME NEW result \in {"stream", "gone"}, ClaudeStreamEnds(result)
      PROVE  Accounts'
  <2> PICK seen \in BOOLEAN :
        /\ Result(IF Billable(answer.status) /\ seen THEN 1 ELSE 0, result)
        /\ Count(IF answer.status = "ok" /\ seen THEN 1 ELSE Faulty(answer.status))
    BY <1>6 DEF ClaudeStreamEnds
  <2> DEFINE n == IF Billable(answer.status) /\ seen THEN 1 ELSE 0
             m == IF answer.status = "ok" /\ seen THEN 1 ELSE Faulty(answer.status)
  <2>1. n \in 0 .. 1 /\ m \in 0 .. 1 /\ (n = 1 => answer.status = "ok")
    BY DEF Billable, Faulty
  <2>2. api = "claude" /\ pc = "relaying" /\ Result(n, result) /\ Count(m)
        /\ UNCHANGED <<stream, answer>>
    BY <1>6 DEF ClaudeStreamEnds
  <2> HIDE DEF n, m
  <2> QED BY <1>4, <2>1, <2>2
<1>7. ASSUME pc = "relaying", Result(0, "gone"), UNCHANGED <<stream, answer, verdicts>>
      PROVE  Accounts'
  BY <1>4, <1>7
<1>8. ASSUME NEW a \in Answers, KiroJson(a) \/ ClaudeJson(a) \/ GeminiJson(a) \/ EmbeddingsJson(a)
      PROVE  Accounts'
  <2>1. pc = "sent" /\ ~stream /\ stream' = stream /\ answer' = a /\ verdicts = 0
    BY <1>8 DEF KiroJson, ClaudeJson, GeminiJson, EmbeddingsJson, Whole, JsonAnswer, VerdictsSoFar
  <2>2. ASSUME NEW n \in 0 .. 1, Count(n) PROVE verdicts' \in 0 .. 1
    BY <2>1, <2>2, CountOnce
  <2>3. ASSUME NEW n \in 0 .. 1, GiveUp, Count(n) PROVE Accounts'
    BY <1>0, <2>1, <2>2, <2>3, GiveUpAccounts
  <2>4. ASSUME NEW n \in 0 .. 1, Result(n, "body"), Count(1), a.status = "ok", n = 1 \/ Text(a)
        PROVE  Accounts'
    <3>1. usage' = usage + n /\ usage = 0 /\ pc' = "done" /\ outcome' = "body"
      BY <2>1, <2>4 DEF Result, UsageSoFar
    <3>2. CASE n = 1
      BY <1>0, <2>1, <2>2, <2>4, <3>1, <3>2, DeliverAccounts
    <3>3. CASE n = 0
      BY <1>0, <2>1, <2>2, <2>4, <3>1, <3>3, DeliverAccounts
    <3> QED BY <3>2, <3>3
  <2>5. Faulty(a.status) \in 0 .. 1
    BY CountsOnce
  <2>6. CASE KiroJson(a)
    BY <2>3, <2>4, <2>5, <2>6 DEF KiroJson, Delivered
  <2>7. CASE ClaudeJson(a)
    BY <2>3, <2>4, <2>5, <2>7 DEF ClaudeJson, Delivered
  <2>8. CASE EmbeddingsJson(a)
    BY <2>3, <2>4, <2>5, <2>8 DEF EmbeddingsJson, Delivered
  <2>9. CASE GeminiJson(a)
    <3>1. CASE GiveUp /\ Count(GeminiCounts(a))
      <4>1. CASE a.status = "fault"
        <5>1. Faulty(a.status) = 1 /\ GeminiCounts(a) = 2
          BY <4>1 DEF Faulty, GeminiCounts
        <5>2. verdicts' \in {0, 2}
          BY <2>1, <3>1, <5>1 DEF Count
        <5>3. OneVerdict'
          BY <1>0, <2>1, <2>9, <3>1, <4>1, <5>2 DEF OneVerdict, GiveUp, GeminiJson
        <5>4. UsageOnce' /\ usage' \in Nat
          BY <1>0, <2>1, <3>1 DEF UsageOnce, GiveUp, UsageSoFar
        <5> QED BY <3>1, <5>2, <5>3, <5>4 DEF GiveUp, AnswerKnown, VerdictsSoFar, UsageSoFar
      <4>2. CASE a.status # "fault"
        <5>1. GeminiCounts(a) = 0
          BY <4>2 DEF Faulty, GeminiCounts
        <5> QED BY <2>3, <3>1, <5>1
      <4> QED BY <4>1, <4>2
    <3> QED BY <2>3, <2>4, <2>9, <3>1 DEF GeminiJson, Delivered
  <2> QED BY <1>8, <2>6, <2>7, <2>8, <2>9
<1> QED
  BY <1>1, <1>2, <1>3, <1>5, <1>6, <1>7, <1>8
     DEF RelayNext, RelayProgress, ChatProgress, DirectProgress, Failover, Direct,
         ChatSend, ChatCallFails, ChatLeavesSlow, ChatHeaders, ChatStatus, ChatType, ChatHolds,
         ChatRelays, ChatJson, ChatJsonMoves, ChatJsonEnds, ChatClientLeaves, DirectClientLeaves,
         DirectSend, DirectStarts

LEMMA AccountInit == EndpointInit => AccountInv
<1> SUFFICES ASSUME Init PROVE Accounts
  BY DEF EndpointInit, MessagesInit, RelayInit, AccountInv
<1> QED BY DEF Init, Accounts, AnswerKnown, VerdictsSoFar, UsageSoFar, UsageOnce, OneVerdict

LEMMA AccountNext == AccountInv /\ [EndpointNext]_endpointVars => AccountInv'
<1> SUFFICES ASSUME AccountInv, [EndpointNext]_endpointVars, api' \in Handlers PROVE Accounts'
  BY DEF AccountInv
<1>1. CASE UNCHANGED endpointVars
  BY <1>1 DEF endpointVars, vars, ended, AccountInv, Accounts, AnswerKnown, VerdictsSoFar,
     UsageSoFar, UsageOnce, OneVerdict
<1>2. CASE EndpointNext
  <2>1. RelayNext /\ api \in Handlers
    BY <1>2 DEF EndpointNext, Handlers, Failover, Direct
  <2> QED BY <2>1, FailoverAccounts, DirectAccounts DEF AccountInv, Handlers
<1> QED BY <1>1, <1>2

(* However a request ends and whichever of the six handlers served it, its *)
(* channel is judged once for an attempt, but where the code counts twice, *)
(* and it is billed once at most: an error never, a delivered answer once. *)
THEOREM RequestsAccounted == EndpointSpec => []AccountedOnce
<1>1. CourseInv => EachUpstreamOnce
  BY DEF CourseInv
<1>2. CourseInv /\ AccountInv => (api \in Handlers => OneVerdict /\ UsageOnce)
  <2> SUFFICES ASSUME CourseInv, Accounts PROVE OneVerdict /\ UsageOnce
    BY DEF AccountInv
  <2>1. pc \in {"new", "ready", "done"} \cup Waiting
    BY DEF CourseInv, CourseTypes
  <2> QED BY <2>1 DEF Waiting, Accounts, AnswerKnown, VerdictsSoFar, UsageSoFar, OneVerdict
<1>3. CourseInv /\ AccountInv => AccountedOnce
  BY <1>1, <1>2 DEF AccountedOnce
<1> QED BY <1>3, CourseInvariant, AccountInit, AccountNext, PTL DEF EndpointSpec

-----------------------------------------------------------------------------
(* No early surrender: what a step that ends a request in an error and     *)
(* counts against a channel knows of the upstreams that are left.          *)
Surrenders == pc # "done" /\ outcome' = "error" /\ verdicts' > verdicts

Exhausted ==
  \/ Fallbacks = {}
  \/ /\ answer' # None /\ answer'.status = "ok"
     /\ answer'.body = "error" \/ (api = "chat" /\ nonSse /\ answer'.body = "empty")

(* A status that counts is one that another channel is tried for.          *)
LEMMA CountedIsRetryable ==
  \A status : /\ Counts(status) > 0 => Retryable(status)
              /\ Faulty(status) > 0 => Retryable(status)
              /\ Counts(status) \in 0 .. 1 /\ Faulty(status) \in 0 .. 1
  BY DEF Counts, Faulty, Retryable

LEMMA CountPositive ==
  ASSUME verdicts \in Nat, NEW n \in Nat, Count(n), verdicts' > verdicts
  PROVE  n > 0
  BY DEF Count

LEMMA CannotAdvance ==
  ASSUME NEW last \in BOOLEAN, ~CanAdvance(TRUE, last)
  PROVE  Fallbacks = {}
  BY DEF CanAdvance

LEMMA FailoverSurrenders ==
  ASSUME Accounts, RelayNext, api \in Failover, Surrenders
  PROVE  Exhausted
<1> USE DEF Exhausted
<1>0. /\ verdicts \in Nat /\ verdicts' > verdicts /\ pc # "done"
      /\ outcome' = "error" /\ outcome' # outcome
  <2>1. verdicts \in Nat /\ outcome = None
    BY DEF Accounts, VerdictsSoFar, UsageSoFar, Surrenders
  <2>2. None # "error"
    BY NoneAssumption DEF NoneAssumption
  <2> QED BY <2>1, <2>2 DEF Surrenders
<1>1. ~ \E ok, last : MoveOn(ok, last)
  BY <1>0 DEF MoveOn, ended
<1>2. ~ \/ Resolve \/ Cool \/ Send \/ Headers \/ OnStream \/ FirstOutput \/ RelayStarts
        \/ LeavesBeforeRelay \/ ErrorBodyLost \/ ForeignRefused \/ ForeignFailed \/ JsonForeign
        \/ RelayEnds \/ LeavesRelay
  BY <1>0 DEF Resolve, Cool, Send, Headers, OnStream, FirstOutput, RelayStarts, LeavesBeforeRelay,
     ErrorBodyLost, ForeignRefused, ForeignFailed, JsonForeign, RetrySame, RelayEnds, LeavesRelay,
     ended
<1>3. ~LeaveSlow /\ ~OnStatus /\ ~OnType
  BY <1>0, <1>1 DEF LeaveSlow, OnStatus, OnType, ended
<1>4. CASE TransportError \/ FailsEarly
  <2>1. verdicts' # verdicts /\ ~UNCHANGED ended
    BY <1>0 DEF ended
  <2>2. ~MoveOn(TRUE, TRUE)
    BY <1>1
  <2>3. ~CanAdvance(TRUE, TRUE)
    BY <1>4, <2>1, <2>2 DEF TransportError, FailsEarly
  <2> QED BY <2>3, CannotAdvance
<1>5. CASE ChatType
  <2>1. answer \in Answers
    BY <1>5 DEF ChatType, Typed, Accounts, AnswerKnown
  <2>2. CASE ~CanAdvance(TRUE, TRUE)
    BY <2>2, CannotAdvance
  <2>3. CASE nonSse
    <3>1. answer.status = "ok" /\ answer.body = "empty"
      BY <1>0, <1>1, <1>5, <2>3 DEF ChatType, Count
    <3> QED BY <1>5, <2>1, <2>3, <3>1, NoneAssumption DEF ChatType
  <2> QED BY <1>1, <1>5, <2>2, <2>3 DEF ChatType
<1>6. ASSUME NEW a \in Answers, JsonMoves(a) \/ JsonEnds(a) \/ ChatJsonMoves(a) \/ ChatJsonEnds(a)
      PROVE  Exhausted
  <2>1. answer' = a /\ (JsonEnds(a) \/ ChatJsonEnds(a))
    BY <1>1, <1>6 DEF JsonMoves, JsonEnds, ChatJsonMoves, ChatJsonEnds, JsonAnswer
  <2>2. CASE a.status = "ok" /\ a.body = "error"
    BY <2>1, <2>2, NoneAssumption
  <2>3. CASE ~CanAdvance(TRUE, TRUE) \/ ~CanAdvance(TRUE, FALSE)
    BY <2>3, CannotAdvance
  <2>4. CASE /\ a.status # "ok"
             /\ ~MovesByStatus(a) \/ ~ChatMovesByStatus(a)
             /\ Count(Counts(a.status)) \/ Count(Faulty(a.status))
    <3>1. Counts(a.status) > 0 \/ Faulty(a.status) > 0
      <4>1. Counts(a.status) \in Nat /\ Faulty(a.status) \in Nat
        BY CountedIsRetryable
      <4> QED BY <1>0, <2>4, <4>1, CountPositive
    <3>2. Retryable(a.status)
      BY <3>1, CountedIsRetryable
    <3> QED BY <2>4, <3>2 DEF MovesByStatus, ChatMovesByStatus, CanAdvance
  <2>5. CASE JsonEnds(a)
    BY <1>0, <2>2, <2>3, <2>4, <2>5 DEF JsonEnds
  <2>6. CASE ChatJsonEnds(a)
    BY <1>0, <2>2, <2>3, <2>4, <2>6 DEF ChatJsonEnds
  <2> QED BY <2>1, <2>5, <2>6
<1> QED
  BY <1>2, <1>3, <1>4, <1>5, <1>6
     DEF RelayNext, RelayProgress, Progress, ChatProgress, DirectProgress, Failover, Direct,
         ChatSend, ChatCallFails, ChatLeavesSlow, ChatHeaders, ChatStatus, ChatHolds, ChatRelays,
         ChatJson, ChatClientLeaves, DirectClientLeaves, DirectSend, DirectFails, DirectHeaders,
         DirectStarts, KiroStreamEnds, ClaudeStreamEnds, KiroJson, ClaudeJson, GeminiJson,
         EmbeddingsJson

(* A request is given up with an error that counts against a channel only  *)
(* when no channel and no system fallback is left, but for a success that  *)
(* holds an error or nothing (_should_try_channel_fallback and the places  *)
(* that consult it).                                                       *)
THEOREM SurrenderIsLast == EndpointSpec => NoEarlySurrender
<1>1. AccountInv /\ [EndpointNext]_endpointVars
      => [(api \in Failover /\ Surrenders) => Exhausted]_<<vars, api>>
  <2> SUFFICES ASSUME AccountInv, EndpointNext, api \in Failover, Surrenders PROVE Exhausted
    BY DEF endpointVars
  <2>1. RelayNext /\ Accounts
    BY DEF EndpointNext, AccountInv, Handlers, Failover
  <2> QED BY <2>1, FailoverSurrenders
<1> QED BY <1>1, AccountInit, AccountNext, PTL DEF EndpointSpec, NoEarlySurrender, Surrenders, Exhausted

-----------------------------------------------------------------------------
(* The translation of a stream: the state of the translation knows which   *)
(* blocks its client has open.                                             *)

Index == Nat \cup {NoBlock}

Readers == [phase : {"idle", "streaming", "ended", "stopped", "failed"}, blocks : SUBSET Nat]

StreamTypes(s) ==
  /\ s \in [started : BOOLEAN, stopped : BOOLEAN,
            text : BOOLEAN, textIndex : Index, thinking : BOOLEAN, thinkingIndex : Index,
            tools : [Tools -> Index], running : SUBSET Tools, next : Nat, usage : BOOLEAN,
            reader : Readers]

(* No two blocks share an index, and the next one is free. *)
IndicesDistinct(s) ==
  /\ s.textIndex < s.next /\ s.thinkingIndex < s.next
  /\ s.textIndex # NoBlock => s.textIndex # s.thinkingIndex
  /\ \A t \in Tools :
       /\ s.tools[t] < s.next
       /\ s.tools[t] # NoBlock => /\ s.tools[t] # s.textIndex /\ s.tools[t] # s.thinkingIndex
                                  /\ \A u \in Tools : s.tools[u] = s.tools[t] => u = t

(* A call that has a block is running, until all are stopped together. *)
BlocksTaken(s) ==
  /\ s.text => s.textIndex # NoBlock
  /\ s.thinking => s.thinkingIndex # NoBlock
  /\ \A t \in Tools : t \in s.running <=> s.tools[t] # NoBlock

OpenBlocks(s) ==
  {i \in Nat : \/ (s.text /\ i = s.textIndex)
               \/ (s.thinking /\ i = s.thinkingIndex)
               \/ \E t \in s.running : i = s.tools[t]}

Tracked(s) ==
  /\ StreamTypes(s) /\ IndicesDistinct(s) /\ BlocksTaken(s) /\ ~s.stopped
  /\ s.reader = [phase |-> IF s.started THEN "streaming" ELSE "idle", blocks |-> OpenBlocks(s)]

Holding(B) == [phase |-> "streaming", blocks |-> B]

(* What the client makes of an event that it expects. *)
LEMMA ReadsExpected ==
  /\ \A B, i : Reads([phase |-> "idle", blocks |-> B], Event("start", i)) = Holding(B)
  /\ \A B, i : i \notin B => Reads(Holding(B), Event("open", i)) = Holding(B \cup {i})
  /\ \A B, i : i \in B => Reads(Holding(B), Event("close", i)) = Holding(B \ {i})
  /\ \A B, i : i \in B => Reads(Holding(B), Event("delta", i)) = Holding(B)
  /\ \A i : Reads(Holding({}), Event("end", i)) = [phase |-> "ended", blocks |-> {}]
  /\ \A i : Reads([phase |-> "ended", blocks |-> {}], Event("stop", i))
            = [phase |-> "stopped", blocks |-> {}]
<1>1. \A B, i : Reads([phase |-> "idle", blocks |-> B], Event("start", i)) = Holding(B)
  BY DEF Reads, Expects, Event, Holding
<1>2. \A B, i : i \notin B => Reads(Holding(B), Event("open", i)) = Holding(B \cup {i})
  BY DEF Reads, Expects, Event, Holding
<1>3. \A B, i : i \in B => Reads(Holding(B), Event("close", i)) = Holding(B \ {i})
  BY DEF Reads, Expects, Event, Holding
<1>4. \A B, i : i \in B => Reads(Holding(B), Event("delta", i)) = Holding(B)
  BY DEF Reads, Expects, Event, Holding
<1>5. \A i : Reads(Holding({}), Event("end", i)) = [phase |-> "ended", blocks |-> {}]
  BY DEF Reads, Expects, Event, Holding
<1>6. \A i : Reads([phase |-> "ended", blocks |-> {}], Event("stop", i))
           = [phase |-> "stopped", blocks |-> {}]
  BY DEF Reads, Expects, Event, Holding
<1> QED BY <1>1, <1>2, <1>3, <1>4, <1>5, <1>6

USE ToolsAssumption DEF ToolsAssumption, NoBlock

LEMMA BlocksAreNat ==
  /\ \A s : OpenBlocks(s) \in SUBSET Nat
  /\ \A B \in SUBSET Nat : Holding(B) \in Readers
  BY DEF OpenBlocks, Holding, Readers

(* The blocks of a message are tracked as long as what changes is of the   *)
(* types of the state and no index is taken.                               *)
LEMMA SameIndices ==
  ASSUME NEW s, Tracked(s), NEW x, StreamTypes(x), x.started, ~x.stopped,
         x.textIndex = s.textIndex, x.thinkingIndex = s.thinkingIndex,
         x.tools = s.tools, x.running = s.running, x.next = s.next,
         x.text => s.text, x.thinking => s.thinking,
         x.reader = Holding(OpenBlocks(x))
  PROVE  Tracked(x)
  BY DEF Tracked, IndicesDistinct, BlocksTaken, Holding

LEMMA StartTracked ==
  ASSUME NEW s, Tracked(s), NEW x, x = Start(s)
  PROVE  Tracked(x) /\ x.started /\ x.text = s.text /\ x.thinking = s.thinking
<1>1. CASE s.started
  BY <1>1 DEF Start
<1>2. CASE ~s.started
  <2> DEFINE r == Holding(OpenBlocks(s))
  <2>1. Reads(s.reader, Event("start", NoBlock)) = r
    BY <1>2, ReadsExpected DEF Tracked
  <2>2. r \in Readers
    BY BlocksAreNat
  <2> HIDE DEF r
  <2>3. x = [s EXCEPT !.started = TRUE, !.reader = r]
    BY <1>2, <2>1 DEF Start, Emit, Tracked, StreamTypes
  <2>4. /\ StreamTypes(x) /\ x.started /\ ~x.stopped /\ x.reader = r
        /\ x.text = s.text /\ x.thinking = s.thinking
        /\ x.textIndex = s.textIndex /\ x.thinkingIndex = s.thinkingIndex
        /\ x.tools = s.tools /\ x.running = s.running /\ x.next = s.next
    BY <2>2, <2>3 DEF Tracked, StreamTypes
  <2>5. OpenBlocks(x) = OpenBlocks(s)
    BY <2>4 DEF OpenBlocks
  <2> QED BY <2>4, <2>5, SameIndices DEF r
<1> QED BY <1>1, <1>2

LEMMA StopTextTracked ==
  ASSUME NEW s, Tracked(s), s.started, NEW x, x = StopText(s)
  PROVE  Tracked(x) /\ x.started /\ ~x.text /\ x.thinking = s.thinking
<1>1. CASE ~s.text
  BY <1>1 DEF StopText
<1>2. CASE s.text
  <2> DEFINE r == Holding(OpenBlocks(s) \ {s.textIndex})
  <2>1. s.reader = Holding(OpenBlocks(s)) /\ s.textIndex \in OpenBlocks(s)
    BY <1>2 DEF OpenBlocks, Tracked, StreamTypes, BlocksTaken, Index, Holding
  <2>2. Reads(s.reader, Event("close", s.textIndex)) = r
    BY <2>1, ReadsExpected
  <2>3. r \in Readers
    BY BlocksAreNat
  <2> HIDE DEF r
  <2>4. x = [s EXCEPT !.text = FALSE, !.reader = r]
    BY <1>2, <2>2 DEF StopText, Emit, Tracked, StreamTypes
  <2>5. /\ StreamTypes(x) /\ x.started /\ ~x.stopped /\ x.reader = r
        /\ ~x.text /\ x.thinking = s.thinking
        /\ x.textIndex = s.textIndex /\ x.thinkingIndex = s.thinkingIndex
        /\ x.tools = s.tools /\ x.running = s.running /\ x.next = s.next
    BY <2>3, <2>4 DEF Tracked, StreamTypes
  <2>6. OpenBlocks(x) = OpenBlocks(s) \ {s.textIndex}
    BY <1>2, <2>5 DEF OpenBlocks, Tracked, StreamTypes, IndicesDistinct, BlocksTaken
  <2> QED BY <2>5, <2>6, SameIndices DEF r
<1> QED BY <1>1, <1>2

LEMMA StopThinkingTracked ==
  ASSUME NEW s, Tracked(s), s.started, NEW x, x = StopThinking(s)
  PROVE  Tracked(x) /\ x.started /\ x.text = s.text /\ ~x.thinking
<1>1. CASE ~s.thinking
  BY <1>1 DEF StopThinking
<1>2. CASE s.thinking
  <2> DEFINE r == Holding(OpenBlocks(s) \ {s.thinkingIndex})
  <2>1. s.reader = Holding(OpenBlocks(s)) /\ s.thinkingIndex \in OpenBlocks(s)
    BY <1>2 DEF OpenBlocks, Tracked, StreamTypes, BlocksTaken, Index, Holding
  <2>2. Reads(s.reader, Event("close", s.thinkingIndex)) = r
    BY <2>1, ReadsExpected
  <2>3. r \in Readers
    BY BlocksAreNat
  <2> HIDE DEF r
  <2>4. x = [s EXCEPT !.thinking = FALSE, !.reader = r]
    BY <1>2, <2>2 DEF StopThinking, Emit, Tracked, StreamTypes
  <2>5. /\ StreamTypes(x) /\ x.started /\ ~x.stopped /\ x.reader = r
        /\ x.text = s.text /\ ~x.thinking
        /\ x.textIndex = s.textIndex /\ x.thinkingIndex = s.thinkingIndex
        /\ x.tools = s.tools /\ x.running = s.running /\ x.next = s.next
    BY <2>3, <2>4 DEF Tracked, StreamTypes
  <2>6. OpenBlocks(x) = OpenBlocks(s) \ {s.thinkingIndex}
    BY <1>2, <2>5 DEF OpenBlocks, Tracked, StreamTypes, IndicesDistinct, BlocksTaken
  <2> QED BY <2>5, <2>6, SameIndices DEF r
<1> QED BY <1>1, <1>2

(* A block opens with an index that no open block has. *)
LEMMA OpenTextTracked ==
  ASSUME NEW s, Tracked(s), s.started, ~s.text, NEW x, x = OpenText(s)
  PROVE  Tracked(x) /\ x.started /\ x.textIndex \in OpenBlocks(x)
<1> DEFINE known == s.textIndex # NoBlock
           i == IF known THEN s.textIndex ELSE s.next
           next == IF known THEN s.next ELSE s.next + 1
           r == Holding(OpenBlocks(s) \cup {i})
<1>1. i \in Nat /\ next \in Nat /\ i < next /\ s.next <= next
  BY DEF Tracked, StreamTypes, IndicesDistinct, Index
<1>2. s.reader = Holding(OpenBlocks(s)) /\ i \notin OpenBlocks(s)
  BY DEF OpenBlocks, Tracked, StreamTypes, IndicesDistinct, BlocksTaken, Holding, Index
<1>3. Reads(s.reader, Event("open", i)) = r
  BY <1>2, ReadsExpected
<1>4. r \in Readers
  BY <1>1, BlocksAreNat
<1>5. x = [s EXCEPT !.text = TRUE, !.textIndex = i, !.next = next, !.reader = r]
  <2> HIDE DEF r
  <2> QED BY <1>3 DEF OpenText, Emit, Tracked, StreamTypes
<1>6. i # s.thinkingIndex /\ (\A t \in Tools : s.tools[t] # i)
      /\ (s.textIndex = i \/ (s.textIndex = NoBlock /\ i = s.next))
  BY DEF Tracked, StreamTypes, IndicesDistinct, Index
<1> HIDE DEF i, next, r
<1>7. /\ StreamTypes(x) /\ x.started /\ ~x.stopped /\ x.reader = r
      /\ x.text /\ x.thinking = s.thinking
      /\ x.textIndex = i /\ x.thinkingIndex = s.thinkingIndex
      /\ x.tools = s.tools /\ x.running = s.running /\ x.next = next
  BY <1>1, <1>4, <1>5 DEF Tracked, StreamTypes, Index
<1>8. OpenBlocks(x) = OpenBlocks(s) \cup {i}
  BY <1>1, <1>7 DEF OpenBlocks, Tracked, StreamTypes
<1>9. IndicesDistinct(x)
  BY <1>1, <1>6, <1>7 DEF Tracked, StreamTypes, IndicesDistinct, Index
<1>10. BlocksTaken(x)
  BY <1>1, <1>7 DEF Tracked, StreamTypes, BlocksTaken
<1> QED BY <1>7, <1>8, <1>9, <1>10 DEF Tracked, r, Holding

LEMMA OpenThinkingTracked ==
  ASSUME NEW s, Tracked(s), s.started, ~s.thinking, NEW x, x = OpenThinking(s)
  PROVE  Tracked(x) /\ x.started /\ x.thinkingIndex \in OpenBlocks(x)
<1> DEFINE known == s.thinkingIndex # NoBlock
           i == IF known THEN s.thinkingIndex ELSE s.next
           next == IF known THEN s.next ELSE s.next + 1
           r == Holding(OpenBlocks(s) \cup {i})
<1>1. i \in Nat /\ next \in Nat /\ i < next /\ s.next <= next
  BY DEF Tracked, StreamTypes, IndicesDistinct, Index
<1>2. s.reader = Holding(OpenBlocks(s)) /\ i \notin OpenBlocks(s)
  BY DEF OpenBlocks, Tracked, StreamTypes, IndicesDistinct, BlocksTaken, Holding, Index
<1>3. Reads(s.reader, Event("open", i)) = r
  BY <1>2, ReadsExpected
<1>4. r \in Readers
  BY <1>1, BlocksAreNat
<1>5. x = [s EXCEPT !.thinking = TRUE, !.thinkingIndex = i, !.next = next, !.reader = r]
  <2> HIDE DEF r
  <2> QED BY <1>3 DEF OpenThinking, Emit, Tracked, StreamTypes
<1>6. i # s.textIndex /\ (\A t \in Tools : s.tools[t] # i)
  BY DEF Tracked, StreamTypes, IndicesDistinct, Index
<1> HIDE DEF i, next, r
<1>7. /\ StreamTypes(x) /\ x.started /\ ~x.stopped /\ x.reader = r
      /\ x.thinking /\ x.text = s.text
      /\ x.thinkingIndex = i /\ x.textIndex = s.textIndex
      /\ x.tools = s.tools /\ x.running = s.running /\ x.next = next
  <2>1. i \in Index
    BY <1>1 DEF Index
  <2>2. StreamTypes(x)
    BY <1>1, <1>4, <1>5, <2>1 DEF Tracked, StreamTypes
  <2> QED BY <1>5, <2>2 DEF Tracked, StreamTypes
<1>8. OpenBlocks(x) = OpenBlocks(s) \cup {i}
  BY <1>1, <1>7 DEF OpenBlocks, Tracked, StreamTypes
<1>9. IndicesDistinct(x)
  BY <1>1, <1>6, <1>7 DEF Tracked, StreamTypes, IndicesDistinct, Index
<1>10. BlocksTaken(x)
  <2>1. i # NoBlock /\ BlocksTaken(s)
    BY <1>1 DEF Tracked
  <2> QED BY <1>7, <2>1 DEF BlocksTaken
<1> QED BY <1>7, <1>8, <1>9, <1>10 DEF Tracked, r, Holding

LEMMA StartToolTracked ==
  ASSUME NEW s, Tracked(s), s.started, NEW t \in Tools, NEW x, x = StartTool(s, t)
  PROVE  Tracked(x) /\ x.started /\ x.tools[t] \in OpenBlocks(x)
<1>1. CASE s.tools[t] # NoBlock
  BY <1>1 DEF StartTool, OpenBlocks, Tracked, StreamTypes, BlocksTaken, Index
<1>2. CASE s.tools[t] = NoBlock
  <2> DEFINE i == s.next
             r == Holding(OpenBlocks(s) \cup {i})
  <2>1. s.reader = Holding(OpenBlocks(s)) /\ i \in Nat /\ i \notin OpenBlocks(s)
    BY DEF OpenBlocks, Tracked, StreamTypes, IndicesDistinct, Holding
  <2>2. Reads(s.reader, Event("open", i)) = r
    BY <2>1, ReadsExpected
  <2>3. r \in Readers
    BY <2>1, BlocksAreNat
  <2> HIDE DEF r
  <2>4. x = [s EXCEPT !.tools[t] = i, !.running = @ \cup {t}, !.next = i + 1, !.reader = r]
    BY <1>2, <2>2 DEF StartTool, Emit, Tracked, StreamTypes
  <2>5. /\ StreamTypes(x) /\ x.started /\ ~x.stopped /\ x.reader = r
        /\ x.text = s.text /\ x.thinking = s.thinking
        /\ x.thinkingIndex = s.thinkingIndex /\ x.textIndex = s.textIndex
        /\ x.tools = [s.tools EXCEPT ![t] = i]
        /\ x.running = s.running \cup {t} /\ x.next = i + 1
    <3>1. i \in Index /\ i + 1 \in Nat
      BY <2>1 DEF Index
    <3> DEFINE tools == [s.tools EXCEPT ![t] = i]
               running == s.running \cup {t}
    <3>2. x = [s EXCEPT !.tools = tools, !.running = running, !.next = i + 1, !.reader = r]
      BY <2>4 DEF Tracked, StreamTypes
    <3>3. tools \in [Tools -> Index] /\ running \in SUBSET Tools
      BY <3>1 DEF Tracked, StreamTypes
    <3>4. StreamTypes(x)
      <4> HIDE DEF tools, running
      <4> QED BY <2>3, <3>1, <3>2, <3>3 DEF Tracked, StreamTypes
    <3> QED BY <3>2, <3>4 DEF Tracked, StreamTypes
  <2>6. OpenBlocks(x) = OpenBlocks(s) \cup {i}
    BY <1>2, <2>1, <2>5 DEF OpenBlocks, Tracked, StreamTypes, BlocksTaken
  <2>7. IndicesDistinct(x)
    BY <1>2, <2>1, <2>5 DEF Tracked, StreamTypes, IndicesDistinct, Index
  <2>8. BlocksTaken(x)
    BY <2>1, <2>5 DEF Tracked, StreamTypes, BlocksTaken
  <2> QED BY <2>1, <2>5, <2>6, <2>7, <2>8 DEF Tracked, StreamTypes, r, Holding
<1> QED BY <1>1, <1>2

LEMMA DeltaTracked ==
  ASSUME NEW s, Tracked(s), s.started, NEW i \in OpenBlocks(s)
  PROVE  Emit(s, "delta", i) = s
<1>1. s.reader = Holding(OpenBlocks(s))
  BY DEF Tracked, Holding
<1>2. Reads(s.reader, Event("delta", i)) = s.reader
  BY <1>1, ReadsExpected
<1> QED BY <1>2 DEF Emit, Tracked, StreamTypes

(* Whatever part of a delta is translated, the client reads on. *)
LEMMA TranslationsTracked ==
  ASSUME NEW s, Tracked(s), NEW x \in Translations(s)
  PROVE  Tracked(x) /\ x.started
<1> DEFINE a == Start(s)
           b == StopText(a)
           c == StopThinking(b)
<1>1. Tracked(a) /\ a.started
  BY StartTracked
<1>2. Tracked(b) /\ b.started /\ ~b.text
  <2> HIDE DEF a
  <2> QED BY <1>1, StopTextTracked
<1>3. Tracked(c) /\ c.started
  <2> HIDE DEF a, b
  <2> QED BY <1>2, StopThinkingTracked
<1>4. CASE x = TextDelta(s)
  <2> DEFINE d == StartText(a)
  <2>1. Tracked(d) /\ d.started /\ d.textIndex \in OpenBlocks(d)
    <3> HIDE DEF a
    <3>1. CASE a.text
      BY <1>1, <3>1 DEF StartText, OpenBlocks, Tracked, StreamTypes, BlocksTaken, Index
    <3>2. CASE ~a.text
      <4> DEFINE e == StopThinking(a)
      <4>1. d = OpenText(e)
        BY <3>2 DEF StartText
      <4>2. Tracked(e) /\ e.started /\ ~e.text
        BY <1>1, <3>2, StopThinkingTracked
      <4> HIDE DEF d, e
      <4> QED BY <4>1, <4>2, OpenTextTracked
    <3> QED BY <3>1, <3>2
  <2>2. x = Emit(d, "delta", d.textIndex)
    BY <1>4 DEF TextDelta
  <2> HIDE DEF d
  <2> QED BY <2>1, <2>2, DeltaTracked
<1>5. CASE x = Thought(s)
  <2> DEFINE d == StartThinking(b)
  <2>1. Tracked(d) /\ d.started /\ d.thinkingIndex \in OpenBlocks(d)
    <3> HIDE DEF b
    <3>1. CASE b.thinking
      BY <1>2, <3>1 DEF StartThinking, OpenBlocks, Tracked, StreamTypes, BlocksTaken, Index
    <3>2. CASE ~b.thinking
      <4> DEFINE e == StopText(b)
      <4>1. d = OpenThinking(e)
        BY <3>2 DEF StartThinking
      <4>2. Tracked(e) /\ e.started /\ e.thinking = b.thinking
        BY <1>2, StopTextTracked
      <4> HIDE DEF d, e
      <4> QED BY <3>2, <4>1, <4>2, OpenThinkingTracked
    <3> QED BY <3>1, <3>2
  <2>2. x = Emit(d, "delta", d.thinkingIndex)
    BY <1>5 DEF Thought
  <2> HIDE DEF d
  <2> QED BY <2>1, <2>2, DeltaTracked
<1>6. ASSUME NEW t \in Tools, x = ToolCall(s, t)
      PROVE  Tracked(x) /\ x.started
  <2> DEFINE d == StartTool(c, t)
  <2>1. Tracked(d) /\ d.started /\ d.tools[t] \in OpenBlocks(d)
    <3> HIDE DEF c
    <3> QED BY <1>3, StartToolTracked
  <2>2. x = Emit(d, "delta", d.tools[t])
    BY <1>6 DEF ToolCall
  <2> HIDE DEF d
  <2> QED BY <2>1, <2>2, DeltaTracked
<1>7. CASE x = Start(s) \/ x = NoThoughts(s)
  BY <1>1, <1>2, <1>7 DEF NoThoughts
<1> QED BY <1>4, <1>5, <1>6, <1>7 DEF Translations

(* At the end all blocks are closed: no tool call is left without its own. *)
LEMMA FinalizeEnds ==
  ASSUME NEW s, Tracked(s)
  PROVE  LET x == Finalize(s) IN
         StreamTypes(x) /\ x.stopped /\ x.reader = [phase |-> "stopped", blocks |-> {}]
<1> DEFINE a == Start(s)
           b == StopText(a)
           c == StopThinking(b)
           d == [StopTools(c) EXCEPT !.stopped = TRUE]
<1>1. Tracked(a) /\ a.started
  BY StartTracked
<1>2. Tracked(b) /\ b.started /\ ~b.text
  <2> HIDE DEF a
  <2> QED BY <1>1, StopTextTracked
<1>3. Tracked(c) /\ c.started /\ ~c.text /\ ~c.thinking
  <2> HIDE DEF a, b
  <2> QED BY <1>2, StopThinkingTracked
<1> HIDE DEF c
<1>4. c.reader = Holding(OpenBlocks(c)) /\ OpenBlocks(c) = {c.tools[t] : t \in c.running}
  BY <1>3 DEF OpenBlocks, Tracked, StreamTypes, BlocksTaken, Index, Holding
<1>5. ReadsCloses(c) = Holding({})
  <2>1. CASE c.running = {}
    BY <1>4, <2>1 DEF ReadsCloses
  <2>2. CASE c.running # {}
    <3>1. \A t \in c.running : c.tools[t] \in c.reader.blocks /\
            \A u \in c.running : c.tools[u] = c.tools[t] => u = t
      BY <1>3, <1>4 DEF Tracked, StreamTypes, IndicesDistinct, BlocksTaken, Holding
    <3>2. ReadsCloses(c) = [c.reader EXCEPT !.blocks = @ \ {c.tools[t] : t \in c.running}]
      BY <1>4, <2>2, <3>1 DEF ReadsCloses, Holding
    <3> QED BY <1>4, <3>2 DEF Holding
  <2> QED BY <2>1, <2>2
<1>6. d = [c EXCEPT !.running = {}, !.stopped = TRUE, !.reader = Holding({})]
  BY <1>3, <1>5 DEF StopTools, Tracked, StreamTypes
<1> DEFINE e == [d EXCEPT !.reader = [phase |-> "ended", blocks |-> {}]]
           x == [d EXCEPT !.reader = [phase |-> "stopped", blocks |-> {}]]
<1>7. d.reader = Holding({}) /\ Emit(d, "end", NoBlock) = e
  <2> HIDE DEF d
  <2>1. d.reader = Holding({})
    BY <1>3, <1>6 DEF Tracked, StreamTypes
  <2> QED BY <2>1, ReadsExpected DEF Emit
<1>8. Emit(e, "stop", NoBlock) = x
  <2> HIDE DEF d
  <2>1. e.reader = [phase |-> "ended", blocks |-> {}]
    BY <1>3, <1>6 DEF Tracked, StreamTypes
  <2> QED BY <1>3, <1>6, <2>1, ReadsExpected DEF Emit, Tracked, StreamTypes
<1>9. Finalize(s) = x
  BY <1>7, <1>8 DEF Finalize, c, Tracked
<1>10. StreamTypes(x) /\ x.stopped /\ x.reader = [phase |-> "stopped", blocks |-> {}]
  <2> DEFINE q == [phase |-> "stopped", blocks |-> {}]
  <2>1. q \in Readers
    BY DEF Readers
  <2> HIDE DEF d, q
  <2>2. x = [c EXCEPT !.running = {}, !.stopped = TRUE, !.reader = q]
    BY <1>3, <1>6 DEF Tracked, StreamTypes, q
  <2>3. StreamTypes(x) /\ x.stopped /\ x.reader = q
    BY <1>3, <2>1, <2>2 DEF Tracked, StreamTypes
  <2> QED BY <2>3 DEF q
<1> QED BY <1>9, <1>10


-----------------------------------------------------------------------------
(* What the client of a message has read, by where the handler stands. *)
ReaderInv ==
  /\ pc \in {"new", "ready", "sent", "handed", "relaying", "failing", "done"}
  /\ StreamTypes(state)
  /\ pc \in {"new", "ready", "sent", "handed"} => state = Fresh
  /\ pc \in {"new", "ready", "sent"} => wire = "openai"
  /\ (wire = "anthropic" => native)
  /\ pc \in {"handed", "relaying", "failing"} => wire \in {"openai", "anthropic"}
  /\ pc = "relaying" =>
       /\ wire = "openai" => state.stopped \/ (state.started /\ Tracked(state))
       /\ state.reader.phase \in {"streaming", "ended", "stopped"}
       /\ state.stopped <=> state.reader.phase = "stopped"
  /\ pc = "failing" => state.reader.phase = "failed"

(* The records of a message. *)
RecordInv ==
  /\ ~encrypted /\ ~foreign
  /\ pc # "done" => usage = 0
  /\ pc \in {"new", "ready"} => logged = Attempts /\ failures = 0
  /\ pc \in {"sent", "handed", "relaying"} => logged = Attempts - 1 /\ failures = 0
  /\ pc = "failing" /\ native => logged = Attempts - 1 /\ failures = 0
  /\ pc = "failing" /\ ~native => logged = Attempts /\ failures = 1
  /\ pc \in {"handed", "relaying", "failing"} => answer.status = "ok" /\ answer.body = "sse"
  /\ AttemptsRecorded /\ BilledAsShown

MessageInv ==
  /\ api \in Handlers \cup {"messages"}
  /\ api \in Handlers => state = Fresh
  /\ api = "messages" => ReaderInv /\ RecordInv

LEMMA FreshTracked == Tracked(Fresh) /\ ~Fresh.stopped /\ Fresh.usage = FALSE
                      /\ Fresh.reader = [phase |-> "idle", blocks |-> {}]
<1>1. OpenBlocks(Fresh) = {}
  BY DEF OpenBlocks, Fresh
<1> QED BY <1>1 DEF Tracked, StreamTypes, IndicesDistinct, BlocksTaken, Fresh, Index, Readers

LEMMA AttemptsCounted ==
  ASSUME sent \in [Targets -> 0 .. 3]
  PROVE  /\ Attempts \in Nat
         /\ sent' = sent => Attempts' = Attempts
         /\ \A t \in Targets : sent[t] = 0 /\ sent' = [sent EXCEPT ![t] = 1] => Attempts' = Attempts + 1
<1> DEFINE A == {t \in Targets : sent[t] > 0}
<1>1. IsFiniteSet(Targets)
  <2>1. IsFiniteSet({Catalog, System, Legacy})
    <3>1. {Catalog, System, Legacy} = {Catalog} \cup ({System} \cup {Legacy})
      OBVIOUS
    <3>2. IsFiniteSet({System} \cup {Legacy})
      BY FS_Singleton, FS_Union
    <3>3. IsFiniteSet({Catalog})
      BY FS_Singleton
    <3>4. IsFiniteSet({Catalog} \cup ({System} \cup {Legacy}))
      BY <3>2, <3>3, FS_Union
    <3> QED BY <3>1, <3>4
  <2> QED BY <2>1, FS_Union DEF Targets
<1>2. IsFiniteSet(A) /\ Cardinality(A) \in Nat
  BY <1>1, FS_Subset, FS_CardinalityType
<1>3. ASSUME NEW t \in Targets, sent[t] = 0, sent' = [sent EXCEPT ![t] = 1]
      PROVE  Attempts' = Attempts + 1
  <2>1. {u \in Targets : sent'[u] > 0} = A \cup {t} /\ t \notin A
    BY <1>3
  <2> QED BY <1>2, <2>1, FS_AddElement DEF Attempts
<1> QED BY <1>2, <1>3 DEF Attempts

(* The steps of /v1/messages.                                              *)
MessageState == ReaderInv /\ RecordInv

(* A failed attempt is recorded as terminal if and only if it is the last. *)
LEMMA AttemptFailsRecorded ==
  ASSUME CourseInv, MessageState, pc = "sent", NEW n, NEW b \in BOOLEAN, AttemptFails(n, b),
         UNCHANGED <<flags, sent, relay>>
  PROVE  MessageState'
<1>1. Attempts' = Attempts /\ Attempts \in Nat
  BY AttemptsCounted DEF CourseInv, CourseTypes
<1>2. state' = state /\ wire' = wire /\ native' = native /\ foreign' = foreign /\ encrypted' = encrypted
  BY DEF relay, flags
<1>3. state = Fresh /\ usage = 0 /\ logged = Attempts - 1 /\ failures = 0
  BY DEF MessageState, ReaderInv, RecordInv
<1>4. ReaderInv'
  BY <1>2, <1>3 DEF AttemptFails, MoveOn, GiveUp, MessageState, ReaderInv
<1>5. RecordInv'
  <2>1. ~encrypted' /\ ~foreign'
    BY <1>2 DEF MessageState, RecordInv
  <2>2. CASE b /\ Fallbacks # {}
    <3>1. pc' = "ready" /\ logged' = Attempts' /\ failures' = 0 /\ usage' = 0
      BY <1>1, <1>3, <2>2 DEF AttemptFails, Record, MoveOn, ended
    <3> QED BY <2>1, <3>1 DEF RecordInv, AttemptsRecorded, BilledAsShown
  <2>3. CASE ~(b /\ Fallbacks # {})
    <3>1. pc' = "done" /\ outcome' = "error" /\ logged' = Attempts' /\ failures' = 1 /\ usage' = 0
      <4>1. GiveUp /\ logged' = logged + 1 /\ failures' = failures + 1
        BY <2>3 DEF AttemptFails, Record
      <4> QED BY <1>1, <1>3, <4>1 DEF GiveUp
    <3> QED BY <1>1, <2>1, <3>1 DEF RecordInv, AttemptsRecorded, BilledAsShown
  <2> QED BY <2>2, <2>3
<1> QED BY <1>4, <1>5 DEF MessageState

(* What the handler relays to a client that reads. *)
LEMMA RelayRecorded ==
  ASSUME CourseInv, MessageState, NEW s, Streams(s), Relaying,
         StreamTypes(s), s.reader.phase \in {"streaming", "ended", "stopped"},
         s.stopped <=> s.reader.phase = "stopped",
         wire = "openai" => s.stopped \/ (s.started /\ Tracked(s))
  PROVE  MessageState'
<1>1. Attempts' = Attempts /\ Attempts \in Nat
  BY AttemptsCounted DEF CourseInv, CourseTypes, Streams
<1>2. /\ pc \in {"handed", "relaying"} /\ pc' = "relaying" /\ state' = s
      /\ UNCHANGED <<wire, native, foreign, encrypted, answer, usage, logged, failures>>
  BY DEF Streams, Relaying, records, flags, ended
<1>3. ReaderInv'
  BY <1>2 DEF MessageState, ReaderInv
<1>4. RecordInv'
  BY <1>1, <1>2 DEF MessageState, RecordInv, AttemptsRecorded, BilledAsShown
<1> QED BY <1>3, <1>4 DEF MessageState

(* An error is the last event that the client reads.                       *)
LEMMA GoodbyeFails ==
  ASSUME ReaderInv, pc = "relaying", Goodbye
  PROVE  /\ state'.reader.phase = "failed"
         /\ StreamTypes(state') /\ state'.stopped = state.stopped /\ state'.usage = state.usage
<1>1. Expects(state.reader, Event("error", NoBlock))
  BY DEF ReaderInv, Expects, Event
<1>2. Reads(state.reader, Event("error", NoBlock)) = [state.reader EXCEPT !.phase = "failed"]
  BY <1>1 DEF Reads, Event
<1>3. [state.reader EXCEPT !.phase = "failed"] \in Readers
        /\ [state.reader EXCEPT !.phase = "failed"].phase = "failed"
  BY DEF ReaderInv, StreamTypes, Readers
<1> QED BY <1>2, <1>3 DEF Goodbye, Emit, ReaderInv, StreamTypes

LEMMA MessageSteps ==
  ASSUME CourseInv, MessageState, MessagesNext
  PROVE  MessageState'
<1> USE DEF MessageState
<1>0. /\ sent \in [Targets -> 0 .. 3] /\ used \in Targets
      /\ pc = "ready" => sent[used] = 0
  BY DEF CourseInv, CourseTypes, NowUsed, RecordInv
<1>1. Attempts \in Nat /\ (sent' = sent => Attempts' = Attempts)
  BY <1>0, AttemptsCounted
<1>2. CASE MessagesRoute \/ (Cool /\ UNCHANGED <<relay, records>>)
  BY <1>1, <1>2 DEF MessagesRoute, Resolve, Cool, relay, records, flags, ended, ReaderInv, RecordInv,
     AttemptsRecorded, BilledAsShown
<1>3. CASE MessagesSend
  <2>1. Attempts' = Attempts + 1
    <3>1. pc = "ready" /\ sent' = [sent EXCEPT ![used] = 1]
      BY <1>0, <1>3 DEF MessagesSend, Send, Again
    <3> QED BY <1>0, <3>1, AttemptsCounted
  <2>2. ReaderInv'
    BY <1>3 DEF MessagesSend, Send, ReaderInv
  <2>3. RecordInv'
    BY <1>1, <1>3, <2>1 DEF MessagesSend, Send, records, flags, ended, RecordInv,
       AttemptsRecorded, BilledAsShown
  <2> QED BY <2>2, <2>3
<1>4. CASE MessagesCallFails
  <2>1. CASE AttemptFails(1, TRUE)
    BY <1>4, <2>1, AttemptFailsRecorded DEF MessagesCallFails
  <2>2. CASE Record(TRUE) /\ GiveUp
    <3>1. ReaderInv'
      BY <1>4, <2>2 DEF MessagesCallFails, GiveUp, relay, ReaderInv
    <3>2. RecordInv'
      BY <1>1, <1>4, <2>2 DEF MessagesCallFails, Record, GiveUp, flags, RecordInv,
         AttemptsRecorded, BilledAsShown
    <3> QED BY <3>1, <3>2
  <2> QED BY <1>4, <2>1, <2>2 DEF MessagesCallFails
<1>5. CASE MessagesStatus
  <2> PICK a \in Answers : \/ AttemptFails(Counts(a.status), Retryable(a.status))
                          \/ AttemptFails(1, FALSE)
    BY <1>5 DEF MessagesStatus
  <2>1. Retryable(a.status) \in BOOLEAN
    BY DEF Retryable
  <2> QED BY <1>5, <2>1, AttemptFailsRecorded DEF MessagesStatus
<1>6. CASE PreflightReads
  BY <1>1, <1>6 DEF PreflightReads, records, flags, ended, ReaderInv, RecordInv,
     AttemptsRecorded, BilledAsShown
<1>7. CASE PreflightFails \/ WholeStreamCut \/ WholeBroken
  BY <1>7, AttemptFailsRecorded DEF PreflightFails, WholeStreamCut, WholeBroken, WholeAnswer
<1>8. CASE RelaysChunk \/ RelaysUsage \/ RelaysDone
  <2>1. wire = "openai" /\ Relaying /\ Tracked(state)
    BY <1>8, FreshTracked DEF RelaysChunk, RelaysUsage, RelaysDone, Relaying, ReaderInv
  <2>2. ASSUME NEW s, Tracked(s), s.started, Streams(s) PROVE MessageState'
    <3>1. s.reader.phase = "streaming" /\ ~s.stopped /\ StreamTypes(s)
      BY <2>2 DEF Tracked
    <3> QED BY <2>1, <2>2, <3>1, RelayRecorded
  <2>3. CASE RelaysChunk
    BY <2>1, <2>2, <2>3, TranslationsTracked DEF RelaysChunk
  <2>4. CASE RelaysUsage
    <3>1. Tracked(NamesUsage(state)) /\ NamesUsage(state).started
      <4>1. state.started
        BY <2>4 DEF RelaysUsage, ReaderInv
      <4> DEFINE x == NamesUsage(state)
      <4>2. /\ StreamTypes(x) /\ x.started /\ ~x.stopped /\ x.reader = state.reader
            /\ x.text = state.text /\ x.thinking = state.thinking
            /\ x.textIndex = state.textIndex /\ x.thinkingIndex = state.thinkingIndex
            /\ x.tools = state.tools /\ x.running = state.running /\ x.next = state.next
        BY <2>1, <4>1 DEF NamesUsage, Tracked, StreamTypes
      <4>3. state.reader = Holding(OpenBlocks(state))
        BY <2>1, <4>1 DEF Tracked, Holding
      <4> HIDE DEF x
      <4>4. OpenBlocks(x) = OpenBlocks(state)
        BY <4>2 DEF OpenBlocks
      <4>5. Tracked(x)
        BY <2>1, <4>2, <4>3, <4>4, SameIndices
      <4> QED BY <4>2, <4>5 DEF x
    <3> QED BY <2>2, <2>4, <3>1 DEF RelaysUsage
  <2>5. CASE RelaysDone
    <3> DEFINE x == Finalize(state)
    <3>1. StreamTypes(x) /\ x.stopped /\ x.reader.phase = "stopped"
      BY <2>1, FinalizeEnds
    <3>2. Streams(x)
      BY <2>5 DEF RelaysDone
    <3> HIDE DEF x
    <3> QED BY <2>1, <3>1, <3>2, RelayRecorded
  <2> QED BY <1>8, <2>3, <2>4, <2>5
<1>9. CASE RelaysEvent
  <2> PICK kind \in {"start", "end", "stop"}, u \in BOOLEAN :
        /\ Expects(state.reader, Event(kind, NoBlock))
        /\ Streams(Emit([state EXCEPT !.started = TRUE, !.stopped = (kind = "stop"), !.usage = @ \/ u],
                        kind, NoBlock))
    BY <1>9, Zenon DEF RelaysEvent
  <2> DEFINE q == [state.reader EXCEPT !.phase =
                     [start |-> "streaming", end |-> "ended", stop |-> "stopped"][kind]]
             x == [state EXCEPT !.started = TRUE, !.stopped = (kind = "stop"),
                                !.usage = @ \/ u, !.reader = q]
  <2>1. StreamTypes(state)
    BY DEF ReaderInv
  <2>2. Reads(state.reader, Event(kind, NoBlock)) = q
    BY <2>1 DEF Reads, Event
  <2>3. q \in Readers /\ q.phase \in {"streaming", "ended", "stopped"} /\ (q.phase = "stopped" <=> kind = "stop")
    BY <2>1 DEF StreamTypes, Readers
  <2> HIDE DEF q
  <2>4. Streams(x)
    BY <2>1, <2>2 DEF Emit, StreamTypes
  <2>5. StreamTypes(x) /\ x.reader = q /\ x.stopped = (kind = "stop")
    BY <2>1, <2>3 DEF StreamTypes
  <2> HIDE DEF x
  <2>6. Relaying /\ wire = "anthropic"
    BY <1>9 DEF RelaysEvent
  <2> QED BY <2>3, <2>4, <2>5, <2>6, RelayRecorded
<1>10. CASE StreamEnds
  <2>1. CASE Cut
    <3>1. state'.reader.phase = "failed" /\ StreamTypes(state')
      BY <1>10, <2>1, GoodbyeFails DEF StreamEnds
    <3>2. ReaderInv'
      BY <1>10, <3>1 DEF StreamEnds, Closing, ReaderInv
    <3>3. RecordInv'
      BY <1>1, <1>10, <2>1, <3>1 DEF StreamEnds, Closing, Record, flags, RecordInv,
         AttemptsRecorded, BilledAsShown
    <3> QED BY <3>2, <3>3
  <2>2. CASE ~Cut
    <3>1. state.reader.phase = "stopped" /\ state.usage \in BOOLEAN
      BY <1>10, <2>2 DEF StreamEnds, Cut, ReaderInv, StreamTypes
    <3>2. ReaderInv'
      BY <1>10, <2>2 DEF StreamEnds, Closing, ReaderInv
    <3>3. RecordInv'
      BY <1>1, <1>10, <2>2, <3>1 DEF StreamEnds, Closing, Succeeds, flags, records, RecordInv,
         AttemptsRecorded, BilledAsShown
    <3> QED BY <3>2, <3>3
  <2> QED BY <2>1, <2>2
<1>11. CASE StreamBreaks
  <2>1. state'.reader.phase = "failed" /\ StreamTypes(state')
    BY <1>11, GoodbyeFails DEF StreamBreaks
  <2>2. ReaderInv'
    BY <1>11, <2>1 DEF StreamBreaks, Closing, ReaderInv
  <2>3. RecordInv'
    BY <1>1, <1>11, <2>1 DEF StreamBreaks, Closing, Record, flags, ended, RecordInv,
       AttemptsRecorded, BilledAsShown
  <2> QED BY <2>2, <2>3
<1>12. CASE RelaysError
  <2>1. state'.reader.phase = "failed" /\ StreamTypes(state')
    BY <1>12, GoodbyeFails DEF RelaysError
  <2>2. ReaderInv'
    BY <1>12, <2>1 DEF RelaysError, ReaderInv
  <2>3. RecordInv'
    BY <1>1, <1>12, <2>1 DEF RelaysError, flags, ended, records, ReaderInv, RecordInv,
       AttemptsRecorded, BilledAsShown
  <2> QED BY <2>2, <2>3
<1>13. CASE FailureEnds
  <2>1. ReaderInv'
    BY <1>13 DEF FailureEnds, Closing, ReaderInv
  <2>2. RecordInv'
    BY <1>1, <1>13 DEF FailureEnds, Closing, Record, flags, records, ReaderInv, RecordInv,
       AttemptsRecorded, BilledAsShown
  <2> QED BY <2>1, <2>2
<1>14. CASE LeavesNative \/ LeavesOpenai \/ LeavesUnread
  <2>1. ReaderInv'
    BY <1>14 DEF LeavesNative, LeavesOpenai, LeavesUnread, LeavesBeforeRelay, Closing, relay, ReaderInv
  <2>2. ~encrypted' /\ ~foreign' /\ pc' = "done" /\ outcome' = "gone"
    <3>1. pc' = "done" /\ outcome' = "gone" /\ UNCHANGED flags
      BY <1>14 DEF LeavesNative, LeavesOpenai, LeavesUnread, LeavesBeforeRelay, Closing
    <3> QED BY <3>1 DEF flags, RecordInv
  <2>3. RecordInv'
    BY <2>2 DEF RecordInv, AttemptsRecorded, BilledAsShown
  <2> QED BY <2>1, <2>3
<1>15. CASE WholeText
  <2> PICK u \in BOOLEAN : /\ state' = [state EXCEPT !.usage = u]
                          /\ usage' = usage + IF u THEN 1 ELSE 0
    BY <1>15 DEF WholeText
  <2>1. StreamTypes(state') /\ state'.usage = u
    BY DEF ReaderInv, StreamTypes
  <2>2. ReaderInv'
    BY <1>15, <2>1 DEF WholeText, ReaderInv
  <2>3. pc = "sent" /\ answer'.status = "ok" /\ answer'.body \in {"sse", "text"}
    BY <1>15 DEF WholeText, WholeAnswer
  <2>4. RecordInv'
    BY <1>1, <1>15, <2>1, <2>3 DEF WholeText, flags, records, RecordInv, AttemptsRecorded, BilledAsShown
  <2> QED BY <2>2, <2>4
<1>16. CASE WholeMessage
  <2>1. pc = "sent"
    BY <1>16 DEF WholeMessage, WholeAnswer
  <2>2. ReaderInv'
    BY <1>16, <2>1 DEF WholeMessage, relay, ReaderInv
  <2>3. RecordInv'
    BY <1>1, <1>16, <2>1 DEF WholeMessage, flags, records, RecordInv, AttemptsRecorded, BilledAsShown
  <2> QED BY <2>2, <2>3
<1> QED
  BY <1>2, <1>3, <1>4, <1>5, <1>6, <1>7, <1>8, <1>9, <1>10, <1>11, <1>12, <1>13, <1>14, <1>15, <1>16
     DEF MessagesNext, MessagesProgress

LEMMA MessageInit == EndpointInit => MessageInv
<1> SUFFICES ASSUME EndpointInit PROVE MessageInv
  OBVIOUS
<1>1. state = Fresh /\ wire = "openai" /\ api \in Handlers \cup {"messages"}
  BY DEF EndpointInit, MessagesInit, RelayInit, NothingRelayed
<1>2. CASE MessagesInit
  <2>1. \A t \in Targets : sent[t] = 0
    BY <1>2 DEF MessagesInit, Init
  <2>2. {t \in Targets : sent[t] > 0} = {}
    BY <2>1
  <2>3. Attempts = 0
    BY <2>2, FS_EmptySet DEF Attempts
  <2>4. pc = "new" /\ ~encrypted /\ ~foreign /\ usage = 0 /\ logged = 0 /\ failures = 0
    BY <1>2 DEF MessagesInit, Init, NothingRelayed
  <2> QED BY <1>1, <2>3, <2>4, FreshTracked
         DEF MessageInv, ReaderInv, RecordInv, AttemptsRecorded, BilledAsShown, Handlers, Failover,
             Direct, Tracked
<1>3. CASE RelayInit
  <2>1. api \in Handlers /\ api # "messages"
    BY <1>3 DEF RelayInit, Handlers, Failover, Direct
  <2> QED BY <1>1, <2>1 DEF MessageInv
<1> QED BY <1>2, <1>3 DEF EndpointInit

LEMMA MessageNext == CourseInv /\ MessageInv /\ [EndpointNext]_endpointVars => MessageInv'
<1> SUFFICES ASSUME CourseInv, MessageInv, [EndpointNext]_endpointVars PROVE MessageInv'
  OBVIOUS
<1>0. "messages" \notin Handlers
  BY DEF Handlers, Failover, Direct
<1>1. CASE UNCHANGED endpointVars
  <2>1. /\ UNCHANGED <<api, pc, state, wire, native, encrypted, foreign, usage, logged, failures,
                       answer, outcome>>
        /\ Attempts' = Attempts
    BY <1>1 DEF endpointVars, vars, relay, records, flags, ended, Attempts
  <2> QED BY <2>1 DEF MessageInv, ReaderInv, RecordInv, AttemptsRecorded, BilledAsShown
<1>2. CASE api \in Handlers /\ RelayNext /\ UNCHANGED <<relay, records>>
  <2>1. api' = api /\ state' = state
    BY <1>2 DEF RelayNext, RelayProgress, relay
  <2> QED BY <1>0, <1>2, <2>1 DEF MessageInv
<1>3. CASE api = "messages" /\ MessagesNext /\ UNCHANGED api
  <2>1. ReaderInv' /\ RecordInv'
    BY <1>3, MessageSteps DEF MessageInv, MessageState
  <2> QED BY <1>0, <1>3, <2>1 DEF MessageInv
<1> QED BY <1>1, <1>2, <1>3 DEF EndpointNext

LEMMA MessageInvariant == EndpointSpec => []MessageInv
  BY CourseInvariant, MessageInit, MessageNext, PTL DEF EndpointSpec

(* Whatever an upstream sends, in whichever order, the client of a message *)
(* reads one well-formed stream: the translation opens no block twice,     *)
(* writes to open blocks only, and has all closed when it ends the message.*)
THEOREM StreamsWellFormed == EndpointSpec => []StreamWellFormed
<1>1. MessageInv => StreamWellFormed
  <2>1. Fresh.reader.phase # "lost"
    BY FreshTracked
  <2>2. ASSUME StreamTypes(state) PROVE state.reader.phase # "lost"
    BY <2>2 DEF StreamTypes, Readers
  <2> QED BY <2>1, <2>2 DEF MessageInv, ReaderInv, StreamWellFormed
<1> QED BY <1>1, MessageInvariant, PTL

(* For any number of failed attempts: each is logged, the last alone as    *)
(* terminal, and a message is billed as its client has read it.            *)
THEOREM MessagesRecorded == EndpointSpec => []RecordedAsShown
<1>1. MessageInv => RecordedAsShown
  BY DEF MessageInv, RecordInv, RecordedAsShown
<1> QED BY <1>1, MessageInvariant, PTL

=============================================================================
