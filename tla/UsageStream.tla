---------------------------- MODULE UsageStream ----------------------------
(***************************************************************************)
(* The usage event stream: app/usage_events.py appends one entry per       *)
(* recorded request to a Redis stream, the consumers of                    *)
(* usage-quota-service read it as a group, add each event to the shadow    *)
(* summary and acknowledge the entry.  A call to Redis can fail before or  *)
(* after it took effect, and a consumer can die between any two calls; it  *)
(* restarts under its own name.                                            *)
(*                                                                         *)
(* An entry's id is its position in the stream.  Trimming of the stream    *)
(* and expiry of the summary's keys are left out.                          *)
(***************************************************************************)
EXTENDS Integers, Sequences, FiniteSets

CONSTANTS Events,       \* the requests whose usage is published
          Suspects,     \* those whose entry may not parse
          Consumers,    \* consumer names
          MaxAttempts,  \* cfg.MaxAttempts
          Batch,        \* cfg.BatchSize
          MaxTroubles,  \* bound: failed calls and consumer crashes together
          Attributes    \* per event: user, api_key and model, where present

StreamAssumption ==
    /\ Suspects \subseteq Events
    /\ MaxAttempts \in Nat \ {0}
    /\ Batch \in Nat \ {0}

VARIABLES malformed, \* events whose entry does not parse
          unsent,    \* events not yet published
          stream,    \* entries [event, attempts]
          read,      \* the group's last delivered id
          pending,   \* pending entries list: [id -> consumer]
          idle,      \* pending ids older than ReclaimMinIdle
          dead,      \* dead letters [event, reason]
          seen,      \* event keys of the summary store
          summary,   \* events counted, per summary
          failures,  \* history: failed writes per event
          phase,     \* per consumer: the poll of Run that comes next
          step,      \* per consumer: where ProcessMessage is
          batch,     \* per consumer: ids still to process, in order
          memo,      \* per consumer: in-memory idempotency store
          troubles   \* failed calls and crashes so far

redis == <<stream, read, pending, idle, dead, seen, summary>>
vars == <<malformed, unsent, redis, failures, phase, step, batch, memo, troubles>>

Entries == [event : Events, attempts : Nat]
DeadLetters == [event : Events, reason : {"parse_error", "write_error"}]

\* rollupQueries: one summary for every subset of the event's attributes.
Rollups(e) == {[d \in S |-> Attributes[e][d]] : S \in SUBSET DOMAIN Attributes[e]}
Summaries == UNION {Rollups(e) : e \in Events}

Init ==
    /\ malformed \in SUBSET Suspects
    /\ unsent = Events
    /\ stream = <<>> /\ read = 0
    /\ pending = <<>> /\ idle = {} /\ dead = {}
    /\ seen = {} /\ summary = [q \in Summaries |-> 0]
    /\ failures = [e \in Events |-> 0]
    /\ phase = [c \in Consumers |-> "reclaim"]
    /\ step = [c \in Consumers |-> "next"]
    /\ batch = [c \in Consumers |-> {}]
    /\ memo = [c \in Consumers |-> {}]
    /\ troubles = 0

-----------------------------------------------------------------------------
(* One call to Redis: it took effect and its reply arrived, it failed       *)
(* before taking effect, or it took effect and the reply was lost.          *)

Outcomes == {"ok", "refused", "unknown"}
Applied(o) == o # "refused"
Call(o) ==
    /\ o # "ok" => troubles < MaxTroubles
    /\ troubles' = IF o = "ok" THEN troubles ELSE troubles + 1

\* publish_usage_event_best_effort: whatever goes wrong is only logged.
Publish(e) ==
    /\ e \in unsent
    /\ unsent' = unsent \ {e}
    /\ \E o \in Outcomes :
         /\ Call(o)
         /\ stream' = IF Applied(o) THEN Append(stream, [event |-> e, attempts |-> 0])
                                    ELSE stream
    /\ UNCHANGED <<malformed, read, pending, idle, dead, seen, summary, failures,
                   phase, step, batch, memo>>

\* Time passes: a pending entry has been idle for ReclaimMinIdle.
GrowIdle(i) ==
    /\ i \in DOMAIN pending \ idle
    /\ idle' = idle \cup {i}
    /\ UNCHANGED <<malformed, unsent, stream, read, pending, dead, seen, summary, failures,
                   phase, step, batch, memo, troubles>>

-----------------------------------------------------------------------------
(* Consumer.Run: reclaim, process, read, process, and again.               *)

Polls(c, ph) == phase[c] = ph /\ step[c] = "next" /\ batch[c] = {}

\* ReadGroup ">": entries never delivered to the group.
Fresh == {i \in DOMAIN stream : read < i /\ i <= read + Batch}

Deliver(c, S) ==
    /\ pending' = [i \in DOMAIN pending \cup S |-> IF i \in S THEN c ELSE pending[i]]
    /\ idle' = idle \ S

ReadNew(c) ==
    /\ Polls(c, "read")
    /\ phase' = [phase EXCEPT ![c] = "reclaim"]
    /\ \E o \in Outcomes :
         /\ Call(o)
         /\ IF Applied(o)
            THEN Deliver(c, Fresh) /\ read' = read + Cardinality(Fresh)
            ELSE UNCHANGED <<pending, idle, read>>
         /\ batch' = [batch EXCEPT ![c] = IF o = "ok" THEN Fresh ELSE {}]
    /\ UNCHANGED <<malformed, unsent, stream, dead, seen, summary, failures, step, memo>>

\* XPENDING: the first Batch entries of the list.
Listed == {i \in DOMAIN pending : Cardinality({j \in DOMAIN pending : j < i}) < Batch}

\* Mutant: the idle time is compared the wrong way round.
SlipReclaimable(c) == {i \in Listed : pending[i] # c /\ i \notin idle}

\* reclaimPending: those that another consumer has left idle.
Reclaimable(c) == {i \in Listed : pending[i] # c /\ i \in idle}

Reclaim(c) ==
    /\ Polls(c, "reclaim")
    /\ phase' = [phase EXCEPT ![c] = "read"]
    /\ \E o \in Outcomes :
         /\ Call(o)
         /\ IF Applied(o) THEN Deliver(c, Reclaimable(c))
                          ELSE UNCHANGED <<pending, idle>>
         /\ batch' = [batch EXCEPT ![c] = IF o = "ok" THEN Reclaimable(c) ELSE {}]
    /\ UNCHANGED <<malformed, unsent, stream, read, dead, seen, summary, failures, step,
                   memo>>

-----------------------------------------------------------------------------
(* ProcessMessage.                                                          *)

At(c, s) == step[c] = s /\ batch[c] # {}
Current(c) == CHOOSE i \in batch[c] : \A j \in batch[c] : i <= j
Event(c) == stream[Current(c)].event
Goto(c, s) == step' = [step EXCEPT ![c] = s] /\ UNCHANGED batch
Done(c) ==
    /\ step' = [step EXCEPT ![c] = "next"]
    /\ batch' = [batch EXCEPT ![c] = @ \ {Current(c)}]

Raised(e) == [q \in Summaries |-> summary[q] + IF q \in Rollups(e) THEN 1 ELSE 0]

\* Mutant: the counters are raised although the key was there.
SlipRecord(e) ==
    /\ seen' = seen \cup {e}
    /\ summary' = Raised(e)

\* shadowSummaryLua: SET NX of the event's key, then the counters.
Record(e) ==
    /\ seen' = seen \cup {e}
    /\ summary' = IF e \in seen THEN summary ELSE Raised(e)

Unparsed(c) ==
    /\ At(c, "next") /\ Event(c) \in malformed
    /\ Goto(c, "dead")
    /\ UNCHANGED <<malformed, unsent, redis, failures, phase, memo, troubles>>

\* WriteUsageEvent: completed in this process before.
Duplicate(c) ==
    /\ At(c, "next") /\ Event(c) \notin malformed /\ Event(c) \in memo[c]
    /\ Goto(c, "ack")
    /\ UNCHANGED <<malformed, unsent, redis, failures, phase, memo, troubles>>

\* Mutant: one attempt too few.
SlipExhausted(i) == stream[i].attempts + 2 >= MaxAttempts

Exhausted(i) == stream[i].attempts + 1 >= MaxAttempts

Write(c) ==
    /\ At(c, "next") /\ Event(c) \notin malformed /\ Event(c) \notin memo[c]
    /\ \E o \in Outcomes :
         /\ Call(o)
         /\ IF Applied(o) THEN Record(Event(c)) ELSE UNCHANGED <<seen, summary>>
         /\ IF o = "ok"
            THEN /\ memo' = [memo EXCEPT ![c] = @ \cup {Event(c)}]
                 /\ Goto(c, "ack")
                 /\ UNCHANGED failures
            ELSE /\ failures' = [failures EXCEPT ![Event(c)] = @ + 1]
                 /\ Goto(c, IF Exhausted(Current(c)) THEN "dead" ELSE "requeue")
                 /\ UNCHANGED memo
    /\ UNCHANGED <<malformed, unsent, stream, read, pending, idle, dead, phase>>

\* Mutant: a requeue that fails is acknowledged all the same.
SlipRequeue(c) ==
    /\ At(c, "requeue")
    /\ \E o \in Outcomes :
         /\ Call(o)
         /\ stream' = IF Applied(o)
                      THEN Append(stream, [stream[Current(c)] EXCEPT !.attempts = @ + 1])
                      ELSE stream
         /\ Goto(c, "ack")
    /\ UNCHANGED <<malformed, unsent, read, pending, idle, dead, seen, summary, failures,
                   phase, memo>>

\* A copy with one attempt more is appended before the entry is acknowledged.
Requeue(c) ==
    /\ At(c, "requeue")
    /\ \E o \in Outcomes :
         /\ Call(o)
         /\ stream' = IF Applied(o)
                      THEN Append(stream, [stream[Current(c)] EXCEPT !.attempts = @ + 1])
                      ELSE stream
         /\ IF o = "ok" THEN Goto(c, "ack") ELSE Done(c)
    /\ UNCHANGED <<malformed, unsent, read, pending, idle, dead, seen, summary, failures,
                   phase, memo>>

\* deadLetterAndAck
DeadLetter(c) ==
    /\ At(c, "dead")
    /\ \E o \in Outcomes :
         /\ Call(o)
         /\ dead' = IF Applied(o)
                    THEN dead \cup {[event |-> Event(c), reason |->
                           IF Event(c) \in malformed THEN "parse_error" ELSE "write_error"]}
                    ELSE dead
         /\ IF o = "ok" THEN Goto(c, "ack") ELSE Done(c)
    /\ UNCHANGED <<malformed, unsent, stream, read, pending, idle, seen, summary, failures,
                   phase, memo>>

\* XACK takes the entry off the list whoever owns it by now.
Ack(c) ==
    /\ At(c, "ack")
    /\ \E o \in Outcomes :
         /\ Call(o)
         /\ IF Applied(o)
            THEN /\ pending' = [i \in DOMAIN pending \ {Current(c)} |-> pending[i]]
                 /\ idle' = idle \ {Current(c)}
            ELSE UNCHANGED <<pending, idle>>
    /\ Done(c)
    /\ UNCHANGED <<malformed, unsent, stream, read, dead, seen, summary, failures, phase,
                   memo>>

\* The process dies and starts again under the same consumer name.
Crash(c) ==
    /\ troubles < MaxTroubles
    /\ troubles' = troubles + 1
    /\ phase' = [phase EXCEPT ![c] = "reclaim"]
    /\ step' = [step EXCEPT ![c] = "next"]
    /\ batch' = [batch EXCEPT ![c] = {}]
    /\ memo' = [memo EXCEPT ![c] = {}]
    /\ UNCHANGED <<malformed, unsent, redis, failures>>

Consume(c) ==
    \/ ReadNew(c) \/ Reclaim(c)
    \/ Unparsed(c) \/ Duplicate(c) \/ Write(c)
    \/ Requeue(c) \/ DeadLetter(c) \/ Ack(c)

Next ==
    \/ \E e \in Events : Publish(e)
    \/ \E i \in DOMAIN stream : GrowIdle(i)
    \/ \E c \in Consumers : Consume(c) \/ Crash(c)

Spec == Init /\ [][Next]_vars

\* Every consumer keeps running, and time passes for entries left behind.
Fairness ==
    /\ \A c \in Consumers : WF_vars(Consume(c))
    /\ \A i \in 1 .. (Cardinality(Events) + MaxTroubles) : WF_vars(GrowIdle(i))
FairSpec == Spec /\ Fairness

-----------------------------------------------------------------------------
Acked(i) == i \in 1 .. read /\ i \notin DOMAIN pending

TypeOK ==
    /\ malformed \subseteq Suspects /\ unsent \subseteq Events
    /\ stream \in Seq(Entries)
    /\ read \in 0 .. Len(stream)
    /\ DOMAIN pending \subseteq 1 .. read
    /\ idle \subseteq DOMAIN pending
    /\ dead \subseteq DeadLetters
    /\ seen \subseteq Events /\ summary \in [Summaries -> Nat]
    /\ failures \in [Events -> Nat]
    /\ phase \in [Consumers -> {"reclaim", "read"}]
    /\ step \in [Consumers -> {"next", "requeue", "dead", "ack"}]
    /\ batch \in [Consumers -> SUBSET (1 .. read)]
    /\ memo \in [Consumers -> SUBSET Events]
    /\ troubles \in Nat

(* Every summary a query can read counts exactly the recorded events that   *)
(* have its attributes, each once, however often an entry was redelivered,  *)
(* copied, or claimed from a consumer still at work on it; and what a       *)
(* process remembers as completed is recorded (summary.go,                  *)
(* shadowSummaryLua, rollupQueries; writer.go, WriteUsageEvent).            *)
CountedOnce ==
    /\ \A q \in Summaries : summary[q] = Cardinality({e \in seen : q \in Rollups(e)})
    /\ \A c \in Consumers : memo[c] \subseteq seen

(* An acknowledged entry leaves nothing behind: its event was counted, it   *)
(* is a dead letter, or a later entry that is not acknowledged carries it   *)
(* (consumer.go, ProcessMessage: requeue or dead-letter, then ack).         *)
Carried(e) == \E j \in DOMAIN stream : stream[j].event = e /\ ~ Acked(j)
NothingForgotten ==
    \A i \in DOMAIN stream :
        Acked(i) => LET e == stream[i].event IN
                      \/ e \in seen
                      \/ \E d \in dead : d.event = e
                      \/ Carried(e)

(* An event that parses is dead-lettered only after MaxAttempts writes of   *)
(* it failed, although attempts travel in copies of the entry that several  *)
(* consumers can make of one another's entries (consumer.go, ProcessMessage,*)
(* valuesWithAttempts).                                                     *)
DeadLettersEarned ==
    \A d \in dead : d.reason = "write_error" => failures[d.event] >= MaxAttempts

(* An event of the stream is counted once, or its dead letter tells why it  *)
(* was not, through redelivery, requeues, crashes and lost answers.         *)
EventsAccounted == CountedOnce /\ NothingForgotten /\ DeadLettersEarned

(* With a second consumer that reclaims what the first one left pending,    *)
(* every entry is acknowledged in the end (consumer.go, Run,                *)
(* reclaimPending).                                                         *)
StreamDrains == <>[](\A i \in DOMAIN stream : Acked(i))

=============================================================================
