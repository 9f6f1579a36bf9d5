----------------------------- MODULE AlertDelivery -----------------------------
(***************************************************************************)
(* Alerts to the operators' robot (app/fallback_alerts.py,                 *)
(* app/alert_history.py): a request that exhausted its fallbacks, a burst  *)
(* of upstream failures, and the test of the configuration. Workers count  *)
(* failures and claim alerts through Redis, or alone when Redis does not   *)
(* answer in time; every alert is sent by a background task, which keeps a *)
(* record of it in alert_events as well as it can. One alert key of each   *)
(* kind is modelled. A script or a write may be executed though its answer *)
(* is lost; Redis and the robot fail a bounded number of times.            *)
(***************************************************************************)
EXTENDS Integers, FiniteSets

CONSTANTS
  Workers,
  Alerts,       \* the tasks, 1..n: each is used once
  Threshold,    \* failures that make a burst
  Window,       \* upstream_failure_alert_window_seconds
  Dedup,        \* upstream_failure_alert_dedup_seconds
  Suppress,     \* fallback_alert_dedup_seconds
  MaxPending,   \* fallback_alert_max_pending_tasks
  MaxTime,      \* bound of the clock
  MaxTroubles,  \* bound: lost answers, failed posts and writes, edits of the policy, restarts
  Nobody

(* current_alert_policy raises the dedup time to the window. *)
AlertAssumption ==
  /\ Alerts = 1..Cardinality(Alerts) /\ Threshold \in Nat \ {0} /\ Window \in Nat \ {0}
  /\ Dedup \in Nat /\ Dedup >= Window /\ Suppress \in Nat \ {0}
  /\ MaxPending \in Nat \ {0} /\ MaxTime \in Nat /\ MaxTroubles \in Nat /\ Nobody \notin Workers

VARIABLES
  now,
  task,       \* the background tasks: where they stand and what they know
  notified,   \* per worker, _ALERT_STATE: when it last started a fallback alert, 0 for never
  claim,      \* when the claim of the fallback alert in Redis expires
  failures,   \* the sorted set of failures in Redis
  muted,      \* when the dedup key of the burst in Redis expires
  localFailures, localMuted,  \* _UPSTREAM_FAILURE_BUCKETS, _UPSTREAM_FAILURE_DEDUP
  enabled,    \* per worker: the policy is on and has a webhook
  event,      \* alert_events.delivery_status
  posted,     \* alerts that reached the robot
  troubles

local == <<notified, localFailures, localMuted>>
shared == <<claim, failures, muted>>
vars == <<now, task, local, shared, enabled, event, posted, troubles>>

(* when: the time of the failure or of the claim; alone: decided without   *)
(* Redis; known: the task has the id of its record; ok: the robot agreed.  *)
Unused == [pc |-> "unused", kind |-> "none", at |-> Nobody, when |-> 0,
           alone |-> FALSE, known |-> FALSE, ok |-> FALSE]

Init ==
  /\ now = 1
  /\ task = [t \in Alerts |-> Unused]
  /\ notified = [w \in Workers |-> 0]
  /\ claim = 0 /\ failures = {} /\ muted = 0
  /\ localFailures = [w \in Workers |-> {}] /\ localMuted = [w \in Workers |-> 0]
  /\ enabled = [w \in Workers |-> TRUE]
  /\ event = [t \in Alerts |-> "none"] /\ posted = {} /\ troubles = 0

Trouble == troubles < MaxTroubles /\ troubles' = troubles + 1
Fine == UNCHANGED troubles

Live(t) == task[t].pc \notin {"unused", "done"}

(* _alert_task_capacity_available; the test runs in its request instead.   *)
HasCapacity(w) ==
  Cardinality({t \in Alerts : Live(t) /\ task[t].at = w /\ task[t].kind # "test"}) < MaxPending

Starts(t, w, kind, pc) ==
  /\ task[t].pc = "unused" /\ \A u \in 1..(t - 1) : task[u].pc # "unused"
  /\ task' = [task EXCEPT ![t].pc = pc, ![t].kind = kind, ![t].at = w]

-----------------------------------------------------------------------------
(* _should_send *)
ShouldSend(w) == enabled[w] /\ (notified[w] = 0 \/ now - notified[w] >= Suppress)

(* notify_fallback_exhausted: the process's own dedup counts from the      *)
(* start of the task, whatever becomes of it.                              *)
Notify(t, w) ==
  /\ HasCapacity(w) /\ ShouldSend(w)
  /\ notified' = [notified EXCEPT ![w] = now]
  /\ Starts(t, w, "fallback", "claim")
  /\ UNCHANGED <<now, localFailures, localMuted, shared, enabled, event, posted, troubles>>

(* schedule_user_upstream_failure: without capacity the failure is lost.   *)
Schedule(t, w) ==
  /\ enabled[w]
  /\ Starts(t, w, "burst", IF HasCapacity(w) THEN "count" ELSE "done")
  /\ UNCHANGED <<now, local, shared, enabled, event, posted, troubles>>

TestDestination(t, w) ==
  /\ enabled[w] /\ Starts(t, w, "test", "create")
  /\ UNCHANGED <<now, local, shared, enabled, event, posted, troubles>>

Goes(t, send, alone) ==
  task' = [task EXCEPT ![t].pc = IF send THEN "create" ELSE "done",
                       ![t].when = now, ![t].alone = alone]

SlipFree(until) == until <= now + 1

(* SET NX: the key is not there, or has expired. *)
Free(until) == until <= now

(* _send_dingtalk_alert_cluster_once, claim_once. *)
Claim(t) ==
  /\ task[t].pc = "claim" /\ Fine
  /\ claim' = IF Free(claim) THEN now + Suppress ELSE claim
  /\ Goes(t, Free(claim), FALSE)
  /\ UNCHANGED <<now, local, failures, muted, enabled, event, posted>>

(* Redis did not answer: the alert is sent all the same. *)
ClaimLost(t) ==
  /\ task[t].pc = "claim" /\ Trouble
  /\ claim' \in {claim, IF Free(claim) THEN now + Suppress ELSE claim}
  /\ Goes(t, TRUE, TRUE)
  /\ UNCHANGED <<now, local, failures, muted, enabled, event, posted>>

-----------------------------------------------------------------------------
(* record_user_upstream_failure. *)

SlipRecent(set) == set

(* ZREMRANGEBYSCORE, and the cutoff of the process's own deque. *)
Recent(set) == {u \in set : task[u].when >= now - Window}

SlipReached(set) == Cardinality(set) > Threshold
Reached(set) == Cardinality(set) >= Threshold

(* _REDIS_FAILURE_BURST_SCRIPT *)
Record(t) ==
  LET set == Recent(failures) \cup {t}
  IN /\ failures' = set
     /\ muted' = IF Reached(set) /\ Free(muted) THEN now + Dedup ELSE muted

CountShared(t) ==
  /\ task[t].pc = "count" /\ enabled[task[t].at] /\ Fine
  /\ Record(t)
  /\ Goes(t, muted' # muted, FALSE)
  /\ UNCHANGED <<now, local, claim, enabled, event, posted>>

(* The script did not answer in time, executed or not: the process counts  *)
(* in a deque of its own (_record_upstream_failure_local).                 *)
CountAlone(t) ==
  LET w == task[t].at
      set == Recent(localFailures[w]) \cup {t}
      send == Reached(set) /\ (localMuted[w] = 0 \/ now - localMuted[w] >= Dedup)
  IN /\ task[t].pc = "count" /\ enabled[w] /\ Trouble
     /\ Record(t) \/ UNCHANGED <<failures, muted>>
     /\ localFailures' = [localFailures EXCEPT ![w] = set]
     /\ localMuted' = IF send THEN [localMuted EXCEPT ![w] = now] ELSE localMuted
     /\ Goes(t, send, TRUE)
     /\ UNCHANGED <<now, notified, claim, enabled, event, posted>>

(* The policy was switched off before the task ran. *)
Disabled(t) ==
  /\ task[t].pc \in {"count", "create"} /\ ~enabled[task[t].at]
  /\ task' = [task EXCEPT ![t].pc = "done"]
  /\ UNCHANGED <<now, local, shared, enabled, event, posted, troubles>>

-----------------------------------------------------------------------------
(* _send_dingtalk_alert, _send_upstream_failure_burst_alert and the test.  *)

(* create_alert_event *)
Entered(t) == [event EXCEPT ![t] = "pending"]

Create(t) ==
  /\ task[t].pc = "create" /\ enabled[task[t].at]
  /\ \/ event' = Entered(t) /\ Fine
        /\ task' = [task EXCEPT ![t].pc = "post", ![t].known = TRUE]
     \/ event' \in {event, Entered(t)} /\ Trouble
        /\ task' = [task EXCEPT ![t].pc = "post"]
  /\ UNCHANGED <<now, local, shared, enabled, posted>>

Post(t) ==
  /\ task[t].pc = "post"
  /\ \/ posted' = posted \cup {t} /\ Fine
        /\ task' = [task EXCEPT ![t].pc = "complete", ![t].ok = TRUE]
     \/ posted' \in {posted, posted \cup {t}} /\ Trouble
        /\ task' = [task EXCEPT ![t].pc = "complete"]
  /\ UNCHANGED <<now, local, shared, enabled, event>>

SlipWord(ok) == "sent"
Word(ok) == IF ok THEN "sent" ELSE "failed"

(* _complete_alert_event_bounded: without the id there is nothing to do.   *)
Complete(t) ==
  /\ task[t].pc = "complete"
  /\ LET written == [event EXCEPT ![t] = Word(task[t].ok)]
     IN IF task[t].known
        THEN (event' = written /\ Fine) \/ (event' \in {event, written} /\ Trouble)
        ELSE UNCHANGED <<event, troubles>>
  /\ task' = [task EXCEPT ![t].pc = "done"]
  /\ UNCHANGED <<now, local, shared, enabled, posted>>

-----------------------------------------------------------------------------
(* The new policy reaches a worker (set_runtime_alert_settings). *)
Configure(w) ==
  /\ Trouble /\ enabled' = [enabled EXCEPT ![w] = ~@]
  /\ UNCHANGED <<now, task, local, shared, event, posted>>

(* shutdown_fallback_alerts waits for the tasks, then cancels them; the    *)
(* new process remembers nothing.                                          *)
Restart(w) ==
  /\ Trouble
  /\ task' = [t \in Alerts |-> IF task[t].at = w THEN [task[t] EXCEPT !.pc = "done"] ELSE task[t]]
  /\ notified' = [notified EXCEPT ![w] = 0]
  /\ localFailures' = [localFailures EXCEPT ![w] = {}] /\ localMuted' = [localMuted EXCEPT ![w] = 0]
  /\ UNCHANGED <<now, shared, enabled, event, posted>>

(* A task that sends is done within seconds (0.25 s for a write, 5 s for   *)
(* the post), a fraction of a window; one that waits for Redis may be late.*)
Tick ==
  /\ now < MaxTime /\ now' = now + 1
  /\ \A t \in Alerts : task[t].pc \notin {"create", "post", "complete"}
  /\ UNCHANGED <<task, local, shared, enabled, event, posted, troubles>>

Runs(t) ==
  \/ Claim(t) \/ ClaimLost(t) \/ CountShared(t) \/ CountAlone(t) \/ Disabled(t)
  \/ Create(t) \/ Post(t) \/ Complete(t)

Next ==
  \/ \E t \in Alerts, w \in Workers : Notify(t, w) \/ Schedule(t, w) \/ TestDestination(t, w)
  \/ \E t \in Alerts : Runs(t)
  \/ \E w \in Workers : Configure(w) \/ Restart(w)
  \/ Tick

Spec == Init /\ [][Next]_vars

(* The event loop runs its tasks to their end. *)
FairSpec == Spec /\ \A t \in Alerts : WF_vars(Runs(t))

-----------------------------------------------------------------------------
Decided(t) == task[t].pc \in {"create", "post", "complete"} \/ event[t] # "none" \/ t \in posted

(* The failures that some worker counted in the window before the time x.  *)
Before(x) == {u \in Alerts : task[u].kind = "burst" /\ task[u].when > 0 /\ task[u].when \in (x - Window)..x}

TypeOK ==
  /\ now \in 1..MaxTime /\ troubles \in 0..MaxTroubles
  /\ \A t \in Alerts : task[t].pc \in {"unused", "claim", "count", "create", "post", "complete", "done"}
  /\ failures \subseteq Alerts /\ posted \subseteq Alerts
  /\ event \in [Alerts -> {"none", "pending", "sent", "failed"}]

(* An alert of a burst reports one: as many failures as the threshold fell *)
(* into its window, wherever they were counted.                            *)
BurstEarned ==
  \A t \in Alerts : task[t].kind = "burst" /\ Decided(t) => Cardinality(Before(task[t].when)) >= Threshold

(* However many workers see the same outage, they send one alert of a kind *)
(* in its window, and one more only for a worker Redis did not answer.     *)
OncePerWindow ==
  \A t, u \in Alerts :
    /\ t # u /\ Decided(t) /\ Decided(u) /\ ~task[t].alone /\ ~task[u].alone
    /\ task[t].kind = task[u].kind /\ task[t].kind # "test"
    => LET apart == IF task[t].kind = "burst" THEN Dedup ELSE Suppress
       IN task[u].when >= task[t].when + apart \/ task[t].when >= task[u].when + apart

(* A burst that was counted is announced, by this task or by one of the    *)
(* dedup time before it, unless something failed on the way.               *)
BurstsAnnounced ==
  \A t \in Alerts :
    <>[](\/ task[t].kind # "burst" \/ task[t].when = 0
         \/ Cardinality(Before(task[t].when)) < Threshold
         \/ troubles > 0
         \/ \E u \in posted : task[u].kind = "burst" /\ task[u].when > task[t].when - Dedup)

(* The record of an alert tells what became of it: "sent" only for one the *)
(* robot has, and the last word is missing only after a failure.           *)
HistoryTruthful ==
  \A t \in Alerts :
    /\ event[t] = "sent" => t \in posted
    /\ task[t].pc = "done" /\ t \in posted /\ troubles = 0 => event[t] = "sent"

(* An alert can be trusted: it is earned, it is sent once, and its record  *)
(* tells what became of it.                                                *)
AlertsHonest == BurstEarned /\ OncePerWindow /\ HistoryTruthful
==============================================================================
