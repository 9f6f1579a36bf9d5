--------------------------- MODULE ChannelCooldown ---------------------------
(***************************************************************************)
(* The cooldown of one upstream channel, as each worker process keeps it   *)
(* (app/channel_router.py) and as the workers share it through Redis       *)
(* (SharedCooldownRegistry of app/distributed_state.py).                   *)
(*                                                                         *)
(* Routing reads the local state only.  Failures and successes are         *)
(* published by background tasks, in any order; a loop on each worker      *)
(* reconciles the local state with Redis.  A time of 0 stands for none.    *)
(***************************************************************************)
EXTENDS Integers, FiniteSets

CONSTANTS
  Workers,
  AllowedFails,  \* allowed_fails of the channel
  Cooldown,      \* cooldown_seconds, in ticks
  MaxTime,       \* bound: the clock
  MaxFailures    \* bound: failures of the channel

CooldownAssumption ==
  /\ AllowedFails \in Nat \ {0} /\ Cooldown \in Nat \ {0}
  /\ MaxTime \in Nat /\ MaxFailures \in Nat

VARIABLES
  now,
  fails, until,          \* ChannelRouter._state: failures, cooldown_until
  localOnly,             \* _CooldownSyncState.local_only_until
  remote,                \* _CooldownSyncState.remote_until
  failureTasks,          \* _publish_failure tasks that have not run yet
  successTasks,          \* _publish_success tasks that have not run yet
  replies,               \* cooldowns that _publish_failure was answered
  sync,                  \* sync_once: "idle", "fetched", "republishing"
  rows,                  \* what it fetched, then what it republishes
  syncedAt,              \* its `now`
  sharedFails, sharedUntil,  \* the failure counter and the sorted set in Redis
  failures, trips        \* history: failures, cooldowns that Redis began

local == <<fails, until, localOnly, remote>>
tasks == <<failureTasks, successTasks, replies>>
loop == <<sync, rows, syncedAt>>
shared == <<sharedFails, sharedUntil, trips>>
vars == <<now, local, tasks, loop, shared, failures>>

Init ==
  /\ now = 1
  /\ fails = [w \in Workers |-> 0]
  /\ until = [w \in Workers |-> 0]
  /\ localOnly = [w \in Workers |-> 0]
  /\ remote = [w \in Workers |-> 0]
  /\ failureTasks = [w \in Workers |-> 0]
  /\ successTasks = [w \in Workers |-> 0]
  /\ replies = [w \in Workers |-> {}]
  /\ sync = [w \in Workers |-> "idle"]
  /\ rows = [w \in Workers |-> 0]
  /\ syncedAt = [w \in Workers |-> 0]
  /\ sharedFails = 0 /\ sharedUntil = 0
  /\ failures = 0 /\ trips = 0

Later(x, y) == IF x > y THEN x ELSE y

-----------------------------------------------------------------------------
(* Slips: plausible errors, each put in place of the operator it is named  *)
(* after to see that a property fails.                                     *)

SlipCounted(n) == n                          \* no DEL when the cooldown begins
SlipMerged(w, u) == IF until[w] = 0 THEN u ELSE until[w]  \* an old one stays
SlipReached(n) == n >= AllowedFails          \* off by one

-----------------------------------------------------------------------------
(* The local state. *)

(* _apply_shared_cooldown and _clear_shared_cooldown. *)
Merged(w, u) == IF u > now THEN Later(u, until[w]) ELSE until[w]
FailsAfter(w, u) == IF u > now /\ u > until[w] THEN 0 ELSE fails[w]

ApplyCooldown(w, u) ==
  /\ until' = [until EXCEPT ![w] = Merged(w, u)]
  /\ fails' = [fails EXCEPT ![w] = FailsAfter(w, u)]

ClearCooldown(w) ==
  /\ until' = [until EXCEPT ![w] = IF @ > now THEN 0 ELSE @]
  /\ fails' = [fails EXCEPT ![w] = IF until[w] > now THEN 0 ELSE @]

(* ChannelRouter.record_failure. *)
RecordFailure(w) ==
  /\ failures < MaxFailures
  /\ failures' = failures + 1
  /\ IF fails[w] + 1 >= AllowedFails
     THEN LET u == Later(until[w], now + Cooldown)
          IN  /\ until' = [until EXCEPT ![w] = u]
              /\ fails' = [fails EXCEPT ![w] = 0]
              /\ localOnly' = [localOnly EXCEPT ![w] = u]
     ELSE /\ fails' = [fails EXCEPT ![w] = @ + 1]
          /\ UNCHANGED <<until, localOnly>>
  /\ failureTasks' = [failureTasks EXCEPT ![w] = @ + 1]
  /\ UNCHANGED <<now, remote, successTasks, replies, loop, shared>>

(* ChannelRouter.record_success: published if a cooldown is known, and     *)
(* else at most once per interval.                                         *)
RecordSuccess(w) ==
  /\ fails' = [fails EXCEPT ![w] = 0]
  /\ until' = [until EXCEPT ![w] = 0]
  /\ localOnly' = [localOnly EXCEPT ![w] = 0]
  /\ \/ successTasks' = [successTasks EXCEPT ![w] = 1]
     \/ remote[w] = 0 /\ UNCHANGED successTasks
  /\ UNCHANGED <<now, remote, failureTasks, replies, loop, shared, failures>>

(* ChannelRouter.reset_channel_state, by an operator. *)
ResetChannel(w) ==
  /\ fails' = [fails EXCEPT ![w] = 0]
  /\ until' = [until EXCEPT ![w] = 0]
  /\ localOnly' = [localOnly EXCEPT ![w] = 0]
  /\ remote' = [remote EXCEPT ![w] = 0]
  /\ successTasks' = [successTasks EXCEPT ![w] = 1]
  /\ UNCHANGED <<now, failureTasks, replies, loop, shared, failures>>

-----------------------------------------------------------------------------
(* Publishing. *)

Reached(n) == n + 1 >= AllowedFails
Counted(n) == 0

(* _RECORD_FAILURE_SCRIPT; u is the cooldown it answers. *)
RecordFailureScript(u) ==
  IF sharedUntil > now
  THEN u = sharedUntil /\ UNCHANGED shared
  ELSE IF Reached(sharedFails)
  THEN /\ u = now + Cooldown
       /\ sharedUntil' = u
       /\ sharedFails' = Counted(sharedFails)
       /\ trips' = trips + 1
  ELSE /\ u = 0
       /\ sharedFails' = sharedFails + 1
       /\ UNCHANGED <<sharedUntil, trips>>

(* _publish_failure: the script runs, and its answer is on its way.        *)
PublishFailure(w) ==
  /\ failureTasks[w] > 0
  /\ failureTasks' = [failureTasks EXCEPT ![w] = @ - 1]
  /\ \E u \in 0 .. now + Cooldown :
       /\ RecordFailureScript(u)
       /\ replies' = [replies EXCEPT ![w] = IF u > 0 THEN @ \cup {u} ELSE @]
  /\ UNCHANGED <<now, local, successTasks, loop, failures>>

FailureAnswered(w) ==
  \E u \in replies[w] :
    /\ replies' = [replies EXCEPT ![w] = @ \ {u}]
    /\ remote' = [remote EXCEPT ![w] = u]
    /\ localOnly' = [localOnly EXCEPT ![w] = 0]
    /\ ApplyCooldown(w, u)
    /\ UNCHANGED <<now, failureTasks, successTasks, loop, shared, failures>>

(* Redis is down, the circuit breaker open, or the call or its answer is   *)
(* lost.                                                                   *)
FailureNotPublished(w) ==
  /\ \/ /\ failureTasks[w] > 0
        /\ failureTasks' = [failureTasks EXCEPT ![w] = @ - 1]
        /\ UNCHANGED replies
     \/ /\ \E u \in replies[w] : replies' = [replies EXCEPT ![w] = @ \ {u}]
        /\ UNCHANGED failureTasks
  /\ UNCHANGED <<now, local, successTasks, loop, shared, failures>>

PublishSuccess(w) ==
  /\ successTasks[w] > 0
  /\ successTasks' = [successTasks EXCEPT ![w] = 0]
  /\ \/ /\ sharedFails' = 0 /\ sharedUntil' = 0
        /\ remote' = [remote EXCEPT ![w] = 0]
     \/ UNCHANGED <<sharedFails, sharedUntil, remote>>
  /\ UNCHANGED <<now, fails, until, localOnly, failureTasks, replies, loop, trips, failures>>

(* PEXPIRE of the failure counter. *)
ForgetFailures ==
  /\ sharedFails > 0
  /\ sharedFails' = 0
  /\ UNCHANGED <<now, local, tasks, loop, sharedUntil, trips, failures>>

-----------------------------------------------------------------------------
(* sync_once, with an await at the fetch and one at each republication.    *)

SyncFetch(w) ==
  /\ sync[w] = "idle"
  /\ sync' = [sync EXCEPT ![w] = "fetched"]
  /\ rows' = [rows EXCEPT ![w] = IF sharedUntil >= now THEN sharedUntil ELSE 0]
  /\ syncedAt' = [syncedAt EXCEPT ![w] = now]
  /\ UNCHANGED <<now, local, tasks, shared, failures>>

Unconfirmed(w) == localOnly[w] > syncedAt[w] /\ rows[w] = 0

SyncEnds(w, u) ==
  /\ sync' = [sync EXCEPT ![w] = "idle"]
  /\ remote' = [remote EXCEPT ![w] = u]
  /\ rows' = [rows EXCEPT ![w] = 0]
  /\ syncedAt' = [syncedAt EXCEPT ![w] = 0]

SyncReconcile(w) ==
  /\ sync[w] = "fetched"
  /\ IF rows[w] > 0 THEN ApplyCooldown(w, rows[w])
     ELSE IF remote[w] > 0 /\ localOnly[w] <= syncedAt[w] THEN ClearCooldown(w)
     ELSE UNCHANGED <<until, fails>>
  /\ localOnly' = [localOnly EXCEPT ![w] = IF @ <= syncedAt[w] THEN 0 ELSE @]
  /\ IF Unconfirmed(w)
     THEN /\ sync' = [sync EXCEPT ![w] = "republishing"]
          /\ rows' = [rows EXCEPT ![w] = localOnly[w]]
          /\ UNCHANGED <<remote, syncedAt>>
     ELSE SyncEnds(w, rows[w])
  /\ UNCHANGED <<now, tasks, shared, failures>>

(* The cooldown is forgotten whether its republication succeeds or not.    *)
SyncRepublish(w, succeeds) ==
  /\ sync[w] = "republishing"
  /\ SyncEnds(w, 0)
  /\ sharedUntil' = IF succeeds THEN rows[w] ELSE sharedUntil
  /\ localOnly' = [localOnly EXCEPT ![w] = 0]
  /\ UNCHANGED <<now, fails, until, tasks, sharedFails, trips, failures>>

Tick ==
  /\ now < MaxTime
  /\ now' = now + 1
  /\ UNCHANGED <<local, tasks, loop, shared, failures>>

Next ==
  \/ Tick \/ ForgetFailures
  \/ \E w \in Workers :
       \/ RecordFailure(w) \/ RecordSuccess(w) \/ ResetChannel(w)
       \/ PublishFailure(w) \/ FailureAnswered(w) \/ FailureNotPublished(w) \/ PublishSuccess(w)
       \/ SyncFetch(w) \/ SyncReconcile(w) \/ \E ok \in BOOLEAN : SyncRepublish(w, ok)

Spec == Init /\ [][Next]_vars

(* cooldown_sync_loop runs on every worker; Redis does not fail for ever.  *)
Fairness ==
  \A w \in Workers :
    WF_vars(SyncFetch(w)) /\ WF_vars(SyncReconcile(w)) /\ WF_vars(\E ok \in BOOLEAN : SyncRepublish(w, ok))

FairSpec == Spec /\ Fairness

-----------------------------------------------------------------------------
Times == 0 .. MaxTime + Cooldown

(* Types: local state, tasks, loops and the keys of Redis. *)
TypeOK ==
  /\ now \in 1 .. MaxTime
  /\ fails \in [Workers -> 0 .. AllowedFails - 1] /\ until \in [Workers -> Times]
  /\ localOnly \in [Workers -> Times] /\ remote \in [Workers -> Times]
  /\ failureTasks \in [Workers -> Nat] /\ successTasks \in [Workers -> {0, 1}]
  /\ replies \in [Workers -> SUBSET Times]
  /\ sync \in [Workers -> {"idle", "fetched", "republishing"}]
  /\ rows \in [Workers -> Times] /\ syncedAt \in [Workers -> Times]
  /\ sharedFails \in 0 .. AllowedFails - 1 /\ sharedUntil \in Times
  /\ failures \in 0 .. MaxFailures /\ trips \in Nat

(* The failures whose _publish_failure has not run. *)
Unpublished == UNION {{w} \X (1 .. failureTasks[w]) : w \in Workers}

(* Each cooldown that Redis begins took allowed_fails failures of its own, *)
(* whatever workers reported them and in whatever order.                   *)
CooldownsEarned ==
  AllowedFails * trips + sharedFails + Cardinality(Unpublished) <= failures

(* A cooldown in Redis reaches every worker, or ends, also where a race    *)
(* of the worker's own fetch and answer hid it, or a local success         *)
(* cleared it and was not published.                                       *)
CooldownSpreads ==
  \A w \in Workers : []<>(until[w] >= sharedUntil \/ sharedUntil <= now)
=============================================================================
