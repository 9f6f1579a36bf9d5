------------------------------ MODULE RedisGuard ------------------------------
(***************************************************************************)
(* What the workers do through Redis and how they do without it            *)
(* (app/distributed_state.py: RedisGuard, LeaderLock; app/rate_limiter.py; *)
(* the leader's loop of app/reconcile.py). Every worker has a circuit      *)
(* breaker and a pool that it warms in the background. Two users of Redis  *)
(* stand for all: the lease of the reconcile loop, which fails open, and   *)
(* the per-minute counter of the rate limiter, which falls back to a       *)
(* counter of the process. A command may be executed though its answer is  *)
(* lost. Timers count down, so the clock needs no bound.                   *)
(***************************************************************************)
EXTENDS Integers

CONSTANTS
  Workers, Requests,  \* requests of one user
  FailureThreshold,   \* failures in a row that open the breaker
  OpenTicks,          \* how long it stays open
  LeaseTicks,         \* the lease of the leader
  MinuteTicks,        \* ticks of a minute of the rate limiter
  Limit,              \* requests per minute of the user
  MaxTroubles,        \* bound: commands that fail or are answered too late
  MaxRestarts,        \* bound: workers that stop or die
  Nobody              \* a token no living worker holds

GuardAssumption ==
  /\ FailureThreshold \in Nat \ {0} /\ OpenTicks \in Nat \ {0} /\ LeaseTicks \in Nat \ {0}
  /\ MinuteTicks \in Nat \ {0} /\ Limit \in Nat \ {0}
  /\ MaxTroubles \in Nat /\ MaxRestarts \in Nat /\ Nobody \notin Workers

VARIABLES
  guard,     \* per worker: failures in a row, time the breaker stays open, pool warm, warm-up task
  lease,     \* the key in Redis: its token and the time left, 0 when there is no key
  leads,     \* LeaderLock.is_leader
  job,       \* where the reconcile loop of a worker stands
  failedOpen,\* ghost: the worker's round was allowed without Redis
  outlived,  \* ghost: the lease granted to the worker ran out on the clock
  request,   \* the calls of the rate limiter
  counter,   \* the counters in Redis of this minute and the last
  bucket,    \* the counter of each process, of the minute it was started in
  phase,     \* ticks of the minute that have passed
  fallback,  \* redis_rate_limiter_fallback_to_local
  admitted,  \* ghost: requests let through per minute
  opened,    \* ghost: buckets that processes opened, per minute
  troubles, restarts

guardVars == <<guard, troubles>>
leaderVars == <<lease, leads, job, failedOpen, outlived>>
rateVars == <<request, counter, bucket, admitted, opened>>
vars == <<guardVars, leaderVars, rateVars, phase, fallback, restarts>>

Minutes == {"this", "last"}
Both(x) == [m \in Minutes |-> x]
Fresh == [failures |-> 0, open |-> 0, warm |-> FALSE, task |-> "none"]
Unasked == [pc |-> "idle", at |-> Nobody, minute |-> "this", ok |-> FALSE]

Init ==
  /\ guard = [w \in Workers |-> Fresh]
  /\ lease = [holder |-> Nobody, left |-> 0]
  /\ leads = [w \in Workers |-> FALSE]
  /\ job = [w \in Workers |-> "asleep"]
  /\ failedOpen = [w \in Workers |-> FALSE] /\ outlived = [w \in Workers |-> FALSE]
  /\ request = [r \in Requests |-> Unasked]
  /\ counter = Both(0) /\ bucket = [w \in Workers |-> 0] /\ phase = 0
  /\ fallback \in BOOLEAN
  /\ admitted = Both(0) /\ opened = Both(0)
  /\ troubles = 0 /\ restarts = 0

-----------------------------------------------------------------------------
(* The guard. *)

Available(g) == g.open = 0 /\ g.warm

SlipSchedules(g) == g.open = 0 /\ ~g.warm /\ g.task = "none"

(* available() starts the warm-up of a cold pool, one at a time.           *)
Schedules(g) == g.open = 0 /\ ~g.warm /\ g.task # "dialing"

Asked(g) == IF Schedules(g) THEN [g EXCEPT !.task = "dialing"] ELSE g

RecordSuccess(g) == [g EXCEPT !.failures = 0, !.open = 0]

RecordFailure(g) ==
  [g EXCEPT !.warm = FALSE, !.failures = @ + 1,
            !.open = IF g.failures + 1 >= FailureThreshold /\ g.open = 0 THEN OpenTicks ELSE @]

Trouble == troubles < MaxTroubles /\ troubles' = troubles + 1

WarmUp(w) ==
  /\ guard[w].task = "dialing"
  /\ guard' = [guard EXCEPT ![w] = RecordSuccess([@ EXCEPT !.warm = TRUE, !.task = "done"])]
  /\ UNCHANGED <<troubles, leaderVars, rateVars, phase, fallback, restarts>>

WarmUpFails(w) ==
  /\ guard[w].task = "dialing" /\ Trouble
  /\ guard' = [guard EXCEPT ![w] = RecordFailure([@ EXCEPT !.task = "done"])]
  /\ UNCHANGED <<leaderVars, rateVars, phase, fallback, restarts>>

(* The next command of the worker w answers, or fails, or is not sent.     *)
Succeeds(w) == guard' = [guard EXCEPT ![w] = RecordSuccess(@)] /\ UNCHANGED troubles
Fails(w) == guard' = [guard EXCEPT ![w] = RecordFailure(@)] /\ Trouble
Refused(w) ==
  /\ ~Available(guard[w])
  /\ guard' = [guard EXCEPT ![w] = Asked(@)]
  /\ UNCHANGED troubles

-----------------------------------------------------------------------------
(* The leader of the reconcile loop. *)

(* Redis cannot be used: the lock is fail-open, every worker runs.         *)
RunOpen(w) ==
  /\ leads' = [leads EXCEPT ![w] = TRUE]
  /\ failedOpen' = [failedOpen EXCEPT ![w] = TRUE]
  /\ job' = [job EXCEPT ![w] = "running"]
  /\ UNCHANGED <<lease, outlived>>

AcquireRefused(w) ==
  /\ job[w] = "asleep" /\ Refused(w) /\ RunOpen(w)
  /\ UNCHANGED <<rateVars, phase, fallback, restarts>>

Acquire(w) ==
  /\ job[w] = "asleep" /\ Available(guard[w])
  /\ job' = [job EXCEPT ![w] = "asking"]
  /\ UNCHANGED <<guardVars, lease, leads, failedOpen, outlived, rateVars, phase, fallback, restarts>>

SlipKey(w) == [holder |-> w, left |-> -1]

Key(w) == [holder |-> w, left |-> LeaseTicks]

(* _acquire in Redis: the leader renews its own token, else SET NX.        *)
Decide(w) ==
  /\ job[w] = "asking"
  /\ LET granted == lease.left = 0 \/ (leads[w] /\ lease.holder = w)
     IN /\ lease' = IF granted THEN Key(w) ELSE lease
        /\ outlived' = [outlived EXCEPT ![w] = @ /\ ~granted]
        /\ job' = [job EXCEPT ![w] = IF granted THEN "granted" ELSE "denied"]
  /\ UNCHANGED <<guardVars, leads, failedOpen, rateVars, phase, fallback, restarts>>

AcquireAnswered(w) ==
  /\ job[w] \in {"granted", "denied"} /\ Succeeds(w)
  /\ leads' = [leads EXCEPT ![w] = job[w] = "granted"]
  /\ failedOpen' = [failedOpen EXCEPT ![w] = FALSE]
  /\ job' = [job EXCEPT ![w] = IF @ = "granted" THEN "running" ELSE "asleep"]
  /\ UNCHANGED <<lease, outlived, rateVars, phase, fallback, restarts>>

AcquireFails(w) ==
  /\ job[w] \in {"asking", "granted", "denied"} /\ Fails(w) /\ RunOpen(w)
  /\ UNCHANGED <<rateVars, phase, fallback, restarts>>

RoundEnds(w) ==
  /\ job[w] = "running"
  /\ job' = [job EXCEPT ![w] = "asleep"]
  /\ UNCHANGED <<guardVars, lease, leads, failedOpen, outlived, rateVars, phase, fallback, restarts>>

-----------------------------------------------------------------------------
(* The process ends: its memory is gone, its requests are dropped.         *)

SlipReleased(w) == [holder |-> Nobody, left |-> 0]

(* _RELEASE_LOCK_SCRIPT deletes the key only under the worker's own token. *)
Released(w) == IF lease.holder = w THEN [holder |-> Nobody, left |-> 0] ELSE lease

(* The key stays until it expires, under a token no process has any more.  *)
Orphaned(w) == IF lease.holder = w THEN [lease EXCEPT !.holder = Nobody] ELSE lease

Ends(w) ==
  /\ restarts < MaxRestarts /\ restarts' = restarts + 1
  /\ guard' = [guard EXCEPT ![w] = Fresh]
  /\ leads' = [leads EXCEPT ![w] = FALSE]
  /\ job' = [job EXCEPT ![w] = "down"]
  /\ bucket' = [bucket EXCEPT ![w] = 0]
  /\ request' = [r \in Requests |->
                   IF request[r].at = w THEN [request[r] EXCEPT !.pc = "done"] ELSE request[r]]
  /\ failedOpen' = [failedOpen EXCEPT ![w] = FALSE] /\ outlived' = [outlived EXCEPT ![w] = FALSE]
  /\ UNCHANGED <<counter, admitted, opened, phase, fallback, troubles>>

(* The loop is cancelled: it releases the lease it believes it has.        *)
ShutDown(w) ==
  /\ job[w] # "down" /\ Ends(w)
  /\ lease' = IF leads[w] /\ Available(guard[w]) THEN Released(w) ELSE Orphaned(w)

Crash(w) == job[w] # "down" /\ Ends(w) /\ lease' = Orphaned(w)

Boot(w) ==
  /\ job[w] = "down"
  /\ job' = [job EXCEPT ![w] = "asleep"]
  /\ UNCHANGED <<guardVars, lease, leads, failedOpen, outlived, rateVars, phase, fallback, restarts>>

-----------------------------------------------------------------------------
(* The rate limiter. *)

Ready(r, w) == request[r].pc = "idle" /\ job[w] # "down"

Settle(r, w, ok, minute) ==
  /\ request' = [request EXCEPT ![r] = [pc |-> "done", at |-> w, minute |-> minute, ok |-> ok]]
  /\ admitted' = [admitted EXCEPT ![minute] = @ + IF ok THEN 1 ELSE 0]

(* RateLimiter.allow without Redis: a bucket of the process, whose minute  *)
(* is the one of the decision; refused when the fallback is off.           *)
Locally(r, w) ==
  /\ bucket' = IF fallback THEN [bucket EXCEPT ![w] = @ + 1] ELSE bucket
  /\ Settle(r, w, fallback /\ (bucket[w] = 0 \/ bucket[w] < Limit), "this")
  /\ opened' = [opened EXCEPT !["this"] = @ + IF fallback /\ bucket[w] = 0 THEN 1 ELSE 0]
  /\ UNCHANGED <<counter, leaderVars, phase, fallback, restarts>>

AllowLocally(r, w) == Ready(r, w) /\ Refused(w) /\ Locally(r, w)

Allow(r, w) ==
  /\ Ready(r, w) /\ Available(guard[w])
  /\ request' = [request EXCEPT ![r] = [pc |-> "sent", at |-> w, minute |-> "this", ok |-> FALSE]]
  /\ UNCHANGED <<guardVars, leaderVars, counter, bucket, admitted, opened, phase, fallback, restarts>>

SlipWithin(count) == count <= Limit + 1

(* _REDIS_FIXED_WINDOW_SCRIPT, after the increment. *)
Within(count) == count <= Limit

Count(r) ==
  /\ request[r].pc = "sent"
  /\ LET m == request[r].minute
     IN /\ counter' = [counter EXCEPT ![m] = @ + 1]
        /\ request' = [request EXCEPT ![r].pc = "counted", ![r].ok = Within(counter[m] + 1)]
  /\ UNCHANGED <<guardVars, leaderVars, bucket, admitted, opened, phase, fallback, restarts>>

Answered(r) ==
  /\ request[r].pc = "counted" /\ Succeeds(request[r].at)
  /\ Settle(r, request[r].at, request[r].ok, request[r].minute)
  /\ UNCHANGED <<leaderVars, counter, bucket, opened, phase, fallback, restarts>>

CountFails(r) ==
  /\ request[r].pc \in {"sent", "counted"} /\ Fails(request[r].at)
  /\ Locally(r, request[r].at)

-----------------------------------------------------------------------------
Less(n) == IF n > 0 THEN n - 1 ELSE n

(* A command is answered or given up within a fraction of a minute.        *)
Tick ==
  LET turns == phase + 1 = MinuteTicks
  IN /\ turns => \A r \in Requests : ~(request[r].pc \in {"sent", "counted"} /\ request[r].minute = "last")
     /\ phase' = IF turns THEN 0 ELSE phase + 1
     /\ guard' = [w \in Workers |-> [guard[w] EXCEPT !.open = Less(@)]]
     /\ lease' = [lease EXCEPT !.left = Less(@)]
     /\ outlived' = [w \in Workers |-> outlived[w] \/ (lease.holder = w /\ lease.left = 1)]
     /\ IF turns
        THEN /\ counter' = [this |-> 0, last |-> counter["this"]]
             /\ admitted' = [this |-> 0, last |-> admitted["this"]]
             /\ opened' = [this |-> 0, last |-> opened["this"]]
             /\ bucket' = [w \in Workers |-> 0]
             /\ request' = [r \in Requests |-> [request[r] EXCEPT !.minute = "last"]]
        ELSE UNCHANGED rateVars
     /\ UNCHANGED <<leads, job, failedOpen, troubles, fallback, restarts>>

Loop(w) ==
  \/ AcquireRefused(w) \/ Acquire(w) \/ Decide(w) \/ AcquireAnswered(w) \/ RoundEnds(w) \/ Boot(w)

Limiter(r) == \E w \in Workers : AllowLocally(r, w) \/ Allow(r, w)

Next ==
  \/ \E w \in Workers : WarmUp(w) \/ WarmUpFails(w) \/ AcquireFails(w) \/ Loop(w) \/ ShutDown(w) \/ Crash(w)
  \/ \E r \in Requests : Limiter(r) \/ Count(r) \/ Answered(r) \/ CountFails(r)
  \/ Tick

Spec == Init /\ [][Next]_vars

(* The event loop of a worker runs its tasks, and a worker that stopped is *)
(* started again.                                                          *)
FairSpec ==
  /\ Spec /\ WF_vars(Tick)
  /\ \A w \in Workers : WF_vars(WarmUp(w)) /\ WF_vars(Loop(w))
  /\ \A r \in Requests : WF_vars(Count(r)) /\ WF_vars(Answered(r))

-----------------------------------------------------------------------------
TypeOK ==
  /\ guard \in [Workers -> [failures : Nat, open : 0..OpenTicks, warm : BOOLEAN, task : {"none", "dialing", "done"}]]
  /\ lease \in [holder : Workers \cup {Nobody}, left : 0..LeaseTicks]
  /\ leads \in [Workers -> BOOLEAN]
  /\ job \in [Workers -> {"asleep", "asking", "granted", "denied", "running", "down"}]

(* Two workers reconcile at once only if one of them went ahead without    *)
(* Redis, or its lease ran out on the clock (it was slow): nothing another *)
(* worker does, a restart and a release included, takes a lease away.      *)
OneLeader ==
  \A v, w \in Workers :
    v # w /\ job[v] = "running" /\ job[w] = "running" =>
      \E u \in {v, w} : failedOpen[u] \/ outlived[u]

(* In one minute a user gets the limit from Redis and once more from each  *)
(* process that had to decide alone, however the workers, the answers that *)
(* are lost, the restarts and the turn of the minute interleave.           *)
LimitHolds == \A m \in Minutes : admitted[m] <= Limit * (1 + opened[m])

(* Once Redis answers again, every worker comes back to it: the breaker    *)
(* closes and the pool is warm, whatever was in flight when it opened.     *)
AllAvailable == \A w \in Workers : Available(guard[w])
GuardRecovers == <>[]AllAvailable

(* The round of the reconcile loop keeps being run by some worker, though  *)
(* the leader dies, or stops without the release of its lease.             *)
RoundRuns == \E w \in Workers : job[w] = "running"
RoundsGoOn == []<>RoundRuns
==============================================================================
