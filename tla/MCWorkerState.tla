---------------------------- MODULE MCWorkerState ----------------------------
(***************************************************************************)
(* Instance for TLC of what the workers of a host hold in common through   *)
(* Redis: cached keys, leadership and rate limits, cooldowns, alerts.  The *)
(* parts share no state, so each behaviour follows one of them.            *)
(*   keys: two workers, a request that is authenticated, two edits.        *)
(*   leader, limiter: RedisGuard with the reconcile loop, or with three    *)
(* requests of a user, on the same breakers.                               *)
(*   cooldown: one channel, two workers.                                   *)
(*   fallback, burst: AlertDelivery with two alerts of an exhausted        *)
(* fallback and tests of the destination, or with three upstream failures. *)
(***************************************************************************)
EXTENDS KeyCache, TLC

CONSTANTS w1, w2, r1

CONSTANTS FailureThreshold, OpenTicks, LeaseTicks, MinuteTicks, Limit, MaxTroubles,
          MaxRestarts, Calls
VARIABLES guard, lease, leads, job, failedOpen, outlived, request, counter, bucket, phase,
          fallback, admitted, opened, troubles, restarts
Guard == INSTANCE RedisGuard WITH Requests <- Calls, Nobody <- None
guardVars == <<guard, lease, leads, job, failedOpen, outlived, request, counter, bucket, phase,
               fallback, admitted, opened, troubles, restarts>>

CONSTANTS AllowedFails, Cooldown, MaxTime, MaxFailures
VARIABLES now, fails, until, localOnly, remote, failureTasks, successTasks, replies, sync,
          rows, syncedAt, sharedFails, sharedUntil, failures, trips
Cooldowns == INSTANCE ChannelCooldown
cooldownVars == <<now, fails, until, localOnly, remote, failureTasks, successTasks, replies, sync,
                  rows, syncedAt, sharedFails, sharedUntil, failures, trips>>

CONSTANTS Threshold, Window, Dedup, Suppress, MaxPending, LastTime, MaxFaults
MCAlerts == 1..3
VARIABLES clock, task, notified, claim, counted, muted, localFailures, localMuted,
          enabled, event, posted, faults
Alerting == INSTANCE AlertDelivery
  WITH Alerts <- MCAlerts, Nobody <- None, MaxTime <- LastTime, MaxTroubles <- MaxFaults,
       now <- clock, failures <- counted, troubles <- faults
alertVars == <<clock, task, notified, claim, counted, muted, localFailures, localMuted,
               enabled, event, posted, faults>>

ASSUME GuardAssumed == Guard!GuardAssumption
ASSUME CooldownAssumed == Cooldowns!CooldownAssumption
ASSUME AlertAssumed == Alerting!AlertAssumption

VARIABLE part
parts == <<vars, guardVars, cooldownVars, alertVars, part>>

PartsInit ==
  /\ Init /\ Guard!Init /\ Cooldowns!Init /\ Alerting!Init
  /\ part \in {"keys", "leader", "limiter", "cooldown", "fallback", "burst"}
  /\ part # "limiter" => fallback

KeyPart == part = "keys" /\ UNCHANGED <<guardVars, cooldownVars, alertVars, part>>
GuardPart(x) == part = x /\ UNCHANGED <<vars, cooldownVars, alertVars, part>>
CooldownPart == part = "cooldown" /\ UNCHANGED <<vars, guardVars, alertVars, part>>
AlertPart(x) == part = x /\ UNCHANGED <<vars, guardVars, cooldownVars, part>>

PartsNext ==
  \/ KeyPart /\ Next
  \/ CooldownPart /\ Cooldowns!Next
  \/ \E x \in {"leader", "limiter"} :
       GuardPart(x) /\ \/ Guard!Tick
                       \/ \E w \in Workers :
                            Guard!WarmUp(w) \/ Guard!WarmUpFails(w) \/ Guard!ShutDown(w) \/ Guard!Crash(w)
  \/ GuardPart("leader") /\ \E w \in Workers : Guard!Loop(w) \/ Guard!AcquireFails(w)
  \/ GuardPart("limiter") /\ \/ \E w \in Workers : Guard!Boot(w)
                             \/ \E r \in Calls :
                                  Guard!Limiter(r) \/ Guard!Count(r) \/ Guard!Answered(r) \/ Guard!CountFails(r)
  \/ \E x \in {"fallback", "burst"} :
       AlertPart(x) /\ \/ Alerting!Tick
                       \/ \E t \in MCAlerts : Alerting!Runs(t)
                       \/ \E w \in Workers : Alerting!Configure(w) \/ Alerting!Restart(w)
  \/ AlertPart("fallback") /\ \E t \in {1, 2}, w \in Workers : Alerting!Notify(t, w) \/ Alerting!TestDestination(t, w)
  \/ AlertPart("burst") /\ \E t \in MCAlerts, w \in Workers : Alerting!Schedule(t, w)

PartsSpec == PartsInit /\ [][PartsNext]_parts

(* The fairness of each module; of RedisGuard that of its loops. *)
PartsFairSpec ==
  /\ PartsSpec
  /\ WF_vars(KeyPart /\ Tick) /\ \A r \in Requests : WF_vars(KeyPart /\ Fill(r))
  /\ WF_guardVars(GuardPart("leader") /\ Guard!Tick)
  /\ \A w \in Workers :
       /\ WF_guardVars(GuardPart("leader") /\ Guard!WarmUp(w))
       /\ WF_guardVars(GuardPart("leader") /\ Guard!Loop(w))
       /\ WF_cooldownVars(CooldownPart /\ Cooldowns!SyncFetch(w))
       /\ WF_cooldownVars(CooldownPart /\ Cooldowns!SyncReconcile(w))
       /\ WF_cooldownVars(CooldownPart /\ \E ok \in BOOLEAN : Cooldowns!SyncRepublish(w, ok))
  /\ \A t \in MCAlerts : WF_<<task[t]>>(AlertPart("burst") /\ Alerting!Runs(t))

(* Two workers reconcile at once only if one went ahead without Redis or   *)
(* outlived its lease (distributed_state.py, the leader lock).             *)
OneLeader == part = "leader" => Guard!OneLeader
(* A minute admits the limit, and once more per process that counted alone *)
(* (rate_limiter.py, allow).                                               *)
LimitHolds == part = "limiter" => Guard!LimitHolds
(* Redis recovered, some worker runs the reconcile loop again and again    *)
(* (reconcile.py, the loop under the leader lock).                         *)
LeadershipGoesOn == <>[](part = "leader" => Guard!AllAvailable) /\ []<>(part = "leader" => Guard!RoundRuns)
(* A cooldown in Redis took allowed_fails failures of its own              *)
(* (channel_router.py, the failure script and its publication).            *)
CooldownsEarned == part = "cooldown" => Cooldowns!CooldownsEarned
(* What one worker knows, an edit of a key or a cooldown, reaches the others. *)
WorkersAgree == EditsReachWorkers /\ Cooldowns!CooldownSpreads
(* An alert is earned, sent once and recorded as it went                   *)
(* (fallback_alerts.py, alert_history.py).                                 *)
AlertsHonest == part \in {"fallback", "burst"} => Alerting!AlertsHonest
(* A burst that was counted is announced (fallback_alerts.py,              *)
(* record_user_upstream_failure).                                          *)
BurstsAnnounced == Alerting!BurstsAnnounced
=============================================================================
