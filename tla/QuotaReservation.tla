-------------------------- MODULE QuotaReservation --------------------------
(***************************************************************************)
(* Concurrency reservations of requests: the gateway's side                *)
(* (app/quota_lifecycle.py, app/quota_client.py) and the scripts of the    *)
(* quota service (usage-quota-service/internal/quota/redis_store.go).      *)
(*                                                                         *)
(* A request is one HTTP request to the gateway with its reservation.  A   *)
(* call to the service that the gateway has given up on may still be       *)
(* executed, or never.                                                     *)
(***************************************************************************)
EXTENDS Integers, FiniteSets

CONSTANTS
  Requests,
  Keys,      \* concurrency counters: of a user, an API key, a station
  KeysOf,    \* KeysOf[r]: the counters that request r is admitted by
  Limit,     \* Limit[k]
  Lifetime   \* EXPIRE of a counter, in ticks

ASSUME QuotaAssumption ==
  /\ IsFiniteSet(Requests)
  /\ KeysOf \in [Requests -> SUBSET Keys]
  /\ Limit \in [Keys -> Nat \ {0}]
  /\ Lifetime \in Nat \ {0}

VARIABLES
  failOpen,  \* the setting quota_service_fail_open
  phase,     \* the request: "new", "reserving", "serving", "completing", "releasing", "done"
  lease,     \* its QuotaReservationState: "none", "held", "taken" (released = True)
  usage,     \* its usage task: "none", "running", "committing", "over"
  recorded,  \* billable usage of the request is in the usage buffer
  failed,    \* a call failed or the request's task went away (history)
  calls,     \* calls on their way to the service
  status,    \* the reservation's hash in Redis
  count,     \* the counters in Redis
  left,      \* ticks until a counter expires
  orphaned   \* reservations that were pending when the counter expired (history)

gateway == <<failOpen, phase, lease, usage, recorded, failed>>
redis == <<status, count, left, orphaned>>
vars == <<gateway, calls, redis>>

Ops == {"reserve", "commit", "release"}

Init ==
  /\ failOpen \in BOOLEAN
  /\ phase = [r \in Requests |-> "new"]
  /\ lease = [r \in Requests |-> "none"]
  /\ usage = [r \in Requests |-> "none"]
  /\ recorded = [r \in Requests |-> FALSE]
  /\ failed = [r \in Requests |-> FALSE]
  /\ calls = {}
  /\ status = [r \in Requests |-> "none"]
  /\ count = [k \in Keys |-> 0]
  /\ left = [k \in Keys |-> 0]
  /\ orphaned = [k \in Keys |-> 0]

Goto(r, p) == phase' = [phase EXCEPT ![r] = p]
Pending(k) == {r \in Requests : status[r] = "pending" /\ k \in KeysOf[r]}

-----------------------------------------------------------------------------
(* Slips: plausible errors, each put in place of the operator it is named  *)
(* after to see that a property fails.                                     *)

SlipFreedAll(r) == KeysOf[r]                   \* DECR without current > 0
SlipAdmits(r) == \A k \in KeysOf[r] : count[k] <= Limit[k]  \* off by one
SlipFreed(r) == {}                             \* counters not lowered
SlipUsageOver(r) == TRUE                       \* tasks not waited for
SlipToRelease(r) == lease[r] = "held" /\ usage[r] # "none"  \* not on error paths
SlipNewLife(k) == Lifetime + 1                 \* a counter that never expires

-----------------------------------------------------------------------------
(* The scripts. *)

Admits(r) == \A k \in KeysOf[r] : count[k] < Limit[k]
NewLife(k) == Lifetime

ReserveScript(r) ==
  /\ status' = [status EXCEPT ![r] = "pending"]
  /\ count' = [k \in Keys |-> IF k \in KeysOf[r] THEN count[k] + 1 ELSE count[k]]
  /\ left' = [k \in Keys |-> IF k \in KeysOf[r] THEN NewLife(k) ELSE left[k]]
  /\ UNCHANGED orphaned

(* A duplicate, a finished reservation and a refusal change nothing. *)
ReserveCall(r) ==
  IF status[r] = "none" /\ Admits(r) THEN ReserveScript(r) ELSE UNCHANGED redis

Freed(r) == {k \in KeysOf[r] : count[k] > 0}

FinishCall(r, result) ==
  IF status[r] = "pending"
  THEN /\ status' = [status EXCEPT ![r] = result]
       /\ count' = [k \in Keys |-> IF k \in Freed(r) THEN count[k] - 1 ELSE count[k]]
       /\ UNCHANGED <<left, orphaned>>
  ELSE UNCHANGED redis

Execute(r, op) ==
  /\ calls' = calls \ {<<r, op>>}
  /\ CASE op = "reserve" -> ReserveCall(r)
       [] op = "commit" -> FinishCall(r, "committed")
       [] op = "release" -> FinishCall(r, "released")

(* Time passes: a counter that no reservation refreshed is removed. *)
Tick ==
  /\ \E k \in Keys : left[k] > 0
  /\ left' = [k \in Keys |-> IF left[k] \in 1 .. Lifetime THEN left[k] - 1 ELSE left[k]]
  /\ LET gone == {k \in Keys : left[k] = 1}
     IN  /\ count' = [k \in Keys |-> IF k \in gone THEN 0 ELSE count[k]]
         /\ orphaned' = [k \in Keys |-> IF k \in gone THEN orphaned[k] + Cardinality(Pending(k))
                                        ELSE orphaned[k]]
  /\ UNCHANGED <<gateway, calls, status>>

-----------------------------------------------------------------------------
(* The gateway. *)

(* reserve_quota_for_request, at the end of the authorization. *)
Reserve(r) ==
  /\ phase[r] = "new"
  /\ Goto(r, "reserving")
  /\ calls' = calls \cup {<<r, "reserve">>}
  /\ UNCHANGED <<failOpen, lease, usage, recorded, failed, redis>>

(* A refused request is sent again by its client. *)
ReserveAnswered(r) ==
  /\ phase[r] = "reserving" /\ <<r, "reserve">> \in calls
  /\ Execute(r, "reserve")
  /\ IF Admits(r)
     THEN Goto(r, "serving") /\ lease' = [lease EXCEPT ![r] = "held"]
     ELSE Goto(r, "new") /\ UNCHANGED lease
  /\ UNCHANGED <<failOpen, usage, recorded, failed>>

(* Timeout, transport error or a 5xx of the service. *)
ReserveFails(r) ==
  /\ phase[r] = "reserving"
  /\ Goto(r, IF failOpen THEN "serving" ELSE "done")
  /\ failed' = [failed EXCEPT ![r] = TRUE]
  /\ UNCHANGED <<failOpen, lease, usage, recorded, calls, redis>>

(* schedule_usage_add, before the last chunk of the response. *)
ScheduleUsage(r) ==
  /\ phase[r] = "serving" /\ usage[r] = "none"
  /\ usage' = [usage EXCEPT ![r] = "running"]
  /\ UNCHANGED <<failOpen, phase, lease, recorded, failed, calls, redis>>

(* UsageBuffer.add and commit_current_quota_reservation. *)
Record(r) ==
  /\ usage[r] = "running"
  /\ recorded' = [recorded EXCEPT ![r] = TRUE]
  /\ IF lease[r] = "held"
     THEN /\ lease' = [lease EXCEPT ![r] = "taken"]
          /\ usage' = [usage EXCEPT ![r] = "committing"]
          /\ calls' = calls \cup {<<r, "commit">>}
     ELSE /\ usage' = [usage EXCEPT ![r] = "over"]
          /\ UNCHANGED <<lease, calls>>
  /\ UNCHANGED <<failOpen, phase, failed, redis>>

CommitAnswered(r) ==
  /\ usage[r] = "committing" /\ <<r, "commit">> \in calls
  /\ Execute(r, "commit")
  /\ usage' = [usage EXCEPT ![r] = "over"]
  /\ UNCHANGED <<failOpen, phase, lease, recorded, failed>>

CommitFails(r) ==
  /\ usage[r] = "committing"
  /\ usage' = [usage EXCEPT ![r] = "over"]
  /\ lease' = [lease EXCEPT ![r] = IF failOpen THEN "taken" ELSE "held"]
  /\ failed' = [failed EXCEPT ![r] = TRUE]
  /\ UNCHANGED <<failOpen, phase, recorded, calls, redis>>

(* The last chunk is sent, or the application returns or raises. *)
Complete(r) ==
  /\ phase[r] = "serving"
  /\ Goto(r, "completing")
  /\ UNCHANGED <<failOpen, lease, usage, recorded, failed, calls, redis>>

UsageOver(r) == usage[r] \in {"none", "over"}
ToRelease(r) == lease[r] = "held"

(* release_current_quota_reservation waits for the usage tasks. *)
Release(r) ==
  /\ phase[r] = "completing" /\ UsageOver(r)
  /\ IF ToRelease(r)
     THEN /\ lease' = [lease EXCEPT ![r] = "taken"]
          /\ calls' = calls \cup {<<r, "release">>}
          /\ Goto(r, "releasing")
     ELSE Goto(r, "done") /\ UNCHANGED <<lease, calls>>
  /\ UNCHANGED <<failOpen, usage, recorded, failed, redis>>

ReleaseAnswered(r) ==
  /\ phase[r] = "releasing" /\ <<r, "release">> \in calls
  /\ Execute(r, "release")
  /\ Goto(r, "done")
  /\ UNCHANGED <<failOpen, lease, usage, recorded, failed>>

ReleaseFails(r) ==
  /\ phase[r] = "releasing"
  /\ Goto(r, "done")
  /\ failed' = [failed EXCEPT ![r] = TRUE]
  /\ UNCHANGED <<failOpen, lease, usage, recorded, calls, redis>>

(* The worker dies; or the response's task is cancelled after its last     *)
(* chunk, when `completed' is set already, and with it the usage task it   *)
(* waits for.                                                              *)
Abandon(r) ==
  /\ phase[r] \notin {"new", "done"}
  /\ Goto(r, "done")
  /\ usage' = [usage EXCEPT ![r] = "over"]
  /\ failed' = [failed EXCEPT ![r] = TRUE]
  /\ UNCHANGED <<failOpen, lease, recorded, calls, redis>>

AwaitedOp(r) ==
  IF phase[r] = "reserving" THEN {"reserve"}
  ELSE IF phase[r] = "releasing" THEN {"release"}
  ELSE IF usage[r] = "committing" THEN {"commit"} ELSE {}

(* The service executes a call that nobody waits for any more. *)
LateCall(r, op) ==
  /\ <<r, op>> \in calls /\ op \notin AwaitedOp(r)
  /\ Execute(r, op)
  /\ UNCHANGED gateway

Next ==
  \/ Tick
  \/ \E r \in Requests :
       \/ Reserve(r) \/ ReserveAnswered(r) \/ ReserveFails(r)
       \/ ScheduleUsage(r) \/ Record(r) \/ CommitAnswered(r) \/ CommitFails(r)
       \/ Complete(r) \/ Release(r) \/ ReleaseAnswered(r) \/ ReleaseFails(r)
       \/ Abandon(r) \/ \E op \in Ops : LateCall(r, op)

Spec == Init /\ [][Next]_vars

(* Clients retry, tasks run, calls are answered or time out, responses     *)
(* end, and time passes.                                                   *)
Fairness ==
  /\ WF_vars(Tick)
  /\ \A r \in Requests :
       /\ WF_vars(Reserve(r)) /\ WF_vars(ReserveAnswered(r) \/ ReserveFails(r))
       /\ WF_vars(Record(r)) /\ WF_vars(CommitAnswered(r) \/ CommitFails(r))
       /\ WF_vars(Complete(r)) /\ WF_vars(Release(r))
       /\ WF_vars(ReleaseAnswered(r) \/ ReleaseFails(r))

FairSpec == Spec /\ Fairness

-----------------------------------------------------------------------------
(* Types: the gateway's state, the calls, and the keys of Redis. *)
TypeOK ==
  /\ failOpen \in BOOLEAN
  /\ phase \in [Requests -> {"new", "reserving", "serving", "completing", "releasing", "done"}]
  /\ lease \in [Requests -> {"none", "held", "taken"}]
  /\ usage \in [Requests -> {"none", "running", "committing", "over"}]
  /\ recorded \in [Requests -> BOOLEAN] /\ failed \in [Requests -> BOOLEAN]
  /\ calls \in SUBSET (Requests \X Ops)
  /\ status \in [Requests -> {"none", "pending", "committed", "released"}]
  /\ count \in [Keys -> Nat] /\ left \in [Keys -> Nat] /\ orphaned \in [Keys -> Nat]

(* Whatever times out, comes late or is finished twice, no more            *)
(* reservations are pending than the limit and those that had outlived     *)
(* their counter (redis_store.go: EXPIRE of the counters, DECR of finish). *)
ConcurrencyBounded ==
  \A k \in Keys : Cardinality(Pending(k)) <= Limit[k] + orphaned[k]

(* A counter never holds a slot that no pending reservation accounts for.  *)
NoPhantomSlot == \A k \in Keys : count[k] <= Cardinality(Pending(k))

(* A request whose usage was recorded is committed, not released, unless a *)
(* call failed: the release waits for the usage tasks.                     *)
UsageCommitsFirst ==
  \A r \in Requests : status[r] = "released" /\ recorded[r] => failed[r]

(* The quota service keeps its promise although its calls time out, are    *)
(* executed late, and its counters expire on their own.                    *)
QuotaKept == ConcurrencyBounded /\ NoPhantomSlot /\ UsageCommitsFirst

(* An admitted request gives its slot back, unless a call failed or its    *)
(* task went away.                                                         *)
ReservationsEnd ==
  \A r \in Requests : []<>(status[r] # "pending" \/ failed[r])

(* Slots that leaked do not keep a client out for ever: a refusal does not *)
(* refresh the counter, so it expires.                                     *)
Admitted == \A r \in Requests : phase[r] \notin {"new", "reserving"}
RequestsGetAdmitted == <>[]Admitted
=============================================================================
