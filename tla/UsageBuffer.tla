----------------------------- MODULE UsageBuffer -----------------------------
(***************************************************************************)
(* The in-memory usage buffer of each worker process and its periodic      *)
(* flush to MySQL (app/usage_buffer.py), with the worker's shutdown        *)
(* (app/main.py) and crash.                                                *)
(*                                                                         *)
(* A record is what one call of UsageBuffer.add contributes: a cost to the *)
(* user's and the day's bucket, the same cost to the API key's bucket, and *)
(* one request log row with an id made when it is buffered.  A flush takes *)
(* everything out of the buffer and writes it in one transaction, or puts  *)
(* it back.                                                                *)
(***************************************************************************)
EXTENDS Integers, FiniteSets, Functions

CONSTANTS
  Workers, Records,
  Users, UserOf,   \* UserOf[r]: the user that is charged for r
  LogOnly,         \* request_log_only records: failed attempts, no charge
  Keyed,           \* records of requests made with an API key
  Cost,            \* Cost[r]: cost_cents_f in units of 1 / Scale cent
  Scale,
  MaxAmbiguous,    \* bound: commits that are applied and reported as failed
  None

ASSUME RecordsAssumption ==
  /\ IsFiniteSet(Records)
  /\ UserOf \in [Records -> Users] /\ Cost \in [Records -> Nat]
  /\ LogOnly \subseteq Records /\ Keyed \subseteq Records
ASSUME NumbersAssumption == Scale \in Nat \ {0} /\ MaxAmbiguous \in Nat
ASSUME NoneAssumption == None \notin Workers

VARIABLES
  phase,    \* "new", "scheduled" (task created), "buffered", "lost"
  at,       \* the worker that served the record
  buf,      \* _usage_by_user, _daily and _request_logs
  keyBuf,   \* _cost_by_api_key
  flushing, \* what flush_once of the worker has taken out of the buffer
  life,     \* "up", "stopping" (lifespan's finally), "down"
  debited, daily, logs,  \* per record: charges, usage_daily, request_logs rows
  charged,  \* per user: cents debited, all flushes
  flushes,  \* per user: flushes that debited
  ambiguous

db == <<debited, daily, logs, charged, flushes>>
vars == <<phase, at, buf, keyBuf, flushing, life, db, ambiguous>>

Init ==
  /\ phase = [r \in Records |-> "new"]
  /\ at = [r \in Records |-> None]
  /\ buf = [w \in Workers |-> {}]
  /\ keyBuf = [w \in Workers |-> {}]
  /\ flushing = [w \in Workers |-> {}]
  /\ life = [w \in Workers |-> "up"]
  /\ debited = [r \in Records |-> 0]
  /\ daily = [r \in Records |-> 0]
  /\ logs = [r \in Records |-> 0]
  /\ charged = [u \in Users |-> 0]
  /\ flushes = [u \in Users |-> 0]
  /\ ambiguous = 0

-----------------------------------------------------------------------------
(* Slips: plausible errors, each put in place of the operator it is named  *)
(* after to see that a property fails.                                     *)

SlipHasWork(S) == S \ LogOnly # {}            \* early return without the logs
SlipRoundCents(x) == x \div Scale             \* int() instead of round()
SlipLogged(S) ==                              \* no ON DUPLICATE KEY UPDATE
  [r \in Records |-> IF r \in S THEN logs[r] + 1 ELSE logs[r]]
SlipLeft(S) == S                              \* reset without the key costs
SlipPutBack(w) == buf[w]                      \* failed flush not requeued
SlipPersisted(S) == S \ LogOnly               \* a commit for the users' debits
SlipTaken(w) == flushing[w]                   \* snapshot kept after the flush

-----------------------------------------------------------------------------
(* What a flush writes. *)

(* Python's round(): half to even. *)
RoundCents(x) ==
  LET q == x \div Scale
      rem == x % Scale
  IN  IF 2 * rem > Scale \/ (2 * rem = Scale /\ q % 2 = 1) THEN q + 1 ELSE q

Billable(S) == S \ LogOnly
OfUser(S, u) == {r \in Billable(S) : UserOf[r] = u}
CostOf(S) == SumFunctionOnSet(Cost, S)

(* INSERT ... ON DUPLICATE KEY UPDATE id = id: a row is inserted once. *)
Logged(S) == [r \in Records |-> IF r \in S THEN 1 ELSE logs[r]]

Increment(count, S) == [r \in Records |-> IF r \in S THEN count[r] + 1 ELSE count[r]]

(* One transaction: debits of the rounded cost per user, the daily rows,   *)
(* the request logs.                                                       *)
WriteBatch(S) ==
  /\ debited' = Increment(debited, Billable(S))
  /\ charged' = [u \in Users |-> charged[u] + RoundCents(CostOf(OfUser(S, u)))]
  /\ flushes' = [u \in Users |-> IF OfUser(S, u) = {} THEN flushes[u] ELSE flushes[u] + 1]
  /\ daily' = Increment(daily, Billable(S))
  /\ logs' = Logged(S)

(* What a transaction that is rolled back leaves behind. *)
Persisted(S) == {}

-----------------------------------------------------------------------------
(* The buffer. *)

(* schedule_usage_add: the response is complete and a task is created. *)
ScheduleAdd(w, r) ==
  /\ life[w] = "up" /\ phase[r] = "new"
  /\ phase' = [phase EXCEPT ![r] = "scheduled"]
  /\ at' = [at EXCEPT ![r] = w]
  /\ UNCHANGED <<buf, keyBuf, flushing, life, db, ambiguous>>

Add(w, r) ==
  /\ life[w] # "down" /\ phase[r] = "scheduled" /\ at[r] = w
  /\ phase' = [phase EXCEPT ![r] = "buffered"]
  /\ buf' = [buf EXCEPT ![w] = @ \cup {r}]
  /\ keyBuf' = [keyBuf EXCEPT ![w] = @ \cup (({r} \cap Keyed) \ LogOnly)]
  /\ UNCHANGED <<at, flushing, life, db, ambiguous>>

HasWork(S) == S # {}
Left(S) == {}

(* flush_once begins: the buffer is emptied under all locks. *)
TakeSnapshot(w) ==
  /\ flushing' = [flushing EXCEPT ![w] = IF HasWork(buf[w]) THEN buf[w] ELSE {}]
  /\ buf' = [buf EXCEPT ![w] = {}]
  /\ keyBuf' = [keyBuf EXCEPT ![w] = Left(@)]

FlushBegin(w) ==
  /\ life[w] = "up" /\ flushing[w] = {} /\ buf[w] # {}
  /\ TakeSnapshot(w)
  /\ UNCHANGED <<phase, at, life, db, ambiguous>>

Taken(w) == {}

FlushCommit(w) ==
  /\ flushing[w] # {}
  /\ WriteBatch(flushing[w])
  /\ flushing' = [flushing EXCEPT ![w] = Taken(w)]
  /\ UNCHANGED <<phase, at, buf, keyBuf, life, ambiguous>>

(* requeue: the buckets and the log rows come back, the key costs do not. *)
PutBack(w) == buf[w] \cup flushing[w]

Requeue(w) ==
  /\ buf' = [buf EXCEPT ![w] = PutBack(w)]
  /\ flushing' = [flushing EXCEPT ![w] = {}]
  /\ UNCHANGED <<phase, at, keyBuf, life>>

(* Any error before the commit: the transaction is rolled back. *)
FlushFail(w) ==
  /\ flushing[w] # {}
  /\ Requeue(w)
  /\ debited' = Increment(debited, Persisted(flushing[w]))
  /\ UNCHANGED <<daily, logs, charged, flushes, ambiguous>>

(* The commit is applied, but the connection is lost before the answer. *)
FlushAmbiguous(w) ==
  /\ flushing[w] # {} /\ ambiguous < MaxAmbiguous
  /\ ambiguous' = ambiguous + 1
  /\ WriteBatch(flushing[w])
  /\ Requeue(w)

-----------------------------------------------------------------------------
(* The end of a worker. *)

Lose(S) == phase' = [r \in Records |-> IF r \in S THEN "lost" ELSE phase[r]]
Held(w) == {r \in Records : at[r] = w /\ phase[r] = "scheduled"} \cup buf[w] \cup flushing[w]

(* lifespan's finally: the flush loop is cancelled, and CancelledError is  *)
(* no Exception: a flush that is under way does not requeue, whether its   *)
(* COMMIT was sent or not.  Then flush_once runs for what is in the buffer.*)
StopBegin(w) ==
  /\ life[w] = "up"
  /\ life' = [life EXCEPT ![w] = "stopping"]
  /\ TakeSnapshot(w)
  /\ \/ WriteBatch(flushing[w]) /\ UNCHANGED phase
     \/ Lose(flushing[w]) /\ UNCHANGED db
  /\ UNCHANGED <<at, ambiguous>>

(* The last flush has returned; what was added or requeued since is lost. *)
StopEnd(w) ==
  /\ life[w] = "stopping" /\ flushing[w] = {}
  /\ life' = [life EXCEPT ![w] = "down"]
  /\ Lose(Held(w))
  /\ buf' = [buf EXCEPT ![w] = {}]
  /\ keyBuf' = [keyBuf EXCEPT ![w] = {}]
  /\ UNCHANGED <<at, flushing, db, ambiguous>>

Crash(w) ==
  /\ life[w] # "down"
  /\ life' = [life EXCEPT ![w] = "down"]
  /\ Lose(Held(w))
  /\ buf' = [buf EXCEPT ![w] = {}]
  /\ keyBuf' = [keyBuf EXCEPT ![w] = {}]
  /\ flushing' = [flushing EXCEPT ![w] = {}]
  /\ UNCHANGED <<at, db, ambiguous>>

Restart(w) ==
  /\ life[w] = "down"
  /\ life' = [life EXCEPT ![w] = "up"]
  /\ UNCHANGED <<phase, at, buf, keyBuf, flushing, db, ambiguous>>

Flush(w) == FlushBegin(w) \/ FlushCommit(w) \/ FlushFail(w) \/ FlushAmbiguous(w)

Next ==
  \/ \E w \in Workers, r \in Records : ScheduleAdd(w, r) \/ Add(w, r)
  \/ \E w \in Workers : Flush(w) \/ StopBegin(w) \/ StopEnd(w) \/ Crash(w) \/ Restart(w)

Spec == Init /\ [][Next]_vars

(* Tasks run, the loop flushes every flush_interval seconds, a shutdown    *)
(* ends, and the database does not fail every flush of a worker.           *)
Fairness ==
  \A w \in Workers :
    /\ \A r \in Records : WF_vars(Add(w, r))
    /\ WF_vars(FlushBegin(w)) /\ SF_vars(FlushCommit(w)) /\ WF_vars(StopEnd(w))

FairSpec == Spec /\ Fairness

-----------------------------------------------------------------------------
(* Types: the workers' buffers and the rows of the database. *)
BuffersOK ==
  /\ phase \in [Records -> {"new", "scheduled", "buffered", "lost"}]
  /\ at \in [Records -> Workers \cup {None}]
  /\ buf \in [Workers -> SUBSET Records]
  /\ keyBuf \in [Workers -> SUBSET Records]
  /\ flushing \in [Workers -> SUBSET Records]
  /\ life \in [Workers -> {"up", "stopping", "down"}]

RowsOK ==
  /\ debited \in [Records -> Nat] /\ daily \in [Records -> Nat]
  /\ logs \in [Records -> {0, 1}]
  /\ flushes \in [Users -> Nat]
  /\ ambiguous \in 0 .. MaxAmbiguous

TypeOK == BuffersOK /\ RowsOK /\ charged \in [Users -> Nat]

(* A record that was buffered is in the buffer, in a flush, or logged and  *)
(* (if it costs anything) charged; only a crash, or a shutdown that meets  *)
(* a flush under way, can drop one (flush_once's except clause).           *)
NothingDropped ==
  \A r \in Records :
    phase[r] = "buffered" =>
      \/ \E w \in Workers : r \in buf[w] \cup flushing[w]
      \/ logs[r] = 1 /\ (r \notin LogOnly => debited[r] >= 1)

(* A record that is still to be flushed has not been charged: no retry     *)
(* charges twice, unless a commit was applied and reported as failed.      *)
ChargedAtMostOnce ==
  \A r \in Records : debited[r] <= 1 + ambiguous

(* The row ids are stable and the insert idempotent: a request is charged  *)
(* if and only if it is logged, and logged once, whatever fails.           *)
LoggedIffCharged ==
  \A r \in Records \ LogOnly : debited[r] >= 1 <=> logs[r] = 1

(* Debits and the daily totals count the same requests.                    *)
DailyMatchesDebits == debited = daily

(* What a key's quota check reads as pending is never in the request logs  *)
(* as well: nothing is counted twice against a quota.                      *)
PendingNotLogged ==
  \A w \in Workers : \A r \in keyBuf[w] : logs[r] = 0

(* Rounding: the cents charged to a user are within half a cent per flush  *)
(* of the exact cost of the requests charged.                              *)
Spent(u) == SumFunctionOnSet([r \in Records |-> debited[r] * Cost[r]], {r \in Records : UserOf[r] = u})
Distance(x, y) == IF x > y THEN x - y ELSE y - x

DriftWithinHalfCentPerFlush ==
  \A u \in Users : 2 * Distance(Scale * charged[u], Spent(u)) <= Scale * flushes[u]

(* Served usage is charged, or logged if it costs nothing, in the end,     *)
(* unless its worker went away.                                            *)
UsageGetsFlushed ==
  \A r \in Records :
    phase[r] = "scheduled" ~> (phase[r] = "lost" \/ logs[r] = 1)

(* The ledger of usage: owed, then charged, once but for the charges in    *)
(* doubt; or dropped.                                                      *)
Ledger ==
  INSTANCE UsageLedger
    WITH stage <- [r \in Records |->
                     IF logs[r] = 1 THEN "charged"
                     ELSE IF phase[r] = "lost" THEN "dropped"
                     ELSE IF phase[r] = "new" THEN "new" ELSE "owed"],
         charges <- debited, Free <- LogOnly,
         again <- {r \in Records : logs[r] = 1 /\ \E w \in Workers : r \in buf[w] \cup flushing[w]},
         doubts <- ambiguous

(* Flushes, retries and shutdowns charge what is owed, and again only      *)
(* after a commit that was applied and reported as failed (flush_once).    *)
ImplementsLedger == Ledger!Spec
=============================================================================
