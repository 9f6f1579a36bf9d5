-------------------------- MODULE CreditMigration --------------------------
(***************************************************************************)
(* The migration of legacy credits (scripts/migrate_legacy_credits.py):    *)
(* positive scalar balances and valid traffic packs become permanent       *)
(* credits.  A run plans from unlocked reads, reads again under row locks, *)
(* refuses when the two plans differ, and otherwise retires the sources    *)
(* and grants the credits in one transaction, which it then reconciles.    *)
(*                                                                         *)
(* The application goes on meanwhile.  The usage flush (app/billing.py)    *)
(* locks the user's row and works on what it then holds.  Other writers    *)
(* compute from what they read before they had the lock: a recharge, a     *)
(* redeemed code, a referral bonus, an operator's edit write the balance   *)
(* they read and what they add (app/webhook.py, app/openai_compat.py,      *)
(* app/referral.py, app/admin.py), and a video job charges and refunds     *)
(* with the objects its session loaded before it asked the upstream        *)
(* (app/video_jobs.py): SELECT ... FOR UPDATE does not refresh an object   *)
(* that the session holds.                                                 *)
(* A source has the name of its user or pack: the source_id of a credit is *)
(* unique in the database.                                                 *)
(***************************************************************************)
EXTENDS Integers, FiniteSets, Functions, FiniteSetsExt

CONSTANTS
  Users, Packs, Owner,      \* Owner: the user of each pack
  Original, Expiry,         \* of each pack: original_cents, expires_at
  Openings,                 \* the rows of before: records [balance, left]
  Runs,                     \* invocations of the script
  MaxScanned, MaxPlanned,   \* its safety limits
  Amounts,                  \* cents of debits, prices and recharges
  MaxEvents,                \* bound: application transactions and failures
  LastTime,                 \* bound on the clock
  None

MigrationAssumption ==
  /\ IsFiniteSet(Users) /\ IsFiniteSet(Packs) /\ Users \cap Packs = {}
  /\ Owner \in [Packs -> Users]
  /\ Original \in [Packs -> Nat] /\ Expiry \in [Packs -> Nat]
  /\ Openings \subseteq [balance : [Users -> Int], left : [Packs -> Nat]]
  /\ Amounts \subseteq Nat \ {0}
  /\ None \notin Runs \cup Users

VARIABLES
  balance,   \* users.balance
  pack,      \* rows of traffic packs: [left, status]
  credit,    \* permanent credits granted from legacy sources: [original, left]
  holder,    \* the run that holds the row locks
  run,       \* the runs of the script
  recharge,  \* the recharge under way: [user, read]
  video,     \* the video request under way, and what its session holds
  owed,      \* per source, what a video job took from it and may return
  flow,      \* per user: cents brought in from outside less cents spent
  surplus,   \* per user: what was written over changes that were not seen
  events,    \* application transactions and failures so far
  now

rows == <<balance, pack, credit>>
app == <<recharge, video, owed, flow, surplus>>
vars == <<balance, pack, credit, holder, run, recharge, video, owed, flow, surplus, events, now>>

Sources == Users \cup Packs
UserOf(s) == IF s \in Packs THEN Owner[s] ELSE s
Lasting(q) == Expiry[q] > now

(* What a new process knows: the rows it has read, the last plan made of   *)
(* them and the first, the mode it reports.                                *)
Unread == [balance |-> None, pack |-> None, credit |-> None]
Fresh == [pc |-> "idle", phase |-> "plan", apply |-> FALSE, asof |-> 0, seen |-> Unread,
          plan |-> None, first |-> None, mode |-> "none", wrote |-> FALSE]

NoVideo == [pc |-> "idle", user |-> None, cents |-> 0, balance |-> 0,
            left |-> [q \in Packs |-> 0]]

Init ==
  /\ \E o \in Openings :
       /\ balance = o.balance
       /\ pack = [q \in Packs |-> [left |-> o.left[q],
                                   status |-> IF o.left[q] > 0 THEN "active" ELSE "depleted"]]
       /\ flow = [u \in Users |-> o.balance[u]
                    + SumFunctionOnSet(o.left, {q \in Packs : Owner[q] = u})]
  /\ credit = [s \in {} |-> None]
  /\ holder = None
  /\ run = [m \in Runs |-> Fresh]
  /\ recharge = [user |-> None, read |-> 0]
  /\ video = NoVideo
  /\ owed = [s \in Sources |-> 0]
  /\ surplus = [u \in Users |-> 0]
  /\ events = 0
  /\ now = 0

-----------------------------------------------------------------------------
(* The plan, a function of the rows r and of the cutoff asof. *)

Amount(r, s) == IF s \in Users THEN r.balance[s] ELSE r.pack[s].left

(* _scan_packs: a pack whose row makes no sense. *)
Invalid(r, q) ==
  \/ r.pack[q].left > Original[q]
  \/ r.pack[q].status = "migrated" /\ r.pack[q].left > 0

(* _scan_users, _scan_packs: sources whose value can be moved. *)
Candidates(r, asof) ==
  {u \in Users : r.balance[u] > 0}
    \cup {q \in Packs : /\ ~ Invalid(r, q)
                        /\ r.pack[q].status = "active" /\ r.pack[q].left > 0
                        /\ Expiry[q] > asof}

Retired(r, s) ==
  IF s \in Users THEN r.balance[s] = 0
  ELSE r.pack[s].left = 0 /\ r.pack[s].status = "migrated"

Terms(r, s) == s \in Packs => r.credit[s].original \in 1..Original[s]

(* _reconcile_candidates, _reconcile_retired_credits and the check for     *)
(* packs that were retired without a credit.                               *)
Conflicts(r, asof) ==
  {s \in DOMAIN r.credit : s \in Candidates(r, asof) \/ ~ Retired(r, s) \/ ~ Terms(r, s)}
    \cup {q \in Packs \ DOMAIN r.credit : Retired(r, q)}

(* build_migration_plan, with what enters its fingerprint. *)
Plan(r, asof) ==
  [items |-> [s \in Candidates(r, asof) \ DOMAIN r.credit |-> Amount(r, s)],
   kept |-> [s \in Sources \ Candidates(r, asof) |->
               <<Amount(r, s), IF s \in Packs THEN r.pack[s].status ELSE "balance">>],
   moved |-> [s \in DOMAIN r.credit |-> r.credit[s].original],
   conflicts |-> Conflicts(r, asof),
   errors |-> {q \in Packs : Invalid(r, q)}]

Eligible(p) == p.conflicts = {} /\ p.errors = {}

WithinLimits(p) ==
  /\ Cardinality(Sources) + Cardinality(DOMAIN p.moved) <= MaxScanned
  /\ Cardinality(DOMAIN p.items) <= MaxPlanned

(* _plan_fingerprint: nothing has changed since the plan was made. *)
SlipUnchanged(p, q) == DOMAIN p.items = DOMAIN q.items   \* amounts not compared
Unchanged(p, q) == p = q

(* _post_commit_verified *)
Verified(p, items) ==
  Eligible(p) /\ \A s \in DOMAIN items : s \in DOMAIN p.moved /\ p.moved[s] = items[s]

-----------------------------------------------------------------------------
(* A run of the script. *)

Event == events < MaxEvents /\ events' = events + 1

(* A report; only what was written is remembered of the plans. *)
Report(m, mode) ==
  IF run[m].wrote THEN [run[m] EXCEPT !.pc = "done", !.mode = mode, !.seen = Unread]
  ELSE [Fresh EXCEPT !.pc = "done", !.mode = mode]

Start(m) ==
  /\ run[m].pc = "idle"
  /\ \E a \in BOOLEAN :
       run' = [run EXCEPT ![m] = [Fresh EXCEPT !.pc = "users", !.apply = a, !.asof = now]]
  /\ UNCHANGED <<rows, holder, app, events, now>>

(* load_legacy_state: three queries, each with a snapshot of its own.  The *)
(* locked reading waits for the rows, and keeps them.                      *)
Locking(m) == run[m].phase = "locked"

SlipReadUsers(m) ==                            \* FOR UPDATE forgotten
  /\ run[m].pc = "users"
  /\ run' = [run EXCEPT ![m].pc = "packs", ![m].seen.balance = balance]
  /\ UNCHANGED <<rows, holder, app, events, now>>

ReadUsers(m) ==
  /\ run[m].pc = "users"
  /\ Locking(m) => holder = None
  /\ holder' = IF Locking(m) THEN m ELSE holder
  /\ run' = [run EXCEPT ![m].pc = "packs", ![m].seen.balance = balance]
  /\ UNCHANGED <<rows, app, events, now>>

ReadPacks(m) ==
  /\ run[m].pc = "packs"
  /\ run' = [run EXCEPT ![m].pc = "credits", ![m].seen.pack = pack]
  /\ UNCHANGED <<rows, holder, app, events, now>>

(* What follows the last query of each reading. *)
Planned(m, p) ==
  IF ~ run[m].apply THEN Report(m, "dry_run")
  ELSE IF ~ (WithinLimits(p) /\ Eligible(p)) THEN Report(m, "apply_refused")
  ELSE [run[m] EXCEPT !.phase = "locked", !.pc = "users", !.seen = Unread, !.first = p]

Rechecked(m, p) ==
  IF ~ Unchanged(p, run[m].first) THEN Report(m, "apply_refused")
  ELSE IF p.items = << >> THEN Report(m, "apply_noop")
  ELSE [run[m] EXCEPT !.pc = "transfer", !.seen = Unread, !.plan = p]

Reconciled(m, p) ==
  Report(m, IF Verified(p, run[m].plan.items) THEN "apply" ELSE "apply_indeterminate")

SlipRelease(m, x) == holder                    \* refused without a rollback
Release(m, x) == IF holder = m /\ x.pc = "done" THEN None ELSE holder

ReadCredits(m) ==
  /\ run[m].pc = "credits"
  /\ LET p == Plan([run[m].seen EXCEPT !.credit = credit], run[m].asof)
         x == CASE run[m].phase = "plan" -> Planned(m, p)
                [] run[m].phase = "locked" -> Rechecked(m, p)
                [] run[m].phase = "post" -> Reconciled(m, p)
     IN  /\ run' = [run EXCEPT ![m] = x]
         /\ holder' = Release(m, x)
  /\ UNCHANGED <<rows, app, events, now>>

(* A query, a grant or the flush fails; the rollback may fail as well. *)
Fail(m) ==
  /\ run[m].pc \in {"users", "packs", "credits", "transfer"}
  /\ Event
  /\ \E rolledBack \in BOOLEAN :
       run' = [run EXCEPT ![m] = Report(m,
                 IF ~ run[m].apply THEN "dry_run_failed"
                 ELSE IF run[m].phase = "post" \/ ~ rolledBack THEN "apply_indeterminate"
                 ELSE "apply_failed")]
  /\ holder' = IF holder = m THEN None ELSE holder
  /\ UNCHANGED <<rows, app, now>>

(* Sources retired and credits granted, as they stand in the database. *)
Moved(items) ==
  /\ balance' = [u \in Users |-> IF u \in DOMAIN items THEN 0 ELSE balance[u]]
  /\ pack' = [q \in Packs |->
                IF q \in DOMAIN items THEN [left |-> 0, status |-> "migrated"] ELSE pack[q]]
  /\ credit' = [s \in DOMAIN credit \cup DOMAIN items |->
                  IF s \in DOMAIN items THEN [original |-> items[s], left |-> items[s]]
                  ELSE credit[s]]

Commit(m) ==
  /\ run[m].pc = "transfer"
  /\ Moved(run[m].plan.items)
  /\ holder' = None
  /\ run' = [run EXCEPT ![m].phase = "post", ![m].pc = "users", ![m].wrote = TRUE]
  /\ UNCHANGED <<app, events, now>>

(* The commit raises: it may have been applied. *)
SlipCommitRaises(m) ==                         \* reported as a failure
  /\ run[m].pc = "transfer"
  /\ Event
  /\ holder' = None
  /\ \E applied \in BOOLEAN :
       /\ run' = [run EXCEPT ![m] =
                     IF applied THEN [@ EXCEPT !.pc = "done", !.wrote = TRUE, !.mode = "apply_failed"]
                     ELSE Report(m, "apply_failed")]
       /\ IF applied THEN Moved(run[m].plan.items) ELSE UNCHANGED rows
  /\ UNCHANGED <<app, now>>

CommitRaises(m) ==
  /\ run[m].pc = "transfer"
  /\ Event
  /\ holder' = None
  /\ \E applied \in BOOLEAN :
       /\ run' = [run EXCEPT ![m] =
                     IF applied THEN [@ EXCEPT !.pc = "done", !.wrote = TRUE, !.mode = "apply_indeterminate"]
                     ELSE Report(m, "apply_indeterminate")]
       /\ IF applied THEN Moved(run[m].plan.items) ELSE UNCHANGED rows
  /\ UNCHANGED <<app, now>>

Migrate(m) ==
  \/ ReadUsers(m) \/ ReadPacks(m) \/ ReadCredits(m) \/ Fail(m) \/ Commit(m) \/ CommitRaises(m)

-----------------------------------------------------------------------------
(* The application. *)

Unlocked == holder = None
PacksUnlocked == holder # None => run[holder].pc = "packs"

Changes ==
  /\ Event
  /\ UNCHANGED <<holder, run, now>>

(* What a debit of c cents may take from sources that hold left: all it    *)
(* can, in whatever order.                                                 *)
Takes(left, c) ==
  {t \in [DOMAIN left -> 0..c] :
     /\ \A s \in DOMAIN left : t[s] <= left[s]
     /\ SumFunction(t) <= c
     /\ SumFunction(t) < c => t = left}

Usable(u) ==
  [q \in Packs |-> IF Owner[q] = u /\ pack[q].status = "active" /\ Lasting(q)
                   THEN pack[q].left ELSE 0]

Spendable(u) == [s \in DOMAIN credit |-> IF UserOf(s) = u THEN credit[s].left ELSE 0]

(* debit_usage_cents, with the balance and the remainders of packs that    *)
(* the session holds: the packs, then the credits, then the balance.  What *)
(* it takes from is written, over whatever the row holds by now.  A stored *)
(* video job records its sources; one job is remembered, that took nothing *)
(* from the credits.                                                       *)
Spend(u, c, held, left, stored) ==
  \E p \in Takes(left, c) : \E k \in Takes(Spendable(u), c - SumFunction(p)) :
    LET b == c - SumFunction(p) - SumFunction(k)
        over == [q \in Packs |-> IF p[q] > 0 THEN left[q] - pack[q].left ELSE 0]
        unseen == SumFunction(over) + IF b > 0 THEN held - balance[u] ELSE 0
    IN  /\ stored => owed = [s \in Sources |-> 0] /\ SumFunction(k) = 0
        /\ pack' = [q \in Packs |->
                      [left |-> pack[q].left + over[q] - p[q],
                       status |-> IF p[q] > 0 /\ p[q] = left[q] THEN "depleted"
                                  ELSE pack[q].status]]
        /\ credit' = [s \in DOMAIN credit |-> [credit[s] EXCEPT !.left = @ - k[s]]]
        /\ balance' = IF b > 0 THEN [balance EXCEPT ![u] = held - b] ELSE balance
        /\ flow' = [flow EXCEPT ![u] = @ - c]
        /\ surplus' = [surplus EXCEPT ![u] = @ + unseen]
        /\ owed' = IF ~ stored THEN owed
                   ELSE [s \in Sources |-> IF s = u THEN b ELSE IF s \in Packs THEN p[s] ELSE 0]

(* The usage flush loads what it debits under the lock; the balance may    *)
(* become negative.                                                        *)
Debit(u) ==
  /\ Changes /\ Unlocked
  /\ \E c \in Amounts : Spend(u, c, balance[u], Usable(u), FALSE)
  /\ UNCHANGED <<recharge, video>>

Funds(u, held, left) == SumFunction(left) + SumFunction(Spendable(u)) + held

(* A video request loads the user when it is authorized ...                *)
LoadUser(u) ==
  /\ Changes /\ video.pc = "idle" /\ Funds(u, balance[u], Usable(u)) > 0
  /\ \E c \in Amounts :
       video' = [NoVideo EXCEPT !.pc = "loaded", !.user = u, !.cents = c, !.balance = balance[u]]
  /\ UNCHANGED <<rows, recharge, owed, flow, surplus>>

(* ... and the packs when it checks the price, before it asks the upstream.*)
AskVideo ==
  LET left == Usable(video.user) IN
  /\ video.pc = "loaded" /\ Funds(video.user, video.balance, left) >= video.cents
  /\ video' = [video EXCEPT !.pc = "asking", !.left = left]
  /\ UNCHANGED <<rows, holder, run, recharge, owed, flow, surplus, events, now>>

(* Of the packs that are usable in the database, the remainders that the   *)
(* session holds.                                                          *)
Seen(u) ==
  [q \in Packs |-> IF Usable(u)[q] > 0 /\ video.left[q] > 0 THEN video.left[q] ELSE Usable(u)[q]]

(* _charge_video_job_once: the balance must not become negative.  A task   *)
(* that has failed already is refunded in the same transaction, which      *)
(* leaves what Charge, Query and Refund leave one after the other.         *)
ChargeVideo ==
  /\ video.pc = "asking" /\ Unlocked
  /\ Funds(video.user, video.balance, Seen(video.user)) >= video.cents
  /\ \E stored \in BOOLEAN :
       Spend(video.user, video.cents, video.balance, Seen(video.user), stored)
  /\ video' = NoVideo
  /\ UNCHANGED <<recharge, holder, run, events, now>>

(* The job is looked up: the user is loaded and the upstream asked.        *)
QueryVideo(u) ==
  /\ Changes /\ video.pc = "idle"
  /\ \E s \in Sources : owed[s] > 0 /\ UserOf(s) = u
  /\ video' = [NoVideo EXCEPT !.pc = "querying", !.user = u, !.balance = balance[u]]
  /\ UNCHANGED <<rows, recharge, owed, flow, surplus>>

(* _refund_failed_job_once: back to the sources the job recorded, to the   *)
(* balance that was loaded; only a depleted pack becomes active again.     *)
Refund ==
  LET u == video.user IN
  /\ video.pc = "querying" /\ Unlocked
  /\ \A q \in Packs : owed[q] > 0 => pack[q].left + owed[q] <= Original[q]
  /\ balance' = IF owed[u] > 0 THEN [balance EXCEPT ![u] = video.balance + owed[u]] ELSE balance
  /\ pack' = [q \in Packs |->
                [left |-> pack[q].left + owed[q],
                 status |-> IF pack[q].status = "depleted" /\ owed[q] > 0 THEN "active"
                            ELSE pack[q].status]]
  /\ flow' = [flow EXCEPT ![u] = @ + SumFunction(owed)]
  /\ surplus' = IF owed[u] > 0 THEN [surplus EXCEPT ![u] = @ + video.balance - balance[u]]
                ELSE surplus
  /\ owed' = [s \in Sources |-> 0]
  /\ video' = NoVideo
  /\ UNCHANGED <<credit, recharge, holder, run, events, now>>

(* The request is refused or fails, or the job has not failed.             *)
EndVideo ==
  /\ video.pc # "idle"
  /\ video' = NoVideo
  /\ UNCHANGED <<rows, holder, run, recharge, owed, flow, surplus, events, now>>

VideoJob == AskVideo \/ ChargeVideo \/ Refund \/ EndVideo

(* recharge_user, redeem_code, a referral bonus, update_user: the balance  *)
(* is read without a lock ...                                              *)
ReadForRecharge(u) ==
  /\ Changes /\ recharge.user = None
  /\ recharge' = [user |-> u, read |-> balance[u]]
  /\ UNCHANGED <<rows, video, owed, flow, surplus>>

(* ... and written when the row is free, with what it gains, or loses by   *)
(* an operator's edit.                                                     *)
WriteRecharge ==
  /\ recharge.user # None /\ Unlocked
  /\ LET u == recharge.user
     IN  \E c \in Amounts : \E d \in {c, -c} :
           /\ balance' = [balance EXCEPT ![u] = recharge.read + d]
           /\ flow' = [flow EXCEPT ![u] = @ + d]
           /\ surplus' = [surplus EXCEPT ![u] = @ + recharge.read - balance[u]]
  /\ recharge' = [user |-> None, read |-> 0]
  /\ UNCHANGED <<pack, credit, video, owed, holder, run, events, now>>

(* update_traffic_pack: the operator sets a pack's status under its lock. *)
SetStatus(q) ==
  /\ Changes /\ PacksUnlocked
  /\ \E st \in {"active", "disabled"} \ {pack[q].status} :
       pack' = [pack EXCEPT ![q].status = st]
  /\ UNCHANGED <<balance, credit, app>>

Tick ==
  /\ now < LastTime
  /\ now' = now + 1
  /\ UNCHANGED <<rows, holder, run, app, events>>

Application ==
  \/ \E u \in Users : Debit(u) \/ LoadUser(u) \/ QueryVideo(u) \/ ReadForRecharge(u)
  \/ WriteRecharge \/ VideoJob
  \/ \E q \in Packs : SetStatus(q)

Next ==
  \/ \E m \in Runs : Start(m) \/ Migrate(m)
  \/ Application
  \/ Tick

Spec == Init /\ [][Next]_vars

-----------------------------------------------------------------------------
(* Properties. *)

TypeOK ==
  /\ balance \in [Users -> Int]
  /\ pack \in [Packs -> [left : Int, status : {"active", "depleted", "disabled", "migrated"}]]
  /\ DOMAIN credit \subseteq Sources
  /\ holder \in Runs \cup {None}

(* A user's balance, packs and credits together hold what came in less     *)
(* what was spent, whatever the runs do and whenever they fail: a          *)
(* migration neither loses nor duplicates a cent.  What remains is the     *)
(* surplus: what recharges and video jobs wrote over changes they had not  *)
(* seen, the migration's among them.                                       *)
Held(u) ==
  LET mine == {s \in Sources : UserOf(s) = u}
  IN  balance[u] + SumFunctionOnSet([q \in Packs |-> pack[q].left], mine \cap Packs)
        + SumFunctionOnSet([s \in DOMAIN credit |-> credit[s].left], mine \cap DOMAIN credit)

ValueConserved == \A u \in Users : Held(u) = flow[u] + surplus[u]

(* A run moves what its first, unlocked plan said, to the cent, within its *)
(* limits: whatever happened between the plan and the locks makes it       *)
(* refuse.                                                                 *)
MovesWhatWasPlanned ==
  \A m \in Runs : run[m].wrote =>
    /\ run[m].plan.items = run[m].first.items
    /\ Cardinality(DOMAIN run[m].plan.items) <= MaxPlanned
    /\ \A s \in DOMAIN run[m].plan.items :
         s \in DOMAIN credit /\ credit[s].original = run[m].first.items[s]

(* The mode a run reports can be relied upon: a refused, failed or dry run *)
(* wrote nothing, one that reports success wrote its whole plan, and what  *)
(* was written is never reported as a failure.                             *)
ReportTruthful ==
  \A m \in Runs :
    /\ run[m].wrote => run[m].mode \in {"none", "apply", "apply_indeterminate"}
    /\ run[m].mode = "apply" => run[m].wrote

(* A migration can be trusted: what it moves, what it leaves, and what it  *)
(* says of both.                                                           *)
MigrationSound == ValueConserved /\ MovesWhatWasPlanned /\ ReportTruthful

(* What the script takes for granted of a pack it has retired              *)
(* ("migrated_pack_not_retired" is an error of the plan): it stays empty.  *)
RetiredStaysEmpty == \A q \in Packs : pack[q].status = "migrated" => pack[q].left = 0
=============================================================================
