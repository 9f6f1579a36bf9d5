---------------------------- MODULE CreditWallet ----------------------------
(***************************************************************************)
(* The funds of one user: the debit waterfall of app/billing.py over a     *)
(* monthly subscription, traffic packs, permanent credit batches           *)
(* (app/credit_wallet.py) and the scalar balance, with its three users:    *)
(* the usage flush, request authorization (app/proxy.py) and video jobs    *)
(* (app/video_jobs.py), which charge before they are stored and refund     *)
(* when the upstream task fails.                                           *)
(*                                                                         *)
(* A transaction that debits or refunds locks the user's row first, so it  *)
(* is one action.  What makes requests interact is what their sessions     *)
(* loaded before that lock and still use after it: SELECT ... FOR UPDATE   *)
(* does not refresh an object the session holds, and an UPDATE writes the  *)
(* attributes whose value differs from the one that was loaded.            *)
(***************************************************************************)
EXTENDS Integers, Sequences, FiniteSets, Functions

CONSTANTS
  Sessions,
  Jobs, Price,              \* video jobs and their charged_cents
  Quota, PaidUntil,         \* cents per period; the first unpaid period
  PackCents, PackEnd,       \* sequences: original_cents, the period of expiry
  OpeningCredit, OpeningBalance,
  Costs, MaxFlushes,        \* costs of usage flushes; bound on their number
  LastPeriod,               \* bound: the last period that begins
  Reserved,                 \* pending_cost_cents of the usage buffer
  Entrances,
  None

WalletAssumption ==
  /\ Price \in [Jobs -> Nat \ {0}] /\ Costs \subseteq Nat \ {0}
  /\ Reserved \subseteq Nat /\ Quota \in Nat /\ OpeningBalance \in Int
  /\ PackCents \in Seq(Nat) /\ PackEnd \in [DOMAIN PackCents -> Nat]
  /\ OpeningCredit \in Seq(Nat)
  /\ PaidUntil \in Nat /\ LastPeriod \in Nat /\ MaxFlushes \in Nat
  /\ IsFiniteSet(Jobs) /\ None \notin Jobs

VARIABLES
  now,       \* the current period of the subscription
  wallet,    \* the rows: [sub, pack, credit, balance]
  spent,     \* allocations of usage flushes, per credit batch
  job,       \* video_jobs rows with the debits they record
  sess,      \* what each session holds
  flushes

vars == <<now, wallet, spent, job, sess, flushes>>

Idle == [pc |-> "idle", job |-> None]
NoJob == [state |-> "none"]

(* A row of the subscription that began with period 0, full packs, full    *)
(* batches.                                                                *)
Init ==
  /\ now = 0
  /\ wallet = [sub |-> [start |-> 0, used |-> 0],
               pack |-> PackCents,
               credit |-> [i \in DOMAIN OpeningCredit |->
                             [original |-> OpeningCredit[i], left |-> OpeningCredit[i]]],
               balance |-> OpeningBalance]
  /\ spent = [i \in DOMAIN OpeningCredit |-> 0]
  /\ job = [j \in Jobs |-> NoJob]
  /\ sess = [s \in Sessions |-> Idle]
  /\ flushes = 0

-----------------------------------------------------------------------------
(* Slips: plausible errors, each put in place of the operator it is named  *)
(* after to see that a property fails.                                     *)

AtMost(x, y) == IF x < y THEN x ELSE y
AtLeast0(x) == IF x < 0 THEN 0 ELSE x

SlipTakeInOrder(left, amount) ==               \* newest first
  [i \in DOMAIN left |->
     AtMost(left[i], AtLeast0(amount - SumFunctionOnSet(left, {k \in DOMAIN left : k > i})))]
SlipTerminal(j) == FALSE                       \* state not read under the lock
SlipPoolGone(x, at) == FALSE                   \* refund into any period
SlipRestored(credit, d) == credit              \* credit allocations forgotten
SlipRefundFails(o, w, d) == FALSE              \* bounds of a refund not checked

-----------------------------------------------------------------------------
(* Availability. *)

(* project_subscription_period: roll over to the current period. *)
Project(x) ==
  IF now < PaidUntil /\ x.start + 1 <= now THEN [start |-> now, used |-> 0] ELSE x

SubFree(x) == IF now < PaidUntil THEN AtLeast0(Quota - Project(x).used) ELSE 0

ActivePack(i) == wallet.pack[i] > 0 /\ now < PackEnd[i]

(* Packs that are active in the database, with the remainders of the       *)
(* objects the session holds.                                              *)
PacksSeen(o) ==
  [i \in DOMAIN PackCents |->
     IF ~ ActivePack(i) THEN 0 ELSE IF o.pack[i] > 0 THEN o.pack[i] ELSE wallet.pack[i]]

CreditLeft(w) == [i \in DOMAIN w.credit |-> w.credit[i].left]

(* get_available_balance_cents, and the precheck of debit_usage_cents. *)
Funds(o) ==
  SubFree(o.sub) + SumFunction(PacksSeen(o)) + SumFunction(CreditLeft(wallet)) + o.balance

(* Objects as fresh as the rows. *)
Rows == [sub |-> wallet.sub, pack |-> wallet.pack, balance |-> wallet.balance]

-----------------------------------------------------------------------------
(* Debit and refund. *)

(* The oldest first: what the amount leaves after the earlier ones. *)
TakeInOrder(left, amount) ==
  [i \in DOMAIN left |->
     AtMost(left[i], AtLeast0(amount - SumFunctionOnSet(left, {k \in DOMAIN left : k < i})))]

(* What debit_usage_cents takes from each source, for the objects o, and   *)
(* when.                                                                   *)
Split(o, amount) ==
  LET s == AtMost(SubFree(o.sub), amount)
      p == TakeInOrder(PacksSeen(o), amount - s)
      c == TakeInOrder(CreditLeft(wallet), amount - s - SumFunction(p))
  IN  [sub |-> s, pack |-> p, credit |-> c,
       legacy |-> amount - s - SumFunction(p) - SumFunction(c), at |-> now]

(* UPDATE writes an attribute only if it was changed since it was loaded. *)
Written(row, loaded, new) == IF new = loaded THEN row ELSE new

SubAfter(o, d) == [Project(o.sub) EXCEPT !.used = @ + d.sub]

Debit(o, d) ==
  [sub |-> [start |-> Written(wallet.sub.start, o.sub.start, SubAfter(o, d).start),
            used |-> Written(wallet.sub.used, o.sub.used, SubAfter(o, d).used)],
   pack |-> [i \in DOMAIN PackCents |->
               IF d.pack[i] > 0 THEN PacksSeen(o)[i] - d.pack[i] ELSE wallet.pack[i]],
   credit |-> [i \in DOMAIN wallet.credit |-> [wallet.credit[i] EXCEPT !.left = @ - d.credit[i]]],
   balance |-> IF d.legacy > 0 THEN o.balance - d.legacy ELSE wallet.balance]

(* The objects after the debit. *)
ObjectsAfter(o, d) ==
  [sub |-> SubAfter(o, d),
   pack |-> [i \in DOMAIN PackCents |-> PacksSeen(o)[i] - d.pack[i]],
   balance |-> o.balance - d.legacy]

(* _subscription_pool_unavailable_for_refund *)
PoolGone(x, at) == now >= PaidUntil \/ x.start > at \/ x.start + 1 <= now

(* refund_credit_allocations *)
Restored(credit, d) ==
  [i \in DOMAIN credit |->
     IF i \in DOMAIN d.credit THEN [credit[i] EXCEPT !.left = @ + d.credit[i]] ELSE credit[i]]

(* BillingError: a debit that does not fit back. *)
RefundFails(o, w, d) ==
  \/ d.sub > 0 /\ ~ PoolGone(o.sub, d.at) /\ o.sub.used < d.sub
  \/ \E i \in DOMAIN PackCents : d.pack[i] > 0 /\ o.pack[i] + d.pack[i] > PackCents[i]
  \/ \E i \in DOMAIN d.credit : w.credit[i].left + d.credit[i] > w.credit[i].original

(* _refund_failed_job_once, on the rows w: what went to a period that is   *)
(* over comes back as a new batch of permanent credit.                     *)
Refund(w, o, d) ==
  LET toCredit == d.sub > 0 /\ PoolGone(o.sub, d.at) IN
  [sub |-> IF d.sub > 0 /\ ~ toCredit
             THEN [w.sub EXCEPT !.used = AtLeast0(o.sub.used - d.sub)] ELSE w.sub,
   pack |-> [i \in DOMAIN PackCents |->
               IF d.pack[i] > 0 THEN o.pack[i] + d.pack[i] ELSE w.pack[i]],
   credit |-> IF toCredit THEN Append(Restored(w.credit, d), [original |-> d.sub, left |-> d.sub])
                          ELSE Restored(w.credit, d),
   balance |-> IF d.legacy > 0 THEN o.balance + d.legacy ELSE w.balance]

(* New batches have no allocations yet. *)
Extended(s, w) == [i \in DOMAIN w.credit |-> IF i \in DOMAIN s THEN s[i] ELSE 0]

-----------------------------------------------------------------------------
(* Time and the usage flush. *)

Tick ==
  /\ now < LastPeriod
  /\ now' = now + 1
  /\ UNCHANGED <<wallet, spent, job, sess, flushes>>

(* flush_once: a session of its own, the balance may become negative. *)
Flush(c) ==
  LET d == Split(Rows, c) IN
  /\ "flush" \in Entrances /\ flushes < MaxFlushes
  /\ flushes' = flushes + 1
  /\ wallet' = Debit(Rows, d)
  /\ spent' = [i \in DOMAIN spent |-> spent[i] + d.credit[i]]
  /\ UNCHANGED <<now, job, sess>>

-----------------------------------------------------------------------------
(* Requests. *)

Close(s) == sess' = [sess EXCEPT ![s] = Idle]

(* authorize_request: the user and the funds are read in one snapshot, for  *)
(* a request that creates a video job or another one (None); the           *)
(* subscription that was read is normalized in memory.                     *)
Load(s, j) ==
  /\ sess[s].pc = "idle"
  /\ IF j = None THEN "authorize" \in Entrances
                 ELSE /\ "create" \in Entrances /\ job[j].state = "none"
                      /\ \A t \in Sessions : sess[t].job # j
  /\ \E r \in Reserved : Funds(Rows) > r
  /\ sess' = [sess EXCEPT ![s] = [pc |-> "loaded", job |-> j, balance |-> wallet.balance,
                                  sub |-> wallet.sub, normal |-> Project(wallet.sub)]]
  /\ UNCHANGED <<now, wallet, spent, job, flushes>>

(* _mark_api_key_used commits the normalized subscription.  The objects of *)
(* the funds are dropped, the user stays in the session.                   *)
Authorize(s) ==
  LET o == sess[s] IN
  /\ o.pc = "loaded"
  /\ wallet' = [wallet EXCEPT !.sub = [start |-> Written(@.start, o.sub.start, o.normal.start),
                                       used |-> Written(@.used, o.sub.used, o.normal.used)]]
  /\ IF o.job = None
       THEN Close(s)
       ELSE sess' = [sess EXCEPT ![s] = [pc |-> "authorized", job |-> o.job,
                                         balance |-> o.balance]]
  /\ UNCHANGED <<now, spent, job, flushes>>

(* Subscription and packs are read again, and held while the upstream is   *)
(* asked if the funds cover the price.                                     *)
Ask(s) ==
  LET o == [pc |-> "asking", job |-> sess[s].job, balance |-> sess[s].balance,
            sub |-> wallet.sub,
            pack |-> [i \in DOMAIN PackCents |-> IF ActivePack(i) THEN wallet.pack[i] ELSE 0]]
  IN
  /\ sess[s].pc = "authorized"
  /\ \E r \in Reserved : Funds(o) - r >= Price[o.job]
  /\ sess' = [sess EXCEPT ![s] = o]
  /\ UNCHANGED <<now, wallet, spent, job, flushes>>

(* The request ends with an error: a limit, 402, the upstream's refusal.   *)
Refuse(s) ==
  /\ sess[s].pc \in {"loaded", "authorized", "asking"}
  /\ Close(s)
  /\ UNCHANGED <<now, wallet, spent, job, flushes>>

(* The precheck of debit_usage_cents, with allow_negative_legacy = False. *)
Covers(o, amount) == \E r \in Reserved : Funds(o) - r >= amount

(* _charge_video_job_once: the row of the user is locked, what the session *)
(* holds of the user and the funds is what is debited.                     *)
ChargeOnce(o) == Split(o, Price[o.job])

(* The upstream has accepted the task: charge, store the job, and refund   *)
(* at once if the task has failed already.                                 *)
Charge(s, state) ==
  LET o == sess[s]
      d == ChargeOnce(o)
      charged == Debit(o, d)
      final == IF state = "failed" THEN Refund(charged, ObjectsAfter(o, d), d) ELSE charged
  IN
  /\ o.pc = "asking" /\ Covers(o, Price[o.job])
  /\ wallet' = final
  /\ spent' = Extended(spent, final)
  /\ job' = [job EXCEPT ![o.job] =
               [state |-> state, debit |-> d,
                refunded |-> IF state = "failed" THEN Price[o.job] ELSE 0]]
  /\ Close(s)
  /\ UNCHANGED <<now, flushes>>

(* GET of a job that was not in a terminal state: the user and the job are *)
(* loaded, the upstream is asked.                                          *)
Query(s, j) ==
  /\ "refresh" \in Entrances /\ sess[s].pc = "idle" /\ job[j].state = "open"
  /\ sess' = [sess EXCEPT ![s] = [pc |-> "querying", job |-> j, balance |-> wallet.balance]]
  /\ UNCHANGED <<now, wallet, spent, job, flushes>>

(* The job is read again under its lock. *)
Terminal(j) == job[j].state \in {"completed", "failed"}

(* The upstream has answered "completed", or nothing that ends the job. *)
Answered(s, state) ==
  LET j == sess[s].job IN
  /\ sess[s].pc = "querying"
  /\ job' = IF Terminal(j) THEN job ELSE [job EXCEPT ![j].state = state]
  /\ Close(s)
  /\ UNCHANGED <<now, wallet, spent, flushes>>

(* The upstream has answered that the task failed. *)
Failed(s) ==
  LET j == sess[s].job
      d == job[j].debit
      o == [Rows EXCEPT !.balance = sess[s].balance]
      refunded == Refund(wallet, o, d)
  IN
  /\ sess[s].pc = "querying"
  /\ Close(s)
  /\ IF Terminal(j) \/ RefundFails(o, wallet, d)
       THEN UNCHANGED <<wallet, spent, job>>
       ELSE /\ wallet' = refunded
            /\ spent' = Extended(spent, refunded)
            /\ job' = [job EXCEPT ![j].state = "failed", ![j].refunded = @ + Price[j]]
  /\ UNCHANGED <<now, flushes>>

Next ==
  \/ Tick
  \/ \E c \in Costs : Flush(c)
  \/ \E s \in Sessions, j \in Jobs \cup {None} : Load(s, j)
  \/ \E s \in Sessions, j \in Jobs : Query(s, j)
  \/ \E s \in Sessions : \/ Authorize(s) \/ Ask(s) \/ Refuse(s) \/ Failed(s)
                         \/ \E state \in {"open", "completed", "failed"} : Charge(s, state)
                         \/ \E state \in {"open", "completed"} : Answered(s, state)

Spec == Init /\ [][Next]_vars

-----------------------------------------------------------------------------
Stored == {j \in Jobs : job[j].state # "none"}

(* The rows within their columns' checks (ck_credit_balances_..., packs    *)
(* within original_cents, usage within the quota).                         *)
TypeOK ==
  /\ now \in 0 .. LastPeriod
  /\ wallet.sub.start \in 0 .. LastPeriod /\ wallet.sub.used \in 0 .. Quota
  /\ \A i \in DOMAIN PackCents : wallet.pack[i] \in 0 .. PackCents[i]
  /\ \A i \in DOMAIN wallet.credit : wallet.credit[i].left \in 0 .. wallet.credit[i].original
  /\ wallet.balance \in Int
  /\ DOMAIN spent = DOMAIN wallet.credit
  /\ \A j \in Jobs : job[j].state \in {"none", "open", "completed", "failed"}
  /\ \A s \in Sessions : sess[s].pc \in {"idle", "loaded", "authorized", "asking", "querying"}
  /\ flushes \in 0 .. MaxFlushes

(* Every cent of a permanent batch is left in it, or allocated to a flush, *)
(* or to a video job that was not refunded: allocations are neither lost   *)
(* nor given back twice (credit_wallet.debit_credit_batches and            *)
(* refund_credit_allocations).                                             *)
Allocated(j, i) ==
  IF j \in Stored /\ job[j].refunded = 0 /\ i \in DOMAIN job[j].debit.credit
    THEN job[j].debit.credit[i] ELSE 0

CreditConserved ==
  \A i \in DOMAIN wallet.credit :
    wallet.credit[i].original =
      wallet.credit[i].left + spent[i] + SumFunction([j \in Jobs |-> Allocated(j, i)])

(* A failed job is refunded its price, once, whoever asks for it and how   *)
(* often; no other job is refunded anything (_refund_failed_job_once).     *)
RefundedExactly ==
  \A j \in Stored : job[j].refunded = IF job[j].state = "failed" THEN Price[j] ELSE 0

(* The wallet's books balance: credit is neither lost nor duplicated, and  *)
(* a refund gives back what was taken, whatever debits, flushes and        *)
(* refunds run at the same time.                                           *)
WalletBalances == CreditConserved /\ RefundedExactly

(* The order of the sources (baseline document, lines 25-30), in what is   *)
(* left of them: a step that takes from a batch of credit leaves nothing   *)
(* in an older batch or in an active pack, and one that takes from the     *)
(* scalar balance leaves nothing in either, even if a session's view of    *)
(* the packs is out of date.                                               *)
Drained(batches) ==
  /\ \A i \in batches : wallet'.credit[i].left = 0
  /\ \A i \in DOMAIN PackCents : ActivePack(i) => wallet'.pack[i] = 0

Refunding == \E j \in Jobs : job'[j].state = "failed" /\ job[j].state # "failed"

DebitOrder ==
  [][/\ \A k \in DOMAIN wallet.credit :
          wallet'.credit[k].left < wallet.credit[k].left => Drained(1 .. k - 1)
     /\ wallet'.balance < wallet.balance /\ ~ Refunding => Drained(DOMAIN wallet.credit)]_vars

(* The refund of a job that was charged in an earlier period leaves the    *)
(* usage of the current period alone (baseline document,                   *)
(* _subscription_pool_unavailable_for_refund).                             *)
RefundSparesNewPeriod ==
  [][\A j \in Stored : job'[j].refunded > job[j].refunded /\ job[j].debit.at < now
       => wallet'.sub = wallet.sub]_vars

(* Whatever a session has loaded before: the sources of a debit in their   *)
(* order, and a refund to where the charge came from.                      *)
SourcesInOrder == DebitOrder /\ RefundSparesNewPeriod
=============================================================================
