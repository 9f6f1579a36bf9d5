--------------------------- MODULE PaymentConfirm ---------------------------
(***************************************************************************)
(* Confirmation of recharge orders (app/payment_common.py), reached from   *)
(* the gateway's callback (app/webhook.py), the buyer's browser            *)
(* (app/payment.py) and the reconcile loop (app/reconcile.py).             *)
(*                                                                         *)
(* Every session is one SQLAlchemy session on one REPEATABLE READ          *)
(* transaction of MySQL.  Three things of that stack decide what the code  *)
(* computes and are therefore part of the model:                           *)
(*   - SELECT ... FOR UPDATE waits for the row lock and reads the latest   *)
(*     committed row, but returns the object that the session already      *)
(*     holds for that row with the attributes it was loaded with: "seen";  *)
(*   - a plain SELECT reads the snapshot that the first plain SELECT of    *)
(*     the transaction created, "view", and what the session wrote itself; *)
(*   - locks, snapshot and writes end with COMMIT or ROLLBACK, not with    *)
(*     the call: the confirmations that a session has flushed and not yet  *)
(*     committed are "unsaved", and the next COMMIT of the session, though *)
(*     it be for another order, commits them too.                          *)
(* The other sessions see what a transaction wrote when it commits.        *)
(***************************************************************************)
EXTENDS Naturals, FiniteSets

CONSTANTS
  Orders,         \* order numbers, in the order of created_at
  Users,
  Sessions,       \* database sessions: requests and reconcile rounds
  Owner,          \* Owner[o]: the user that created order o
  Referrer,       \* Referrer[u]: users.referred_by, or None
  StationOrders,  \* orders that carry a station_id snapshot
  Malformed,      \* orders without a valid frozen credit commitment
  TradeOf,        \* TradeOf[o]: the gateway's trade_no for order o
  LegacyUsers,    \* users without a finance summary row
  MaxRewards,     \* settings.referral_max_rewards_per_user, 0 = no limit
  BatchLimit,     \* reconcile_once(max_orders)
  Entrances,      \* which entry points are used
  None

ASSUME OrdersAssumption == Orders \subseteq Nat /\ IsFiniteSet(Orders)
ASSUME OwnerAssumption == Owner \in [Orders -> Users]
ASSUME ReferrerAssumption ==
  /\ Referrer \in [Users -> Users \cup {None}]
  /\ None \notin Users
ASSUME SessionsAssumption == None \notin Sessions /\ None \notin Orders
ASSUME LimitsAssumption == MaxRewards \in Nat /\ BatchLimit \in Nat \ {0}
ASSUME SetsAssumption ==
  /\ StationOrders \subseteq Orders
  /\ Malformed \subseteq Orders
  /\ LegacyUsers \subseteq Users
  /\ Entrances \subseteq {"callback", "confirm", "reconcile"}

VARIABLES
  status,      \* payment_orders.status, "none" before the row exists
  credited,    \* credit batches whose source is the order
  commission,  \* orders with a station commission entry
  bonus,       \* orders with a first-purchase bonus for the buyer
  reward,      \* orders with a purchase commission for the referrer
  finance,     \* user_finance_summary.total_paid_orders
  summaries,   \* users with an initialized finance summary row
  paid,        \* orders the gateway has been paid for
  orderLock, userLock,            \* row locks: the session that holds them
  unsaved,     \* per session: the orders whose confirmation it has
               \* flushed in the open transaction
  pc, via, ord, seen, view, todo  \* per session

db == <<status, credited, commission, bonus, reward, finance, summaries>>
locks == <<orderLock, userLock>>
session == <<pc, via, ord, seen, view, unsaved, todo>>
vars == <<db, paid, locks, session>>

PCs == {"idle", "next", "query", "lockOrder", "lockUser", "decide",
        "lockReferrer", "apply"}

OrdersOf(u) == {o \in Orders : Owner[o] = u}
Confirmed == {o \in Orders : status[o] = "confirmed"}
Pending == {o \in Orders : status[o] = "pending"}

(* The committed rows a plain SELECT of this transaction will see. *)
Snapshot ==
  [confirmed |-> Confirmed, commission |-> commission, bonus |-> bonus,
   reward |-> reward, summaries |-> summaries]

Init ==
  /\ status = [o \in Orders |-> "none"]
  /\ credited = [o \in Orders |-> 0]
  /\ commission = {} /\ bonus = {} /\ reward = {} /\ paid = {}
  /\ finance = [u \in Users |-> 0]
  /\ summaries = Users \ LegacyUsers
  /\ orderLock = [o \in Orders |-> None]
  /\ userLock = [u \in Users |-> None]
  /\ pc = [s \in Sessions |-> "idle"]
  /\ via = [s \in Sessions |-> None]
  /\ ord = [s \in Sessions |-> None]
  /\ seen = [s \in Sessions |-> None]
  /\ view = [s \in Sessions |-> None]
  /\ unsaved = [s \in Sessions |-> {}]
  /\ todo = [s \in Sessions |-> {}]

-----------------------------------------------------------------------------
(* Slips: operators of this module with a plausible error in the code.     *)
(* Each is used in place of the correct one to see that a property fails.  *)

SlipOrderFound(o) == o \in Orders              \* no 404
SlipTradeSuccess(o) == TRUE                    \* any answer counts as paid
SlipStatusRead(s, o) == "pending"              \* no status check
SlipUserFree(s, u) == TRUE                     \* user read without FOR UPDATE
SlipGranted(S) ==                              \* batch source not unique
  [o \in Orders |-> IF o \in S THEN credited[o] + 1 ELSE credited[o]]
SlipLacksCommission(o, v) == FALSE             \* no entry on confirmation
SlipDuplicateTrade(o, v) == FALSE              \* trade_no not checked
SlipEarnsReward(o, v) ==                       \* reward count not checked
  Referrer[Owner[o]] # None /\ o \notin v.reward

-----------------------------------------------------------------------------
(* How a session goes on. *)

Goto(s, label) == pc' = [pc EXCEPT ![s] = label]

ReleaseLocks(s) ==
  /\ orderLock' = [o \in Orders |-> IF orderLock[o] = s THEN None ELSE orderLock[o]]
  /\ userLock' = [u \in Users |-> IF userLock[u] = s THEN None ELSE userLock[u]]

(* get_db and "async with SessionLocal()" close the session: what was not  *)
(* committed is rolled back.                                               *)
CloseSession(s) ==
  /\ Goto(s, "idle")
  /\ ReleaseLocks(s)
  /\ via' = [via EXCEPT ![s] = None]
  /\ ord' = [ord EXCEPT ![s] = None]
  /\ seen' = [seen EXCEPT ![s] = None]
  /\ view' = [view EXCEPT ![s] = None]
  /\ unsaved' = [unsaved EXCEPT ![s] = {}]
  /\ todo' = [todo EXCEPT ![s] = {}]

SlipNextOrder(s, txnEnded) == CloseSession(s)  \* an error ends the round

(* reconcile_once goes on to its next order in the same session; the       *)
(* transaction is still open, with its locks, its snapshot and what it has *)
(* written, unless the call committed or rolled back.                      *)
NextOrder(s, txnEnded) ==
  /\ Goto(s, "next")
  /\ ord' = [ord EXCEPT ![s] = None]
  /\ seen' = [seen EXCEPT ![s] = None]
  /\ IF txnEnded
       THEN /\ ReleaseLocks(s)
            /\ view' = [view EXCEPT ![s] = None]
            /\ unsaved' = [unsaved EXCEPT ![s] = {}]
       ELSE UNCHANGED <<orderLock, userLock, view, unsaved>>
  /\ UNCHANGED <<via, todo>>

Return(s, txnEnded) ==
  IF via[s] = "reconcile" THEN NextOrder(s, txnEnded) ELSE CloseSession(s)

-----------------------------------------------------------------------------
(* Orders are created by the buyer and paid at the gateway. *)

CreateOrder(o) ==
  /\ status[o] = "none"
  /\ \A p \in Orders : p < o => status[p] # "none"
  /\ status' = [status EXCEPT ![o] = "pending"]
  /\ UNCHANGED <<credited, commission, bonus, reward, finance, summaries,
                 paid, locks, session>>

Pay(o) ==
  /\ status[o] = "pending" /\ o \notin paid
  /\ paid' = paid \cup {o}
  /\ UNCHANGED <<db, locks, session>>

-----------------------------------------------------------------------------
(* The entry points. *)

(* A signed success callback, delivered any number of times, or the same   *)
(* parameters through the gateway's return URL.                            *)
CallbackBegin(s, o) ==
  /\ "callback" \in Entrances /\ pc[s] = "idle" /\ o \in paid
  /\ Goto(s, "lockOrder")
  /\ via' = [via EXCEPT ![s] = "callback"]
  /\ ord' = [ord EXCEPT ![s] = o]
  /\ UNCHANGED <<db, paid, locks, seen, view, unsaved, todo>>

(* The order row exists, else the answer is 404. *)
OrderFound(o) == status[o] # "none"

(* The buyer's browser: the order is loaded before the gateway is asked,   *)
(* unless it is confirmed already or a signed proof comes with the request.*)
ConfirmBegin(s, o) ==
  /\ "confirm" \in Entrances /\ pc[s] = "idle" /\ OrderFound(o)
  /\ \/ Goto(s, "lockOrder") /\ (status[o] = "confirmed" \/ o \in paid)
     \/ Goto(s, "query") /\ status[o] # "confirmed"
  /\ via' = [via EXCEPT ![s] = "confirm"]
  /\ ord' = [ord EXCEPT ![s] = o]
  /\ seen' = [seen EXCEPT ![s] = status[o]]
  /\ view' = [view EXCEPT ![s] = Snapshot]
  /\ UNCHANGED <<db, paid, locks, unsaved, todo>>

(* The oldest pending orders, at most BatchLimit of them. *)
OldestPending ==
  {o \in Pending : Cardinality({p \in Pending : p < o}) < BatchLimit}

ReconcileBegin(s) ==
  /\ "reconcile" \in Entrances /\ pc[s] = "idle" /\ Pending # {}
  /\ Goto(s, "next")
  /\ via' = [via EXCEPT ![s] = "reconcile"]
  /\ todo' = [todo EXCEPT ![s] = OldestPending]
  /\ view' = [view EXCEPT ![s] = Snapshot]
  /\ UNCHANGED <<db, paid, locks, ord, seen, unsaved>>

ReconcileNext(s) ==
  /\ pc[s] = "next"
  /\ \E o \in todo[s] :
       /\ \A p \in todo[s] : o <= p
       /\ ord' = [ord EXCEPT ![s] = o]
       /\ todo' = [todo EXCEPT ![s] = @ \ {o}]
  /\ Goto(s, "query")
  /\ UNCHANGED <<db, paid, locks, via, seen, view, unsaved>>

ReconcileEnd(s) ==
  /\ pc[s] = "next" /\ todo[s] = {}
  /\ CloseSession(s)
  /\ UNCHANGED <<db, paid>>

(* query_epay_order: status 1 or TRADE_SUCCESS, with trade_no and money. *)
TradeSuccess(o) == o \in paid

GatewayPaid(s) ==
  /\ pc[s] = "query" /\ TradeSuccess(ord[s])
  /\ Goto(s, "lockOrder")
  /\ UNCHANGED <<db, paid, locks, via, ord, seen, view, unsaved, todo>>

(* It is not paid, or the gateway fails: HTTPException, nothing was locked. *)
GatewayRefuses(s) ==
  /\ pc[s] = "query"
  /\ Return(s, FALSE)
  /\ UNCHANGED <<db, paid>>

-----------------------------------------------------------------------------
(* confirm_paid_order *)

(* with_for_update() without populate_existing: an order that the session  *)
(* holds already keeps the status it was loaded with.                      *)
StatusRead(s, o) == IF seen[s] = None THEN status[o] ELSE seen[s]

LockOrder(s) ==
  LET o == ord[s] IN
  /\ pc[s] = "lockOrder" /\ orderLock[o] \in {None, s}
  /\ orderLock' = [orderLock EXCEPT ![o] = s]
  /\ seen' = [seen EXCEPT ![s] = StatusRead(s, o)]
  /\ Goto(s, "lockUser")
  /\ UNCHANGED <<db, paid, userLock, via, ord, view, unsaved, todo>>

UserFree(s, u) == userLock[u] \in {None, s}

LockUser(s) ==
  LET u == Owner[ord[s]] IN
  /\ pc[s] = "lockUser" /\ UserFree(s, u)
  /\ userLock' = [userLock EXCEPT ![u] = s]
  /\ view' = [view EXCEPT ![s] = IF @ = None THEN Snapshot ELSE @]
  /\ Goto(s, "decide")
  /\ UNCHANGED <<db, paid, orderLock, via, ord, seen, unsaved, todo>>

LacksCommission(o, v) == o \in StationOrders /\ o \notin v.commission

(* An entry that the snapshot does not show is inserted a second time. *)
CommissionConflict(s) == LacksCommission(ord[s], view[s]) /\ ord[s] \in commission

(* What a SELECT of the transaction shows of confirmations: its snapshot   *)
(* and the ones that it has flushed itself.                                *)
Reads(s) == [view[s] EXCEPT !.confirmed = @ \cup unsaved[s]]

DuplicateTrade(o, v) ==
  \E p \in v.confirmed \ {o} : TradeOf[p] = TradeOf[o]

Refused(o, v) == o \in Malformed \/ DuplicateTrade(o, v)

(* PaymentConfirmError with the locks held and nothing written. *)
Reject(s) ==
  /\ pc[s] = "decide" /\ seen[s] # "confirmed" /\ Refused(ord[s], Reads(s))
  /\ Return(s, FALSE)
  /\ UNCHANGED <<db, paid>>

(* Batch, status, commission entry and finance summary are flushed before  *)
(* the referrer is looked at.                                              *)
Accept(s) ==
  /\ pc[s] = "decide" /\ seen[s] # "confirmed"
  /\ ~ Refused(ord[s], Reads(s)) /\ ~ CommissionConflict(s)
  /\ unsaved' = [unsaved EXCEPT ![s] = @ \cup {ord[s]}]
  /\ Goto(s, IF Referrer[Owner[ord[s]]] = None THEN "apply" ELSE "lockReferrer")
  /\ UNCHANGED <<db, paid, locks, via, ord, seen, view, todo>>

LockReferrer(s) ==
  LET r == Referrer[Owner[ord[s]]] IN
  /\ pc[s] = "lockReferrer" /\ UserFree(s, r)
  /\ userLock' = [userLock EXCEPT ![r] = s]
  /\ Goto(s, "apply")
  /\ UNCHANGED <<db, paid, orderLock, via, ord, seen, view, unsaved, todo>>

(* grant_permanent_credit: the source of a batch is unique, a replay gets  *)
(* the batch that exists.                                                  *)
Granted(S) ==
  [o \in Orders |-> IF o \in S /\ credited[o] = 0 THEN 1 ELSE credited[o]]

(* process_referral_reward, on the rows the transaction's snapshot shows. *)
EarnsBonus(o, v) ==
  /\ Referrer[Owner[o]] # None
  /\ OrdersOf(Owner[o]) \cap (v.bonus \cup v.reward) = {}

EarnsReward(o, v) ==
  /\ Referrer[Owner[o]] # None
  /\ o \notin v.reward
  /\ MaxRewards > 0 => Cardinality(OrdersOf(Owner[o]) \cap v.reward) < MaxRewards

(* ensure_finance_summary_initialized: a user without a row gets one that  *)
(* counts the confirmed orders the transaction sees, the first one that it *)
(* confirms included, for it was flushed before.                           *)
Earliest(S) == {o \in S : \A p \in S : Owner[p] = Owner[o] => o <= p}

Initialized(S, users, v) ==
  [u \in Users |->
     IF u \in users \ v.summaries
       THEN Cardinality(OrdersOf(u) \cap (v.confirmed \cup Earliest(S)))
       ELSE finance[u]]

(* increment_finance_summary follows, once for each confirmation. *)
Counted(S, users, v) ==
  [u \in Users |-> Initialized(S, users, v)[u] + Cardinality(OrdersOf(u) \cap S)]

(* COMMIT: all that the session has flushed since its transaction began;   *)
(* the summary rows are those of the buyers and of a rewarded referrer.    *)
Save(s, rewarded) ==
  LET S == unsaved[s]
      users == {Owner[o] : o \in S} \cup rewarded IN
  /\ status' = [o \in Orders |-> IF o \in S THEN "confirmed" ELSE status[o]]
  /\ credited' = Granted(S)
  /\ commission' = commission \cup {o \in S \cup {ord[s]} : LacksCommission(o, view[s])}
  /\ finance' = Counted(S, users, view[s])
  /\ summaries' = summaries \cup users

(* The order was confirmed when it was read: only the station commission   *)
(* is made up for, and the transaction ends only if that wrote something.  *)
AlreadyConfirmed(s) ==
  LET missing == LacksCommission(ord[s], view[s]) IN
  /\ pc[s] = "decide" /\ seen[s] = "confirmed" /\ ~ CommissionConflict(s)
  /\ IF missing THEN Save(s, {})
                ELSE UNCHANGED <<status, credited, commission, finance, summaries>>
  /\ Return(s, missing)
  /\ UNCHANGED <<bonus, reward, paid>>

(* A reward that the snapshot does not show is inserted a second time. *)
UniqueConflict(o, v) ==
  \/ EarnsBonus(o, v) /\ o \in bonus
  \/ EarnsReward(o, v) /\ o \in reward

Apply(s) ==
  LET o == ord[s]
      v == view[s] IN
  /\ pc[s] = "apply" /\ ~ UniqueConflict(o, v)
  /\ Save(s, IF EarnsReward(o, v) THEN {Referrer[Owner[o]]} ELSE {})
  /\ bonus' = IF EarnsBonus(o, v) THEN bonus \cup {o} ELSE bonus
  /\ reward' = IF EarnsReward(o, v) THEN reward \cup {o} ELSE reward
  /\ Return(s, TRUE)
  /\ UNCHANGED paid

(* A flush that fails before a SELECT rolls the transaction back and is    *)
(* not caught; the session is of no more use until it is closed.           *)
FlushFails(s) ==
  \/ /\ pc[s] = "decide" /\ seen[s] # "confirmed"
     /\ ~ Refused(ord[s], Reads(s)) /\ CommissionConflict(s)
  \/ pc[s] = "apply" /\ UniqueConflict(ord[s], view[s])

(* IntegrityError: everything is rolled back. *)
Conflict(s) ==
  /\ \/ /\ pc[s] = "decide" /\ seen[s] = "confirmed" /\ CommissionConflict(s)
        /\ Return(s, TRUE)
     \/ FlushFails(s) /\ CloseSession(s)
  /\ UNCHANGED <<db, paid>>

-----------------------------------------------------------------------------
(* Failures. *)

(* A session waits for another's order; the rows of users are locked by    *)
(* usage flushes, jobs and admins as well.                                 *)
Blocked(s) ==
  \/ pc[s] = "lockOrder" /\ orderLock[ord[s]] \notin {None, s}
  \/ pc[s] \in {"lockUser", "lockReferrer"}

(* InnoDB: a deadlock rolls the victim's transaction back, a lock wait     *)
(* timeout fails the statement and leaves the transaction open: a round    *)
(* that goes on keeps what it has flushed, even of an order whose referrer *)
(* it could not lock.                                                      *)
LockFailure(s) ==
  /\ Blocked(s)
  /\ \E rolledBack \in BOOLEAN : Return(s, rolledBack)
  /\ UNCHANGED <<db, paid>>

(* The worker dies or the connection is lost. *)
Crash(s) ==
  /\ pc[s] # "idle"
  /\ CloseSession(s)
  /\ UNCHANGED <<db, paid>>

Confirm(s) ==
  \/ LockOrder(s) \/ LockUser(s) \/ AlreadyConfirmed(s) \/ Reject(s) \/ Accept(s)
  \/ LockReferrer(s) \/ Apply(s) \/ Conflict(s) \/ LockFailure(s)

Reconcile(s) ==
  ReconcileBegin(s) \/ ReconcileNext(s) \/ ReconcileEnd(s)

Next ==
  \/ \E o \in Orders : CreateOrder(o) \/ Pay(o)
  \/ \E s \in Sessions, o \in Orders : CallbackBegin(s, o) \/ ConfirmBegin(s, o)
  \/ \E s \in Sessions : \/ Reconcile(s) \/ GatewayPaid(s) \/ GatewayRefuses(s)
                         \/ Confirm(s) \/ Crash(s)

Spec == Init /\ [][Next]_vars

(* A session that has begun goes on, even if only to an error.             *)
Progress(s) ==
  Confirm(s) \/ GatewayPaid(s) \/ GatewayRefuses(s) \/ ReconcileNext(s) \/ ReconcileEnd(s)

At(s, o, label) == pc[s] = label /\ ord[s] = o

(* reconcile_loop starts a round every five minutes; in "leader", the      *)
(* worker with the lease, which in the end stays up (a crash that cannot   *)
(* be told from the end of the call is the end of the call); it opens its  *)
(* own session, so callbacks do not keep it from starting.  For an order   *)
(* that is tried again and again the gateway does not refuse and the row   *)
(* locks do not fail every time.  Callbacks and browsers are under no      *)
(* obligation to start.                                                    *)
Fairness(leader) ==
  /\ \A s \in Sessions : WF_vars(Progress(s))
  /\ SF_vars(ReconcileBegin(leader))
  /\ <>[][Crash(leader) => Progress(leader)]_vars
  /\ \A o \in Orders \ Malformed :
       /\ SF_vars(ord[leader] = o /\ GatewayPaid(leader))
       /\ []<>At(leader, o, "lockOrder") => []<><<At(leader, o, "lockOrder") /\ LockOrder(leader)>>_vars
       /\ []<>At(leader, o, "lockUser") => []<><<At(leader, o, "lockUser") /\ LockUser(leader)>>_vars
       /\ []<>At(leader, o, "lockReferrer") => []<><<At(leader, o, "lockReferrer") /\ LockReferrer(leader)>>_vars

-----------------------------------------------------------------------------
(* Types: the rows of the database, the locks and what each session holds. *)
Views == [confirmed : SUBSET Orders, commission : SUBSET Orders,
          bonus : SUBSET Orders, reward : SUBSET Orders, summaries : SUBSET Users]

ASSUME NoneAssumption ==
  None \notin Views \cup {"pending", "confirmed", "callback", "confirm", "reconcile"}

RowsOK ==
  /\ status \in [Orders -> {"none", "pending", "confirmed"}]
  /\ credited \in [Orders -> Nat]
  /\ commission \subseteq Orders /\ bonus \subseteq Orders
  /\ reward \subseteq Orders /\ paid \subseteq Orders
  /\ finance \in [Users -> Nat]
  /\ summaries \subseteq Users

SessionsOK ==
  /\ orderLock \in [Orders -> Sessions \cup {None}]
  /\ userLock \in [Users -> Sessions \cup {None}]
  /\ pc \in [Sessions -> PCs]
  /\ via \in [Sessions -> {"callback", "confirm", "reconcile", None}]
  /\ ord \in [Sessions -> Orders \cup {None}]
  /\ seen \in [Sessions -> {"pending", "confirmed", None}]
  /\ view \in [Sessions -> Views \cup {None}]
  /\ unsaved \in [Sessions -> SUBSET Orders]
  /\ todo \in [Sessions -> SUBSET Orders]

TypeOK == RowsOK /\ SessionsOK

(* Whatever entry points race for an order, and however often each is      *)
(* repeated: a confirmed order has exactly one credit batch and an         *)
(* unconfirmed one has none (payment_common.confirm_paid_order with the    *)
(* unique source of credit_wallet.grant_permanent_credit).                 *)
CreditedExactlyOnce ==
  \A o \in Orders : credited[o] = IF status[o] = "confirmed" THEN 1 ELSE 0

(* Station owners are owed for exactly the confirmed orders of their       *)
(* customers: the entry and the confirmation commit together or not at all *)
(* (station_settlement.create_station_commission_entry...).                *)
CommissionForEveryStationOrder == commission = Confirmed \cap StationOrders

(* The pre-aggregated number of paid orders is the number of confirmed     *)
(* orders (finance_summary.increment_finance_summary is called once for an *)
(* order).                                                                 *)
FinanceCountsOrders ==
  \A u \in Users : finance[u] = Cardinality(OrdersOf(u) \cap Confirmed)

(* A buyer gets the first-purchase bonus for one order only               *)
(* (referral.process_referral_reward).                                     *)
FirstPurchaseBonusOnce ==
  \A u \in Users : Cardinality(OrdersOf(u) \cap bonus) <= 1

(* The purchase commissions a referrer gets for one buyer stay within      *)
(* settings.referral_max_rewards_per_user, also when several orders of the *)
(* buyer are confirmed at once.                                            *)
RewardsWithinLimit ==
  MaxRewards > 0 =>
    \A u \in Users : Cardinality(OrdersOf(u) \cap reward) <= MaxRewards

(* Two confirmed orders of one buyer never share a gateway trade: the      *)
(* check reads before it writes and trade_no is not unique, the lock on    *)
(* the buyer is what orders the two confirmations.                         *)
TradeConfirmsOneOrder ==
  \A o, p \in Confirmed : Owner[o] = Owner[p] /\ TradeOf[o] = TradeOf[p] => o = p

(* What confirm_paid_order reads before it writes, in the snapshot of its  *)
(* transaction, still holds when it has written: the lock on the buyer     *)
(* serializes the confirmations of one buyer's orders.                     *)
ChecksHold == FirstPurchaseBonusOnce /\ RewardsWithinLimit /\ TradeConfirmsOneOrder

(* The order ledger that buyers rely on. *)
Ledger ==
  INSTANCE OrderLedger
    WITH stage <- [o \in Orders |->
                     IF status[o] = "confirmed" THEN "credited"
                     ELSE IF status[o] = "none" THEN "absent"
                     ELSE IF o \in paid THEN "paid" ELSE "open"],
         batches <- credited

(* Every step of confirmation is a step of the ledger or invisible to it:  *)
(* no unpaid order is credited, none twice, and none is ever reopened.     *)
ImplementsLedger == Ledger!Spec

(* The safety net of reconcile.py: an order that is paid and acceptable is *)
(* confirmed in the end even if no callback arrives and the browser is     *)
(* closed.                                                                 *)
PaidOrdersGetConfirmed ==
  \A o \in Orders \ Malformed : o \in paid ~> status[o] = "confirmed"
=============================================================================
