------------------------ MODULE PaymentConfirmProofs ------------------------
(***************************************************************************)
(* Proofs about PaymentConfirm, for any number of orders, users, sessions  *)
(* and rounds.                                                             *)
(***************************************************************************)
EXTENDS PaymentConfirm, FiniteSetTheorems, TLAPS

(* What a session holds at each point of its call: it works on an order    *)
(* and, once it decides, on a snapshot.                                    *)
Working == {"query", "lockOrder", "lockUser", "decide", "lockReferrer", "apply"}
Deciding == {"decide", "lockReferrer", "apply"}

HoldsOrder == \A s \in Sessions : pc[s] \in Working => ord[s] \in Orders
HoldsView == \A s \in Sessions : pc[s] \in Deciding => view[s] \in Views

(* No order is paid, queued or worked on before its row exists. *)
Created == {o \in Orders : status[o] # "none"}
OrdersExist ==
  /\ paid \subseteq Created
  /\ \A s \in Sessions : todo[s] \subseteq Created
  /\ \A s \in Sessions : pc[s] \in Working => ord[s] \in Created

TypeInv == RowsOK /\ SessionsOK /\ HoldsOrder /\ HoldsView /\ OrdersExist

USE OrdersAssumption, OwnerAssumption, ReferrerAssumption, SessionsAssumption,
    LimitsAssumption, SetsAssumption, NoneAssumption
  DEF OrdersAssumption, OwnerAssumption, ReferrerAssumption, SessionsAssumption,
      LimitsAssumption, SetsAssumption, NoneAssumption

-----------------------------------------------------------------------------
(* A snapshot is a set of rows of the right types. *)
LEMMA SnapshotType == ASSUME RowsOK PROVE Snapshot \in Views
  BY DEF RowsOK, Snapshot, Views, Confirmed

(* Closing a session, or going on to the next order, keeps its state typed.*)
LEMMA ReturnType ==
  ASSUME SessionsOK, HoldsOrder, HoldsView, OrdersExist, NEW s \in Sessions,
         NEW ended \in BOOLEAN, Return(s, ended) \/ CloseSession(s),
         paid' = paid, Created \subseteq Created'
  PROVE  SessionsOK' /\ HoldsOrder' /\ HoldsView' /\ OrdersExist'
<1>1. CASE CloseSession(s)
  BY <1>1 DEF CloseSession, Goto, ReleaseLocks, SessionsOK, HoldsOrder, HoldsView,
              OrdersExist, PCs, Working, Deciding
<1>2. CASE NextOrder(s, ended)
  <2>1. SessionsOK'
    BY <1>2 DEF NextOrder, Goto, ReleaseLocks, SessionsOK, PCs
  <2>2. HoldsOrder' /\ HoldsView' /\ OrdersExist'
    BY <1>2 DEF NextOrder, Goto, SessionsOK, HoldsOrder, HoldsView, OrdersExist, Working,
                Deciding, PCs
  <2> QED BY <2>1, <2>2
<1> QED BY <1>1, <1>2 DEF Return

(* The counters that a commit writes are natural numbers. *)
LEMMA CountedType ==
  ASSUME RowsOK, NEW S \in SUBSET Orders, NEW users, NEW v
  PROVE  Counted(S, users, v) \in [Users -> Nat]
<1>1. ASSUME NEW u, NEW W PROVE Cardinality(OrdersOf(u) \cap W) \in Nat
  <2>1. IsFiniteSet(OrdersOf(u) \cap W)
    BY FS_Subset DEF OrdersOf
  <2> QED BY <2>1, FS_CardinalityType
<1>2. Initialized(S, users, v) \in [Users -> Nat]
  BY <1>1 DEF Initialized, RowsOK
<1> DEFINE I == Initialized(S, users, v)
<1> HIDE DEF I
<1>3. \A u \in Users : I[u] + Cardinality(OrdersOf(u) \cap S) \in Nat
  BY <1>1, <1>2 DEF I
<1> QED BY <1>3 DEF Counted, I

(* What a commit writes has the right types, and no row disappears. *)
LEMMA SaveType ==
  ASSUME TypeInv, NEW s \in Sessions, pc[s] \in Deciding, NEW rewarded \in SUBSET Users,
         Save(s, rewarded), bonus' \subseteq Orders, reward' \subseteq Orders, paid' = paid
  PROVE  RowsOK' /\ Created \subseteq Created'
<1> USE DEF TypeInv
<1>1. ord[s] \in Orders /\ unsaved[s] \in SUBSET Orders
  BY DEF HoldsOrder, SessionsOK, Working, Deciding
<1>2. finance' \in [Users -> Nat]
  BY <1>1, CountedType DEF Save
<1>3. {Owner[o] : o \in unsaved[s]} \subseteq Users
  BY <1>1
<1>4. credited' \in [Orders -> Nat]
  BY DEF Save, Granted, RowsOK
<1>5. RowsOK'
  BY <1>1, <1>2, <1>3, <1>4 DEF Save, RowsOK
<1>6. Created \subseteq Created'
  BY DEF Save, RowsOK, Created
<1> QED BY <1>5, <1>6

LEMMA TypeInit == Init => TypeInv
  BY DEF Init, TypeInv, RowsOK, SessionsOK, HoldsOrder, HoldsView, OrdersExist, Created, PCs,
         Working, Deciding

LEMMA TypeStep == TypeInv /\ [Next]_vars => TypeInv'
<1> SUFFICES ASSUME TypeInv, [Next]_vars PROVE TypeInv'
  OBVIOUS
<1> USE DEF TypeInv
<1>1. ASSUME NEW o \in Orders, CreateOrder(o) PROVE TypeInv'
  BY <1>1 DEF CreateOrder, RowsOK, SessionsOK, HoldsOrder, HoldsView, OrdersExist, Created, session, locks
<1>2. ASSUME NEW o \in Orders, Pay(o) PROVE TypeInv'
  BY <1>2 DEF Pay, RowsOK, SessionsOK, HoldsOrder, HoldsView, OrdersExist, Created, db, session, locks
<1>3. ASSUME NEW s \in Sessions, NEW o \in Orders, CallbackBegin(s, o) PROVE TypeInv'
  BY <1>3 DEF CallbackBegin, Goto, RowsOK, SessionsOK, HoldsOrder, HoldsView, OrdersExist, Created, db, locks,
              PCs, Working, Deciding
<1>4. ASSUME NEW s \in Sessions, NEW o \in Orders, ConfirmBegin(s, o) PROVE TypeInv'
  <2>1. Snapshot \in Views
    BY SnapshotType
  <2>2. status[o] \in {"pending", "confirmed"}
    BY <1>4 DEF ConfirmBegin, OrderFound, RowsOK
  <2> QED
    BY <1>4, <2>1, <2>2 DEF ConfirmBegin, Goto, RowsOK, SessionsOK, HoldsOrder, HoldsView, OrdersExist, Created,
              db, locks, PCs, Working, Deciding
<1>5. ASSUME NEW s \in Sessions, ReconcileBegin(s) PROVE TypeInv'
  <2>1. Snapshot \in Views
    BY SnapshotType
  <2>2. OldestPending \subseteq Created
    BY DEF OldestPending, Pending, Created
  <2> QED
    BY <1>5, <2>1, <2>2 DEF ReconcileBegin, Goto, RowsOK, SessionsOK, HoldsOrder,
              HoldsView, OrdersExist, Created, db, locks, PCs, Working, Deciding
<1>6. ASSUME NEW s \in Sessions, ReconcileNext(s) PROVE TypeInv'
  BY <1>6 DEF ReconcileNext, Goto, RowsOK, SessionsOK, HoldsOrder, HoldsView, OrdersExist, Created, db, locks,
              PCs, Working, Deciding
<1>7. ASSUME NEW s \in Sessions,
             ReconcileEnd(s) \/ GatewayRefuses(s) \/ Reject(s) \/ Conflict(s)
               \/ LockFailure(s) \/ Crash(s)
      PROVE TypeInv'
  <2>1. RowsOK'
    BY <1>7 DEF ReconcileEnd, GatewayRefuses, Reject, Conflict, LockFailure, Crash, db, RowsOK
  <2>2. \E b \in BOOLEAN : Return(s, b) \/ CloseSession(s)
    BY <1>7 DEF ReconcileEnd, GatewayRefuses, Reject, Conflict, LockFailure, Crash
  <2>3. paid' = paid /\ Created \subseteq Created'
    BY <1>7 DEF ReconcileEnd, GatewayRefuses, Reject, Conflict, LockFailure, Crash, db, Created
  <2> QED BY <2>1, <2>2, <2>3, ReturnType
<1>8. ASSUME NEW s \in Sessions, GatewayPaid(s) PROVE TypeInv'
  BY <1>8 DEF GatewayPaid, Goto, RowsOK, SessionsOK, HoldsOrder, HoldsView, OrdersExist, Created, db, locks,
              PCs, Working, Deciding
<1>9. ASSUME NEW s \in Sessions, LockOrder(s) PROVE TypeInv'
  BY <1>9 DEF LockOrder, StatusRead, Goto, RowsOK, SessionsOK, HoldsOrder, HoldsView, OrdersExist, Created, db,
              PCs, Working, Deciding
<1>10. ASSUME NEW s \in Sessions, LockUser(s) PROVE TypeInv'
  <2>1. Snapshot \in Views
    BY SnapshotType
  <2> QED
    BY <1>10, <2>1 DEF LockUser, Goto, RowsOK, SessionsOK, HoldsOrder, HoldsView, OrdersExist, Created, db,
              PCs, Working, Deciding
<1>11. ASSUME NEW s \in Sessions, AlreadyConfirmed(s) PROVE TypeInv'
  <2> DEFINE missing == LacksCommission(ord[s], view[s])
  <2>1. missing \in BOOLEAN /\ Return(s, missing) /\ paid' = paid
    BY <1>11 DEF AlreadyConfirmed, LacksCommission
  <2>2. CASE missing
    <3>1. Save(s, {}) /\ pc[s] \in Deciding /\ bonus' = bonus /\ reward' = reward
      BY <1>11, <2>2 DEF AlreadyConfirmed, Deciding
    <3>2. RowsOK' /\ Created \subseteq Created'
      BY <2>1, <3>1, SaveType DEF RowsOK
    <3> QED BY <2>1, <3>2, ReturnType
  <2>3. CASE ~ missing
    <3>1. RowsOK' /\ Created \subseteq Created'
      BY <1>11, <2>3 DEF AlreadyConfirmed, RowsOK, Created
    <3> QED BY <2>1, <3>1, ReturnType
  <2> QED BY <2>2, <2>3
<1>12. ASSUME NEW s \in Sessions, Accept(s) PROVE TypeInv'
  BY <1>12 DEF Accept, Goto, RowsOK, SessionsOK, HoldsOrder, HoldsView, OrdersExist, Created, db, locks,
              PCs, Working, Deciding
<1>13. ASSUME NEW s \in Sessions, LockReferrer(s) PROVE TypeInv'
  BY <1>13 DEF LockReferrer, Goto, RowsOK, SessionsOK, HoldsOrder, HoldsView, OrdersExist, Created, db,
              PCs, Working, Deciding
<1>14. ASSUME NEW s \in Sessions, Apply(s) PROVE TypeInv'
  <2> DEFINE rewarded ==
        IF EarnsReward(ord[s], view[s]) THEN {Referrer[Owner[ord[s]]]} ELSE {}
  <2>1. ord[s] \in Orders /\ pc[s] \in Deciding
    BY <1>14 DEF Apply, HoldsOrder, Working, Deciding
  <2>2. rewarded \in SUBSET Users
    BY <2>1 DEF EarnsReward
  <2>3. Save(s, rewarded) /\ bonus' \subseteq Orders /\ reward' \subseteq Orders
        /\ paid' = paid /\ Return(s, TRUE)
    BY <1>14, <2>1 DEF Apply, RowsOK
  <2>4. RowsOK' /\ Created \subseteq Created'
    BY <2>1, <2>2, <2>3, SaveType
  <2> QED BY <2>3, <2>4, ReturnType
<1>15. CASE UNCHANGED vars
  BY <1>15 DEF vars, db, locks, session, RowsOK, SessionsOK, HoldsOrder, HoldsView, OrdersExist, Created
<1> QED
  BY <1>1, <1>2, <1>3, <1>4, <1>5, <1>6, <1>7, <1>8, <1>9, <1>10, <1>11, <1>12, <1>13,
     <1>14, <1>15 DEF Next, Reconcile, Confirm

(* Every reachable state has the types that the code relies on, and a      *)
(* session that decides has an order and a snapshot.                       *)
THEOREM TypeCorrect == Spec => []TypeInv
  BY TypeInit, TypeStep, PTL DEF Spec

-----------------------------------------------------------------------------
(* The strengthening that makes exactly-once confirmation inductive.       *)

(* A session is past the gateway only for an order that is paid, or that   *)
(* it read as confirmed.                                                   *)
Admitted == {"lockOrder", "lockUser", "decide", "lockReferrer", "apply"}
OnlyPaidAdmitted ==
  \A s \in Sessions :
    pc[s] \in Admitted /\ seen[s] # "confirmed" => ord[s] \in paid

(* A status is read as confirmed only if it is; the converse fails, for an *)
(* order that the session loaded before it locked it.                      *)
SeenConfirmedIsTrue ==
  \A s \in Sessions :
    pc[s] \in Working /\ seen[s] = "confirmed" => status[ord[s]] = "confirmed"

UnconfirmedAccepted ==
  \A s \in Sessions : pc[s] \in {"lockReferrer", "apply"} => seen[s] # "confirmed"

(* A snapshot shows no commission entry that is not there. *)
ViewsShowThePast ==
  \A s \in Sessions : view[s] # None => view[s].commission \subseteq commission

(* A session has confirmed only orders that are paid, and the order that   *)
(* it works on once it has accepted it.                                    *)
UnsavedPaid ==
  \A s \in Sessions :
    /\ unsaved[s] \subseteq paid
    /\ pc[s] \in {"lockReferrer", "apply"} => ord[s] \in unsaved[s]

(* Between two calls a session holds no order object. *)
NothingSeenBetweenCalls ==
  \A s \in Sessions : pc[s] \in {"idle", "next"} => seen[s] = None

SessionInv ==
  /\ OnlyPaidAdmitted /\ SeenConfirmedIsTrue /\ UnconfirmedAccepted
  /\ ViewsShowThePast /\ UnsavedPaid /\ NothingSeenBetweenCalls

ConfirmInv ==
  TypeInv /\ CreditedExactlyOnce /\ CommissionForEveryStationOrder /\ SessionInv

LEMMA ReturnSessionInv ==
  ASSUME TypeInv, SessionInv, NEW s \in Sessions, NEW ended \in BOOLEAN,
         Return(s, ended) \/ CloseSession(s),
         paid' = paid, commission \subseteq commission',
         \A o \in Orders : status[o] = "confirmed" => status'[o] = "confirmed"
  PROVE  SessionInv'
<1> USE DEF SessionInv
<1>1. /\ pc' = [pc EXCEPT ![s] = pc'[s]] /\ pc'[s] \in {"idle", "next"}
      /\ ord' = [ord EXCEPT ![s] = None] /\ seen' = [seen EXCEPT ![s] = None]
      /\ view' = [view EXCEPT ![s] = view'[s]] /\ view'[s] \in {None, view[s]}
      /\ unsaved' = [unsaved EXCEPT ![s] = unsaved'[s]] /\ unsaved'[s] \subseteq unsaved[s]
  BY DEF Return, NextOrder, CloseSession, Goto, TypeInv, SessionsOK
<1>2. OnlyPaidAdmitted'
  BY <1>1 DEF OnlyPaidAdmitted, Admitted, TypeInv, SessionsOK
<1>3. SeenConfirmedIsTrue'
  <2> SUFFICES ASSUME NEW t \in Sessions, pc'[t] \in Working, seen'[t] = "confirmed"
               PROVE  status'[ord'[t]] = "confirmed"
    BY DEF SeenConfirmedIsTrue
  <2>1. t # s
    BY <1>1 DEF Working, TypeInv, SessionsOK
  <2>2. pc[t] \in Working /\ seen[t] = "confirmed" /\ ord'[t] = ord[t]
    BY <1>1, <2>1 DEF TypeInv, SessionsOK
  <2> QED BY <2>2 DEF SeenConfirmedIsTrue, TypeInv, HoldsOrder
<1>4. UnconfirmedAccepted'
  BY <1>1 DEF UnconfirmedAccepted, TypeInv, SessionsOK
<1>5. ViewsShowThePast'
  BY <1>1 DEF ViewsShowThePast, TypeInv, SessionsOK
<1>6. NothingSeenBetweenCalls'
  BY <1>1 DEF NothingSeenBetweenCalls, TypeInv, SessionsOK
<1>7. UnsavedPaid'
  BY <1>1 DEF UnsavedPaid, TypeInv, SessionsOK
<1> QED BY <1>2, <1>3, <1>4, <1>5, <1>6, <1>7

LEMMA ConfirmInit == Init => ConfirmInv
<1> SUFFICES ASSUME Init PROVE ConfirmInv
  OBVIOUS
<1>1. TypeInv
  BY TypeInit
<1>2. CreditedExactlyOnce /\ CommissionForEveryStationOrder
  BY DEF Init, CreditedExactlyOnce, CommissionForEveryStationOrder, Confirmed
<1>3. SessionInv
  BY DEF Init, SessionInv, OnlyPaidAdmitted, SeenConfirmedIsTrue, UnconfirmedAccepted,
         ViewsShowThePast, UnsavedPaid, NothingSeenBetweenCalls, Admitted, Working
<1> QED BY <1>1, <1>2, <1>3 DEF ConfirmInv

(* A commit credits the orders that the session has confirmed and enters   *)
(* their commission even if another session committed the same before.     *)
LEMMA ApplyConfirms ==
  ASSUME ConfirmInv, NEW s \in Sessions, Apply(s)
  PROVE  CreditedExactlyOnce' /\ CommissionForEveryStationOrder' /\ SessionInv'
<1> DEFINE S == unsaved[s]
<1>1. ord[s] \in S /\ S \subseteq Orders /\ view[s] \in Views
  BY DEF ConfirmInv, TypeInv, SessionsOK, Apply, HoldsView, Deciding, SessionInv, UnsavedPaid
<1>2. status' = [o \in Orders |-> IF o \in S THEN "confirmed" ELSE status[o]]
  BY DEF Apply, Save
<1>3. CreditedExactlyOnce'
  BY <1>1, <1>2 DEF Apply, Save, Granted, ConfirmInv, CreditedExactlyOnce, TypeInv, RowsOK
<1>4. Confirmed' = Confirmed \cup S
  BY <1>1, <1>2 DEF Confirmed
<1>5. commission' = commission \cup (S \cap StationOrders)
  <2>1. view[s].commission \subseteq commission
    BY <1>1 DEF ConfirmInv, SessionInv, ViewsShowThePast
  <2>2. commission' = commission \cup {o \in S : LacksCommission(o, view[s])}
    BY <1>1 DEF Apply, Save
  <2> QED BY <2>1, <2>2 DEF LacksCommission
<1>6. CommissionForEveryStationOrder'
  BY <1>4, <1>5 DEF CommissionForEveryStationOrder, ConfirmInv
<1>7. \A p \in Orders : status[p] = "confirmed" => status'[p] = "confirmed"
  BY <1>2
<1>8. SessionInv'
  BY <1>5, <1>7, ReturnSessionInv DEF Apply, ConfirmInv
<1> QED BY <1>3, <1>6, <1>8

(* An order that is confirmed has the commission it is due, so nothing is  *)
(* made up for that would not conflict, and nothing else is committed.     *)
LEMMA NothingMissing ==
  ASSUME ConfirmInv, NEW s \in Sessions, AlreadyConfirmed(s)
  PROVE  Return(s, FALSE) /\ UNCHANGED <<db, paid>>
<1>1. ord[s] \in Orders /\ status[ord[s]] = "confirmed"
  BY DEF AlreadyConfirmed, ConfirmInv, TypeInv, HoldsOrder, SessionInv, SeenConfirmedIsTrue,
         Working
<1>2. LacksCommission(ord[s], view[s]) = FALSE
  BY <1>1 DEF AlreadyConfirmed, CommissionConflict, LacksCommission, ConfirmInv,
     CommissionForEveryStationOrder, Confirmed
<1> QED BY <1>2 DEF AlreadyConfirmed, db

LEMMA ConfirmStep == ConfirmInv /\ [Next]_vars => ConfirmInv'
<1> SUFFICES ASSUME ConfirmInv, [Next]_vars PROVE ConfirmInv'
  OBVIOUS
<1>1. TypeInv'
  BY TypeStep DEF ConfirmInv
<1> DEFINE Promise == CreditedExactlyOnce /\ CommissionForEveryStationOrder /\ SessionInv
<1> SUFFICES Promise'
  BY <1>1 DEF ConfirmInv
<1> USE DEF ConfirmInv, TypeInv
(* Steps that leave the rows alone disturb what the sessions know at most. *)
<1>2. ASSUME UNCHANGED db
      PROVE  CreditedExactlyOnce' /\ CommissionForEveryStationOrder'
  BY <1>2 DEF db, CreditedExactlyOnce, CommissionForEveryStationOrder, Confirmed
<1> USE DEF SessionInv, OnlyPaidAdmitted, SeenConfirmedIsTrue, UnconfirmedAccepted,
            ViewsShowThePast, UnsavedPaid, NothingSeenBetweenCalls, Admitted, Working
<1>3. ASSUME NEW o \in Orders, CreateOrder(o) PROVE Promise'
  <2>1. Confirmed' = Confirmed /\ CreditedExactlyOnce'
    BY <1>3 DEF CreateOrder, Confirmed, CreditedExactlyOnce, RowsOK
  <2>2. \A p \in Orders : status[p] = "confirmed" => status'[p] = "confirmed"
    BY <1>3 DEF CreateOrder, RowsOK
  <2>3. SessionInv'
    BY <1>3, <2>2 DEF CreateOrder, session, HoldsOrder
  <2> QED BY <1>3, <2>1, <2>3 DEF CreateOrder, CommissionForEveryStationOrder
<1>4. ASSUME NEW o \in Orders, Pay(o) PROVE Promise'
  BY <1>2, <1>4 DEF Pay, db, session
<1>5. ASSUME NEW s \in Sessions, NEW o \in Orders, CallbackBegin(s, o) PROVE Promise'
  BY <1>2, <1>5 DEF CallbackBegin, Goto, db, SessionsOK
<1>6. ASSUME NEW s \in Sessions, NEW o \in Orders, ConfirmBegin(s, o) PROVE Promise'
  BY <1>2, <1>6 DEF ConfirmBegin, Snapshot, Goto, db, SessionsOK
<1>7. ASSUME NEW s \in Sessions, ReconcileBegin(s) PROVE Promise'
  BY <1>2, <1>7 DEF ReconcileBegin, Snapshot, Goto, db, SessionsOK
<1>8. ASSUME NEW s \in Sessions, ReconcileNext(s) PROVE Promise'
  BY <1>2, <1>8 DEF ReconcileNext, Goto, db, SessionsOK
<1>9. ASSUME NEW s \in Sessions,
             ReconcileEnd(s) \/ GatewayRefuses(s) \/ Reject(s) \/ Conflict(s)
               \/ LockFailure(s) \/ Crash(s)
      PROVE Promise'
  <2>1. UNCHANGED db /\ paid' = paid
    BY <1>9 DEF ReconcileEnd, GatewayRefuses, Reject, Conflict, LockFailure, Crash
  <2>2. \E b \in BOOLEAN : Return(s, b) \/ CloseSession(s)
    BY <1>9 DEF ReconcileEnd, GatewayRefuses, Reject, Conflict, LockFailure, Crash
  <2>3. SessionInv'
    BY <2>1, <2>2, ReturnSessionInv DEF db
  <2> QED BY <1>2, <2>1, <2>3
<1>10. ASSUME NEW s \in Sessions, GatewayPaid(s) PROVE Promise'
  BY <1>2, <1>10 DEF GatewayPaid, TradeSuccess, Goto, db, SessionsOK
<1>11. ASSUME NEW s \in Sessions, LockOrder(s) PROVE Promise'
  BY <1>2, <1>11 DEF LockOrder, StatusRead, Goto, db, SessionsOK
<1>12. ASSUME NEW s \in Sessions, LockUser(s) PROVE Promise'
  BY <1>2, <1>12 DEF LockUser, Snapshot, Goto, db, SessionsOK
<1>13. ASSUME NEW s \in Sessions, AlreadyConfirmed(s) PROVE Promise'
  <2>1. Return(s, FALSE) /\ UNCHANGED <<db, paid>>
    BY <1>13, NothingMissing
  <2>2. SessionInv'
    BY <2>1, ReturnSessionInv DEF db
  <2> QED BY <1>2, <2>1, <2>2
<1>14. ASSUME NEW s \in Sessions, Accept(s) PROVE Promise'
  BY <1>2, <1>14 DEF Accept, Goto, db, SessionsOK
<1>15. ASSUME NEW s \in Sessions, LockReferrer(s) PROVE Promise'
  BY <1>2, <1>15 DEF LockReferrer, Goto, db, SessionsOK
<1>16. ASSUME NEW s \in Sessions, Apply(s) PROVE Promise'
  BY <1>16, ApplyConfirms
<1>17. CASE UNCHANGED vars
  BY <1>2, <1>17 DEF vars, db, session
<1> QED
  BY <1>3, <1>4, <1>5, <1>6, <1>7, <1>8, <1>9, <1>10, <1>11, <1>12, <1>13, <1>14, <1>15,
     <1>16, <1>17 DEF Next, Reconcile, Confirm

LEMMA ConfirmInvariant == Spec => []ConfirmInv
  BY ConfirmInit, ConfirmStep, PTL DEF Spec

(* However many callbacks, browsers and reconcile rounds confirm an order, *)
(* and wherever they fail, it gets one credit batch if it is confirmed and *)
(* none otherwise.                                                         *)
THEOREM ExactlyOnceCredit == Spec => []CreditedExactlyOnce
  BY ConfirmInvariant, PTL DEF ConfirmInv

(* Station owners are owed for the confirmed orders of their customers and *)
(* for no others.                                                          *)
THEOREM StationCommission == Spec => []CommissionForEveryStationOrder
  BY ConfirmInvariant, PTL DEF ConfirmInv

-----------------------------------------------------------------------------
(* The refinement.                                                         *)

LEMMA LedgerInit == Init => Ledger!Init
  BY DEF Init, Ledger!Init

LEMMA LedgerStep == ConfirmInv /\ [Next]_vars => [Ledger!Next]_(Ledger!vars)
<1> SUFFICES ASSUME ConfirmInv, [Next]_vars PROVE [Ledger!Next]_(Ledger!vars)
  OBVIOUS
<1> USE DEF ConfirmInv, TypeInv, RowsOK
<1>1. ASSUME UNCHANGED <<status, credited, paid>> PROVE UNCHANGED Ledger!vars
  BY <1>1 DEF Ledger!vars
<1>2. ASSUME NEW o \in Orders, CreateOrder(o) PROVE Ledger!Open(o)
  BY <1>2 DEF CreateOrder, Ledger!Open, OrdersExist, Created
<1>3. ASSUME NEW o \in Orders, Pay(o) PROVE Ledger!Settle(o)
  BY <1>3 DEF Pay, Ledger!Settle, db
<1>4. ASSUME NEW s \in Sessions, Apply(s) PROVE Ledger!Next
  <2> DEFINE New == {o \in unsaved[s] : status[o] # "confirmed"}
  <2>1. New \in SUBSET Orders /\ New \subseteq paid
    BY DEF SessionsOK, SessionInv, UnsavedPaid
  <2>2. \A o \in New : status[o] # "none" /\ status[o] # "confirmed" /\ credited[o] = 0
    BY <2>1 DEF OrdersExist, Created, CreditedExactlyOnce
  <2>3. status' = [o \in Orders |-> IF o \in New THEN "confirmed" ELSE status[o]]
        /\ paid' = paid
    BY <1>4 DEF Apply, Save, SessionsOK
  <2>4. credited' = [o \in Orders |-> IF o \in New THEN credited[o] + 1 ELSE credited[o]]
    <3>1. ASSUME NEW o \in Orders PROVE (o \in unsaved[s] /\ credited[o] = 0) <=> o \in New
      <4>1. credited[o] = 0 <=> status[o] # "confirmed"
        BY DEF CreditedExactlyOnce
      <4> QED BY <4>1
    <3>2. \A o \in New : credited[o] + 1 = 1
      BY <2>2
    <3> HIDE DEF New
    <3> QED BY <1>4, <3>1, <3>2 DEF Apply, Save, Granted
  <2> HIDE DEF New
  <2>5. \E S \in SUBSET Orders : Ledger!Credit(S)
    BY <2>1, <2>2, <2>3, <2>4 DEF Ledger!Credit
  <2> QED BY <2>5 DEF Ledger!Next
<1>5. ASSUME NEW s \in Sessions,
             Reconcile(s) \/ GatewayPaid(s) \/ GatewayRefuses(s) \/ Crash(s)
      PROVE UNCHANGED <<status, credited, paid>>
  BY <1>5 DEF Reconcile, ReconcileBegin, ReconcileNext, ReconcileEnd, GatewayPaid,
     GatewayRefuses, Crash, db
<1>6. ASSUME NEW s \in Sessions, NEW o \in Orders, CallbackBegin(s, o) \/ ConfirmBegin(s, o)
      PROVE UNCHANGED <<status, credited, paid>>
  BY <1>6 DEF CallbackBegin, ConfirmBegin, db
<1>7. ASSUME NEW s \in Sessions, Confirm(s), ~ Apply(s)
      PROVE UNCHANGED <<status, credited, paid>>
  BY <1>7, NothingMissing DEF Confirm, LockOrder, LockUser, Reject, Accept, LockReferrer,
     Conflict, LockFailure, db
<1>8. CASE UNCHANGED vars
  BY <1>1, <1>8 DEF vars, db
<1> QED
  BY <1>1, <1>2, <1>3, <1>4, <1>5, <1>6, <1>7, <1>8 DEF Next, Ledger!Next

(* The program implements the order ledger: unpaid orders are never        *)
(* credited, paid ones once, and no order leaves the ledger's course,      *)
(* whatever the interleaving and whatever fails, also when one commit      *)
(* confirms several orders of a reconcile round.                           *)
THEOREM Refinement == Spec => ImplementsLedger
<1>1. Spec => []ConfirmInv
  BY ConfirmInvariant
<1> QED
  BY <1>1, LedgerInit, LedgerStep, PTL DEF Spec, ImplementsLedger, Ledger!Spec

-----------------------------------------------------------------------------
(* The finance summary, where no order is loaded before it is locked and   *)
(* every user has a summary row: the row lock and the status check then do *)
(* make the increment happen once for an order.                            *)

LocksOrder == {"lockUser", "decide", "lockReferrer", "apply"}

LockHeld == \A s \in Sessions : pc[s] \in LocksOrder => orderLock[ord[s]] = s

StatusIsCurrent ==
  \A s \in Sessions : pc[s] \in LocksOrder => seen[s] = status[ord[s]]

NotYetLoaded ==
  \A s \in Sessions : pc[s] \in {"query", "lockOrder"} => seen[s] = None

(* What a session has confirmed and not committed, no other session can. *)
UnsavedLocked ==
  \A s \in Sessions : \A o \in unsaved[s] : orderLock[o] = s /\ status[o] # "confirmed"

AllSummarized ==
  /\ summaries = Users
  /\ \A s \in Sessions : view[s] # None => view[s].summaries = Users

CountInv ==
  /\ ConfirmInv
  /\ LockHeld /\ StatusIsCurrent /\ NotYetLoaded /\ UnsavedLocked /\ AllSummarized
  /\ FinanceCountsOrders

LEMMA CountInit == ASSUME LegacyUsers = {} PROVE Init => CountInv
<1> SUFFICES ASSUME Init PROVE CountInv
  OBVIOUS
<1>1. ConfirmInv
  BY ConfirmInit
<1>2. LockHeld /\ StatusIsCurrent /\ NotYetLoaded /\ UnsavedLocked /\ AllSummarized
  BY DEF Init, LockHeld, StatusIsCurrent, NotYetLoaded, UnsavedLocked, AllSummarized, LocksOrder
<1>3. \A u \in Users : OrdersOf(u) \cap Confirmed = {}
  BY DEF Init, Confirmed
<1>4. FinanceCountsOrders
  BY <1>3, FS_EmptySet DEF Init, FinanceCountsOrders
<1> QED BY <1>1, <1>2, <1>4 DEF CountInv

(* A call that returns keeps the others' locks. *)
LEMMA ReturnKeepsCounts ==
  ASSUME TypeInv, NEW s \in Sessions, NEW ended \in BOOLEAN,
         Return(s, ended) \/ CloseSession(s),
         LockHeld, StatusIsCurrent, NotYetLoaded, UnsavedLocked, AllSummarized,
         summaries' = summaries,
         \A o \in Orders : status'[o] # status[o] => o \in unsaved[s] /\ unsaved'[s] = {}
  PROVE  LockHeld' /\ StatusIsCurrent' /\ NotYetLoaded' /\ UnsavedLocked' /\ AllSummarized'
<1>1. /\ pc' = [pc EXCEPT ![s] = pc'[s]] /\ pc'[s] \in {"idle", "next"}
      /\ ord' = [ord EXCEPT ![s] = None] /\ seen' = [seen EXCEPT ![s] = None]
      /\ view' = [view EXCEPT ![s] = view'[s]] /\ view'[s] \in {None, view[s]}
      /\ unsaved' = [unsaved EXCEPT ![s] = unsaved'[s]]
  BY DEF Return, NextOrder, CloseSession, Goto, TypeInv, SessionsOK
<1>2. /\ \A o \in Orders : orderLock[o] # s => orderLock'[o] = orderLock[o]
      /\ unsaved'[s] = {} \/ (unsaved'[s] = unsaved[s] /\ orderLock' = orderLock)
  BY DEF Return, NextOrder, CloseSession, ReleaseLocks, TypeInv, SessionsOK
<1>3. ASSUME NEW t \in Sessions, pc'[t] \in LocksOrder \cup {"query", "lockOrder"}
      PROVE  t # s /\ pc'[t] = pc[t] /\ ord'[t] = ord[t] /\ seen'[t] = seen[t] /\ ord[t] \in Orders
  <2>1. t # s
    BY <1>1, <1>3 DEF LocksOrder, TypeInv, SessionsOK
  <2>2. pc'[t] = pc[t] /\ ord'[t] = ord[t] /\ seen'[t] = seen[t]
    BY <1>1, <2>1 DEF TypeInv, SessionsOK
  <2> QED BY <1>3, <2>1, <2>2 DEF TypeInv, HoldsOrder, LocksOrder, Working
<1>4. LockHeld'
  BY <1>2, <1>3 DEF LockHeld
<1>5. StatusIsCurrent'
  BY <1>3 DEF StatusIsCurrent, LockHeld, UnsavedLocked, LocksOrder
<1>6. NotYetLoaded'
  BY <1>3 DEF NotYetLoaded
<1>7. AllSummarized'
  BY <1>1 DEF AllSummarized, TypeInv, SessionsOK
<1>8. UnsavedLocked'
  <2> SUFFICES ASSUME NEW t \in Sessions, NEW o \in unsaved'[t]
               PROVE  orderLock'[o] = t /\ status'[o] # "confirmed"
    BY DEF UnsavedLocked
  <2>1. o \in unsaved[t] /\ o \in Orders
    BY <1>1, <1>2 DEF TypeInv, SessionsOK
  <2>2. orderLock[o] = t /\ status[o] # "confirmed"
    BY <2>1 DEF UnsavedLocked
  <2>3. CASE t = s
    BY <1>2, <2>1, <2>2, <2>3
  <2>4. CASE t # s
    BY <1>2, <2>1, <2>2, <2>4 DEF UnsavedLocked
  <2> QED BY <2>3, <2>4
<1> QED BY <1>4, <1>5, <1>6, <1>7, <1>8

(* The orders that the session confirms are locked and still pending: as   *)
(* many as are confirmed are counted.                                      *)
LEMMA ApplyCounts ==
  ASSUME CountInv, ConfirmInv', NEW s \in Sessions, Apply(s)
  PROVE  CountInv'
<1> DEFINE o == ord[s]
           S == unsaved[s]
<1>1. o \in S /\ S \subseteq Orders /\ view[s] \in Views /\ view[s] # None
  BY DEF CountInv, ConfirmInv, TypeInv, SessionsOK, Apply, HoldsView, Deciding, SessionInv,
         UnsavedPaid
<1>2. status' = [p \in Orders |-> IF p \in S THEN "confirmed" ELSE status[p]]
  BY DEF Apply, Save
<1>3. Confirmed' = Confirmed \cup S /\ Confirmed \cap S = {}
  BY <1>1, <1>2 DEF Confirmed, CountInv, UnsavedLocked
<1> DEFINE rewarded == IF EarnsReward(o, view[s]) THEN {Referrer[Owner[o]]} ELSE {}
           users == {Owner[p] : p \in S} \cup rewarded
<1>4. users \subseteq Users /\ summaries = Users /\ view[s].summaries = Users
  BY <1>1 DEF EarnsReward, CountInv, AllSummarized
<1>5. Save(s, rewarded) /\ Return(s, TRUE)
  BY DEF Apply
<1>6. summaries' = summaries
  BY <1>4, <1>5 DEF Save
<1>7. unsaved'[s] = {}
  BY <1>5 DEF Return, NextOrder, CloseSession, CountInv, ConfirmInv, TypeInv, SessionsOK
<1>8. LockHeld' /\ StatusIsCurrent' /\ NotYetLoaded' /\ UnsavedLocked' /\ AllSummarized'
  BY <1>2, <1>5, <1>6, <1>7, ReturnKeepsCounts DEF CountInv, ConfirmInv
<1>9. FinanceCountsOrders'
  <2>1. Initialized(S, users, view[s]) = finance
    <3>1. users \ view[s].summaries = {}
      BY <1>4
    <3> HIDE DEF users, S
    <3> QED BY <3>1 DEF Initialized, CountInv, ConfirmInv, TypeInv, RowsOK
  <2>2. finance' = Counted(S, users, view[s])
    BY <1>5 DEF Save
  <2> SUFFICES ASSUME NEW u \in Users
               PROVE  finance'[u] = Cardinality(OrdersOf(u) \cap Confirmed')
    BY DEF FinanceCountsOrders, OrdersOf
  <2> DEFINE A == OrdersOf(u) \cap Confirmed
             B == OrdersOf(u) \cap S
  <2>3. finance[u] = Cardinality(A)
    BY DEF CountInv, FinanceCountsOrders
  <2>4. finance'[u] = finance[u] + Cardinality(B)
    BY <2>1, <2>2 DEF Counted
  <2>5. OrdersOf(u) \cap Confirmed' = A \cup B /\ A \cap B = {}
    BY <1>3
  <2>6. IsFiniteSet(A) /\ IsFiniteSet(B)
    BY FS_Subset DEF OrdersOf
  <2> HIDE DEF A, B
  <2>7. Cardinality(A \cup B) = Cardinality(A) + Cardinality(B) - Cardinality(A \cap B)
    BY <2>6, FS_Union
  <2>8. Cardinality(A \cap B) = 0
    BY <2>5, FS_EmptySet
  <2>9. Cardinality(A) \in Nat /\ Cardinality(B) \in Nat
    BY <2>6, FS_CardinalityType
  <2>10. Cardinality(A \cup B) = Cardinality(A) + Cardinality(B)
    BY <2>7, <2>8, <2>9
  <2> QED BY <2>3, <2>4, <2>5, <2>10
<1> QED BY <1>8, <1>9 DEF CountInv

LEMMA CountStep ==
  ASSUME "confirm" \notin Entrances
  PROVE  CountInv /\ [Next]_vars => CountInv'
<1> SUFFICES ASSUME CountInv, [Next]_vars PROVE CountInv'
  OBVIOUS
<1> DEFINE Promise ==
      LockHeld /\ StatusIsCurrent /\ NotYetLoaded /\ UnsavedLocked /\ AllSummarized /\ FinanceCountsOrders
<1>1. ConfirmInv'
  BY ConfirmStep DEF CountInv
<1> SUFFICES Promise'
  BY <1>1 DEF CountInv
<1> USE DEF CountInv, ConfirmInv, TypeInv
<1>2. ASSUME UNCHANGED db PROVE FinanceCountsOrders'
  BY <1>2 DEF db, FinanceCountsOrders, OrdersOf, Confirmed
<1>3. ASSUME UNCHANGED db PROVE Snapshot.summaries = Users /\ summaries' = Users
  BY <1>3 DEF db, Snapshot, AllSummarized
<1>4. ASSUME NEW s \in Sessions, pc[s] \in LocksOrder PROVE ord[s] \in Created
  BY <1>4 DEF OrdersExist, LocksOrder, Working
<1>5. ASSUME NEW o \in Orders, CreateOrder(o) PROVE Promise'
  <2>1. /\ \A s \in Sessions : pc[s] \in LocksOrder => status'[ord[s]] = status[ord[s]]
        /\ \A p \in Orders : status[p] # "confirmed" => status'[p] # "confirmed"
    BY <1>4, <1>5 DEF CreateOrder, Created, RowsOK
  <2>2. Confirmed' = Confirmed
    BY <1>5 DEF CreateOrder, Confirmed, RowsOK
  <2>3. FinanceCountsOrders'
    BY <1>5, <2>2 DEF CreateOrder, FinanceCountsOrders, OrdersOf
  <2> QED
    BY <1>5, <2>1, <2>3 DEF CreateOrder, LockHeld, StatusIsCurrent, NotYetLoaded, UnsavedLocked,
       AllSummarized, session, locks, SessionsOK
<1>6. ASSUME NEW o \in Orders, Pay(o) PROVE Promise'
  BY <1>2, <1>6 DEF Pay, db, session, locks, LockHeld, StatusIsCurrent, NotYetLoaded, UnsavedLocked,
     AllSummarized
<1>7. ASSUME NEW s \in Sessions, NEW o \in Orders, CallbackBegin(s, o) PROVE Promise'
  BY <1>2, <1>7 DEF CallbackBegin, Goto, db, locks, SessionsOK, LockHeld, StatusIsCurrent,
     NotYetLoaded, UnsavedLocked, AllSummarized, LocksOrder, SessionInv, NothingSeenBetweenCalls
<1>8. ASSUME NEW s \in Sessions, ReconcileBegin(s) PROVE Promise'
  BY <1>2, <1>3, <1>8 DEF ReconcileBegin, Goto, db, locks, SessionsOK, LockHeld,
     StatusIsCurrent, NotYetLoaded, UnsavedLocked, AllSummarized, LocksOrder
<1>9. ASSUME NEW s \in Sessions, ReconcileNext(s) PROVE Promise'
  BY <1>2, <1>9 DEF ReconcileNext, Goto, db, locks, SessionsOK, LockHeld, StatusIsCurrent,
     NotYetLoaded, UnsavedLocked, AllSummarized, LocksOrder, SessionInv, NothingSeenBetweenCalls
<1>10. ASSUME NEW s \in Sessions, UNCHANGED db,
              \E b \in BOOLEAN : Return(s, b) \/ CloseSession(s)
       PROVE  Promise'
  <2>1. summaries' = summaries /\ \A o \in Orders : status'[o] = status[o]
    BY <1>10 DEF db
  <2> QED BY <1>2, <1>10, <2>1, ReturnKeepsCounts
<1>11. ASSUME NEW s \in Sessions,
             ReconcileEnd(s) \/ GatewayRefuses(s) \/ Reject(s) \/ Conflict(s)
               \/ LockFailure(s) \/ Crash(s)
       PROVE Promise'
  BY <1>10, <1>11 DEF ReconcileEnd, GatewayRefuses, Reject, Conflict, LockFailure, Crash
<1>12. ASSUME NEW s \in Sessions, GatewayPaid(s) PROVE Promise'
  BY <1>2, <1>12 DEF GatewayPaid, Goto, db, locks, SessionsOK, LockHeld, StatusIsCurrent,
     NotYetLoaded, UnsavedLocked, AllSummarized, LocksOrder
(* No other session is past the lock on this order. *)
<1>13. ASSUME NEW s \in Sessions, LockOrder(s) PROVE Promise'
  <2>1. ord[s] \in Orders /\ seen[s] = None
    BY <1>13 DEF LockOrder, HoldsOrder, Working, NotYetLoaded
  <2>2. seen' = [seen EXCEPT ![s] = status[ord[s]]]
    BY <1>13, <2>1 DEF LockOrder, StatusRead
  <2>3. LockHeld'
    BY <1>13, <2>1 DEF LockOrder, Goto, LockHeld, LocksOrder, SessionsOK, HoldsOrder, Working
  <2>4. StatusIsCurrent' /\ NotYetLoaded' /\ UnsavedLocked' /\ AllSummarized'
    BY <1>13, <2>1, <2>2 DEF LockOrder, Goto, db, StatusIsCurrent, NotYetLoaded, UnsavedLocked, AllSummarized,
       LocksOrder, SessionsOK
  <2> QED BY <1>2, <1>13, <2>3, <2>4 DEF LockOrder
<1>14. ASSUME NEW s \in Sessions, LockUser(s) PROVE Promise'
  BY <1>2, <1>3, <1>14 DEF LockUser, Goto, db, SessionsOK, LockHeld, StatusIsCurrent,
     NotYetLoaded, UnsavedLocked, AllSummarized, LocksOrder
<1>15. ASSUME NEW s \in Sessions, AlreadyConfirmed(s) PROVE Promise'
  <2>1. Return(s, FALSE) /\ UNCHANGED db
    BY <1>15, NothingMissing
  <2> QED BY <1>10, <2>1
<1>16. ASSUME NEW s \in Sessions, Accept(s) PROVE Promise'
  <2>1. orderLock[ord[s]] = s /\ status[ord[s]] # "confirmed"
    BY <1>16 DEF Accept, LockHeld, StatusIsCurrent, LocksOrder
  <2> QED
    BY <1>2, <1>16, <2>1 DEF Accept, Goto, db, locks, SessionsOK, LockHeld, StatusIsCurrent,
       NotYetLoaded, UnsavedLocked, AllSummarized, LocksOrder
<1>17. ASSUME NEW s \in Sessions, LockReferrer(s) PROVE Promise'
  BY <1>2, <1>17 DEF LockReferrer, Goto, db, SessionsOK, LockHeld, StatusIsCurrent,
     NotYetLoaded, UnsavedLocked, AllSummarized, LocksOrder
<1>18. ASSUME NEW s \in Sessions, Apply(s) PROVE Promise'
  BY <1>1, <1>18, ApplyCounts
<1>19. ASSUME NEW s \in Sessions, NEW o \in Orders, ConfirmBegin(s, o) PROVE Promise'
  BY <1>19 DEF ConfirmBegin
<1>20. CASE UNCHANGED vars
  BY <1>2, <1>20 DEF vars, db, session, locks, LockHeld, StatusIsCurrent, NotYetLoaded, UnsavedLocked,
     AllSummarized
<1> QED
  BY <1>5, <1>6, <1>7, <1>8, <1>9, <1>11, <1>12, <1>13, <1>14, <1>15, <1>16, <1>17, <1>18,
     <1>19, <1>20 DEF Next, Reconcile, Confirm

(* If no order is loaded before it is locked - callbacks and the reconcile *)
(* loop do not, the browser's entry point does - and every user has a      *)
(* summary row, the summary counts each confirmed order once.              *)
THEOREM FinanceExact ==
  ASSUME "confirm" \notin Entrances, LegacyUsers = {}
  PROVE  Spec => []FinanceCountsOrders
<1>1. Init => CountInv
  BY CountInit
<1>2. CountInv /\ [Next]_vars => CountInv'
  BY CountStep
<1>3. CountInv => FinanceCountsOrders
  BY DEF CountInv
<1> QED BY <1>1, <1>2, <1>3, PTL DEF Spec
-----------------------------------------------------------------------------
(* The checks that read before they write, where every transaction begins  *)
(* with a callback: it reads nothing before it has locked the buyer, so    *)
(* what its snapshot shows of the buyer's orders stays true while it       *)
(* decides.                                                                *)

(* A callback has no snapshot before it has locked the buyer. *)
CallbacksOnly ==
  \A s \in Sessions :
    /\ via[s] # "reconcile"
    /\ pc[s] \in {"idle", "lockOrder", "lockUser"} \cup Deciding
    /\ pc[s] \notin Deciding => view[s] = None

BuyerLocked == \A s \in Sessions : pc[s] \in Deciding => userLock[Owner[ord[s]]] = s

(* What a snapshot shows of a user's orders is what there is. *)
ShowsOrdersOf(v, u) ==
  \A o \in OrdersOf(u) :
    /\ o \in v.confirmed <=> o \in Confirmed
    /\ o \in v.bonus <=> o \in bonus
    /\ o \in v.reward <=> o \in reward

ViewsShowTheBuyer ==
  \A s \in Sessions : pc[s] \in Deciding => ShowsOrdersOf(view[s], Owner[ord[s]])

AcceptedUnrefused ==
  \A s \in Sessions : pc[s] \in {"lockReferrer", "apply"} => ~ Refused(ord[s], view[s])

(* A callback has confirmed its own order at most. *)
UnsavedIsAccepted ==
  \A s \in Sessions :
    unsaved[s] = IF pc[s] \in {"lockReferrer", "apply"} THEN {ord[s]} ELSE {}

ReadInv ==
  CallbacksOnly /\ BuyerLocked /\ ViewsShowTheBuyer /\ AcceptedUnrefused /\ UnsavedIsAccepted

CheckInv == TypeInv /\ ReadInv /\ ChecksHold

LEMMA CheckInit == Init => CheckInv
<1> SUFFICES ASSUME Init PROVE CheckInv
  OBVIOUS
<1>1. TypeInv
  BY TypeInit
<1>2. ReadInv
  BY DEF Init, ReadInv, CallbacksOnly, BuyerLocked, ViewsShowTheBuyer, AcceptedUnrefused,
         UnsavedIsAccepted, Deciding
<1>3. \A u \in Users : OrdersOf(u) \cap bonus = {} /\ OrdersOf(u) \cap reward = {}
  BY DEF Init
<1>4. ChecksHold
  BY <1>3, FS_EmptySet DEF Init, ChecksHold, FirstPurchaseBonusOnce, RewardsWithinLimit,
     TradeConfirmsOneOrder, Confirmed
<1> QED BY <1>1, <1>2, <1>4 DEF CheckInv

(* Rows that no one writes keep the checks. *)
LEMMA ChecksKept ==
  ASSUME ChecksHold, bonus' = bonus, reward' = reward, Confirmed' = Confirmed
  PROVE  ChecksHold'
  BY DEF ChecksHold, FirstPurchaseBonusOnce, RewardsWithinLimit, TradeConfirmsOneOrder, OrdersOf

(* A call that ends takes its session's locks and snapshot with it; the    *)
(* sessions that hold another buyer see nothing of what it wrote.          *)
LEMMA CallEndKeepsReads ==
  ASSUME TypeInv, ReadInv, NEW s \in Sessions,
         (\E ended \in BOOLEAN : Return(s, ended)) \/ CloseSession(s),
         \A t \in Sessions \ {s} : pc[t] \in Deciding =>
           \A o \in OrdersOf(Owner[ord[t]]) :
             /\ o \in Confirmed' <=> o \in Confirmed
             /\ o \in bonus' <=> o \in bonus
             /\ o \in reward' <=> o \in reward
  PROVE  ReadInv'
<1> USE DEF ReadInv, TypeInv
<1>1. CloseSession(s)
  BY DEF Return, CallbacksOnly
<1>2. ASSUME NEW t \in Sessions, t # s
      PROVE  /\ pc'[t] = pc[t] /\ ord'[t] = ord[t] /\ view'[t] = view[t] /\ via'[t] = via[t]
             /\ unsaved'[t] = unsaved[t]
             /\ \A u \in Users : userLock[u] = t => userLock'[u] = t
  BY <1>1, <1>2 DEF CloseSession, Goto, ReleaseLocks, SessionsOK
<1>3. pc'[s] = "idle" /\ view'[s] = None /\ via'[s] = None /\ unsaved'[s] = {}
  BY <1>1 DEF CloseSession, Goto, SessionsOK
<1>4. CallbacksOnly'
  BY <1>2, <1>3 DEF CallbacksOnly, Deciding
<1>5. ASSUME NEW t \in Sessions, pc'[t] \in Deciding
      PROVE  t # s /\ pc[t] \in Deciding /\ ord[t] \in Orders /\ Owner[ord[t]] \in Users
  <2>1. t # s
    BY <1>3, <1>5 DEF Deciding
  <2>2. pc[t] \in Deciding
    BY <1>2, <1>5, <2>1
  <2> QED BY <2>1, <2>2 DEF Deciding, HoldsOrder, Working
<1>6. BuyerLocked'
  BY <1>2, <1>5 DEF BuyerLocked
<1>7. ViewsShowTheBuyer'
  <2> SUFFICES ASSUME NEW t \in Sessions, pc'[t] \in Deciding,
                      NEW o \in OrdersOf(Owner[ord[t]])
               PROVE  /\ o \in view[t].confirmed <=> o \in Confirmed'
                      /\ o \in view[t].bonus <=> o \in bonus'
                      /\ o \in view[t].reward <=> o \in reward'
    BY <1>2, <1>5 DEF ViewsShowTheBuyer, ShowsOrdersOf, OrdersOf
  <2> QED BY <1>5 DEF ViewsShowTheBuyer, ShowsOrdersOf
<1>8. AcceptedUnrefused'
  BY <1>2, <1>3 DEF AcceptedUnrefused, Refused, DuplicateTrade
<1>9. UnsavedIsAccepted'
  BY <1>2, <1>3 DEF UnsavedIsAccepted
<1> QED BY <1>4, <1>6, <1>7, <1>8, <1>9

(* The confirmation of an order of the buyer that is locked. *)
LEMMA ApplyChecks ==
  ASSUME CheckInv, NEW s \in Sessions, Apply(s)
  PROVE  ReadInv' /\ ChecksHold'
<1> DEFINE o == ord[s]
           v == view[s]
           u == Owner[o]
<1> USE DEF CheckInv, ReadInv, TypeInv
<1>1. o \in Orders /\ v \in Views /\ u \in Users /\ o \in OrdersOf(u) /\ pc[s] \in Deciding
  BY DEF Apply, HoldsOrder, HoldsView, Working, Deciding, OrdersOf
<1>2. ShowsOrdersOf(v, u) /\ ~ Refused(o, v)
  BY <1>1 DEF ViewsShowTheBuyer, AcceptedUnrefused, Apply
<1>3. Confirmed' = Confirmed \cup {o}
  BY <1>1 DEF Apply, Save, Confirmed, RowsOK, UnsavedIsAccepted
<1>4. bonus' \subseteq bonus \cup {o} /\ bonus \subseteq bonus'
      /\ reward' \subseteq reward \cup {o} /\ reward \subseteq reward'
  BY DEF Apply
<1>5. ReadInv'
  <2>1. \A t \in Sessions \ {s} : pc[t] \in Deciding => o \notin OrdersOf(Owner[ord[t]])
    BY <1>1 DEF BuyerLocked, OrdersOf
  <2>2. \A t \in Sessions \ {s} : pc[t] \in Deciding =>
          \A p \in OrdersOf(Owner[ord[t]]) :
            /\ p \in Confirmed' <=> p \in Confirmed
            /\ p \in bonus' <=> p \in bonus
            /\ p \in reward' <=> p \in reward
    BY <1>3, <1>4, <2>1
  <2> QED BY <2>2, CallEndKeepsReads DEF Apply
<1>6. \A w \in Users : w # u => OrdersOf(w) \cap bonus' = OrdersOf(w) \cap bonus
                             /\ OrdersOf(w) \cap reward' = OrdersOf(w) \cap reward
  BY <1>4 DEF OrdersOf
<1>7. FirstPurchaseBonusOnce'
  <2>1. CASE EarnsBonus(o, v)
    <3>1. OrdersOf(u) \cap bonus' = {o}
      BY <1>1, <1>2, <2>1 DEF Apply, EarnsBonus, ShowsOrdersOf
    <3>2. Cardinality(OrdersOf(u) \cap bonus') = 1
      BY <3>1, FS_Singleton
    <3> QED BY <1>6, <3>2 DEF FirstPurchaseBonusOnce, ChecksHold, OrdersOf
  <2>2. CASE ~ EarnsBonus(o, v)
    BY <2>2 DEF Apply, FirstPurchaseBonusOnce, ChecksHold, OrdersOf
  <2> QED BY <2>1, <2>2
<1>8. RewardsWithinLimit'
  <2> SUFFICES ASSUME MaxRewards > 0, NEW w \in Users
               PROVE  Cardinality(OrdersOf(w) \cap reward') <= MaxRewards
    BY DEF RewardsWithinLimit, OrdersOf
  <2>1. CASE w = u /\ EarnsReward(o, v)
    <3> DEFINE R == OrdersOf(u) \cap reward
    <3>1. R = OrdersOf(u) \cap v.reward /\ OrdersOf(u) \cap reward' = R \cup {o} /\ o \notin R
      BY <1>1, <1>2, <2>1 DEF Apply, EarnsReward, ShowsOrdersOf
    <3>2. IsFiniteSet(R)
      BY FS_Subset DEF OrdersOf
    <3>3. Cardinality(R) < MaxRewards
      BY <2>1, <3>1 DEF EarnsReward
    <3>4. o \notin R
      BY <3>1
    <3>5. OrdersOf(u) \cap reward' = R \cup {o}
      BY <3>1
    <3> HIDE DEF R
    <3>6. Cardinality(R \cup {o}) = Cardinality(R) + 1
      BY <3>2, <3>4, FS_AddElement DEF R
    <3>7. Cardinality(R) \in Nat
      BY <3>2, FS_CardinalityType DEF R
    <3>8. Cardinality(R \cup {o}) <= MaxRewards
      BY <3>3, <3>6, <3>7 DEF R
    <3> QED BY <2>1, <3>5, <3>8
  <2>2. CASE w # u
    BY <1>6, <2>2 DEF ChecksHold, RewardsWithinLimit
  <2>3. CASE ~ EarnsReward(o, v)
    BY <2>3 DEF Apply, ChecksHold, RewardsWithinLimit
  <2> QED BY <2>1, <2>2, <2>3
<1>9. TradeConfirmsOneOrder'
  <2>1. \A p \in Confirmed : p # o /\ Owner[p] = u => TradeOf[p] # TradeOf[o]
    BY <1>2 DEF Refused, DuplicateTrade, ShowsOrdersOf, OrdersOf, Confirmed
  <2> QED BY <1>3, <2>1 DEF ChecksHold, TradeConfirmsOneOrder
<1> QED BY <1>5, <1>7, <1>8, <1>9 DEF ChecksHold

LEMMA CheckStep ==
  ASSUME Entrances \subseteq {"callback"}
  PROVE  CheckInv /\ [Next]_vars => CheckInv'
<1> SUFFICES ASSUME CheckInv, [Next]_vars PROVE CheckInv'
  OBVIOUS
<1> DEFINE Promise == ReadInv /\ ChecksHold
<1>1. TypeInv'
  BY TypeStep DEF CheckInv
<1> SUFFICES Promise'
  BY <1>1 DEF CheckInv
<1> USE DEF CheckInv, TypeInv
(* Steps that write no confirmation, bonus or reward. *)
<1> DEFINE Quiet == bonus' = bonus /\ reward' = reward /\ Confirmed' = Confirmed
<1>2. ASSUME Quiet, UNCHANGED <<pc, via, ord, view, unsaved, userLock>> PROVE Promise'
  <2>1. ChecksHold'
    BY <1>2, ChecksKept
  <2>3. ReadInv'
    BY <1>2 DEF ReadInv, CallbacksOnly, BuyerLocked, ViewsShowTheBuyer, AcceptedUnrefused,
       UnsavedIsAccepted, ShowsOrdersOf, OrdersOf, Refused, DuplicateTrade
  <2> QED BY <2>1, <2>3
<1>3. ASSUME NEW o \in Orders, CreateOrder(o) \/ Pay(o) PROVE Promise'
  <2>1. Quiet
    BY <1>3 DEF CreateOrder, Pay, db, Confirmed, RowsOK
  <2> QED BY <1>2, <1>3, <2>1 DEF CreateOrder, Pay, session, locks
<1>4. ASSUME NEW s \in Sessions, NEW o \in Orders, CallbackBegin(s, o) \/ ConfirmBegin(s, o)
      PROVE  Promise'
  <2>1. CallbackBegin(s, o)
    BY <1>4 DEF ConfirmBegin
  <2>2. ChecksHold'
    BY <2>1, ChecksKept DEF CallbackBegin, db, Confirmed
  <2>3. ReadInv'
    BY <2>1 DEF CallbackBegin, Goto, db, locks, SessionsOK, ReadInv, CallbacksOnly, BuyerLocked,
       ViewsShowTheBuyer, AcceptedUnrefused, UnsavedIsAccepted, ShowsOrdersOf, OrdersOf, Refused, DuplicateTrade,
       Deciding, Confirmed
  <2> QED BY <2>2, <2>3
<1>5. ASSUME NEW s \in Sessions, Quiet, (\E b \in BOOLEAN : Return(s, b)) \/ CloseSession(s)
      PROVE  Promise'
  BY <1>5, ChecksKept, CallEndKeepsReads
<1>6. ASSUME NEW s \in Sessions,
             ReconcileEnd(s) \/ GatewayRefuses(s) \/ Reject(s) \/ Conflict(s)
               \/ LockFailure(s) \/ Crash(s)
      PROVE  Promise'
  <2>1. Quiet
    BY <1>6 DEF ReconcileEnd, GatewayRefuses, Reject, Conflict, LockFailure, Crash, db, Confirmed
  <2>2. (\E b \in BOOLEAN : Return(s, b)) \/ CloseSession(s)
    BY <1>6 DEF ReconcileEnd, GatewayRefuses, Reject, Conflict, LockFailure, Crash
  <2> QED BY <1>5, <2>1, <2>2
<1>7. ASSUME NEW s \in Sessions, AlreadyConfirmed(s) PROVE Promise'
  <2>1. Quiet
    BY <1>7 DEF AlreadyConfirmed, Save, Confirmed, RowsOK, ReadInv, UnsavedIsAccepted
  <2>2. \E b \in BOOLEAN : Return(s, b)
    BY <1>7 DEF AlreadyConfirmed, LacksCommission
  <2> QED BY <1>5, <2>1, <2>2
<1>8. ASSUME NEW s \in Sessions, ReconcileBegin(s) \/ ReconcileNext(s) \/ GatewayPaid(s)
      PROVE  Promise'
  BY <1>8 DEF ReconcileBegin, ReconcileNext, GatewayPaid, ReadInv, CallbacksOnly, Deciding
<1>9. ASSUME NEW s \in Sessions, LockOrder(s) PROVE Promise'
  <2>1. ChecksHold'
    BY <1>9, ChecksKept DEF LockOrder, db, Confirmed
  <2>2. ReadInv'
    BY <1>9 DEF LockOrder, Goto, db, SessionsOK, ReadInv, CallbacksOnly, BuyerLocked,
       ViewsShowTheBuyer, AcceptedUnrefused, UnsavedIsAccepted, ShowsOrdersOf, OrdersOf, Refused, DuplicateTrade,
       Deciding, Confirmed
  <2> QED BY <2>1, <2>2
(* The first read is made here, and no one else holds the buyer. *)
<1>10. ASSUME NEW s \in Sessions, LockUser(s) PROVE Promise'
  <2>1. ChecksHold'
    BY <1>10, ChecksKept DEF LockUser, db, Confirmed
  <2>2. view' = [view EXCEPT ![s] = Snapshot]
    BY <1>10 DEF LockUser, ReadInv, CallbacksOnly, Deciding
  <2>3. ord[s] \in Orders /\ Owner[ord[s]] \in Users
    BY <1>10 DEF LockUser, HoldsOrder, Working
  <2>4. CallbacksOnly'
    BY <1>10 DEF LockUser, Goto, SessionsOK, ReadInv, CallbacksOnly, Deciding
  <2>5. BuyerLocked'
    <3> SUFFICES ASSUME NEW t \in Sessions, pc'[t] \in Deciding
                 PROVE  userLock'[Owner[ord[t]]] = t
      BY <1>10 DEF LockUser, BuyerLocked
    <3>1. CASE t = s
      BY <1>10, <2>3, <3>1 DEF LockUser, SessionsOK
    <3>2. CASE t # s
      BY <1>10, <3>2 DEF LockUser, Goto, SessionsOK, UserFree, ReadInv, BuyerLocked
    <3> QED BY <3>1, <3>2
  <2>6. ViewsShowTheBuyer'
    <3>1. \A u : ShowsOrdersOf(Snapshot, u)
      BY DEF ShowsOrdersOf, Snapshot
    <3>2. Quiet
      BY <1>10 DEF LockUser, db, Confirmed
    <3>3. ASSUME NEW t \in Sessions, pc'[t] \in Deciding
          PROVE  ShowsOrdersOf(view'[t], Owner[ord[t]])
      BY <1>10, <2>2, <3>1, <3>3 DEF LockUser, Goto, SessionsOK, ReadInv, ViewsShowTheBuyer
    <3> QED
      BY <1>10, <3>2, <3>3 DEF LockUser, ViewsShowTheBuyer, ShowsOrdersOf, OrdersOf
  <2>7. AcceptedUnrefused' /\ UnsavedIsAccepted'
    BY <1>10, <2>2 DEF LockUser, Goto, SessionsOK, ReadInv, AcceptedUnrefused,
       UnsavedIsAccepted, Refused, DuplicateTrade
  <2> QED BY <2>1, <2>4, <2>5, <2>6, <2>7 DEF ReadInv
<1>11. ASSUME NEW s \in Sessions, Accept(s) PROVE Promise'
  <2>1. ChecksHold'
    BY <1>11, ChecksKept DEF Accept, db, Confirmed
  <2>2. unsaved[s] = {} /\ view[s] \in Views /\ ord[s] \in Orders
    BY <1>11 DEF Accept, ReadInv, UnsavedIsAccepted, HoldsView, HoldsOrder, Deciding, Working
  <2>3. Refused(ord[s], Reads(s)) = Refused(ord[s], view[s])
    BY <2>2 DEF Reads, Refused, DuplicateTrade, Views
  <2>4. CallbacksOnly' /\ BuyerLocked'
    BY <1>11 DEF Accept, Goto, locks, SessionsOK, ReadInv, CallbacksOnly, BuyerLocked, Deciding
  <2>5. ViewsShowTheBuyer'
    BY <1>11 DEF Accept, Goto, db, SessionsOK, ReadInv, ViewsShowTheBuyer, ShowsOrdersOf,
       OrdersOf, Confirmed, Deciding
  <2>6. AcceptedUnrefused'
    BY <1>11, <2>3 DEF Accept, Goto, SessionsOK, ReadInv, AcceptedUnrefused, Refused,
       DuplicateTrade
  <2>7. UnsavedIsAccepted'
    BY <1>11, <2>2 DEF Accept, Goto, SessionsOK, ReadInv, UnsavedIsAccepted
  <2> QED BY <2>1, <2>4, <2>5, <2>6, <2>7 DEF ReadInv
<1>12. ASSUME NEW s \in Sessions, LockReferrer(s) PROVE Promise'
  <2>1. ChecksHold'
    BY <1>12, ChecksKept DEF LockReferrer, db, Confirmed
  <2>2. CallbacksOnly' /\ AcceptedUnrefused' /\ UnsavedIsAccepted'
    BY <1>12 DEF LockReferrer, Goto, SessionsOK, ReadInv, CallbacksOnly, AcceptedUnrefused,
       UnsavedIsAccepted, Refused, DuplicateTrade, Deciding
  <2>3. BuyerLocked'
    BY <1>12 DEF LockReferrer, Goto, SessionsOK, UserFree, ReadInv, BuyerLocked, Deciding
  <2>4. ViewsShowTheBuyer'
    BY <1>12 DEF LockReferrer, Goto, db, SessionsOK, ReadInv, ViewsShowTheBuyer, ShowsOrdersOf,
       OrdersOf, Deciding, Confirmed
  <2> QED BY <2>1, <2>2, <2>3, <2>4 DEF ReadInv
<1>13. ASSUME NEW s \in Sessions, Apply(s) PROVE Promise'
  BY <1>13, ApplyChecks
<1>14. CASE UNCHANGED vars
  BY <1>2, <1>14 DEF vars, db, session, locks, Confirmed
<1> QED
  BY <1>3, <1>4, <1>6, <1>7, <1>8, <1>9, <1>10, <1>11, <1>12, <1>13, <1>14
     DEF Next, Reconcile, Confirm

(* However often callbacks for the orders of one buyer arrive at once, and *)
(* wherever they fail: one order gets the first-purchase bonus, rewards    *)
(* stay within their limit and a gateway trade pays for one order          *)
(* (confirm_paid_order locks the buyer before it reads what it checks).    *)
THEOREM ChecksAreStable ==
  ASSUME Entrances \subseteq {"callback"}
  PROVE  Spec => []ChecksHold
<1>1. CheckInv /\ [Next]_vars => CheckInv'
  BY CheckStep
<1>2. CheckInv => ChecksHold
  BY DEF CheckInv
<1> QED BY <1>1, <1>2, CheckInit, PTL DEF Spec
=============================================================================
