----------------------------- MODULE OrderLedger -----------------------------
(***************************************************************************)
(* What order confirmation promises: a recharge order is opened, its buyer *)
(* pays the gateway, and the order is then credited once, and only once,   *)
(* by as many batches of permanent credit as one purchase grants.          *)
(* Everything else that app/payment_common.py does - callbacks that are    *)
(* delivered twice, a browser and the reconcile loop that confirm the same *)
(* order, transactions that roll back - is invisible here.                 *)
(***************************************************************************)
EXTENDS Naturals

CONSTANT Orders

VARIABLES
  stage,    \* [Orders -> {"absent", "open", "paid", "credited"}]
  batches   \* credit batches granted for an order

vars == <<stage, batches>>

Init ==
  /\ stage = [o \in Orders |-> "absent"]
  /\ batches = [o \in Orders |-> 0]

Open(o) ==
  /\ stage[o] = "absent"
  /\ stage' = [stage EXCEPT ![o] = "open"]
  /\ UNCHANGED batches

Settle(o) ==
  /\ stage[o] = "open"
  /\ stage' = [stage EXCEPT ![o] = "paid"]
  /\ UNCHANGED batches

(* One transaction may credit several orders. *)
Credit(S) ==
  /\ \A o \in S : stage[o] = "paid"
  /\ stage' = [o \in Orders |-> IF o \in S THEN "credited" ELSE stage[o]]
  /\ batches' = [o \in Orders |-> IF o \in S THEN batches[o] + 1 ELSE batches[o]]

Next ==
  \/ \E o \in Orders : Open(o) \/ Settle(o)
  \/ \E S \in SUBSET Orders : Credit(S)

Spec == Init /\ [][Next]_vars
=============================================================================
