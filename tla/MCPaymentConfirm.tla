-------------------------- MODULE MCPaymentConfirm --------------------------
(* Small instances of PaymentConfirm: buyer u1, referred by u2, and u2.    *)
EXTENDS PaymentConfirm, TLC

CONSTANTS s1, s2, u1, u2, t1, t2

MCUsers == {u1, u2}
MCSymmetry == Permutations(Sessions)

(* Who was referred by whom. *)
Referred == (u1 :> u2) @@ (u2 :> None)
NotReferred == [u \in MCUsers |-> None]

(* Session s1 is the reconcile leader. *)
FairSpec == Spec /\ Fairness(s1)

(* Whose orders: all of them u1's, or the last one u2's. *)
OneBuyer == [o \in Orders |-> u1]
TwoBuyers == [o \in Orders |-> IF \E p \in Orders : p > o THEN u1 ELSE u2]

(* The gateway's trade numbers, once with one number for two orders. *)
OwnTrades == [o \in Orders |-> o]
SharedTrade == [o \in Orders |-> IF o <= 2 THEN t1 ELSE t2]
=============================================================================
