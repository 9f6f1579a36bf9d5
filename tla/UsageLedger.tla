----------------------------- MODULE UsageLedger -----------------------------
(***************************************************************************)
(* What the usage buffer promises: the cost of a served request is owed    *)
(* and then charged; or it is dropped, because the worker that held it     *)
(* went away, and then never charged.  A charge is made once, unless the   *)
(* one that made it was in doubt: a charge in doubt may be made again.     *)
(***************************************************************************)
EXTENDS Naturals

CONSTANTS Records, Free   \* Free: records that cost nothing

VARIABLES
  stage,    \* [Records -> {"new", "owed", "charged", "dropped"}]
  charges,  \* how many times its cost was charged
  again,    \* charged, but in doubt: still waiting to be charged
  doubts    \* how many charges were in doubt

vars == <<stage, charges, again, doubts>>

Init ==
  /\ stage = [r \in Records |-> "new"]
  /\ charges = [r \in Records |-> 0]
  /\ again = {}
  /\ doubts = 0

Owe(r) ==
  /\ stage[r] = "new"
  /\ stage' = [stage EXCEPT ![r] = "owed"]
  /\ UNCHANGED <<charges, again, doubts>>

Waiting == {r \in Records : stage[r] = "owed"} \cup again

Charge(S) ==
  /\ S \subseteq Waiting
  /\ stage' = [r \in Records |-> IF r \in S THEN "charged" ELSE stage[r]]
  /\ charges' = [r \in Records |-> IF r \in S \ Free THEN charges[r] + 1 ELSE charges[r]]

ChargeOnce(S) == Charge(S) /\ again' = again \ S /\ UNCHANGED doubts

ChargeInDoubt(S) == Charge(S) /\ again' = again \cup S /\ doubts' = doubts + 1

(* A worker that stops drops what it still holds. *)
Drop(S) ==
  /\ S \subseteq Waiting
  /\ stage' = [r \in Records |-> IF r \in S \ again THEN "dropped" ELSE stage[r]]
  /\ again' = again \ S
  /\ UNCHANGED <<charges, doubts>>

Next ==
  \/ \E r \in Records : Owe(r)
  \/ \E S \in SUBSET Records : ChargeOnce(S) \/ ChargeInDoubt(S) \/ Drop(S)

Spec == Init /\ [][Next]_vars
=============================================================================
