-------------------------- MODULE UsageBufferProofs --------------------------
(***************************************************************************)
(* Theorems about UsageBuffer, for any number of workers, users and        *)
(* requests, any costs, and any number of ambiguous commits.               *)
(***************************************************************************)
EXTENDS UsageBuffer, FiniteSetTheorems, WellFoundedInduction, TLAPS

(* Debits, daily totals and logs move together. *)
Books ==
  /\ daily = debited
  /\ \A r \in Records :
       /\ r \in LogOnly => debited[r] = 0
       /\ r \notin LogOnly => (debited[r] >= 1 <=> logs[r] = 1)

(* A record is held by the worker that served it, in the buffer or in the  *)
(* flush under way, never in both.                                         *)
Placed ==
  \A w \in Workers :
    /\ \A r \in buf[w] \cup flushing[w] : phase[r] = "buffered" /\ at[r] = w
    /\ buf[w] \cap flushing[w] = {}

Fresh ==
  \A r \in Records :
    phase[r] \in {"new", "scheduled"} => debited[r] = 0 /\ logs[r] = 0

(* What is held has been charged at most as often as a commit was applied  *)
(* and reported as failed.                                                 *)
Owed ==
  \A w \in Workers : \A r \in buf[w] \cup flushing[w] :
    debited[r] <= ambiguous /\ logs[r] <= ambiguous

(* Pending key costs belong to records that were never in a flush. *)
KeyCosts ==
  \A w \in Workers : \A r \in keyBuf[w] : r \in buf[w] /\ logs[r] = 0

IInv ==
  /\ BuffersOK /\ RowsOK
  /\ Books /\ Placed /\ Fresh /\ Owed /\ KeyCosts
  /\ NothingDropped /\ ChargedAtMostOnce

LEMMA InitHolds == Init => IInv
  <1> USE RecordsAssumption, NumbersAssumption, NoneAssumption
      DEF RecordsAssumption, NumbersAssumption, NoneAssumption
  <1> QED BY DEF Init, IInv, BuffersOK, RowsOK, Books, Placed, Fresh, Owed,
                 KeyCosts, NothingDropped, ChargedAtMostOnce

LEMMA NextPreserves == IInv /\ [Next]_vars => IInv'
  <1> SUFFICES ASSUME IInv, [Next]_vars PROVE IInv'
    OBVIOUS
  <1> USE RecordsAssumption, NumbersAssumption, NoneAssumption
      DEF RecordsAssumption, NumbersAssumption, NoneAssumption
  <1> USE DEF IInv, BuffersOK, RowsOK, Books, Placed, Fresh, Owed, KeyCosts,
              NothingDropped, ChargedAtMostOnce, db
  <1>1. CASE UNCHANGED vars
    BY <1>1 DEF vars
  <1>2. ASSUME NEW w \in Workers, NEW r \in Records, ScheduleAdd(w, r) PROVE IInv'
    BY <1>2 DEF ScheduleAdd
  <1>3. ASSUME NEW w \in Workers, NEW r \in Records, Add(w, r) PROVE IInv'
    BY <1>3 DEF Add
  <1>4. ASSUME NEW w \in Workers, FlushBegin(w) PROVE IInv'
    BY <1>4 DEF FlushBegin, TakeSnapshot, HasWork, Left
  <1>5. ASSUME NEW w \in Workers, FlushCommit(w) PROVE IInv'
    BY <1>5 DEF FlushCommit, WriteBatch, Increment, Billable, Logged, Taken
  <1>6. ASSUME NEW w \in Workers, FlushFail(w) PROVE IInv'
    BY <1>6 DEF FlushFail, Requeue, PutBack, Increment, Persisted
  <1>7. ASSUME NEW w \in Workers, FlushAmbiguous(w) PROVE IInv'
    BY <1>7 DEF FlushAmbiguous, WriteBatch, Increment, Billable, Logged, Requeue, PutBack
  <1>8. ASSUME NEW w \in Workers, StopBegin(w) PROVE IInv'
    <2>1. CASE WriteBatch(flushing[w]) /\ UNCHANGED phase
      BY <1>8, <2>1 DEF StopBegin, TakeSnapshot, HasWork, Left, WriteBatch, Increment, Billable, Logged
    <2>2. CASE Lose(flushing[w]) /\ UNCHANGED db
      <3>1. BuffersOK' /\ RowsOK' /\ Books' /\ ChargedAtMostOnce'
        BY <1>8, <2>2 DEF StopBegin, TakeSnapshot, HasWork, Left, Lose
      <3>2. Placed' /\ Owed' /\ KeyCosts' /\ Fresh'
        BY <1>8, <2>2 DEF StopBegin, TakeSnapshot, HasWork, Left, Lose
      <3>3. NothingDropped'
        BY <1>8, <2>2 DEF StopBegin, TakeSnapshot, HasWork, Left, Lose
      <3> QED BY <3>1, <3>2, <3>3
    <2> QED BY <1>8, <2>1, <2>2 DEF StopBegin
  <1>9. ASSUME NEW w \in Workers, StopEnd(w) PROVE IInv'
    BY <1>9 DEF StopEnd, Lose, Held
  <1>10. ASSUME NEW w \in Workers, Crash(w) PROVE IInv'
    BY <1>10 DEF Crash, Lose, Held
  <1>11. ASSUME NEW w \in Workers, Restart(w) PROVE IInv'
    BY <1>11 DEF Restart
  <1> QED
    BY <1>1, <1>2, <1>3, <1>4, <1>5, <1>6, <1>7, <1>8, <1>9, <1>10, <1>11 DEF Next, Flush

(* The books of the buffer, in every reachable state (usage_buffer.py).   *)
THEOREM Inductive == Spec => []IInv
  <1> QED BY InitHolds, NextPreserves, PTL DEF Spec

(* The buffers and the rows stay within their types: request_logs never    *)
(* holds two rows of a record.                                             *)
THEOREM UsageTypeCorrect == Spec => [](BuffersOK /\ RowsOK)
  <1>1. IInv => BuffersOK /\ RowsOK
    BY DEF IInv
  <1> QED BY Inductive, <1>1, PTL

(* usage_buffer.flush_once and requeue forget no buffered request.         *)
THEOREM UsageNotForgotten == Spec => []NothingDropped
  <1>1. IInv => NothingDropped
    BY DEF IInv
  <1> QED BY Inductive, <1>1, PTL

(* Debits, usage_daily and request_logs count the same requests, whatever  *)
(* fails (the one transaction of flush_once).                              *)
THEOREM UsageBooksAgree == Spec => [](LoggedIffCharged /\ DailyMatchesDebits)
  <1>1. IInv => LoggedIffCharged /\ DailyMatchesDebits
    BY DEF IInv, Books, LoggedIffCharged, DailyMatchesDebits
  <1> QED BY Inductive, <1>1, PTL

(* A retry charges again only after a commit that was applied and reported *)
(* as failed.                                                              *)
THEOREM UsageChargedAtMostOnce == Spec => []ChargedAtMostOnce
  <1>1. IInv => ChargedAtMostOnce
    BY DEF IInv
  <1> QED BY Inductive, <1>1, PTL

(* Nothing is counted both as pending and as logged against a key's quota  *)
(* (proxy._enforce_api_key_controls).                                      *)
THEOREM UsagePendingNotLogged == Spec => []PendingNotLogged
  <1>1. IInv => PendingNotLogged
    BY DEF IInv, KeyCosts, PendingNotLogged
  <1> QED BY Inductive, <1>1, PTL

-----------------------------------------------------------------------------
(* The ledger of usage. *)

Stage == [r \in Records |->
            IF logs[r] = 1 THEN "charged"
            ELSE IF phase[r] = "lost" THEN "dropped"
            ELSE IF phase[r] = "new" THEN "new" ELSE "owed"]
InBuffer(w) == buf[w] \cup flushing[w]
Again == {r \in Records : logs[r] = 1 /\ \E w \in Workers : r \in buf[w] \cup flushing[w]}
LedgerUnchanged == UNCHANGED <<Stage, debited, Again, ambiguous>>

(* What a worker holds waits in the ledger. *)
LEMMA HeldIsWaiting ==
  ASSUME IInv, NEW w \in Workers
  PROVE  /\ Held(w) \in SUBSET Records /\ flushing[w] \in SUBSET Records
         /\ \A r \in Held(w) : Stage[r] = "owed" \/ r \in Again
         /\ InBuffer(w) \subseteq Held(w)
  BY DEF IInv, BuffersOK, RowsOK, Fresh, Placed, Held, Stage, Again, InBuffer

LEMMA LedgerInit == Init => Ledger!Init
  <1> SUFFICES ASSUME Init PROVE Ledger!Init
    OBVIOUS
  <1>1. Again = {}
    BY DEF Init, Again
  <1> QED BY <1>1 DEF Init, Ledger!Init, Again

(* A transaction over the flush of w charges what waits. *)
LEMMA LedgerCharge ==
  ASSUME IInv, NEW w \in Workers, NEW S, S = flushing[w],
         WriteBatch(flushing[w]), \A r \in Records : r \notin S => phase'[r] = phase[r]
  PROVE  Ledger!Charge(S)
  <1>1. S \subseteq Records /\ \A r \in S : Stage[r] = "owed" \/ r \in Again
    BY HeldIsWaiting DEF InBuffer
  <1>2. Stage' = [r \in Records |-> IF r \in S THEN "charged" ELSE Stage[r]]
    BY <1>1 DEF WriteBatch, Logged, Stage
  <1>3. debited' = [r \in Records |-> IF r \in S \ LogOnly THEN debited[r] + 1 ELSE debited[r]]
    BY DEF WriteBatch, Increment, Billable
  <1> QED BY <1>1, <1>2, <1>3 DEF Ledger!Charge, Ledger!Waiting, Stage, Again

(* What leaves the buffers of w is no longer waiting to be charged again. *)
LEMMA AgainWithout ==
  ASSUME IInv, NEW w \in Workers, NEW S \in SUBSET InBuffer(w),
         \A r \in Records \ S : logs'[r] = logs[r],
         InBuffer(w)' = InBuffer(w) \ S,
         \A v \in Workers \ {w} : InBuffer(v)' = InBuffer(v)
  PROVE  Again' = Again \ S
  <1>1. \A v \in Workers \ {w} : InBuffer(v) \cap S = {}
    BY DEF IInv, Placed, InBuffer
  <1>2. ASSUME NEW r \in Records PROVE r \in Again' <=> r \in Again \ S
    <2>1. CASE r \in S
      BY <2>1, <1>1 DEF Again, InBuffer
    <2>2. CASE r \notin S
      BY <2>2, <1>1 DEF Again, InBuffer
    <2> QED BY <2>1, <2>2
  <1> QED BY <1>2 DEF Again

LEMMA LedgerDrop ==
  ASSUME IInv, NEW w \in Workers, NEW S \in SUBSET Held(w), NEW B \in SUBSET Records,
         B \subseteq InBuffer(w), S \cap InBuffer(w) \subseteq B, B \subseteq S,
         Lose(S), logs' = logs, debited' = debited, ambiguous' = ambiguous,
         InBuffer(w)' = InBuffer(w) \ B,
         \A v \in Workers \ {w} : InBuffer(v)' = InBuffer(v)
  PROVE  Ledger!Drop(S)
  <1>1. S \subseteq Records /\ \A r \in S : Stage[r] = "owed" \/ r \in Again
    BY HeldIsWaiting
  <1>2. Again' = Again \ B
    BY AgainWithout
  <1>3. Again \ B = Again \ S
    BY DEF IInv, BuffersOK, RowsOK, Fresh, Placed, Held, InBuffer, Again
  <1>4. \A r \in S : r \in Again <=> logs[r] = 1
    BY <1>1 DEF Again, Stage, IInv, RowsOK
  <1>5. Stage' = [r \in Records |-> IF r \in S \ Again THEN "dropped" ELSE Stage[r]]
    BY <1>1, <1>4 DEF Lose, Stage
  <1> QED BY <1>1, <1>2, <1>3, <1>5 DEF Ledger!Drop, Ledger!Waiting, Stage, Again

LEMMA LedgerStep ==
  ASSUME IInv, [Next]_vars
  PROVE  Ledger!Next \/ LedgerUnchanged
  <1> USE RecordsAssumption, NumbersAssumption, NoneAssumption
      DEF RecordsAssumption, NumbersAssumption, NoneAssumption
  <1>1. CASE UNCHANGED vars
    BY <1>1 DEF vars, db, Stage, Again, LedgerUnchanged
  <1>2. ASSUME NEW w \in Workers, NEW r \in Records, ScheduleAdd(w, r) PROVE Ledger!Next
    <2>1. Stage[r] = "new" /\ logs[r] = 0
      BY <1>2 DEF ScheduleAdd, IInv, Fresh, Stage
    <2>2. Stage' = [Stage EXCEPT ![r] = "owed"]
      BY <1>2, <2>1 DEF ScheduleAdd, db, Stage, IInv, BuffersOK
    <2>3. Again' = Again
      BY <1>2 DEF ScheduleAdd, db, Again
    <2>4. Ledger!Owe(r)
      BY <1>2, <2>1, <2>2, <2>3 DEF Ledger!Owe, ScheduleAdd, db, Stage, Again
    <2> QED BY <2>4 DEF Ledger!Next
  <1>3. ASSUME NEW w \in Workers, NEW r \in Records, Add(w, r) PROVE LedgerUnchanged
    <2>1. logs[r] = 0
      BY <1>3 DEF Add, IInv, Fresh
    <2>2. Again' = Again
      BY <1>3, <2>1 DEF Add, db, Again, IInv, BuffersOK
    <2>3. Stage' = Stage
      BY <1>3 DEF Add, db, Stage, IInv, BuffersOK
    <2> QED BY <1>3, <2>2, <2>3 DEF Add, db, LedgerUnchanged
  <1>4. ASSUME NEW w \in Workers, FlushBegin(w) PROVE LedgerUnchanged
    <2>1. Again' = Again
      BY <1>4 DEF FlushBegin, TakeSnapshot, HasWork, db, Again, IInv, BuffersOK
    <2> QED BY <1>4, <2>1 DEF FlushBegin, db, Stage, LedgerUnchanged
  <1>5. ASSUME NEW w \in Workers, FlushCommit(w) PROVE Ledger!Next
    <2>1. PICK S \in SUBSET Records : S = flushing[w]
      BY HeldIsWaiting
    <2>2. Ledger!Charge(S)
      BY <1>5, <2>1, LedgerCharge DEF FlushCommit
    <2>3. Again' = Again \ S
      <3>1. InBuffer(w)' = InBuffer(w) \ S
        BY <1>5, <2>1 DEF FlushCommit, Taken, InBuffer, IInv, BuffersOK, Placed
      <3>2. \A v \in Workers \ {w} : InBuffer(v)' = InBuffer(v)
        BY <1>5 DEF FlushCommit, InBuffer, IInv, BuffersOK
      <3>3. S \in SUBSET InBuffer(w) /\ \A r \in Records \ S : logs'[r] = logs[r]
        BY <1>5, <2>1 DEF FlushCommit, WriteBatch, Logged, InBuffer
      <3> QED BY <3>1, <3>2, <3>3, AgainWithout
    <2>4. Ledger!ChargeOnce(S)
      BY <1>5, <2>2, <2>3 DEF FlushCommit, Ledger!ChargeOnce, Again
    <2> QED BY <2>4 DEF Ledger!Next
  <1>6. ASSUME NEW w \in Workers, FlushFail(w) PROVE LedgerUnchanged
    <2>1. debited' = debited
      BY <1>6 DEF FlushFail, Increment, Persisted, IInv, RowsOK
    <2>2. Again' = Again
      BY <1>6 DEF FlushFail, Requeue, PutBack, Again, IInv, BuffersOK
    <2> QED BY <1>6, <2>1, <2>2 DEF FlushFail, Requeue, Stage, LedgerUnchanged
  <1>7. ASSUME NEW w \in Workers, FlushAmbiguous(w) PROVE Ledger!Next
    <2>1. PICK S \in SUBSET Records : S = flushing[w]
      BY HeldIsWaiting
    <2>2. Ledger!Charge(S)
      BY <1>7, <2>1, LedgerCharge DEF FlushAmbiguous, Requeue
    <2>3. Again' = Again \cup S
      BY <1>7, <2>1 DEF FlushAmbiguous, WriteBatch, Logged, Requeue, PutBack, Again, IInv, BuffersOK
    <2>4. Ledger!ChargeInDoubt(S)
      BY <1>7, <2>2, <2>3 DEF FlushAmbiguous, Ledger!ChargeInDoubt, Again
    <2> QED BY <2>4 DEF Ledger!Next
  <1>8. ASSUME NEW w \in Workers, StopBegin(w) PROVE Ledger!Next
    <2>1. PICK S \in SUBSET Records : S = flushing[w]
      BY HeldIsWaiting
    <2>2. InBuffer(w)' = InBuffer(w) \ S
      BY <1>8, <2>1 DEF StopBegin, TakeSnapshot, HasWork, InBuffer, IInv, BuffersOK, Placed
    <2>3. \A v \in Workers \ {w} : InBuffer(v)' = InBuffer(v)
      BY <1>8 DEF StopBegin, TakeSnapshot, InBuffer, IInv, BuffersOK
    <2>4. S \in SUBSET InBuffer(w) /\ S \in SUBSET Held(w)
      BY <2>1 DEF InBuffer, Held
    <2>5. CASE WriteBatch(flushing[w]) /\ UNCHANGED phase
      <3>1. Ledger!Charge(S)
        BY <2>1, <2>5, LedgerCharge
      <3>2. \A r \in Records \ S : logs'[r] = logs[r]
        BY <2>1, <2>5 DEF WriteBatch, Logged
      <3>3. Again' = Again \ S
        BY <2>2, <2>3, <2>4, <3>2, AgainWithout
      <3>4. Ledger!ChargeOnce(S)
        BY <1>8, <3>1, <3>3 DEF StopBegin, Ledger!ChargeOnce, Again
      <3> QED BY <3>4 DEF Ledger!Next
    <2>6. CASE Lose(flushing[w]) /\ UNCHANGED db
      <3>1. Lose(S)
        BY <2>1, <2>6
      <3>2. Ledger!Drop(S)
        BY <1>8, <2>2, <2>3, <2>4, <2>6, <3>1, LedgerDrop DEF StopBegin, db
      <3> QED BY <3>2 DEF Ledger!Next
    <2> QED BY <1>8, <2>5, <2>6 DEF StopBegin
  <1>9. ASSUME NEW w \in Workers, StopEnd(w) \/ Crash(w) PROVE Ledger!Next
    <2>1. PICK S \in SUBSET Records : S = Held(w)
      BY HeldIsWaiting
    <2>2. PICK B \in SUBSET Records : B = InBuffer(w)
      BY DEF InBuffer, IInv, BuffersOK
    <2>3. InBuffer(w)' = InBuffer(w) \ B
      BY <1>9, <2>2 DEF StopEnd, Crash, InBuffer, IInv, BuffersOK
    <2>4. \A v \in Workers \ {w} : InBuffer(v)' = InBuffer(v)
      BY <1>9 DEF StopEnd, Crash, InBuffer, IInv, BuffersOK
    <2>5. B \subseteq S
      BY <2>1, <2>2, HeldIsWaiting
    <2>6. Lose(S) /\ logs' = logs /\ debited' = debited /\ ambiguous' = ambiguous
      BY <1>9, <2>1 DEF StopEnd, Crash, db
    <2>7. S \in SUBSET Held(w) /\ B \subseteq InBuffer(w) /\ S \cap InBuffer(w) \subseteq B
      BY <2>1, <2>2
    <2>8. Ledger!Drop(S)
      BY <2>2, <2>3, <2>4, <2>5, <2>6, <2>7, LedgerDrop
    <2> QED BY <2>8 DEF Ledger!Next
  <1>10. ASSUME NEW w \in Workers, Restart(w) PROVE LedgerUnchanged
    BY <1>10 DEF Restart, db, Stage, Again, LedgerUnchanged
  <1> QED
    BY <1>1, <1>2, <1>3, <1>4, <1>5, <1>6, <1>7, <1>8, <1>9, <1>10 DEF Next, Flush

(* The buffer implements the ledger of usage (flush_once, requeue and the  *)
(* end of a worker): owed, then charged, again only after a charge in      *)
(* doubt; or dropped with its worker.                                      *)
THEOREM UsageRefinement == Spec => ImplementsLedger
  <1>1. LedgerUnchanged => UNCHANGED Ledger!vars
    BY DEF LedgerUnchanged, Ledger!vars, Stage, Again
  <1>2. IInv /\ [Next]_vars => [Ledger!Next]_Ledger!vars
    BY LedgerStep, <1>1
  <1> QED BY Inductive, LedgerInit, <1>2, PTL DEF Spec, ImplementsLedger, Ledger!Spec

ChargedOnce == \A r \in Records : debited[r] <= 1

(* Without ambiguous commits every request is debited at most once.        *)
THEOREM UsageChargedOnce == ASSUME MaxAmbiguous = 0 PROVE Spec => []ChargedOnce
  <1>1. IInv => ChargedOnce
    BY DEF IInv, RowsOK, ChargedAtMostOnce, ChargedOnce
  <1> QED BY Inductive, <1>1, PTL

-----------------------------------------------------------------------------
(* Rounding. *)

LEMMA BelowWellFounded == IsWellFoundedOn({ss \in Nat \X Nat : ss[1] < ss[2]}, Nat)
  BY NatLessThanWellFounded DEF OpToRel

(* Sums over finite sets.  Induction over a finite set is the search for a *)
(* smallest subset that makes an exception.                                *)
LEMMA SmallestSubset ==
  ASSUME NEW S, IsFiniteSet(S), NEW Bad \in SUBSET SUBSET S, Bad # {}
  PROVE  \E T \in Bad : \A U \in Bad : U \subseteq T => U = T
<1>1. FiniteSubsetsOf(S) = SUBSET S
  BY FS_FiniteSubsetsOfFinite
<1>2. IsWellFoundedOn(StrictSubsetOrdering(S), SUBSET S)
  BY <1>1, FS_StrictSubsetOrderingWellFounded, Zenon
<1>3. PICK T \in Bad : \A U \in Bad : ~ (<<U, T>> \in StrictSubsetOrdering(S))
  BY <1>2, WFMin
<1>4. ASSUME NEW U \in Bad, U \subseteq T PROVE U = T
  BY <1>3, <1>4 DEF StrictSubsetOrdering
<1> QED  BY <1>4

Pick(s) == CHOOSE x \in s : TRUE

(* g sums f over each of the sets of D. *)
Sums(g, f, D) ==
  g = [s \in D |-> IF s = {} THEN 0 ELSE f[Pick(s)] + g[s \ {Pick(s)}]]

SumsWithin(g, f, S) == Sums(g, f, SUBSET S)

LEMMA SumUnfolds ==
  ASSUME NEW f, NEW S
  PROVE  SumFunctionOnSet(f, S) = (CHOOSE g : SumsWithin(g, f, S))[S]
BY DEF SumFunctionOnSet, FoldFunctionOnSet, MapThenFoldSet, SumsWithin, Sums, Pick

LEMMA PickIn == ASSUME NEW s, s # {} PROVE Pick(s) \in s
BY DEF Pick

(* Such functions exist, by induction on the number of elements, ...       *)
LEMMA SumsExist ==
  ASSUME NEW f, NEW S, IsFiniteSet(S)
  PROVE  \E g : SumsWithin(g, f, S)
<1> DEFINE Small(n) == {s \in SUBSET S : Cardinality(s) < n}
           Missing == {n \in Nat : ~ \E g : Sums(g, f, Small(n))}
<1>1. \A s \in SUBSET S : IsFiniteSet(s) /\ Cardinality(s) \in Nat /\ Cardinality(s) <= Cardinality(S)
  BY FS_Subset, FS_CardinalityType
<1>2. ASSUME NEW n \in Nat, NEW g, Sums(g, f, Small(n))
      PROVE  \E h : Sums(h, f, Small(n + 1))
  <2> DEFINE h == [s \in Small(n + 1) |-> IF s = {} THEN 0 ELSE f[Pick(s)] + g[s \ {Pick(s)}]]
  <2>1. ASSUME NEW s \in Small(n + 1), s # {}
        PROVE  s \ {Pick(s)} \in Small(n) /\ s \ {Pick(s)} \in Small(n + 1)
    <3>1. Cardinality(s \ {Pick(s)}) = Cardinality(s) - 1
      BY <1>1, <2>1, PickIn, FS_RemoveElement
    <3> QED  BY <1>1, <3>1
  <2>2. \A s \in Small(n) : s \in Small(n + 1)
    BY <1>1
  <2>3. \A s \in Small(n) : g[s] = IF s = {} THEN 0 ELSE f[Pick(s)] + g[s \ {Pick(s)}]
    BY <1>2, Zenon DEF Sums
  <2>4. \A s \in Small(n + 1) : h[s] = IF s = {} THEN 0 ELSE f[Pick(s)] + g[s \ {Pick(s)}]
    BY Zenon
  <2>5. \A s \in Small(n) : h[s] = g[s]
    BY <2>2, <2>3, <2>4, Zenon
  <2>6. \A s \in Small(n + 1) : s # {} => h[s \ {Pick(s)}] = g[s \ {Pick(s)}]
    BY <2>1, <2>5, Zenon
  <2> HIDE DEF Small
  <2>7. h = [s \in Small(n + 1) |-> IF s = {} THEN 0 ELSE f[Pick(s)] + h[s \ {Pick(s)}]]
    BY <2>6
  <2> QED  BY <2>7 DEF Sums
<1>3. \E g : Sums(g, f, Small(0))
  <2>1. Small(0) = {}
    BY <1>1
  <2>2. Sums([s \in {} |-> 0], f, {})
    BY DEF Sums
  <2> QED  BY <2>1, <2>2, Zenon
<1>4. Missing = {}
  <2> SUFFICES ASSUME Missing # {} PROVE FALSE
    OBVIOUS
  <2>1. PICK n \in Missing : \A m \in Missing : ~ (<<m, n>> \in {ss \in Nat \X Nat : ss[1] < ss[2]})
    BY WFMin, BelowWellFounded
  <2>2. n # 0
    BY <1>3
  <2>3. n - 1 \in Nat /\ n - 1 \notin Missing
    <3>1. n \in Nat /\ n - 1 \in Nat /\ n - 1 < n
      BY <2>2
    <3> HIDE DEF Missing
    <3> QED  BY <2>1, <3>1
  <2>4. PICK g : Sums(g, f, Small(n - 1))
    BY <2>3
  <2>5. \E h : Sums(h, f, Small((n - 1) + 1))
    BY <1>2, <2>3, <2>4
  <2>6. (n - 1) + 1 = n
    OBVIOUS
  <2> QED  BY <2>5, <2>6
<1>5. Cardinality(S) + 1 \in Nat /\ Small(Cardinality(S) + 1) = SUBSET S
  BY <1>1
<1>6. PICK g : Sums(g, f, SUBSET S)
  BY <1>4, <1>5, Zenon
<1> QED  BY <1>6 DEF SumsWithin

(* ... and agree where both are defined. *)
LEMMA SumsAgree ==
  ASSUME NEW f, NEW S, NEW T \in SUBSET S, IsFiniteSet(S),
         NEW g, SumsWithin(g, f, S), NEW k, SumsWithin(k, f, T)
  PROVE  g[T] = k[T]
<1> DEFINE Bad == {s \in SUBSET T : g[s] # k[s]}
<1>1. \A s \in SUBSET T : /\ g[s] = IF s = {} THEN 0 ELSE f[Pick(s)] + g[s \ {Pick(s)}]
                          /\ k[s] = IF s = {} THEN 0 ELSE f[Pick(s)] + k[s \ {Pick(s)}]
  BY DEF SumsWithin, Sums
<1>2. SUFFICES ASSUME Bad # {} PROVE FALSE
  OBVIOUS
<1>3. IsFiniteSet(T)
  BY FS_Subset
<1>4. PICK s \in Bad : \A u \in Bad : u \subseteq s => u = s
  <2>1. Bad \in SUBSET SUBSET T
    OBVIOUS
  <2> HIDE DEF Bad
  <2> QED  BY <1>2, <1>3, <2>1, SmallestSubset
<1>5. s # {}
  BY <1>1
<1>6. Pick(s) \in s /\ s \ {Pick(s)} \notin Bad /\ s \ {Pick(s)} \in SUBSET T
  BY <1>4, <1>5, PickIn
<1> QED  BY <1>1, <1>5, <1>6

(* A sum, element by element as the fold takes them. *)
LEMMA SumStep ==
  ASSUME NEW f, NEW S, IsFiniteSet(S)
  PROVE  /\ S = {} => SumFunctionOnSet(f, S) = 0
         /\ S # {} => /\ Pick(S) \in S
                      /\ SumFunctionOnSet(f, S) = f[Pick(S)] + SumFunctionOnSet(f, S \ {Pick(S)})
<1>1. PICK g : g = CHOOSE h : SumsWithin(h, f, S)
  OBVIOUS
<1>2. SumsWithin(g, f, S) /\ SumFunctionOnSet(f, S) = g[S]
  BY <1>1, SumsExist, SumUnfolds, Zenon
<1>3. g[S] = IF S = {} THEN 0 ELSE f[Pick(S)] + g[S \ {Pick(S)}]
  BY <1>2 DEF SumsWithin, Sums
<1>4. ASSUME S # {} PROVE SumFunctionOnSet(f, S \ {Pick(S)}) = g[S \ {Pick(S)}]
  <2> DEFINE R == S \ {Pick(S)}
  <2>1. IsFiniteSet(R) /\ R \in SUBSET S
    BY FS_Subset
  <2>2. PICK k : k = CHOOSE h : SumsWithin(h, f, R)
    OBVIOUS
  <2>3. SumsWithin(k, f, R) /\ SumFunctionOnSet(f, R) = k[R]
    BY <2>1, <2>2, SumsExist, SumUnfolds, Zenon
  <2> HIDE DEF R
  <2>4. g[R] = k[R]
    BY <1>2, <2>1, <2>3, SumsAgree
  <2> QED  BY <2>3, <2>4 DEF R
<1> QED  BY <1>2, <1>3, <1>4, PickIn

(* A sum of numbers is one. *)
LEMMA SumType ==
  ASSUME NEW f, NEW S, IsFiniteSet(S), NEW N, N = Int \/ N = Nat, \A x \in S : f[x] \in N
  PROVE  SumFunctionOnSet(f, S) \in N
<1> DEFINE Bad == {s \in SUBSET S : SumFunctionOnSet(f, s) \notin N}
<1>1. SUFFICES ASSUME Bad # {} PROVE FALSE
  OBVIOUS
<1>2. PICK s \in Bad : \A u \in Bad : u \subseteq s => u = s
  <2>1. Bad \in SUBSET SUBSET S
    OBVIOUS
  <2> HIDE DEF Bad
  <2> QED  BY <1>1, <2>1, SmallestSubset
<1>3. IsFiniteSet(s)
  BY FS_Subset
<1>4. s # {}
  BY <1>3, SumStep
<1>5. Pick(s) \in s /\ SumFunctionOnSet(f, s) = f[Pick(s)] + SumFunctionOnSet(f, s \ {Pick(s)})
  BY <1>3, <1>4, SumStep
<1>6. SumFunctionOnSet(f, s \ {Pick(s)}) \in N
  BY <1>2, <1>5
<1> QED  BY <1>5, <1>6

(* Any element may be taken first. *)
LEMMA SumRemove ==
  ASSUME NEW f, NEW S, IsFiniteSet(S), \A y \in S : f[y] \in Int, NEW x \in S
  PROVE  SumFunctionOnSet(f, S) = f[x] + SumFunctionOnSet(f, S \ {x})
<1> DEFINE Bad == {s \in SUBSET S : \E y \in s :
                     SumFunctionOnSet(f, s) # f[y] + SumFunctionOnSet(f, s \ {y})}
<1>1. SUFFICES ASSUME Bad # {} PROVE FALSE
  OBVIOUS
<1>2. PICK s \in Bad : \A u \in Bad : u \subseteq s => u = s
  <2>1. Bad \in SUBSET SUBSET S
    OBVIOUS
  <2> HIDE DEF Bad
  <2> QED  BY <1>1, <2>1, SmallestSubset
<1>3. PICK y \in s : SumFunctionOnSet(f, s) # f[y] + SumFunctionOnSet(f, s \ {y})
  OBVIOUS
<1>4. IsFiniteSet(s) /\ s \in SUBSET S
  BY FS_Subset
<1>5. PICK p : p = Pick(s)
  OBVIOUS
<1>6. p \in s /\ SumFunctionOnSet(f, s) = f[p] + SumFunctionOnSet(f, s \ {p})
  BY <1>3, <1>4, <1>5, SumStep
<1>7. p # y
  BY <1>3, <1>6
<1> DEFINE r == (s \ {p}) \ {y}
<1>8. s \ {p} \notin Bad /\ s \ {y} \notin Bad
  BY <1>2, <1>3, <1>6
<1>9. SumFunctionOnSet(f, s \ {p}) = f[y] + SumFunctionOnSet(f, r)
  BY <1>3, <1>4, <1>7, <1>8
<1>10. (s \ {y}) \ {p} = r
  OBVIOUS
<1>11. SumFunctionOnSet(f, s \ {y}) = f[p] + SumFunctionOnSet(f, r)
  BY <1>4, <1>6, <1>7, <1>8, <1>10
<1>12. SumFunctionOnSet(f, r) \in Int
  <2>1. IsFiniteSet(r) /\ \A z \in r : f[z] \in Int
    BY <1>4, FS_Subset
  <2> HIDE DEF r
  <2> QED  BY <2>1, SumType
<1>13. f[p] \in Int /\ f[y] \in Int
  BY <1>3, <1>4, <1>6
<1> HIDE DEF r, Bad
<1> QED  BY <1>3, <1>6, <1>9, <1>11, <1>12, <1>13

(* Nothing adds up to nothing. *)
LEMMA SumZero ==
  ASSUME NEW f, NEW S, IsFiniteSet(S), \A x \in S : f[x] = 0
  PROVE  SumFunctionOnSet(f, S) = 0
<1> DEFINE Bad == {s \in SUBSET S : SumFunctionOnSet(f, s) # 0}
<1>1. SUFFICES ASSUME Bad # {} PROVE FALSE
  OBVIOUS
<1>2. PICK s \in Bad : \A u \in Bad : u \subseteq s => u = s
  <2>1. Bad \in SUBSET SUBSET S
    OBVIOUS
  <2> HIDE DEF Bad
  <2> QED  BY <1>1, <2>1, SmallestSubset
<1>3. IsFiniteSet(s) /\ s # {}
  BY FS_Subset, SumStep
<1>4. Pick(s) \in s /\ SumFunctionOnSet(f, s) = f[Pick(s)] + SumFunctionOnSet(f, s \ {Pick(s)})
  BY <1>3, SumStep
<1>5. SumFunctionOnSet(f, s \ {Pick(s)}) = 0 /\ f[Pick(s)] = 0
  BY <1>2, <1>4
<1> QED  BY <1>4, <1>5

(* A sum grows by what its terms grow by. *)
LEMMA SumGrows ==
  ASSUME NEW f, NEW h, NEW c, NEW S, IsFiniteSet(S), NEW T,
         \A x \in S : /\ f[x] \in Int /\ c[x] \in Int
                      /\ h[x] = IF x \in T THEN f[x] + c[x] ELSE f[x]
  PROVE  SumFunctionOnSet(h, S) = SumFunctionOnSet(f, S) + SumFunctionOnSet(c, S \cap T)
<1> DEFINE Grows(s) == \A a : a = s \cap T =>
             SumFunctionOnSet(h, s) = SumFunctionOnSet(f, s) + SumFunctionOnSet(c, a)
           Bad == {s \in SUBSET S : ~ Grows(s)}
<1>1. SUFFICES ASSUME Bad # {} PROVE FALSE
  <2>1. S \notin Bad /\ S \in SUBSET S
    BY <1>1
  <2>2. Grows(S)
    BY <2>1
  <2> QED  BY <2>2
<1>2. PICK s \in Bad : \A u \in Bad : u \subseteq s => u = s
  <2>1. Bad \in SUBSET SUBSET S
    OBVIOUS
  <2> HIDE DEF Bad
  <2> QED  BY <1>1, <2>1, SmallestSubset
<1>3. IsFiniteSet(s) /\ s \in SUBSET S
  BY FS_Subset
<1>4. PICK a : a = s \cap T /\ SumFunctionOnSet(h, s) # SumFunctionOnSet(f, s) + SumFunctionOnSet(c, a)
  OBVIOUS
<1>5. IsFiniteSet(a) /\ \A y \in a : c[y] \in Int
  BY <1>3, <1>4, FS_Subset
<1>6. s # {}
  <2>1. SUFFICES ASSUME s = {} PROVE FALSE
    OBVIOUS
  <2>2. a = {}
    BY <1>4, <2>1
  <2>3. SumFunctionOnSet(f, {}) = 0 /\ SumFunctionOnSet(h, {}) = 0 /\ SumFunctionOnSet(c, {}) = 0
    BY SumStep, FS_EmptySet
  <2> QED  BY <1>4, <2>1, <2>2, <2>3
<1>7. PICK p \in s : p = Pick(s)
  BY <1>6, PickIn
<1>8. PICK r : r = s \ {p}
  OBVIOUS
<1>9. /\ r \in SUBSET S /\ r \notin Bad /\ IsFiniteSet(r)
      /\ SumFunctionOnSet(f, s) = f[p] + SumFunctionOnSet(f, r)
      /\ SumFunctionOnSet(h, s) = h[p] + SumFunctionOnSet(h, r)
  BY <1>2, <1>3, <1>7, <1>8, SumStep, FS_Subset
<1>10. PICK b : b = r \cap T
  OBVIOUS
<1>11. SumFunctionOnSet(h, r) = SumFunctionOnSet(f, r) + SumFunctionOnSet(c, b)
  BY <1>9, <1>10
<1>12. SumFunctionOnSet(f, r) \in Int /\ SumFunctionOnSet(c, b) \in Int /\ f[p] \in Int /\ c[p] \in Int
  <2>1. IsFiniteSet(b) /\ (\A y \in b : c[y] \in Int) /\ (\A y \in r : f[y] \in Int)
    BY <1>9, <1>10, FS_Subset
  <2> QED  BY <1>3, <1>9, <2>1, SumType
<1> HIDE DEF Bad
<1>13. CASE p \in T
  <2>1. p \in a /\ a \ {p} = b /\ h[p] = f[p] + c[p]
    BY <1>3, <1>4, <1>8, <1>10, <1>13
  <2>2. SumFunctionOnSet(c, a) = c[p] + SumFunctionOnSet(c, a \ {p})
    BY <1>5, <2>1, SumRemove
  <2>3. SumFunctionOnSet(c, a) = c[p] + SumFunctionOnSet(c, b)
    BY <2>1, <2>2
  <2>4. SumFunctionOnSet(h, s) # SumFunctionOnSet(f, s) + SumFunctionOnSet(c, a)
    BY <1>4
  <2>5. h[p] = f[p] + c[p]
    BY <2>1
  <2> QED  BY <1>9, <1>11, <1>12, <2>3, <2>4, <2>5
<1>14. CASE p \notin T
  <2>1. a = b /\ h[p] = f[p]
    BY <1>3, <1>4, <1>8, <1>10, <1>14
  <2>2. SumFunctionOnSet(h, s) # SumFunctionOnSet(f, s) + SumFunctionOnSet(c, a)
    BY <1>4
  <2> QED  BY <1>9, <1>11, <1>12, <2>1, <2>2
<1> QED  BY <1>13, <1>14

(* round() is off by half a cent at most. *)
LEMMA RoundNearest ==
  ASSUME NEW x \in Nat
  PROVE  /\ RoundCents(x) \in Nat /\ RoundCents(0) = 0
         /\ 2 * (Scale * RoundCents(x) - x) <= Scale
         /\ 2 * (x - Scale * RoundCents(x)) <= Scale
<1> USE NumbersAssumption DEF NumbersAssumption
<1>1. PICK q \in Nat, rem \in Nat : q = x \div Scale /\ rem = x % Scale /\ rem < Scale /\ x = Scale * q + rem
  OBVIOUS
<1>2. RoundCents(x) = IF 2 * rem > Scale \/ (2 * rem = Scale /\ q % 2 = 1) THEN q + 1 ELSE q
  BY <1>1 DEF RoundCents
<1>3. Scale * (q + 1) = Scale * q + Scale /\ Scale * q \in Int
  BY <1>1
<1>4. (RoundCents(x) = q + 1 /\ 2 * rem >= Scale) \/ (RoundCents(x) = q /\ 2 * rem <= Scale)
  <2>1. CASE 2 * rem > Scale \/ (2 * rem = Scale /\ q % 2 = 1)
    <3>1. RoundCents(x) = q + 1
      BY <1>2, <2>1
    <3>2. 2 * rem >= Scale
      BY <2>1
    <3> QED  BY <3>1, <3>2
  <2>2. CASE ~ (2 * rem > Scale \/ (2 * rem = Scale /\ q % 2 = 1))
    <3>1. RoundCents(x) = q
      BY <1>2, <2>2
    <3>2. 2 * rem <= Scale
      BY <2>2
    <3> QED  BY <3>1, <3>2
  <2> QED  BY <2>1, <2>2
<1>5. RoundCents(0) = 0
  <2>1. 0 \div Scale = 0 /\ 0 % Scale = 0
    OBVIOUS
  <2> QED  BY <2>1 DEF RoundCents
<1> QED  BY <1>1, <1>3, <1>4, <1>5

(* What a transaction adds to the exact cost of the requests charged. *)
LEMMA SpentGrows ==
  ASSUME BuffersOK, RowsOK, NEW S \in SUBSET Records, NEW u \in Users,
         debited' = Increment(debited, Billable(S))
  PROVE  /\ Spent(u) \in Nat /\ CostOf(OfUser(S, u)) \in Nat
         /\ Spent(u)' = Spent(u) + CostOf(OfUser(S, u))
         /\ OfUser(S, u) = {} => CostOf(OfUser(S, u)) = 0
<1> USE RecordsAssumption DEF RecordsAssumption
<1> DEFINE f == [r \in Records |-> debited[r] * Cost[r]]
           h == [r \in Records |-> debited'[r] * Cost[r]]
<1>1. PICK mine : mine = {r \in Records : UserOf[r] = u}
  OBVIOUS
<1>2. PICK b : b = OfUser(S, u)
  OBVIOUS
<1>3. IsFiniteSet(mine) /\ IsFiniteSet(b) /\ mine \cap Billable(S) = b
  BY <1>1, <1>2, FS_Subset DEF OfUser, Billable
<1>4. \A r \in mine : f[r] \in Nat /\ Cost[r] \in Nat
  BY <1>1 DEF RowsOK
<1>5. \A r \in mine : h[r] = IF r \in Billable(S) THEN f[r] + Cost[r] ELSE f[r]
  <2>1. \A r \in Records : debited'[r] = IF r \in Billable(S) THEN debited[r] + 1 ELSE debited[r]
    BY DEF Increment
  <2>2. \A n, c \in Nat : (n + 1) * c = n * c + c
    OBVIOUS
  <2> QED  BY <1>1, <2>1, <2>2 DEF RowsOK
<1>6. Spent(u) = SumFunctionOnSet(f, mine) /\ Spent(u)' = SumFunctionOnSet(h, mine)
  BY <1>1 DEF Spent
<1>7. CostOf(OfUser(S, u)) = SumFunctionOnSet(Cost, b)
  BY <1>2 DEF CostOf
<1> HIDE DEF f, h
<1>8. SumFunctionOnSet(f, mine) \in Nat
  BY <1>3, <1>4, SumType
<1>9. SumFunctionOnSet(Cost, b) \in Nat
  <2>1. \A r \in b : Cost[r] \in Nat
    BY <1>3, <1>4
  <2> QED  BY <1>3, <2>1, SumType
<1>10. SumFunctionOnSet(h, mine) = SumFunctionOnSet(f, mine) + SumFunctionOnSet(Cost, mine \cap Billable(S))
  <2>1. PICK T : T = Billable(S)
    OBVIOUS
  <2>2. \A x \in mine : /\ f[x] \in Int /\ Cost[x] \in Int
                        /\ h[x] = IF x \in T THEN f[x] + Cost[x] ELSE f[x]
    BY <1>4, <1>5, <2>1
  <2> QED  BY <1>3, <2>1, <2>2, SumGrows
<1>11. OfUser(S, u) = {} => SumFunctionOnSet(Cost, b) = 0
  BY <1>2, SumStep, FS_EmptySet
<1> QED  BY <1>3, <1>6, <1>7, <1>8, <1>9, <1>10, <1>11

DriftInv == charged \in [Users -> Nat] /\ DriftWithinHalfCentPerFlush

(* A transaction moves the charge of a user by the cost rounded, and the   *)
(* half cent counts for the flush.                                         *)
LEMMA WriteKeepsDrift ==
  ASSUME IInv, DriftInv, NEW S \in SUBSET Records, WriteBatch(S)
  PROVE  DriftInv'
<1> USE NumbersAssumption DEF NumbersAssumption
<1>1. debited' = Increment(debited, Billable(S)) /\ BuffersOK /\ RowsOK
  BY DEF WriteBatch, IInv
<1>2. ASSUME NEW u \in Users
      PROVE  /\ charged'[u] \in Nat
             /\ 2 * Distance(Scale * charged'[u], Spent(u)') <= Scale * flushes'[u]
  <2>1. PICK c \in Nat : c = CostOf(OfUser(S, u)) /\ Spent(u)' = Spent(u) + c
                         /\ (OfUser(S, u) = {} => c = 0)
    BY <1>1, SpentGrows
  <2>2. PICK n \in Nat : n = Spent(u)
    BY <1>1, SpentGrows
  <2>3. PICK e \in Nat : /\ e = RoundCents(c) /\ (c = 0 => e = 0)
                         /\ 2 * (Scale * e - c) <= Scale /\ 2 * (c - Scale * e) <= Scale
    BY RoundNearest
  <2>4. PICK k \in Nat, m \in Nat : k = charged[u] /\ m = flushes[u]
    BY <1>1 DEF DriftInv, RowsOK
  <2>5. charged'[u] = k + e /\ flushes'[u] = IF OfUser(S, u) = {} THEN m ELSE m + 1
    BY <2>1, <2>3, <2>4 DEF WriteBatch
  <2>6. /\ Scale * (k + e) = Scale * k + Scale * e /\ Scale * (m + 1) = Scale * m + Scale
        /\ Scale * k \in Nat /\ Scale * e \in Nat /\ Scale * m \in Nat /\ Scale \in Nat
    OBVIOUS
  <2>7. 2 * Distance(Scale * k, n) <= Scale * m
    BY <2>2, <2>4 DEF DriftInv, DriftWithinHalfCentPerFlush
  <2>8. CASE OfUser(S, u) = {}
    <3>1. charged'[u] = k /\ flushes'[u] = m /\ Spent(u)' = n
      BY <2>1, <2>2, <2>3, <2>5, <2>8
    <3> QED  BY <2>7, <3>1
  <2>9. CASE OfUser(S, u) # {}
    <3>1. charged'[u] = k + e /\ flushes'[u] = m + 1 /\ Spent(u)' = n + c
      BY <2>1, <2>2, <2>5, <2>9
    <3>2. PICK a \in Nat, b \in Nat, d \in Nat : a = Scale * k /\ b = Scale * e /\ d = Scale * m
      BY <2>6
    <3>3. 2 * (a - n) <= d /\ 2 * (n - a) <= d /\ 2 * (b - c) <= Scale /\ 2 * (c - b) <= Scale
      BY <2>3, <2>7, <3>2 DEF Distance
    <3>4. 2 * ((a + b) - (n + c)) <= d + Scale /\ 2 * ((n + c) - (a + b)) <= d + Scale
      BY <2>6, <3>3
    <3>5. 2 * Distance(a + b, n + c) <= d + Scale
      BY <3>4 DEF Distance
    <3>6. Scale * (k + e) = a + b /\ Scale * (m + 1) = d + Scale
      BY <2>6, <3>2
    <3> QED  BY <3>1, <3>5, <3>6
  <2> QED  BY <2>8, <2>9
<1>3. charged' = [u \in Users |-> charged[u] + RoundCents(CostOf(OfUser(S, u)))]
  BY DEF WriteBatch
<1>4. charged' \in [Users -> Nat]
  BY <1>2, <1>3
<1>5. DriftWithinHalfCentPerFlush'
  BY <1>2 DEF DriftWithinHalfCentPerFlush, Distance
<1> QED  BY <1>4, <1>5 DEF DriftInv

LEMMA UnchargedKeepsDrift ==
  ASSUME DriftInv, UNCHANGED <<debited, charged, flushes>>
  PROVE  DriftInv'
BY DEF DriftInv, DriftWithinHalfCentPerFlush, Spent, Distance

LEMMA DriftStep == IInv /\ DriftInv /\ [Next]_vars => DriftInv'
<1> SUFFICES ASSUME IInv, DriftInv, [Next]_vars PROVE DriftInv'
  OBVIOUS
<1> USE DEF db
<1>1. \A w \in Workers : flushing[w] \in SUBSET Records
  BY DEF IInv, BuffersOK
<1>2. ASSUME NEW w \in Workers, FlushFail(w) PROVE DriftInv'
  <2>1. debited' = debited
    BY <1>2 DEF FlushFail, Increment, Persisted, IInv, RowsOK
  <2> QED  BY <1>2, <2>1, UnchargedKeepsDrift DEF FlushFail
<1>3. ASSUME NEW w \in Workers, FlushCommit(w) \/ FlushAmbiguous(w) PROVE DriftInv'
  BY <1>1, <1>3, WriteKeepsDrift DEF FlushCommit, FlushAmbiguous
<1>4. ASSUME NEW w \in Workers, StopBegin(w) PROVE DriftInv'
  BY <1>1, <1>4, WriteKeepsDrift, UnchargedKeepsDrift DEF StopBegin
<1>5. ASSUME NEW w \in Workers, FlushBegin(w) \/ StopEnd(w) \/ Crash(w) \/ Restart(w) PROVE DriftInv'
  BY <1>5, UnchargedKeepsDrift DEF FlushBegin, StopEnd, Crash, Restart
<1>6. ASSUME NEW w \in Workers, NEW r \in Records, ScheduleAdd(w, r) \/ Add(w, r) PROVE DriftInv'
  BY <1>6, UnchargedKeepsDrift DEF ScheduleAdd, Add
<1>7. CASE UNCHANGED vars
  BY <1>7, UnchargedKeepsDrift DEF vars
<1> QED  BY <1>2, <1>3, <1>4, <1>5, <1>6, <1>7 DEF Next, Flush

LEMMA DriftInit == Init => DriftInv
<1> SUFFICES ASSUME Init PROVE DriftInv
  OBVIOUS
<1> USE RecordsAssumption, NumbersAssumption DEF RecordsAssumption, NumbersAssumption
<1>1. ASSUME NEW u \in Users PROVE Spent(u) = 0
  <2> DEFINE f == [r \in Records |-> debited[r] * Cost[r]]
  <2>1. PICK mine : mine = {r \in Records : UserOf[r] = u}
    OBVIOUS
  <2>2. IsFiniteSet(mine) /\ \A r \in mine : f[r] = 0
    BY <2>1, FS_Subset DEF Init
  <2>3. Spent(u) = SumFunctionOnSet(f, mine)
    BY <2>1 DEF Spent
  <2> HIDE DEF f
  <2> QED  BY <2>2, <2>3, SumZero
<1>2. \A u \in Users : charged[u] = 0 /\ flushes[u] = 0
  BY DEF Init
<1>3. charged \in [Users -> Nat]
  BY DEF Init
<1>4. Scale * 0 = 0 /\ Distance(0, 0) = 0
  BY DEF Distance
<1>5. \A u \in Users : 2 * Distance(Scale * charged[u], Spent(u)) <= Scale * flushes[u]
  BY <1>1, <1>2, <1>4
<1> QED  BY <1>3, <1>5 DEF DriftInv, DriftWithinHalfCentPerFlush

(* DriftWithinHalfCentPerFlush (usage_buffer.flush_once: the cost of a     *)
(* user's requests is summed and rounded once per flush): rounding never   *)
(* costs a user, or the operator, more than half a cent per flush.         *)
THEOREM UsageDriftBounded == Spec => [](TypeOK /\ DriftWithinHalfCentPerFlush)
<1>1. IInv /\ DriftInv => TypeOK /\ DriftWithinHalfCentPerFlush
  BY DEF IInv, DriftInv, TypeOK
<1>2. Spec => []DriftInv
  BY Inductive, DriftInit, DriftStep, PTL DEF Spec
<1> QED  BY <1>1, <1>2, Inductive, PTL
=============================================================================
