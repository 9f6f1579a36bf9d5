--------------------------- MODULE UsageServiceProofs ---------------------------
(***************************************************************************)
(* The safety of the usage and quota service, for any numbers of requests, *)
(* counters, events and consumers.                                         *)
(***************************************************************************)
EXTENDS MCUsageService, Sequences, FiniteSetTheorems, WellFoundedInduction, TLAPS

-----------------------------------------------------------------------------
(* QuotaReservation, for any limits and lifetimes, and both values of      *)
(* failOpen.                                                               *)

(* A counter holds the pending reservations, but for those that outlived   *)
(* it; and never more than its limit.                                      *)
Slots ==
  \A k \in Keys :
    /\ count[k] <= Cardinality(Pending(k))
    /\ Cardinality(Pending(k)) <= count[k] + orphaned[k]
    /\ count[k] <= Limit[k]

(* Without failures the usage task takes the lease when it records, and a  *)
(* release is only sent for a request that has no usage.                   *)
OneFinisher ==
  \A r \in Requests : ~ failed[r] =>
    /\ phase[r] \in {"new", "reserving"} => usage[r] = "none"
    /\ recorded[r] => usage[r] \in {"committing", "over"}
    /\ usage[r] \in {"committing", "over"} => lease[r] # "held"
    /\ <<r, "release">> \in calls \/ status[r] = "released" =>
         phase[r] \in {"releasing", "done"} /\ usage[r] = "none"

IInv == TypeOK /\ Slots /\ OneFinisher

LEMMA PendingFinite ==
  ASSUME NEW k
  PROVE  IsFiniteSet(Pending(k)) /\ Cardinality(Pending(k)) \in Nat
  <1>1. Pending(k) \subseteq Requests
    BY DEF Pending
  <1> QED BY <1>1, QuotaAssumption, FS_Subset, FS_CardinalityType DEF QuotaAssumption

LEMMA InitHolds == Init => IInv
  <1> SUFFICES ASSUME Init PROVE IInv
    OBVIOUS
  <1> USE QuotaAssumption DEF QuotaAssumption
  <1>1. TypeOK
    BY DEF Init, TypeOK
  <1>2. Slots
    <2>1. \A k \in Keys : Pending(k) = {}
      BY DEF Init, Pending
    <2> QED BY <2>1, FS_EmptySet DEF Init, Slots
  <1>3. OneFinisher
    BY DEF Init, OneFinisher
  <1> QED BY <1>1, <1>2, <1>3 DEF IInv

(* What the scripts of the service do to the keys of Redis. *)
LEMMA ReserveKeepsSlots ==
  ASSUME TypeOK, Slots, NEW r \in Requests, status[r] = "none", Admits(r), ReserveScript(r)
  PROVE  /\ Slots'
         /\ status' \in [Requests -> {"none", "pending", "committed", "released"}]
         /\ count' \in [Keys -> Nat] /\ left' \in [Keys -> Nat] /\ orphaned' \in [Keys -> Nat]
  <1> USE QuotaAssumption DEF QuotaAssumption, TypeOK
  <1>1. status' \in [Requests -> {"none", "pending", "committed", "released"}]
    BY DEF ReserveScript
  <1>2. count' \in [Keys -> Nat] /\ left' \in [Keys -> Nat] /\ orphaned' = orphaned
    BY DEF ReserveScript, NewLife
  <1>3. ASSUME NEW k \in Keys
        PROVE  /\ count'[k] <= Cardinality(Pending(k)')
               /\ Cardinality(Pending(k)') <= count'[k] + orphaned'[k]
               /\ count'[k] <= Limit[k]
    <2>1. IsFiniteSet(Pending(k)) /\ Cardinality(Pending(k)) \in Nat
      BY PendingFinite
    <2>2. CASE k \in KeysOf[r]
      <3>1. Pending(k)' = Pending(k) \cup {r} /\ r \notin Pending(k)
        BY <2>2 DEF ReserveScript, Pending
      <3>2. Cardinality(Pending(k)') = Cardinality(Pending(k)) + 1
        BY <3>1, <2>1, FS_AddElement
      <3>3. count'[k] = count[k] + 1 /\ count[k] < Limit[k]
        BY <2>2 DEF ReserveScript, Admits
      <3> QED BY <1>2, <2>1, <3>2, <3>3 DEF Slots
    <2>3. CASE k \notin KeysOf[r]
      <3>1. Pending(k)' = Pending(k)
        BY <2>3 DEF ReserveScript, Pending
      <3> QED BY <1>2, <2>3, <3>1 DEF ReserveScript, Slots
    <2> QED BY <2>2, <2>3
  <1> QED BY <1>1, <1>2, <1>3 DEF Slots

LEMMA FinishKeepsSlots ==
  ASSUME TypeOK, Slots, NEW r \in Requests, NEW result \in {"committed", "released"},
         FinishCall(r, result)
  PROVE  /\ Slots'
         /\ status' \in [Requests -> {"none", "pending", "committed", "released"}]
         /\ count' \in [Keys -> Nat] /\ left' \in [Keys -> Nat] /\ orphaned' \in [Keys -> Nat]
  <1> USE QuotaAssumption DEF QuotaAssumption, TypeOK
  <1>1. CASE status[r] # "pending"
    BY <1>1 DEF FinishCall, redis, Slots, Pending
  <1>2. CASE status[r] = "pending"
    <2>1. status' \in [Requests -> {"none", "pending", "committed", "released"}]
      BY <1>2 DEF FinishCall
    <2>2. count' \in [Keys -> Nat] /\ left' = left /\ orphaned' = orphaned
      BY <1>2 DEF FinishCall, Freed
    <2>3. ASSUME NEW k \in Keys
          PROVE  /\ count'[k] <= Cardinality(Pending(k)')
                 /\ Cardinality(Pending(k)') <= count'[k] + orphaned'[k]
                 /\ count'[k] <= Limit[k]
      <3>1. IsFiniteSet(Pending(k)) /\ Cardinality(Pending(k)) \in Nat
        BY PendingFinite
      <3>2. CASE k \in KeysOf[r]
        <4>1. Pending(k)' = Pending(k) \ {r} /\ r \in Pending(k)
          BY <1>2, <3>2 DEF FinishCall, Pending
        <4>2. Cardinality(Pending(k)') = Cardinality(Pending(k)) - 1
          <5>1. Cardinality(Pending(k) \ {r}) = Cardinality(Pending(k)) - 1
            BY <4>1, <3>1, FS_RemoveElement, Zenon
          <5> QED BY <4>1, <5>1
        <4>3. count'[k] = IF count[k] > 0 THEN count[k] - 1 ELSE count[k]
          BY <1>2, <3>2 DEF FinishCall, Freed
        <4>4. Cardinality(Pending(k)) >= 1
          BY <3>1, <4>1, <4>2, FS_EmptySet
        <4> QED BY <2>2, <3>1, <4>2, <4>3, <4>4 DEF Slots
      <3>3. CASE k \notin KeysOf[r]
        <4>1. Pending(k)' = Pending(k)
          BY <1>2, <3>3 DEF FinishCall, Pending
        <4> QED BY <1>2, <2>2, <3>3, <4>1 DEF FinishCall, Freed, Slots
      <3> QED BY <3>2, <3>3
    <2> QED BY <2>1, <2>2, <2>3 DEF Slots
  <1> QED BY <1>1, <1>2

LEMMA ExecuteKeepsSlots ==
  ASSUME TypeOK, Slots, NEW r \in Requests, NEW op \in Ops, Execute(r, op)
  PROVE  /\ Slots'
         /\ status' \in [Requests -> {"none", "pending", "committed", "released"}]
         /\ count' \in [Keys -> Nat] /\ left' \in [Keys -> Nat] /\ orphaned' \in [Keys -> Nat]
         /\ calls' \in SUBSET (Requests \X Ops)
         /\ \A s \in Requests : status'[s] = "released" =>
              status[s] = "released" \/ (s = r /\ op = "release")
  <1>1. calls' \in SUBSET (Requests \X Ops)
    BY DEF Execute, TypeOK
  <1>2. CASE op = "reserve"
    <2>1. CASE status[r] = "none" /\ Admits(r)
      <3>1. ReserveScript(r)
        BY <1>2, <2>1 DEF Execute, ReserveCall
      <3>2. \A s \in Requests : status'[s] = "released" => status[s] = "released"
        BY <3>1 DEF ReserveScript, TypeOK
      <3> QED BY <1>1, <2>1, <3>1, <3>2, ReserveKeepsSlots
    <2>2. CASE ~ (status[r] = "none" /\ Admits(r))
      BY <1>1, <1>2, <2>2 DEF Execute, ReserveCall, redis, TypeOK, Slots, Pending
    <2> QED BY <2>1, <2>2
  <1>3. CASE op = "commit"
    <2>1. FinishCall(r, "committed")
      BY <1>3 DEF Execute
    <2>2. \A s \in Requests : status'[s] = "released" => status[s] = "released"
      BY <2>1 DEF FinishCall, redis, TypeOK
    <2> QED BY <1>1, <2>1, <2>2, FinishKeepsSlots
  <1>4. CASE op = "release"
    <2>1. FinishCall(r, "released")
      BY <1>4 DEF Execute
    <2>2. \A s \in Requests : status'[s] = "released" => status[s] = "released" \/ s = r
      BY <2>1 DEF FinishCall, redis, TypeOK
    <2> QED BY <1>1, <1>4, <2>1, <2>2, FinishKeepsSlots
  <1> QED BY <1>2, <1>3, <1>4 DEF Ops

(* The gateway's own steps do not touch Redis. *)
LEMMA GatewayKeepsSlots ==
  ASSUME Slots, UNCHANGED redis
  PROVE  Slots'
  BY DEF Slots, Pending, redis

LEMMA TickKeeps == ASSUME TypeOK, Slots, Tick PROVE TypeOK' /\ Slots'
  <1> USE QuotaAssumption DEF QuotaAssumption, TypeOK
  <1> DEFINE gone == {k \in Keys : left[k] = 1}
  <1>1. \A k \in Keys : Pending(k)' = Pending(k) /\ Cardinality(Pending(k)) \in Nat
    BY PendingFinite DEF Tick, Pending
  <1>2. count' = [k \in Keys |-> IF k \in gone THEN 0 ELSE count[k]]
    BY DEF Tick
  <1>3. orphaned' = [k \in Keys |-> IF k \in gone THEN orphaned[k] + Cardinality(Pending(k))
                                    ELSE orphaned[k]]
    BY DEF Tick
  <1>4. Slots'
    BY <1>1, <1>2, <1>3 DEF Slots
  <1>5. TypeOK'
    BY <1>1, <1>2, <1>3 DEF Tick, gateway
  <1> QED BY <1>4, <1>5

LEMMA NextPreserves == IInv /\ [Next]_vars => IInv'
  <1> SUFFICES ASSUME IInv, [Next]_vars PROVE IInv'
    OBVIOUS
  <1> USE QuotaAssumption DEF QuotaAssumption, IInv
  <1>1. CASE UNCHANGED vars
    BY <1>1, GatewayKeepsSlots DEF vars, gateway, redis, TypeOK, OneFinisher
  <1>2. CASE Tick
    BY <1>2, TickKeeps DEF Tick, gateway, OneFinisher
  <1>3. ASSUME NEW r \in Requests, Reserve(r) PROVE IInv'
    BY <1>3, GatewayKeepsSlots DEF Reserve, Goto, redis, Ops, TypeOK, OneFinisher
  <1>4. ASSUME NEW r \in Requests, ReserveAnswered(r) PROVE IInv'
    <2>1. Execute(r, "reserve") /\ "reserve" \in Ops
      BY <1>4 DEF ReserveAnswered, Ops
    <2>2. Slots' /\ TypeOK'
      BY <1>4, <2>1, ExecuteKeepsSlots DEF ReserveAnswered, Goto, TypeOK
    <2>3. \A s \in Requests : status'[s] = "released" => status[s] = "released"
      BY <2>1, ExecuteKeepsSlots
    <2>4. OneFinisher'
      BY <1>4, <2>1, <2>3 DEF ReserveAnswered, Execute, Goto, TypeOK, OneFinisher
    <2> QED BY <2>2, <2>4
  <1>5. ASSUME NEW r \in Requests, ReserveFails(r) PROVE IInv'
    BY <1>5, GatewayKeepsSlots DEF ReserveFails, Goto, redis, TypeOK, OneFinisher
  <1>6. ASSUME NEW r \in Requests, ScheduleUsage(r) PROVE IInv'
    BY <1>6, GatewayKeepsSlots DEF ScheduleUsage, redis, TypeOK, OneFinisher
  <1>7. ASSUME NEW r \in Requests, Record(r) PROVE IInv'
    BY <1>7, GatewayKeepsSlots DEF Record, redis, Ops, TypeOK, OneFinisher
  <1>8. ASSUME NEW r \in Requests, CommitAnswered(r) PROVE IInv'
    <2>1. Execute(r, "commit") /\ "commit" \in Ops
      BY <1>8 DEF CommitAnswered, Ops
    <2>2. Slots' /\ TypeOK'
      BY <1>8, <2>1, ExecuteKeepsSlots DEF CommitAnswered, TypeOK
    <2>3. \A s \in Requests : status'[s] = "released" => status[s] = "released"
      BY <2>1, ExecuteKeepsSlots
    <2>4. OneFinisher'
      BY <1>8, <2>1, <2>3 DEF CommitAnswered, Execute, TypeOK, OneFinisher
    <2> QED BY <2>2, <2>4
  <1>9. ASSUME NEW r \in Requests, CommitFails(r) PROVE IInv'
    BY <1>9, GatewayKeepsSlots DEF CommitFails, redis, TypeOK, OneFinisher
  <1>10. ASSUME NEW r \in Requests, Complete(r) PROVE IInv'
    BY <1>10, GatewayKeepsSlots DEF Complete, Goto, redis, TypeOK, OneFinisher
  <1>11. ASSUME NEW r \in Requests, Release(r) PROVE IInv'
    BY <1>11, GatewayKeepsSlots
       DEF Release, UsageOver, ToRelease, Goto, redis, Ops, TypeOK, OneFinisher
  <1>12. ASSUME NEW r \in Requests, ReleaseAnswered(r) PROVE IInv'
    <2>1. Execute(r, "release") /\ "release" \in Ops /\ <<r, "release">> \in calls
      BY <1>12 DEF ReleaseAnswered, Ops
    <2>2. Slots' /\ TypeOK'
      BY <1>12, <2>1, ExecuteKeepsSlots DEF ReleaseAnswered, Goto, TypeOK
    <2>3. \A s \in Requests : status'[s] = "released" => status[s] = "released" \/ s = r
      BY <2>1, ExecuteKeepsSlots
    <2>4. OneFinisher'
      BY <1>12, <2>1, <2>3 DEF ReleaseAnswered, Execute, Goto, TypeOK, OneFinisher
    <2> QED BY <2>2, <2>4
  <1>13. ASSUME NEW r \in Requests, ReleaseFails(r) PROVE IInv'
    BY <1>13, GatewayKeepsSlots DEF ReleaseFails, Goto, redis, TypeOK, OneFinisher
  <1>14. ASSUME NEW r \in Requests, Abandon(r) PROVE IInv'
    BY <1>14, GatewayKeepsSlots DEF Abandon, Goto, redis, TypeOK, OneFinisher
  <1>15. ASSUME NEW r \in Requests, NEW op \in Ops, LateCall(r, op) PROVE IInv'
    <2>1. Execute(r, op) /\ <<r, op>> \in calls
      BY <1>15 DEF LateCall
    <2>2. Slots' /\ TypeOK'
      BY <1>15, <2>1, ExecuteKeepsSlots DEF LateCall, gateway, TypeOK
    <2>3. \A s \in Requests : status'[s] = "released" =>
            status[s] = "released" \/ (s = r /\ op = "release")
      BY <2>1, ExecuteKeepsSlots
    <2>4. OneFinisher'
      BY <1>15, <2>1, <2>3 DEF LateCall, Execute, gateway, TypeOK, OneFinisher
    <2> QED BY <2>2, <2>4
  <1> QED
    BY <1>1, <1>2, <1>3, <1>4, <1>5, <1>6, <1>7, <1>8, <1>9, <1>10, <1>11, <1>12, <1>13,
       <1>14, <1>15 DEF Next

(* The slots of Redis against the requests of the gateway, in every        *)
(* reachable state (redis_store.go, quota_lifecycle.py).                   *)
THEOREM Inductive == Spec => []IInv
  <1> QED BY InitHolds, NextPreserves, PTL DEF Spec

(* The gateway's state and the keys of Redis stay within their types: no   *)
(* counter is ever negative.                                               *)
THEOREM QuotaTypeCorrect == Spec => []TypeOK
  <1>1. IInv => TypeOK
    BY DEF IInv
  <1> QED BY Inductive, <1>1, PTL

(* The scripts of redis_store.go admit at most Limit[k] reservations and   *)
(* those that had outlived their counter.                                  *)
THEOREM QuotaConcurrencyBounded == Spec => []ConcurrencyBounded
  <1>1. ASSUME IInv PROVE ConcurrencyBounded
    <2> SUFFICES ASSUME NEW k \in Keys
                 PROVE  Cardinality(Pending(k)) <= Limit[k] + orphaned[k]
      BY DEF ConcurrencyBounded
    <2> QED BY <1>1, PendingFinite, QuotaAssumption DEF IInv, Slots, TypeOK, QuotaAssumption
  <1> QED BY Inductive, <1>1, PTL

(* A counter holds no slot that no pending reservation accounts for.       *)
THEOREM QuotaNoPhantomSlot == Spec => []NoPhantomSlot
  <1>1. IInv => NoPhantomSlot
    BY DEF IInv, Slots, NoPhantomSlot
  <1> QED BY Inductive, <1>1, PTL

(* commit_current_quota_reservation comes before                           *)
(* release_current_quota_reservation for requests with usage, unless a     *)
(* call failed.                                                            *)
THEOREM QuotaUsageCommitsFirst == Spec => []UsageCommitsFirst
  <1>1. ASSUME IInv PROVE UsageCommitsFirst
    BY <1>1 DEF IInv, TypeOK, OneFinisher, UsageCommitsFirst
  <1> QED BY Inductive, <1>1, PTL

(* All three together, the invariant that the runs check.                  *)
THEOREM QuotaIsKept == Spec => []QuotaKept
  <1>1. ConcurrencyBounded /\ NoPhantomSlot /\ UsageCommitsFirst => QuotaKept
    BY DEF QuotaKept
  <1> QED
    BY QuotaConcurrencyBounded, QuotaNoPhantomSlot, QuotaUsageCommitsFirst, <1>1, PTL

-----------------------------------------------------------------------------
(* UsageStream.  An entry that is acknowledged was handled: its event is   *)
(* counted, or a dead letter, or a later entry carries it.  That order is  *)
(* what keeps copies of an entry from vouching for one another.  Attempts  *)
(* that an entry carries are failed writes of its event.                   *)

Entry == [event : Events, attempts : Nat]

StreamRows ==
  /\ unsent \subseteq Events
  /\ stream \in Seq(Entry)
  /\ read \in 0 .. Len(stream)
  /\ DOMAIN pending \subseteq 1 .. read
  /\ \A d \in dead : d.event \in Events
  /\ seen \subseteq Events /\ IsFiniteSet(seen)
  /\ summary \in [Stream!Summaries -> Nat]
  /\ failures \in [Events -> Nat]
  /\ step \in [Consumers -> {"next", "requeue", "dead", "ack"}]
  /\ batch \in [Consumers -> SUBSET (1 .. read)]
  /\ memo \in [Consumers -> SUBSET Events]

Handled(i) ==
  \/ stream[i].event \in seen
  \/ \E d \in dead : d.event = stream[i].event
  \/ \E j \in 1 .. Len(stream) : j > i /\ stream[j].event = stream[i].event /\ ~ Stream!Acked(j)

AckedHandled == \A i \in 1 .. Len(stream) : Stream!Acked(i) => Handled(i)

AttemptsFailed == \A i \in 1 .. Len(stream) : stream[i].attempts <= failures[stream[i].event]

(* What a consumer at work knows of the entry that it has reached. *)
Knows(where, i) ==
  /\ where = "ack" => Handled(i)
  /\ where = "requeue" => stream[i].attempts + 1 <= failures[stream[i].event]
  /\ where = "dead" => stream[i].event \in malformed \/ failures[stream[i].event] >= MaxAttempts

Informed(c) == batch[c] # {} => Knows(step[c], Stream!Current(c))

LettersEarned == \A d \in dead : d.reason = "write_error" => failures[d.event] >= MaxAttempts

StreamInv ==
  /\ StreamRows /\ AckedHandled /\ AttemptsFailed /\ LettersEarned /\ Stream!CountedOnce
  /\ \A c \in Consumers : Informed(c)

(* The instance counts as its module does. *)
LEMMA StreamCounts == \A S : Stream!Cardinality(S) = Cardinality(S)
BY DEF Stream!Cardinality, Cardinality

(* A set of naturals that is not empty has a least element. *)
LEMMA LeastExists ==
  ASSUME NEW S \in SUBSET Nat, S # {}
  PROVE  \E i \in S : \A j \in S : i <= j
<1> DEFINE Below == {ss \in Nat \X Nat : ss[1] < ss[2]}
<1>1. IsWellFoundedOn(Below, Nat)
  BY NatLessThanWellFounded DEF OpToRel
<1>2. \E x \in S : \A y \in S : <<y, x>> \notin Below
  <2> HIDE DEF Below
  <2> QED  BY <1>1, WFMin
<1>3. PICK i \in S : \A j \in S : <<j, i>> \notin Below
  BY <1>2
<1>4. ASSUME NEW j \in S PROVE i <= j
  <2>1. <<j, i>> \in Nat \X Nat /\ <<j, i>>[1] = j /\ <<j, i>>[2] = i
    OBVIOUS
  <2>2. ~ (j < i)
    BY <1>3, <2>1
  <2> QED  BY <2>2
<1> QED  BY <1>4

(* Entries keep their form. *)
LEMMA EntryForm ==
  ASSUME stream \in Seq(Entry), NEW i \in 1 .. Len(stream)
  PROVE  stream[i] \in Entry /\ stream[i].event \in Events /\ stream[i].attempts \in Nat
<1>1. stream[i] \in Entry
  OBVIOUS
<1> QED  BY <1>1 DEF Entry

LEMMA CurrentInBatch ==
  ASSUME StreamRows, NEW c \in Consumers, batch[c] # {}
  PROVE  Stream!Current(c) \in batch[c] /\ Stream!Current(c) \in 1 .. read
         /\ Stream!Current(c) \in 1 .. Len(stream)
<1>1. batch[c] \in SUBSET (1 .. read) /\ read \in Nat /\ read <= Len(stream) /\ Len(stream) \in Nat
  BY DEF StreamRows
<1>2. \E i \in batch[c] : \A j \in batch[c] : i <= j
  BY <1>1, LeastExists
<1>3. Stream!Current(c) \in batch[c]
  BY <1>2 DEF Stream!Current
<1> QED  BY <1>1, <1>3

(* What a step needs to do to the stream: entries stay where they are. *)
Extends == \A i \in 1 .. Len(stream) : i \in 1 .. Len(stream') /\ stream'[i] = stream[i]

(* What was handled stays so while nothing is acknowledged. *)
LEMMA HandledStays ==
  ASSUME StreamRows, StreamRows', AckedHandled, Extends,
         \A i \in 1 .. Len(stream') : Stream!Acked(i)' => Stream!Acked(i) /\ i \in 1 .. Len(stream),
         seen \subseteq seen', dead \subseteq dead'
  PROVE  (\A i \in 1 .. Len(stream) : Handled(i) => Handled(i)') /\ AckedHandled'
<1>1. ASSUME NEW i \in 1 .. Len(stream), Handled(i) PROVE Handled(i)'
  <2>1. i \in 1 .. Len(stream') /\ stream'[i] = stream[i]
    BY DEF Extends
  <2>2. CASE stream[i].event \in seen
    BY <2>1, <2>2 DEF Handled
  <2>3. CASE \E d \in dead : d.event = stream[i].event
    BY <2>1, <2>3 DEF Handled
  <2>4. CASE \E j \in 1 .. Len(stream) :
               j > i /\ stream[j].event = stream[i].event /\ ~ Stream!Acked(j)
    <3>1. PICK j \in 1 .. Len(stream) :
            j > i /\ stream[j].event = stream[i].event /\ ~ Stream!Acked(j)
      BY <2>4
    <3>2. j \in 1 .. Len(stream') /\ stream'[j] = stream[j] /\ ~ Stream!Acked(j)'
      BY <3>1 DEF Extends
    <3> QED  BY <2>1, <3>1, <3>2 DEF Handled
  <2> QED  BY <1>1, <2>2, <2>3, <2>4 DEF Handled
<1>2. AckedHandled'
  BY <1>1 DEF AckedHandled
<1> QED  BY <1>1, <1>2

LEMMA AttemptsStay ==
  ASSUME StreamRows, StreamRows', AttemptsFailed, Extends,
         \A i \in 1 .. Len(stream') :
           i \notin 1 .. Len(stream) => stream'[i].attempts <= failures'[stream'[i].event],
         \A e \in Events : failures[e] <= failures'[e]
  PROVE  AttemptsFailed'
<1> SUFFICES ASSUME NEW i \in 1 .. Len(stream')
             PROVE  stream'[i].attempts <= failures'[stream'[i].event]
  BY DEF AttemptsFailed
<1>1. CASE i \in 1 .. Len(stream)
  <2>1. stream'[i] = stream[i] /\ stream[i].attempts <= failures[stream[i].event]
    BY <1>1 DEF AttemptsFailed, Extends
  <2>2. stream[i].attempts \in Nat /\ stream[i].event \in Events
        /\ failures \in [Events -> Nat] /\ failures' \in [Events -> Nat]
    BY <1>1, EntryForm DEF StreamRows
  <2>3. failures[stream[i].event] <= failures'[stream[i].event]
    BY <2>2
  <2> QED  BY <2>1, <2>2, <2>3
<1> QED  BY <1>1

(* What a consumer knows stays true until it goes on. *)
LEMMA InformedStays ==
  ASSUME StreamInv, StreamRows', Extends, malformed' = malformed,
         \A i \in 1 .. Len(stream) : Handled(i) => Handled(i)',
         \A e \in Events : failures[e] <= failures'[e],
         NEW c \in Consumers, step'[c] = step[c], batch'[c] = batch[c]
  PROVE  Informed(c)'
<1> SUFFICES ASSUME batch[c] # {} PROVE Knows(step[c], Stream!Current(c))'
  BY DEF Informed
<1>1. PICK i \in 1 .. Len(stream) : i = Stream!Current(c)
  BY CurrentInBatch DEF StreamInv
<1>2. Stream!Current(c)' = i
  BY <1>1 DEF Stream!Current
<1>3. Knows(step[c], i)
  BY <1>1 DEF StreamInv, Informed
<1>4. i \in 1 .. Len(stream) /\ stream'[i] = stream[i]
  BY DEF Extends
<1>5. /\ stream[i].attempts \in Nat /\ stream[i].event \in Events
      /\ failures \in [Events -> Nat] /\ failures' \in [Events -> Nat] /\ MaxAttempts \in Nat
  BY <1>4, EntryForm, StreamAssumed DEF StreamInv, StreamRows, Stream!StreamAssumption
<1>6. failures[stream[i].event] <= failures'[stream[i].event]
  BY <1>5
<1>7. Handled(i) => Handled(i)'
  BY <1>4
<1>8. Knows(step[c], i)'
  BY <1>3, <1>4, <1>5, <1>6, <1>7 DEF Knows
<1> QED  BY <1>2, <1>8

(* What the instance takes from the standard modules means the same.       *)
LEMMA StreamOperators ==
  /\ Stream!Entries = Entry
  /\ \A s, x : Stream!Append(s, x) = Append(s, x)
BY DEF Stream!Entries, Entry, Stream!Append, Append

LEMMA Appended ==
  ASSUME stream \in Seq(Entry), NEW x \in Entry, stream' = Append(stream, x)
  PROVE  /\ stream' \in Seq(Entry) /\ Len(stream') = Len(stream) + 1 /\ Extends
         /\ \A i \in 1 .. Len(stream') : i \notin 1 .. Len(stream) => stream'[i] = x
<1>1. stream' \in Seq(Entry) /\ Len(stream') = Len(stream) + 1 /\ Len(stream) \in Nat
  OBVIOUS
<1>2. Extends
  BY <1>1 DEF Extends
<1>3. ASSUME NEW i \in 1 .. Len(stream'), i \notin 1 .. Len(stream) PROVE stream'[i] = x
  BY <1>1, <1>3
<1> QED  BY <1>1, <1>2, <1>3

(* Counts that no step touches stay right. *)
LEMMA CountsStay ==
  ASSUME Stream!CountedOnce, seen' = seen, summary' = summary,
         \A c \in Consumers : memo'[c] \subseteq memo[c]
  PROVE  Stream!CountedOnce'
BY DEF Stream!CountedOnce, Stream!Summaries, Stream!Rollups

(* A recorded event is counted in its summaries, once. *)
LEMMA RecordCounts ==
  ASSUME StreamRows, Stream!CountedOnce, NEW e \in Events, Stream!Record(e)
  PROVE  /\ seen \subseteq seen' /\ e \in seen' /\ seen' \subseteq Events /\ IsFiniteSet(seen')
         /\ summary' \in [Stream!Summaries -> Nat]
         /\ \A q \in Stream!Summaries :
              summary'[q] = Stream!Cardinality({f \in seen' : q \in Stream!Rollups(f)})
<1>1. seen \subseteq Events /\ IsFiniteSet(seen) /\ summary \in [Stream!Summaries -> Nat]
  BY DEF StreamRows
<1>2. seen' = seen \cup {e} /\ summary' = IF e \in seen THEN summary ELSE Stream!Raised(e)
  BY DEF Stream!Record
<1>3. seen \subseteq seen' /\ e \in seen' /\ seen' \subseteq Events /\ IsFiniteSet(seen')
  BY <1>1, <1>2, FS_AddElement
<1>4. summary' \in [Stream!Summaries -> Nat]
  BY <1>1, <1>2 DEF Stream!Raised
<1>5. ASSUME NEW q \in Stream!Summaries
      PROVE  summary'[q] = Stream!Cardinality({f \in seen' : q \in Stream!Rollups(f)})
  <2> DEFINE Of(S) == {f \in S : q \in Stream!Rollups(f)}
  <2>1. summary[q] = Cardinality(Of(seen)) /\ summary[q] \in Nat
    BY <1>1, StreamCounts DEF Stream!CountedOnce
  <2>2. IsFiniteSet(Of(seen))
    BY <1>1, FS_Subset
  <2>3. CASE e \in seen
    <3>1. seen' = seen /\ summary' = summary
      BY <1>2, <2>3
    <3> QED  BY <2>1, <3>1, StreamCounts
  <2>4. CASE e \notin seen /\ q \in Stream!Rollups(e)
    <3>1. Of(seen') = Of(seen) \cup {e} /\ e \notin Of(seen)
      BY <1>2, <2>4
    <3>2. Cardinality(Of(seen')) = Cardinality(Of(seen)) + 1
      BY <2>2, <3>1, FS_AddElement
    <3>3. summary'[q] = summary[q] + 1
      BY <1>2, <2>4 DEF Stream!Raised
    <3> QED  BY <2>1, <3>2, <3>3, StreamCounts
  <2>5. CASE e \notin seen /\ q \notin Stream!Rollups(e)
    <3>1. Of(seen') = Of(seen)
      BY <1>2, <2>5
    <3>2. summary'[q] = summary[q]
      BY <1>2, <2>1, <2>5 DEF Stream!Raised
    <3> QED  BY <2>1, <3>1, <3>2, StreamCounts
  <2> QED  BY <2>3, <2>4, <2>5
<1> QED  BY <1>3, <1>4, <1>5

(* The ids that a read delivers are the next ones. *)
LEMMA FreshAreNext ==
  ASSUME StreamRows
  PROVE  /\ Stream!Cardinality(Stream!Fresh) \in Nat
         /\ read + Stream!Cardinality(Stream!Fresh) <= Len(stream)
         /\ Stream!Fresh = (read + 1) .. (read + Stream!Cardinality(Stream!Fresh))
<1>1. read \in Nat /\ Len(stream) \in Nat /\ read <= Len(stream) /\ DOMAIN stream = 1 .. Len(stream)
  BY DEF StreamRows
<1>2. Batch \in Nat /\ Batch > 0
  BY StreamAssumed DEF Stream!StreamAssumption
<1> DEFINE m == IF Len(stream) <= read + Batch THEN Len(stream) ELSE read + Batch
<1>3. m \in Nat /\ read <= m /\ m <= Len(stream)
  BY <1>1, <1>2
<1>4. Stream!Fresh = (read + 1) .. m
  BY <1>1, <1>2 DEF Stream!Fresh
<1> HIDE DEF m
<1>5. Stream!Cardinality(Stream!Fresh) = m - read
  <2>1. Cardinality((read + 1) .. m) = IF read + 1 > m THEN 0 ELSE m - (read + 1) + 1
    BY <1>1, <1>3, FS_Interval
  <2> QED  BY <1>1, <1>3, <1>4, <2>1, StreamCounts
<1> QED  BY <1>1, <1>3, <1>4, <1>5

-----------------------------------------------------------------------------
(* The actions of UsageStream. *)

LEMMA StreamInit == Stream!Init => StreamInv
<1> SUFFICES ASSUME Stream!Init PROVE StreamInv
  OBVIOUS
<1>1. stream = <<>> /\ Len(stream) = 0 /\ read = 0 /\ pending = <<>> /\ dead = {} /\ seen = {}
  BY DEF Stream!Init
<1>2. StreamRows
  BY <1>1, FS_EmptySet DEF Stream!Init, StreamRows, Entry
<1>3. AckedHandled /\ AttemptsFailed /\ LettersEarned
  BY <1>1 DEF AckedHandled, AttemptsFailed, LettersEarned
<1>4. Stream!CountedOnce
  <2>1. \A q \in Stream!Summaries : summary[q] = 0 /\ {e \in seen : q \in Stream!Rollups(e)} = {}
    BY <1>1 DEF Stream!Init
  <2>2. Stream!Cardinality({}) = 0
    BY FS_EmptySet, StreamCounts
  <2>3. \A c \in Consumers : memo[c] = {}
    BY DEF Stream!Init
  <2> QED  BY <2>1, <2>2, <2>3 DEF Stream!CountedOnce
<1>5. \A c \in Consumers : Informed(c)
  BY DEF Stream!Init, Informed
<1> QED  BY <1>2, <1>3, <1>4, <1>5 DEF StreamInv

(* A step that appends at most one entry, and otherwise leaves alone what  *)
(* is acknowledged, recorded and known.                                    *)
LEMMA AppendingKeeps ==
  ASSUME StreamInv, NEW x \in Entry, x.attempts <= failures[x.event],
         stream' = Append(stream, x) \/ stream' = stream,
         unsent' \subseteq Events,
         UNCHANGED <<malformed, read, pending, dead, seen, summary, failures, memo>>,
         step' \in [Consumers -> {"next", "requeue", "dead", "ack"}],
         batch' \in [Consumers -> SUBSET (1 .. read)]
  PROVE  /\ StreamRows' /\ Extends /\ AckedHandled' /\ AttemptsFailed' /\ LettersEarned'
         /\ Stream!CountedOnce'
         /\ \A i \in 1 .. Len(stream) : Handled(i) => Handled(i)'
<1>1. StreamRows /\ stream \in Seq(Entry) /\ Len(stream) \in Nat
  BY DEF StreamInv, StreamRows
<1>2. /\ stream' \in Seq(Entry) /\ Len(stream') \in Nat /\ Len(stream) <= Len(stream') /\ Extends
      /\ \A i \in 1 .. Len(stream') : i \notin 1 .. Len(stream) => stream'[i] = x
  <2>1. CASE stream' = Append(stream, x)
    BY <1>1, <2>1, Appended
  <2>2. CASE stream' = stream
    BY <1>1, <2>2 DEF Extends
  <2> QED  BY <2>1, <2>2
<1>3. StreamRows'
  BY <1>1, <1>2 DEF StreamRows
<1>4. \A i \in 1 .. Len(stream') : Stream!Acked(i)' => Stream!Acked(i) /\ i \in 1 .. Len(stream)
  BY <1>1 DEF StreamRows, Stream!Acked
<1>5. (\A i \in 1 .. Len(stream) : Handled(i) => Handled(i)') /\ AckedHandled'
  BY <1>1, <1>2, <1>3, <1>4, HandledStays DEF StreamInv
<1>6. AttemptsFailed'
  BY <1>1, <1>2, <1>3, AttemptsStay DEF StreamInv, StreamRows
<1>7. LettersEarned' /\ Stream!CountedOnce'
  BY CountsStay DEF StreamInv, LettersEarned
<1> QED  BY <1>2, <1>3, <1>5, <1>6, <1>7

LEMMA PublishKeeps ==
  ASSUME StreamInv, NEW e \in Events, Stream!Publish(e)
  PROVE  StreamInv'
<1> DEFINE x == [event |-> e, attempts |-> 0]
<1>1. StreamRows
  BY DEF StreamInv
<1>2. x \in Entry /\ x.attempts <= failures[x.event]
  BY <1>1 DEF Entry, StreamRows
<1>3. stream' = Append(stream, x) \/ stream' = stream
  BY StreamOperators DEF Stream!Publish
<1>4. /\ unsent' \subseteq Events /\ UNCHANGED <<step, batch>>
      /\ UNCHANGED <<malformed, read, pending, dead, seen, summary, failures, memo>>
  BY <1>1 DEF Stream!Publish, StreamRows
<1> HIDE DEF x
<1>5. /\ StreamRows' /\ Extends /\ AckedHandled' /\ AttemptsFailed' /\ LettersEarned'
      /\ Stream!CountedOnce' /\ \A i \in 1 .. Len(stream) : Handled(i) => Handled(i)'
  BY <1>1, <1>2, <1>3, <1>4, AppendingKeeps DEF StreamRows
<1>6. \A c \in Consumers : Informed(c)'
  <2> TAKE c \in Consumers
  <2>1. step'[c] = step[c] /\ batch'[c] = batch[c] /\ malformed' = malformed
        /\ \A f \in Events : failures[f] <= failures'[f]
    BY <1>1, <1>4 DEF StreamRows
  <2> QED  BY <1>5, <2>1, InformedStays
<1> QED  BY <1>5, <1>6 DEF StreamInv

LEMMA RequeueKeeps ==
  ASSUME StreamInv, NEW c \in Consumers, Stream!Requeue(c)
  PROVE  StreamInv'
<1>1. StreamRows /\ batch[c] # {} /\ step[c] = "requeue"
  BY DEF StreamInv, Stream!Requeue, Stream!At
<1>2. PICK i \in 1 .. Len(stream) : i = Stream!Current(c) /\ i \in batch[c] /\ i \in 1 .. read
  BY <1>1, CurrentInBatch
<1>3. stream[i] \in Entry /\ stream[i].event \in Events /\ stream[i].attempts \in Nat
  BY <1>1, EntryForm DEF StreamRows
<1>4. stream[i].attempts + 1 <= failures[stream[i].event]
  BY <1>1, <1>2 DEF StreamInv, Informed, Knows
<1> DEFINE x == [stream[i] EXCEPT !.attempts = @ + 1]
<1>5. x \in Entry /\ x.event = stream[i].event /\ x.attempts <= failures[x.event]
  BY <1>3, <1>4 DEF Entry
<1>6. PICK o \in Stream!Outcomes :
        /\ stream' = IF Stream!Applied(o) THEN Append(stream, x) ELSE stream
        /\ IF o = "ok" THEN Stream!Goto(c, "ack") ELSE Stream!Done(c)
  BY <1>2, StreamOperators DEF Stream!Requeue
<1>7. UNCHANGED <<malformed, unsent, read, pending, dead, seen, summary, failures, memo>>
  BY DEF Stream!Requeue
<1> HIDE DEF x
<1>8. /\ step' = [step EXCEPT ![c] = IF o = "ok" THEN "ack" ELSE "next"]
      /\ batch' = IF o = "ok" THEN batch ELSE [batch EXCEPT ![c] = @ \ {i}]
  BY <1>2, <1>6 DEF Stream!Goto, Stream!Done
<1>9. /\ step' \in [Consumers -> {"next", "requeue", "dead", "ack"}]
      /\ batch' \in [Consumers -> SUBSET (1 .. read)]
  BY <1>1, <1>8 DEF StreamRows
<1>10. /\ StreamRows' /\ Extends /\ AckedHandled' /\ AttemptsFailed' /\ LettersEarned'
       /\ Stream!CountedOnce' /\ \A j \in 1 .. Len(stream) : Handled(j) => Handled(j)'
  <2>1. unsent' \subseteq Events
    BY <1>1, <1>7 DEF StreamRows
  <2> QED  BY <1>5, <1>6, <1>7, <1>9, <2>1, AppendingKeeps
<1>11. ASSUME NEW d \in Consumers, d # c PROVE Informed(d)'
  <2>1. step'[d] = step[d] /\ batch'[d] = batch[d] /\ malformed' = malformed
        /\ \A f \in Events : failures[f] <= failures'[f]
    BY <1>1, <1>7, <1>8, <1>11 DEF StreamRows
  <2> QED  BY <1>10, <2>1, InformedStays
<1>12. Informed(c)'
  <2>1. CASE o = "ok"
    <3>1. step'[c] = "ack" /\ batch'[c] = batch[c] /\ Stream!Current(c)' = i
      BY <1>1, <1>2, <1>8, <2>1 DEF StreamRows, Stream!Current
    <3>2. stream' = Append(stream, x)
      BY <1>6, <2>1 DEF Stream!Applied
    <3>3. PICK k \in Nat : k = Len(stream) + 1
      BY <1>1 DEF StreamRows
    <3>4. /\ k \in 1 .. Len(stream') /\ stream'[k] = x /\ k > i /\ i \in 1 .. Len(stream')
          /\ stream'[i] = stream[i]
      BY <1>1, <1>5, <3>2, <3>3 DEF StreamRows
    <3>5. ~ Stream!Acked(k)'
      BY <1>1, <1>7, <3>3 DEF Stream!Acked, StreamRows
    <3>6. Handled(i)'
      BY <1>5, <3>4, <3>5 DEF Handled
    <3> QED  BY <3>1, <3>6 DEF Informed, Knows
  <2>2. CASE o # "ok"
    <3>1. step'[c] = "next"
      BY <1>1, <1>8, <2>2 DEF StreamRows
    <3> QED  BY <3>1 DEF Informed, Knows
  <2> QED  BY <2>1, <2>2
<1> QED  BY <1>10, <1>11, <1>12 DEF StreamInv

(* A step that appends nothing and acknowledges nothing: the rest of what  *)
(* it must do for the invariant is said of the consumers it concerns.      *)
LEMMA StandingKeeps ==
  ASSUME StreamInv, StreamRows', stream' = stream, malformed' = malformed,
         \A i \in 1 .. Len(stream) : Stream!Acked(i)' => Stream!Acked(i),
         seen \subseteq seen', dead \subseteq dead',
         \A e \in Events : failures[e] <= failures'[e],
         LettersEarned', Stream!CountedOnce',
         \A c \in Consumers : Informed(c)' \/ (step'[c] = step[c] /\ batch'[c] = batch[c])
  PROVE  StreamInv'
<1>1. StreamRows /\ Extends
  BY DEF StreamInv, Extends
<1>2. (\A i \in 1 .. Len(stream) : Handled(i) => Handled(i)') /\ AckedHandled'
  BY <1>1, HandledStays DEF StreamInv
<1>3. AttemptsFailed'
  BY <1>1, AttemptsStay DEF StreamInv
<1>4. \A c \in Consumers : Informed(c)'
  <2> TAKE c \in Consumers
  <2>1. CASE step'[c] = step[c] /\ batch'[c] = batch[c]
    BY <1>1, <1>2, <2>1, InformedStays
  <2> QED  BY <2>1
<1> QED  BY <1>2, <1>3, <1>4 DEF StreamInv

(* What is earned stays earned. *)
LEMMA LettersStay ==
  ASSUME StreamRows, StreamRows', LettersEarned, dead' = dead,
         \A e \in Events : failures[e] <= failures'[e]
  PROVE  LettersEarned'
<1>1. failures \in [Events -> Nat] /\ failures' \in [Events -> Nat] /\ MaxAttempts \in Nat
  BY StreamAssumed DEF StreamRows, Stream!StreamAssumption
<1> SUFFICES ASSUME NEW d \in dead, d.reason = "write_error"
             PROVE  failures'[d.event] >= MaxAttempts
  BY DEF LettersEarned
<1>2. failures[d.event] >= MaxAttempts /\ d.event \in Events /\ failures[d.event] <= failures'[d.event]
  BY DEF LettersEarned, StreamRows
<1> QED  BY <1>1, <1>2

LEMMA GrowIdleKeeps ==
  ASSUME StreamInv, NEW i \in DOMAIN stream, Stream!GrowIdle(i)
  PROVE  StreamInv'
<1>1. UNCHANGED <<malformed, unsent, stream, read, pending, dead, seen, summary, failures, step,
                  batch, memo>>
  BY DEF Stream!GrowIdle
<1>2. StreamRows' /\ LettersEarned'
  BY <1>1 DEF StreamInv, StreamRows, LettersEarned
<1>3. Stream!CountedOnce'
  BY <1>1, CountsStay DEF StreamInv
<1>4. (\A j \in 1 .. Len(stream) : Stream!Acked(j)' => Stream!Acked(j))
      /\ \A e \in Events : failures[e] <= failures'[e]
  BY <1>1 DEF Stream!Acked, StreamInv, StreamRows
<1> QED  BY <1>1, <1>2, <1>3, <1>4, StandingKeeps

(* A consumer takes up a batch: entries that were pending, or come next.   *)
LEMMA ReadNewKeeps ==
  ASSUME StreamInv, NEW c \in Consumers, Stream!ReadNew(c)
  PROVE  StreamInv'
<1>1. StreamRows /\ step[c] = "next"
  BY DEF StreamInv, Stream!ReadNew, Stream!Polls
<1>2. UNCHANGED <<malformed, unsent, stream, dead, seen, summary, failures, step, memo>>
  BY DEF Stream!ReadNew
<1>3. PICK o \in Stream!Outcomes :
        /\ IF Stream!Applied(o)
           THEN Stream!Deliver(c, Stream!Fresh) /\ read' = read + Stream!Cardinality(Stream!Fresh)
           ELSE UNCHANGED <<pending, idle, read>>
        /\ batch' = [batch EXCEPT ![c] = IF o = "ok" THEN Stream!Fresh ELSE {}]
  BY DEF Stream!ReadNew
<1>4. /\ Stream!Cardinality(Stream!Fresh) \in Nat
      /\ read + Stream!Cardinality(Stream!Fresh) <= Len(stream)
      /\ Stream!Fresh = (read + 1) .. (read + Stream!Cardinality(Stream!Fresh))
  BY <1>1, FreshAreNext
<1>5. read \in Nat /\ read' \in Nat /\ read <= read' /\ read' <= Len(stream) /\ Len(stream) \in Nat
      /\ (Stream!Applied(o) => Stream!Fresh = (read + 1) .. read')
      /\ (~ Stream!Applied(o) => read' = read)
  BY <1>1, <1>3, <1>4 DEF StreamRows
<1>6. DOMAIN pending \subseteq DOMAIN pending' /\ DOMAIN pending' \subseteq 1 .. read'
      /\ \A i \in 1 .. read' : i \notin DOMAIN pending' => i \in 1 .. read
  <2>1. CASE Stream!Applied(o)
    <3>1. DOMAIN pending' = DOMAIN pending \cup Stream!Fresh
      BY <1>3, <2>1 DEF Stream!Deliver
    <3> QED  BY <1>1, <1>5, <2>1, <3>1 DEF StreamRows
  <2>2. CASE ~ Stream!Applied(o)
    BY <1>1, <1>3, <2>2 DEF StreamRows
  <2> QED  BY <2>1, <2>2
<1>7. batch' \in [Consumers -> SUBSET (1 .. read')]
  <2>1. (IF o = "ok" THEN Stream!Fresh ELSE {}) \in SUBSET (1 .. read')
    BY <1>5 DEF Stream!Applied
  <2>2. SUBSET (1 .. read) \subseteq SUBSET (1 .. read')
    BY <1>5
  <2> QED  BY <1>1, <1>3, <2>1, <2>2 DEF StreamRows
<1>8. StreamRows' /\ LettersEarned'
  BY <1>1, <1>2, <1>5, <1>6, <1>7 DEF StreamInv, StreamRows, LettersEarned
<1>9. Stream!CountedOnce'
  BY <1>2, CountsStay DEF StreamInv
<1>10. \A i \in 1 .. Len(stream) : Stream!Acked(i)' => Stream!Acked(i)
  BY <1>6 DEF Stream!Acked
<1>11. \A d \in Consumers : Informed(d)' \/ (step'[d] = step[d] /\ batch'[d] = batch[d])
  BY <1>1, <1>2, <1>3 DEF Informed, Knows, StreamRows
<1>12. \A e \in Events : failures[e] <= failures'[e]
  BY <1>1, <1>2 DEF StreamRows
<1> QED  BY <1>2, <1>8, <1>9, <1>10, <1>11, <1>12, StandingKeeps

LEMMA ReclaimKeeps ==
  ASSUME StreamInv, NEW c \in Consumers, Stream!Reclaim(c)
  PROVE  StreamInv'
<1>1. StreamRows /\ step[c] = "next"
  BY DEF StreamInv, Stream!Reclaim, Stream!Polls
<1>2. UNCHANGED <<malformed, unsent, stream, read, dead, seen, summary, failures, step, memo>>
  BY DEF Stream!Reclaim
<1>3. Stream!Reclaimable(c) \subseteq DOMAIN pending
  BY DEF Stream!Reclaimable, Stream!Listed
<1>4. PICK o \in Stream!Outcomes :
        /\ IF Stream!Applied(o) THEN Stream!Deliver(c, Stream!Reclaimable(c))
                                ELSE UNCHANGED <<pending, idle>>
        /\ batch' = [batch EXCEPT ![c] = IF o = "ok" THEN Stream!Reclaimable(c) ELSE {}]
  BY DEF Stream!Reclaim
<1>5. DOMAIN pending' = DOMAIN pending
  BY <1>3, <1>4 DEF Stream!Deliver
<1>6. batch' \in [Consumers -> SUBSET (1 .. read)]
  BY <1>1, <1>3, <1>4 DEF StreamRows
<1>7. StreamRows' /\ LettersEarned'
  BY <1>1, <1>2, <1>5, <1>6 DEF StreamInv, StreamRows, LettersEarned
<1>8. Stream!CountedOnce'
  BY <1>2, CountsStay DEF StreamInv
<1>9. (\A i \in 1 .. Len(stream) : Stream!Acked(i)' => Stream!Acked(i))
      /\ \A e \in Events : failures[e] <= failures'[e]
  BY <1>1, <1>2, <1>5 DEF Stream!Acked, StreamRows
<1>10. \A d \in Consumers : Informed(d)' \/ (step'[d] = step[d] /\ batch'[d] = batch[d])
  BY <1>1, <1>2, <1>4 DEF Informed, Knows, StreamRows
<1> QED  BY <1>2, <1>7, <1>8, <1>9, <1>10, StandingKeeps

(* ProcessMessage goes on with the entry of its consumer. *)
LEMMA UnparsedKeeps ==
  ASSUME StreamInv, NEW c \in Consumers, Stream!Unparsed(c)
  PROVE  StreamInv'
<1>1. StreamRows /\ batch[c] # {}
  BY DEF StreamInv, Stream!Unparsed, Stream!At
<1>2. PICK i \in 1 .. Len(stream) : i = Stream!Current(c)
  BY <1>1, CurrentInBatch
<1>3. /\ stream[i].event \in malformed /\ step' = [step EXCEPT ![c] = "dead"]
      /\ UNCHANGED <<malformed, unsent, stream, read, pending, dead, seen, summary, failures,
                     batch, memo>>
  BY <1>2 DEF Stream!Unparsed, Stream!Event, Stream!Goto, Stream!redis
<1>4. StreamRows' /\ LettersEarned'
  BY <1>1, <1>3 DEF StreamInv, StreamRows, LettersEarned
<1>5. Stream!CountedOnce'
  BY <1>3, CountsStay DEF StreamInv
<1>6. (\A j \in 1 .. Len(stream) : Stream!Acked(j)' => Stream!Acked(j))
      /\ \A e \in Events : failures[e] <= failures'[e]
  BY <1>1, <1>3 DEF Stream!Acked, StreamRows
<1>7. Informed(c)'
  <2>1. step'[c] = "dead" /\ Stream!Current(c)' = i
    BY <1>1, <1>2, <1>3 DEF StreamRows, Stream!Current
  <2> QED  BY <1>3, <2>1 DEF Informed, Knows
<1>8. \A d \in Consumers : Informed(d)' \/ (step'[d] = step[d] /\ batch'[d] = batch[d])
  BY <1>1, <1>3, <1>7 DEF StreamRows
<1> QED  BY <1>3, <1>4, <1>5, <1>6, <1>8, StandingKeeps

LEMMA DuplicateKeeps ==
  ASSUME StreamInv, NEW c \in Consumers, Stream!Duplicate(c)
  PROVE  StreamInv'
<1>1. StreamRows /\ batch[c] # {}
  BY DEF StreamInv, Stream!Duplicate, Stream!At
<1>2. PICK i \in 1 .. Len(stream) : i = Stream!Current(c)
  BY <1>1, CurrentInBatch
<1>3. /\ stream[i].event \in memo[c] /\ step' = [step EXCEPT ![c] = "ack"]
      /\ UNCHANGED <<malformed, unsent, stream, read, pending, dead, seen, summary, failures,
                     batch, memo>>
  BY <1>2 DEF Stream!Duplicate, Stream!Event, Stream!Goto, Stream!redis
<1>4. StreamRows' /\ LettersEarned'
  BY <1>1, <1>3 DEF StreamInv, StreamRows, LettersEarned
<1>5. Stream!CountedOnce'
  BY <1>3, CountsStay DEF StreamInv
<1>6. (\A j \in 1 .. Len(stream) : Stream!Acked(j)' => Stream!Acked(j))
      /\ \A e \in Events : failures[e] <= failures'[e]
  BY <1>1, <1>3 DEF Stream!Acked, StreamRows
<1>7. Informed(c)'
  <2>1. step'[c] = "ack" /\ Stream!Current(c)' = i
    BY <1>1, <1>2, <1>3 DEF StreamRows, Stream!Current
  <2>2. stream[i].event \in seen
    BY <1>3 DEF StreamInv, Stream!CountedOnce
  <2>3. Handled(i)'
    BY <1>3, <2>2 DEF Handled
  <2> QED  BY <2>1, <2>3 DEF Informed, Knows
<1>8. \A d \in Consumers : Informed(d)' \/ (step'[d] = step[d] /\ batch'[d] = batch[d])
  BY <1>1, <1>3, <1>7 DEF StreamRows
<1> QED  BY <1>3, <1>4, <1>5, <1>6, <1>8, StandingKeeps

LEMMA WriteKeeps ==
  ASSUME StreamInv, NEW c \in Consumers, Stream!Write(c)
  PROVE  StreamInv'
<1>1. StreamRows /\ batch[c] # {}
  BY DEF StreamInv, Stream!Write, Stream!At
<1>2. PICK i \in 1 .. Len(stream) : i = Stream!Current(c)
  BY <1>1, CurrentInBatch
<1>3. PICK e \in Events : e = stream[i].event
  BY <1>1, EntryForm DEF StreamRows
<1>4. stream[i].attempts \in Nat /\ stream[i].attempts <= failures[e] /\ failures[e] \in Nat
      /\ MaxAttempts \in Nat /\ failures \in [Events -> Nat]
  BY <1>1, <1>3, EntryForm, StreamAssumed
     DEF StreamInv, AttemptsFailed, StreamRows, Stream!StreamAssumption
<1>5. Stream!Event(c) = e
  BY <1>2, <1>3 DEF Stream!Event
<1>6. PICK o \in Stream!Outcomes :
        /\ IF Stream!Applied(o) THEN Stream!Record(e) ELSE UNCHANGED <<seen, summary>>
        /\ IF o = "ok"
           THEN /\ memo' = [memo EXCEPT ![c] = @ \cup {e}]
                /\ Stream!Goto(c, "ack")
                /\ UNCHANGED failures
           ELSE /\ failures' = [failures EXCEPT ![e] = @ + 1]
                /\ Stream!Goto(c, IF Stream!Exhausted(i) THEN "dead" ELSE "requeue")
                /\ UNCHANGED memo
  BY <1>2, <1>5 DEF Stream!Write
<1>7. UNCHANGED <<malformed, unsent, stream, read, pending, dead>>
  BY DEF Stream!Write
<1>8. /\ UNCHANGED batch
      /\ \E s \in {"next", "requeue", "dead", "ack"} : step' = [step EXCEPT ![c] = s]
      /\ o = "ok" => step' = [step EXCEPT ![c] = "ack"]
      /\ o # "ok" => step' = [step EXCEPT ![c] = IF Stream!Exhausted(i) THEN "dead" ELSE "requeue"]
  BY <1>6 DEF Stream!Goto
<1>9. failures' \in [Events -> Nat] /\ \A f \in Events : failures[f] <= failures'[f]
  BY <1>4, <1>6
<1>10. /\ seen \subseteq seen' /\ seen' \subseteq Events /\ IsFiniteSet(seen')
       /\ summary' \in [Stream!Summaries -> Nat]
       /\ \A q \in Stream!Summaries :
            summary'[q] = Stream!Cardinality({f \in seen' : q \in Stream!Rollups(f)})
       /\ o = "ok" => e \in seen'
  <2>1. CASE Stream!Applied(o)
    BY <1>1, <1>6, <2>1, RecordCounts DEF StreamInv
  <2>2. CASE ~ Stream!Applied(o)
    BY <1>1, <1>6, <2>2 DEF StreamInv, Stream!CountedOnce, StreamRows, Stream!Applied
  <2> QED  BY <2>1, <2>2
<1>11. memo' \in [Consumers -> SUBSET Events] /\ \A d \in Consumers : memo'[d] \subseteq seen'
  <2>1. memo \in [Consumers -> SUBSET Events] /\ \A d \in Consumers : memo[d] \subseteq seen
    BY <1>1 DEF StreamInv, StreamRows, Stream!CountedOnce
  <2>2. CASE o = "ok"
    BY <1>6, <1>10, <2>1, <2>2
  <2>3. CASE o # "ok"
    BY <1>6, <1>10, <2>1, <2>3
  <2> QED  BY <2>2, <2>3
<1>12. StreamRows'
  <2>1. step' \in [Consumers -> {"next", "requeue", "dead", "ack"}]
    BY <1>1, <1>8 DEF StreamRows
  <2> QED  BY <1>1, <1>7, <1>8, <1>9, <1>10, <1>11, <2>1 DEF StreamRows
<1>13. Stream!CountedOnce'
  BY <1>10, <1>11 DEF Stream!CountedOnce, Stream!Summaries, Stream!Rollups
<1>14. LettersEarned'
  BY <1>1, <1>7, <1>9, <1>12, LettersStay DEF StreamInv
<1>15. \A j \in 1 .. Len(stream) : Stream!Acked(j)' => Stream!Acked(j)
  BY <1>7 DEF Stream!Acked
<1>16. Informed(c)'
  <2>1. Stream!Current(c)' = i
    BY <1>2, <1>8 DEF Stream!Current
  <2>2. CASE o = "ok"
    <3>1. step'[c] = "ack"
      BY <1>1, <1>8, <2>2 DEF StreamRows
    <3>2. Handled(i)'
      BY <1>3, <1>7, <1>10, <2>2 DEF Handled
    <3> QED  BY <2>1, <3>1, <3>2 DEF Informed, Knows
  <2>3. CASE o # "ok"
    <3>1. step'[c] = IF Stream!Exhausted(i) THEN "dead" ELSE "requeue"
      BY <1>1, <1>8, <2>3 DEF StreamRows
    <3>2. failures'[e] = failures[e] + 1
      BY <1>4, <1>6, <2>3
    <3>3. step'[c] = "dead" => failures'[stream'[i].event] >= MaxAttempts
      BY <1>3, <1>4, <1>7, <3>1, <3>2 DEF Stream!Exhausted
    <3>4. stream'[i].attempts + 1 <= failures'[stream'[i].event] /\ step'[c] # "ack"
      BY <1>3, <1>4, <1>7, <3>1, <3>2
    <3> QED  BY <2>1, <3>3, <3>4 DEF Informed, Knows
  <2> QED  BY <2>2, <2>3
<1>17. \A d \in Consumers : Informed(d)' \/ (step'[d] = step[d] /\ batch'[d] = batch[d])
  BY <1>1, <1>8, <1>16 DEF StreamRows
<1> QED  BY <1>7, <1>9, <1>10, <1>12, <1>13, <1>14, <1>15, <1>17, StandingKeeps

LEMMA DeadLetterKeeps ==
  ASSUME StreamInv, NEW c \in Consumers, Stream!DeadLetter(c)
  PROVE  StreamInv'
<1>1. StreamRows /\ batch[c] # {} /\ step[c] = "dead"
  BY DEF StreamInv, Stream!DeadLetter, Stream!At
<1>2. PICK i \in 1 .. Len(stream) : i = Stream!Current(c) /\ i \in batch[c]
  BY <1>1, CurrentInBatch
<1>3. PICK e \in Events : e = stream[i].event /\ e = Stream!Event(c)
  BY <1>1, <1>2, EntryForm DEF StreamRows, Stream!Event
<1>4. e \in malformed \/ failures[e] >= MaxAttempts
  BY <1>1, <1>2, <1>3 DEF StreamInv, Informed, Knows
<1> DEFINE x == [event |-> e, reason |-> IF e \in malformed THEN "parse_error" ELSE "write_error"]
<1>5. PICK o \in Stream!Outcomes :
        /\ dead' = IF Stream!Applied(o) THEN dead \cup {x} ELSE dead
        /\ IF o = "ok" THEN Stream!Goto(c, "ack") ELSE Stream!Done(c)
  BY <1>3 DEF Stream!DeadLetter
<1>6. x.event = e /\ (x.reason = "write_error" => failures[e] >= MaxAttempts)
  BY <1>4
<1> HIDE DEF x
<1>7. UNCHANGED <<malformed, unsent, stream, read, pending, seen, summary, failures, memo>>
  BY DEF Stream!DeadLetter
<1>8. /\ step' = [step EXCEPT ![c] = IF o = "ok" THEN "ack" ELSE "next"]
      /\ batch' = IF o = "ok" THEN batch ELSE [batch EXCEPT ![c] = @ \ {i}]
  BY <1>2, <1>5 DEF Stream!Goto, Stream!Done
<1>9. /\ step' \in [Consumers -> {"next", "requeue", "dead", "ack"}]
      /\ batch' \in [Consumers -> SUBSET (1 .. read)]
  BY <1>1, <1>8 DEF StreamRows
<1>10. StreamRows'
  <2>1. \A d \in dead' : d.event \in Events
    BY <1>1, <1>5, <1>6 DEF StreamRows
  <2> QED  BY <1>1, <1>7, <1>9, <2>1 DEF StreamRows
<1>11. LettersEarned'
  BY <1>5, <1>6, <1>7 DEF StreamInv, LettersEarned
<1>12. Stream!CountedOnce'
  BY <1>7, CountsStay DEF StreamInv
<1>13. (\A j \in 1 .. Len(stream) : Stream!Acked(j)' => Stream!Acked(j))
       /\ \A f \in Events : failures[f] <= failures'[f]
  BY <1>1, <1>7 DEF Stream!Acked, StreamRows
<1>14. Informed(c)'
  <2>1. CASE o = "ok"
    <3>1. step'[c] = "ack" /\ Stream!Current(c)' = i
      BY <1>1, <1>2, <1>8, <2>1 DEF StreamRows, Stream!Current
    <3>2. x \in dead'
      BY <1>5, <2>1 DEF Stream!Applied
    <3>3. Handled(i)'
      BY <1>3, <1>6, <1>7, <3>2 DEF Handled
    <3> QED  BY <3>1, <3>3 DEF Informed, Knows
  <2>2. CASE o # "ok"
    <3>1. step'[c] = "next"
      BY <1>1, <1>8, <2>2 DEF StreamRows
    <3> QED  BY <3>1 DEF Informed, Knows
  <2> QED  BY <2>1, <2>2
<1>15. \A d \in Consumers : Informed(d)' \/ (step'[d] = step[d] /\ batch'[d] = batch[d])
  BY <1>1, <1>8, <1>14 DEF StreamRows
<1>16. dead \subseteq dead'
  BY <1>5
<1> QED  BY <1>7, <1>10, <1>11, <1>12, <1>13, <1>15, <1>16, StandingKeeps

(* The entry acknowledged was handled, by a later entry if by an entry: so *)
(* it takes over for those it carries.                                     *)
LEMMA AckKeeps ==
  ASSUME StreamInv, NEW c \in Consumers, Stream!Ack(c)
  PROVE  StreamInv'
<1>1. StreamRows /\ batch[c] # {} /\ step[c] = "ack"
  BY DEF StreamInv, Stream!Ack, Stream!At
<1>2. PICK k \in 1 .. Len(stream) : k = Stream!Current(c) /\ k \in batch[c]
  BY <1>1, CurrentInBatch
<1>3. Handled(k)
  BY <1>1, <1>2 DEF StreamInv, Informed, Knows
<1>4. /\ UNCHANGED <<malformed, unsent, stream, read, dead, seen, summary, failures, memo>>
      /\ step' = [step EXCEPT ![c] = "next"] /\ batch' = [batch EXCEPT ![c] = @ \ {k}]
  BY <1>2 DEF Stream!Ack, Stream!Done
<1>5. pending' = pending \/ pending' = [i \in DOMAIN pending \ {k} |-> pending[i]]
  BY <1>2 DEF Stream!Ack
<1>6. StreamRows'
  BY <1>1, <1>4, <1>5 DEF StreamRows
<1>7. \A i \in 1 .. Len(stream) : Stream!Acked(i)' => Stream!Acked(i) \/ i = k
  BY <1>4, <1>5 DEF Stream!Acked
<1>8. ASSUME NEW i \in 1 .. Len(stream), Handled(i) PROVE Handled(i)'
  <2>1. CASE stream[i].event \in seen \/ \E d \in dead : d.event = stream[i].event
    BY <1>4, <2>1 DEF Handled
  <2>2. CASE \E j \in 1 .. Len(stream) :
               j > i /\ stream[j].event = stream[i].event /\ ~ Stream!Acked(j)
    <3>1. PICK j \in 1 .. Len(stream) :
            j > i /\ stream[j].event = stream[i].event /\ ~ Stream!Acked(j)
      BY <2>2
    <3>2. CASE j # k
      BY <1>4, <1>7, <3>1, <3>2 DEF Handled
    <3>3. CASE j = k /\ \E l \in 1 .. Len(stream) :
                 l > k /\ stream[l].event = stream[k].event /\ ~ Stream!Acked(l)
      <4>1. PICK l \in 1 .. Len(stream) :
              l > k /\ stream[l].event = stream[k].event /\ ~ Stream!Acked(l)
        BY <3>3
      <4>2. l > i /\ l # k /\ stream[l].event = stream[i].event
        BY <3>1, <3>3, <4>1
      <4> QED  BY <1>4, <1>7, <4>1, <4>2 DEF Handled
    <3>4. CASE j = k /\ (stream[k].event \in seen \/ \E d \in dead : d.event = stream[k].event)
      BY <1>4, <3>1, <3>4 DEF Handled
    <3> QED  BY <1>3, <3>2, <3>3, <3>4 DEF Handled
  <2> QED  BY <1>8, <2>1, <2>2 DEF Handled
<1>9. AckedHandled'
  BY <1>3, <1>4, <1>7, <1>8 DEF StreamInv, AckedHandled
<1>10. Extends /\ AttemptsFailed' /\ LettersEarned'
  BY <1>4 DEF StreamInv, Extends, AttemptsFailed, LettersEarned
<1>11. Stream!CountedOnce'
  BY <1>4, CountsStay DEF StreamInv
<1>12. \A d \in Consumers : Informed(d)'
  <2> TAKE d \in Consumers
  <2>1. CASE d = c
    BY <1>1, <1>4, <2>1 DEF Informed, Knows, StreamRows
  <2>2. CASE d # c
    <3>1. step'[d] = step[d] /\ batch'[d] = batch[d] /\ \A e \in Events : failures[e] <= failures'[e]
      BY <1>1, <1>4, <2>2 DEF StreamRows
    <3> QED  BY <1>4, <1>6, <1>8, <1>10, <3>1, InformedStays
  <2> QED  BY <2>1, <2>2
<1> QED  BY <1>6, <1>9, <1>10, <1>11, <1>12 DEF StreamInv

LEMMA CrashKeeps ==
  ASSUME StreamInv, NEW c \in Consumers, Stream!Crash(c)
  PROVE  StreamInv'
<1>1. StreamRows
  BY DEF StreamInv
<1>2. /\ UNCHANGED <<malformed, unsent, stream, read, pending, dead, seen, summary, failures>>
      /\ step' = [step EXCEPT ![c] = "next"] /\ batch' = [batch EXCEPT ![c] = {}]
      /\ memo' = [memo EXCEPT ![c] = {}]
  BY DEF Stream!Crash, Stream!redis
<1>3. StreamRows' /\ LettersEarned'
  BY <1>1, <1>2 DEF StreamInv, StreamRows, LettersEarned
<1>4. Stream!CountedOnce'
  <2>1. \A d \in Consumers : memo'[d] \subseteq memo[d]
    BY <1>1, <1>2 DEF StreamRows
  <2> QED  BY <1>2, <2>1, CountsStay DEF StreamInv
<1>5. (\A j \in 1 .. Len(stream) : Stream!Acked(j)' => Stream!Acked(j))
      /\ \A e \in Events : failures[e] <= failures'[e]
  BY <1>1, <1>2 DEF Stream!Acked, StreamRows
<1>6. \A d \in Consumers : Informed(d)' \/ (step'[d] = step[d] /\ batch'[d] = batch[d])
  BY <1>1, <1>2 DEF Informed, Knows, StreamRows
<1> QED  BY <1>2, <1>3, <1>4, <1>5, <1>6, StandingKeeps

LEMMA StreamStep ==
  ASSUME StreamInv, Stream!Next \/ UNCHANGED Stream!vars
  PROVE  StreamInv'
<1>1. CASE \E e \in Events : Stream!Publish(e)
  BY <1>1, PublishKeeps
<1>2. CASE \E i \in DOMAIN stream : Stream!GrowIdle(i)
  BY <1>2, GrowIdleKeeps
<1>3. ASSUME NEW c \in Consumers, Stream!Consume(c) PROVE StreamInv'
  BY <1>3, ReadNewKeeps, ReclaimKeeps, UnparsedKeeps, DuplicateKeeps, WriteKeeps, RequeueKeeps,
     DeadLetterKeeps, AckKeeps DEF Stream!Consume
<1>4. CASE \E c \in Consumers : Stream!Crash(c)
  BY <1>4, CrashKeeps
<1>5. CASE UNCHANGED Stream!vars
  <2>1. UNCHANGED <<malformed, unsent, stream, read, pending, dead, seen, summary, failures, step,
                    batch, memo>>
    BY <1>5 DEF Stream!vars, Stream!redis
  <2>2. StreamRows' /\ LettersEarned'
    BY <2>1 DEF StreamInv, StreamRows, LettersEarned
  <2>3. Stream!CountedOnce'
    BY <2>1, CountsStay DEF StreamInv
  <2>4. (\A j \in 1 .. Len(stream) : Stream!Acked(j)' => Stream!Acked(j))
        /\ \A e \in Events : failures[e] <= failures'[e]
    BY <2>1 DEF Stream!Acked, StreamInv, StreamRows
  <2> QED  BY <2>1, <2>2, <2>3, <2>4, StandingKeeps
<1> QED  BY <1>1, <1>2, <1>3, <1>4, <1>5 DEF Stream!Next

(* Each part of the instance follows its own module. *)
LEMMA PartsFollow == PartsSpec => Spec /\ Stream!Spec
<1>1. PartsInit => Init /\ Stream!Init
  BY DEF PartsInit
<1>2. [PartsNext]_parts => [Next]_vars /\ [Stream!Next]_(Stream!vars)
  BY DEF PartsNext, QuotaPart, StreamPart, parts, streamVars, vars, Stream!vars, Stream!redis
<1> QED  BY <1>1, <1>2, PTL DEF PartsSpec, Spec, Stream!Spec

LEMMA StreamHolds == Stream!Spec => []StreamInv
<1>1. StreamInv /\ [Stream!Next]_(Stream!vars) => StreamInv'
  BY StreamStep
<1> QED  BY <1>1, StreamInit, PTL DEF Stream!Spec

(* Every event of the stream is accounted for: the summaries count what    *)
(* was recorded, each event once; what is acknowledged was counted, is a   *)
(* dead letter or is carried by an entry still to be processed; and an     *)
(* event that parses becomes a dead letter only after MaxAttempts writes   *)
(* of it failed (consumer.go, ProcessMessage; writer.go, WriteUsageEvent;  *)
(* summary.go, shadowSummaryLua).                                          *)
THEOREM EventsAlwaysAccounted == PartsSpec => []EventsAccounted
<1>1. StreamInv => EventsAccounted
  <2> SUFFICES ASSUME StreamInv PROVE Stream!EventsAccounted
    BY DEF EventsAccounted
  <2>1. DOMAIN stream = 1 .. Len(stream)
    BY DEF StreamInv, StreamRows
  <2>2. Stream!NothingForgotten
    BY <2>1 DEF StreamInv, AckedHandled, Handled, Stream!NothingForgotten, Stream!Carried
  <2>3. Stream!DeadLettersEarned
    BY DEF StreamInv, LettersEarned, Stream!DeadLettersEarned
  <2> QED  BY <2>2, <2>3 DEF StreamInv, Stream!EventsAccounted
<1> QED  BY <1>1, PartsFollow, StreamHolds, PTL
=============================================================================
