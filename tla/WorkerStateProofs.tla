--------------------------- MODULE WorkerStateProofs ---------------------------
(***************************************************************************)
(* The safety of what the workers hold in common through Redis: cached     *)
(* keys, leadership, rate limits, cooldowns and alerts, for any numbers of *)
(* workers, requests and edits, and any lengths of time.                   *)
(***************************************************************************)
EXTENDS MCWorkerState, FiniteSetTheorems, TLAPS

-----------------------------------------------------------------------------
(* KeyCache.  The inductive invariant looks at each worker's own edit      *)
(* apart: its message does not come back to the worker, so from DeleteLocal*)
(* on the edit says nothing about the worker's own cache.                  *)

(* Why a worker may still have an entry that an edit made stale. *)
Excused(w) ==
  \/ lost
  \/ link[w] # "listening" \/ inbox[w] > 0
  \/ stage[w] = "committed"
  \/ \E v \in Workers \ {w} : Editing(v)

StaleExcused == \A w \in Workers : Stale(w) /\ cache[w].fresh => Excused(w)

KeyInv == TypeOK /\ StaleExcused

LEMMA KeyInit == Init => KeyInv
<1> SUFFICES ASSUME Init PROVE KeyInv
  OBVIOUS
<1> USE KeyCacheAssumption DEF KeyCacheAssumption
<1>1. TypeOK
  <2>1. active \in BOOLEAN /\ lost \in BOOLEAN
    BY Zenon DEF Init
  <2> QED BY <2>1 DEF Init, TypeOK, Versions
<1>2. StaleExcused
  BY DEF Init, StaleExcused, Stale, Live
<1> QED BY <1>1, <1>2 DEF KeyInv

(* Every step keeps the types. *)
LEMMA KeyTypeStep == TypeOK /\ [Next]_vars => TypeOK'
<1> SUFFICES ASSUME TypeOK, [Next]_vars PROVE TypeOK'
  OBVIOUS
<1> USE KeyCacheAssumption DEF KeyCacheAssumption, TypeOK, Entries, Lookups, Versions, bus, row
<1>1. CASE Tick
  <2>1. ASSUME NEW w \in Workers PROVE Aged(cache[w]) \in Entries \cup {None}
    BY DEF Aged, Live
  <2> QED BY <1>1, <2>1 DEF Tick
<1>2. ASSUME NEW r \in Requests, NEW w \in Workers, Query(r, w) PROVE TypeOK'
  BY <1>2 DEF Query
<1>3. ASSUME NEW r \in Requests, Fill(r) PROVE TypeOK'
  <2>1. lookup[r] \in Lookups
    BY <1>3 DEF Fill
  <2>2. [version |-> lookup[r].version, left |-> Lifetime,
         fresh |-> lookup[r].version = version] \in Entries
    BY <2>1 DEF Lifetime
  <2> QED BY <1>3, <2>1, <2>2 DEF Fill
<1>4. ASSUME NEW w \in Workers, Evict(w) \/ DeleteLocal(w) \/ HandleMessage(w) PROVE TypeOK'
  BY <1>4 DEF Evict, DeleteLocal, HandleMessage
<1>5. ASSUME NEW w \in Workers, Commit(w) PROVE TypeOK'
  BY <1>5 DEF Commit
<1>6. ASSUME NEW w \in Workers, Publish(w) PROVE TypeOK'
  <2>1. lost' \in BOOLEAN
    BY <1>6, Zenon DEF Publish
  <2>2. inbox' \in [Workers -> Nat]
    BY <1>6 DEF Publish
  <2> QED BY <1>6, <2>1, <2>2 DEF Publish
<1>7. ASSUME NEW w \in Workers, Subscribe(w) \/ OnSubscribed(w) \/ Disconnect(w) PROVE TypeOK'
  BY <1>7 DEF Subscribe, OnSubscribed, AfterSubscribe, Disconnect
<1>8. ASSUME NEW w \in Workers, Restart(w) PROVE TypeOK'
  BY <1>8 DEF Restart
<1>9. CASE UNCHANGED vars
  BY <1>9 DEF vars
<1> QED
  BY <1>1, <1>2, <1>3, <1>4, <1>5, <1>6, <1>7, <1>8, <1>9 DEF Next

(* Every step keeps the excuses of stale entries. *)
LEMMA ExcuseStep == KeyInv /\ [Next]_vars => StaleExcused'
<1> SUFFICES ASSUME KeyInv, [Next]_vars, NEW u \in Workers, Stale(u)', cache[u].fresh'
             PROVE Excused(u)'
  BY DEF StaleExcused
<1> TypeOK /\ TypeOK'
  BY KeyTypeStep DEF KeyInv
<1> USE KeyCacheAssumption DEF KeyCacheAssumption, bus, row, Stale, Live, Editing
<1>0. ASSUME Stale(u), cache[u].fresh PROVE Excused(u)
  BY <1>0 DEF KeyInv, StaleExcused
<1>1. CASE Tick
  BY <1>0, <1>1 DEF Tick, Aged, TypeOK, Entries, Excused
<1>2. ASSUME NEW r \in Requests, NEW w \in Workers, Query(r, w) PROVE Excused(u)'
  BY <1>0, <1>2 DEF Query, TypeOK, Excused
<1>3. ASSUME NEW r \in Requests, Fill(r) PROVE Excused(u)'
  BY <1>0, <1>3 DEF Fill, TypeOK, Lookups, Entries, Excused
<1>4. ASSUME NEW w \in Workers, Evict(w) \/ HandleMessage(w) PROVE Excused(u)'
  BY <1>0, <1>4 DEF Evict, HandleMessage, TypeOK, Excused
<1>5. ASSUME NEW w \in Workers, Commit(w) PROVE Excused(u)'
  BY <1>5 DEF Commit, TypeOK, Excused
<1>6. ASSUME NEW w \in Workers, DeleteLocal(w) PROVE Excused(u)'
  BY <1>0, <1>6 DEF DeleteLocal, TypeOK, Excused
<1>7. ASSUME NEW w \in Workers, Publish(w) PROVE Excused(u)'
  <2>1. CASE lost'
    BY <2>1 DEF Excused
  <2>2. CASE ~lost' /\ u # w
    <3>1. link[u] = "down" \/ inbox'[u] > 0
      BY <1>7, <2>2 DEF Publish, TypeOK
    <3> QED BY <1>7, <3>1 DEF Publish, Excused
  <2>3. CASE ~lost' /\ u = w
    BY <1>0, <1>7, <2>3 DEF Publish, TypeOK, Excused
  <2> QED BY <2>1, <2>2, <2>3
<1>8. ASSUME NEW w \in Workers, Subscribe(w) \/ OnSubscribed(w) \/ Disconnect(w)
      PROVE Excused(u)'
  BY <1>0, <1>8 DEF Subscribe, OnSubscribed, AfterSubscribe, Disconnect, TypeOK, Excused
<1>9. ASSUME NEW w \in Workers, Restart(w) PROVE Excused(u)'
  BY <1>0, <1>9 DEF Restart, TypeOK, Excused
<1>10. CASE UNCHANGED vars
  BY <1>0, <1>10 DEF vars, Excused
<1> QED
  BY <1>1, <1>2, <1>3, <1>4, <1>5, <1>6, <1>7, <1>8, <1>9, <1>10 DEF Next

LEMMA KeyHolds == Spec => []KeyInv
<1>1. KeyInv /\ [Next]_vars => KeyInv'
  BY KeyTypeStep, ExcuseStep DEF KeyInv
<1> QED BY KeyInit, <1>1, PTL DEF Spec

(* Types of the row, the caches, the lookups and the bus. *)
THEOREM KeyCacheTypeCorrect == Spec => []TypeOK
<1>1. KeyInv => TypeOK
  BY DEF KeyInv
<1> QED BY KeyHolds, <1>1, PTL

(* An entry of a worker that listens, stored up to date, does not stay     *)
(* stale once the edits are over and their messages heard, for any number  *)
(* of workers, edits and reconnections.                                    *)
THEOREM KeyCacheHearsEdits == Spec => []StaleExplained
<1>1. KeyInv => StaleExplained
  BY DEF KeyInv, StaleExcused, StaleExplained, Excused, Editing
<1> QED BY KeyHolds, <1>1, PTL
-----------------------------------------------------------------------------
(* RedisGuard: the leader.  A worker that was granted the lease has it, or *)
(* the clock has taken it away.                                            *)

LeaderTypes ==
  /\ lease \in [holder : Workers \cup {None}, left : Nat]
  /\ leads \in [Workers -> BOOLEAN]
  /\ job \in [Workers -> {"asleep", "asking", "granted", "denied", "running", "down"}]
  /\ failedOpen \in [Workers -> BOOLEAN] /\ outlived \in [Workers -> BOOLEAN]

Holds(w) == lease.holder = w /\ lease.left > 0

LeaseHeld ==
  \A w \in Workers :
    job[w] = "granted" \/ (job[w] = "running" /\ ~ failedOpen[w]) => outlived[w] \/ Holds(w)

LeaderInv == LeaderTypes /\ LeaseHeld

LEMMA LeaseForm ==
  ASSUME NEW h \in Workers \cup {None}, NEW n \in Nat
  PROVE  [holder |-> h, left |-> n] \in [holder : Workers \cup {None}, left : Nat]
OBVIOUS

LEMMA LeaderInit == Guard!Init => LeaderInv
<1> SUFFICES ASSUME Guard!Init PROVE LeaderInv
  OBVIOUS
<1>1. LeaderTypes
  BY DEF Guard!Init, LeaderTypes
<1>2. LeaseHeld
  BY DEF Guard!Init, LeaseHeld
<1> QED  BY <1>1, <1>2 DEF LeaderInv

LEMMA LeaderStep ==
  ASSUME LeaderInv, Guard!Next \/ UNCHANGED Guard!vars
  PROVE  LeaderInv'
<1> USE GuardAssumed DEF Guard!GuardAssumption
<1>0. LeaderTypes /\ LeaseHeld /\ LeaseTicks \in Nat /\ LeaseTicks > 0 /\ None \notin Workers
  BY DEF LeaderInv
<1>1. ASSUME UNCHANGED <<lease, leads, job, failedOpen, outlived>> PROVE LeaderInv'
  BY <1>0, <1>1 DEF LeaderInv, LeaderTypes, LeaseHeld, Holds
<1>2. ASSUME NEW w \in Workers, Guard!RunOpen(w) PROVE LeaderInv'
  BY <1>0, <1>2 DEF LeaderInv, LeaderTypes, LeaseHeld, Holds, Guard!RunOpen
<1>3. ASSUME NEW w \in Workers, Guard!Acquire(w) \/ Guard!RoundEnds(w) \/ Guard!Boot(w)
      PROVE  LeaderInv'
  BY <1>0, <1>3 DEF LeaderInv, LeaderTypes, LeaseHeld, Holds, Guard!Acquire, Guard!RoundEnds,
     Guard!Boot
<1>4. ASSUME NEW w \in Workers, Guard!Decide(w) PROVE LeaderInv'
  <2> DEFINE granted == lease.left = 0 \/ (leads[w] /\ lease.holder = w)
  <2>1. /\ job[w] = "asking" /\ UNCHANGED <<leads, failedOpen>>
        /\ lease' = IF granted THEN Guard!Key(w) ELSE lease
        /\ outlived' = [outlived EXCEPT ![w] = @ /\ ~granted]
        /\ job' = [job EXCEPT ![w] = IF granted THEN "granted" ELSE "denied"]
    BY <1>4 DEF Guard!Decide
  <2>2. Guard!Key(w) \in [holder : Workers \cup {None}, left : Nat]
        /\ Guard!Key(w).holder = w /\ Guard!Key(w).left > 0
    BY <1>0 DEF Guard!Key
  <2>3. LeaderTypes'
    <3>1. outlived' \in [Workers -> BOOLEAN]
      BY <1>0, <2>1 DEF LeaderTypes
    <3>2. lease' \in [holder : Workers \cup {None}, left : Nat]
      BY <1>0, <2>1, <2>2 DEF LeaderTypes
    <3>3. job' \in [Workers -> {"asleep", "asking", "granted", "denied", "running", "down"}]
      BY <1>0, <2>1 DEF LeaderTypes
    <3> QED  BY <1>0, <2>1, <3>1, <3>2, <3>3 DEF LeaderTypes
  <2>4. ASSUME NEW v \in Workers, job'[v] = "granted" \/ (job'[v] = "running" /\ ~ failedOpen'[v])
        PROVE  outlived'[v] \/ Holds(v)'
    <3>1. CASE v = w
      <4>1. granted
        BY <1>0, <2>1, <2>4, <3>1 DEF LeaderTypes
      <4> QED  BY <2>1, <2>2, <3>1, <4>1 DEF Holds
    <3>2. CASE v # w
      <4>1. outlived[v] \/ Holds(v)
        BY <1>0, <2>1, <2>4, <3>2 DEF LeaderTypes, LeaseHeld
      <4>2. outlived'[v] = outlived[v]
        BY <1>0, <2>1, <3>2 DEF LeaderTypes
      <4>3. Holds(v) => ~ granted
        BY <1>0, <3>2 DEF Holds, LeaderTypes
      <4> QED  BY <2>1, <4>1, <4>2, <4>3 DEF Holds
    <3> QED  BY <3>1, <3>2
  <2> QED  BY <2>3, <2>4 DEF LeaderInv, LeaseHeld
<1>5. ASSUME NEW w \in Workers, Guard!AcquireAnswered(w) PROVE LeaderInv'
  <2>1. /\ job[w] \in {"granted", "denied"} /\ UNCHANGED <<lease, outlived>>
        /\ leads' = [leads EXCEPT ![w] = job[w] = "granted"]
        /\ failedOpen' = [failedOpen EXCEPT ![w] = FALSE]
        /\ job' = [job EXCEPT ![w] = IF @ = "granted" THEN "running" ELSE "asleep"]
    BY <1>5 DEF Guard!AcquireAnswered
  <2>2. leads' \in [Workers -> BOOLEAN]
    BY <1>0, <2>1 DEF LeaderTypes
  <2>3. LeaderTypes'
    BY <1>0, <2>1, <2>2 DEF LeaderTypes
  <2>4. LeaseHeld'
    BY <1>0, <2>1 DEF LeaderTypes, LeaseHeld, Holds
  <2> QED  BY <2>3, <2>4 DEF LeaderInv
<1>6. ASSUME NEW w \in Workers, Guard!ShutDown(w) \/ Guard!Crash(w) PROVE LeaderInv'
  <2>1. /\ leads' = [leads EXCEPT ![w] = FALSE] /\ job' = [job EXCEPT ![w] = "down"]
        /\ failedOpen' = [failedOpen EXCEPT ![w] = FALSE]
        /\ outlived' = [outlived EXCEPT ![w] = FALSE]
        /\ lease' = Guard!Released(w) \/ lease' = Guard!Orphaned(w)
    BY <1>6 DEF Guard!ShutDown, Guard!Crash, Guard!Ends
  <2>2. /\ lease' \in [holder : Workers \cup {None}, left : Nat]
        /\ lease.holder # w => lease' = lease
    BY <1>0, <2>1 DEF Guard!Released, Guard!Orphaned, LeaderTypes
  <2>3. LeaderTypes'
    BY <1>0, <2>1, <2>2 DEF LeaderTypes
  <2>4. LeaseHeld'
    BY <1>0, <2>1, <2>2 DEF LeaderTypes, LeaseHeld, Holds
  <2> QED  BY <2>3, <2>4 DEF LeaderInv
<1>7. CASE Guard!Tick
  <2>1. /\ lease' = [lease EXCEPT !.left = Guard!Less(@)]
        /\ outlived' = [w \in Workers |-> outlived[w] \/ (lease.holder = w /\ lease.left = 1)]
        /\ UNCHANGED <<leads, job, failedOpen>>
    BY <1>7 DEF Guard!Tick
  <2>2. /\ lease' \in [holder : Workers \cup {None}, left : Nat] /\ lease'.holder = lease.holder
        /\ lease.left > 0 => lease'.left = lease.left - 1
    BY <1>0, <2>1 DEF LeaderTypes, Guard!Less
  <2>3. LeaderTypes'
    <3>1. outlived' \in [Workers -> BOOLEAN]
      BY <1>0, <2>1 DEF LeaderTypes
    <3> QED  BY <1>0, <2>1, <2>2, <3>1 DEF LeaderTypes
  <2>4. ASSUME NEW w \in Workers, outlived[w] \/ Holds(w) PROVE outlived'[w] \/ Holds(w)'
    <3>1. lease.left \in Nat
      BY <1>0 DEF LeaderTypes
    <3>2. CASE outlived[w] \/ (lease.holder = w /\ lease.left = 1)
      BY <2>1, <3>2
    <3>3. CASE Holds(w) /\ lease.left # 1
      BY <2>2, <3>1, <3>3 DEF Holds
    <3> QED  BY <2>4, <3>2, <3>3 DEF Holds
  <2> QED  BY <1>0, <2>1, <2>3, <2>4 DEF LeaderInv, LeaseHeld
<1>8. CASE \E r \in Calls : Guard!Limiter(r) \/ Guard!Count(r) \/ Guard!Answered(r) \/ Guard!CountFails(r)
  BY <1>1, <1>8 DEF Guard!Limiter, Guard!AllowLocally, Guard!Allow, Guard!Count, Guard!Answered,
     Guard!CountFails, Guard!Locally, Guard!leaderVars
<1>9. CASE \E w \in Workers : Guard!WarmUp(w) \/ Guard!WarmUpFails(w)
  BY <1>1, <1>9 DEF Guard!WarmUp, Guard!WarmUpFails, Guard!leaderVars
<1>10. CASE \E w \in Workers : Guard!AcquireRefused(w) \/ Guard!AcquireFails(w)
  BY <1>2, <1>10 DEF Guard!AcquireRefused, Guard!AcquireFails
<1>11. CASE UNCHANGED Guard!vars
  BY <1>1, <1>11 DEF Guard!vars, Guard!leaderVars
<1> QED  BY <1>3, <1>4, <1>5, <1>6, <1>7, <1>8, <1>9, <1>10, <1>11 DEF Guard!Next, Guard!Loop

LEMMA LeaderHolds == Guard!Spec => []LeaderInv
<1>1. LeaderInv /\ [Guard!Next]_(Guard!vars) => LeaderInv'
  BY LeaderStep
<1> QED  BY <1>1, LeaderInit, PTL DEF Guard!Spec

-----------------------------------------------------------------------------
(* RedisGuard: the limiter.  What a minute has admitted, what its counters *)
(* have promised and what they can still give does not exceed the limit of *)
(* Redis and of each bucket opened.                                        *)

Minutes == {"this", "last"}

(* Answers on their way that admit a request of the minute m. *)
Promised(m) == {r \in Calls : request[r].pc = "counted" /\ request[r].ok /\ request[r].minute = m}

(* What the buckets of the processes can still give in this minute. *)
Left(w) == IF bucket[w] = 0 THEN {} ELSE {w} \X ((bucket[w] + 1) .. Limit)
Unspent == UNION {Left(w) : w \in Workers}
InBuckets(m) == IF m = "this" THEN Unspent ELSE {}

(* What the counter in Redis can still give. *)
Spare(m) == IF counter[m] <= Limit THEN Limit - counter[m] ELSE 0

RateTypes ==
  /\ request \in [Calls -> [pc : {"idle", "sent", "counted", "done"}, at : Workers \cup {None},
                            minute : Minutes, ok : BOOLEAN]]
  /\ \A r \in Calls : request[r].pc \in {"sent", "counted"} => request[r].at \in Workers
  /\ counter \in [Minutes -> Nat] /\ bucket \in [Workers -> Nat]
  /\ admitted \in [Minutes -> Nat] /\ opened \in [Minutes -> Nat]
  /\ IsFiniteSet(Unspent)
  /\ \A m \in Minutes : IsFiniteSet(Promised(m))

Budget(m) ==
  admitted[m] + Cardinality(Promised(m)) + Cardinality(InBuckets(m)) + Spare(m)
    <= Limit + Limit * opened[m]

RateInv == RateTypes /\ \A m \in Minutes : Budget(m)

LEMMA LimitIsPositive == Limit \in Nat /\ Limit > 0
BY GuardAssumed DEF Guard!GuardAssumption

LEMMA OneMoreBucket == \A n \in Nat : Limit * n \in Nat /\ Limit * (n + 1) = Limit * n + Limit
BY LimitIsPositive

LEMMA CountsAreNumbers ==
  ASSUME RateTypes, NEW m \in Minutes
  PROVE  /\ IsFiniteSet(InBuckets(m)) /\ Cardinality(InBuckets(m)) \in Nat
         /\ Cardinality(Promised(m)) \in Nat /\ Spare(m) \in Nat
         /\ admitted[m] \in Nat /\ counter[m] \in Nat /\ opened[m] \in Nat /\ Limit * opened[m] \in Nat
<1>1. IsFiniteSet(InBuckets(m)) /\ IsFiniteSet(Promised(m))
  BY FS_EmptySet DEF RateTypes, InBuckets
<1>2. admitted[m] \in Nat /\ counter[m] \in Nat /\ opened[m] \in Nat
  BY DEF RateTypes
<1>3. Spare(m) \in Nat
  BY <1>2, LimitIsPositive DEF Spare
<1> QED  BY <1>1, <1>2, <1>3, FS_CardinalityType, OneMoreBucket

(* A step that takes promises or buckets away, and gives nothing. *)
LEMMA BudgetShrinks ==
  ASSUME RateInv, NEW m \in Minutes, admitted'[m] = admitted[m], counter'[m] = counter[m],
         opened'[m] = opened[m], Promised(m)' \subseteq Promised(m), InBuckets(m)' \subseteq InBuckets(m)
  PROVE  Budget(m)' /\ IsFiniteSet(Promised(m)')
<1>1. RateTypes /\ Budget(m)
  BY DEF RateInv
<1>2. IsFiniteSet(InBuckets(m)) /\ IsFiniteSet(Promised(m))
  BY <1>1, CountsAreNumbers DEF RateTypes
<1>3. /\ Cardinality(Promised(m)') <= Cardinality(Promised(m)) /\ Cardinality(Promised(m)') \in Nat
      /\ Cardinality(InBuckets(m)') <= Cardinality(InBuckets(m)) /\ Cardinality(InBuckets(m)') \in Nat
      /\ IsFiniteSet(Promised(m)')
  BY <1>2, FS_Subset, FS_CardinalityType
<1>4. Spare(m)' = Spare(m) /\ Limit * opened'[m] = Limit * opened[m]
  BY DEF Spare
<1>5. /\ admitted[m] \in Nat /\ Spare(m) \in Nat /\ Limit * opened[m] \in Nat
      /\ Cardinality(Promised(m)) \in Nat /\ Cardinality(InBuckets(m)) \in Nat /\ Limit \in Nat
  BY <1>1, CountsAreNumbers, LimitIsPositive
<1>6. admitted[m] + Cardinality(Promised(m)) + Cardinality(InBuckets(m)) + Spare(m)
        <= Limit + Limit * opened[m]
  BY <1>1 DEF Budget
<1>7. admitted[m] + Cardinality(Promised(m)') + Cardinality(InBuckets(m)') + Spare(m)
        <= Limit + Limit * opened[m]
  BY <1>3, <1>5, <1>6
<1>8. Budget(m)'
  BY <1>4, <1>7 DEF Budget
<1> QED  BY <1>3, <1>8

(* Taking one request of a process from its bucket uses up one admission   *)
(* of those that the bucket brought when it was opened.                    *)
LEMMA BucketSpends ==
  ASSUME RateTypes, NEW w \in Workers, bucket' = [bucket EXCEPT ![w] = @ + 1]
  PROVE  /\ IsFiniteSet(Unspent')
         /\ Cardinality(Unspent') + (IF bucket[w] = 0 \/ bucket[w] < Limit THEN 1 ELSE 0)
              <= Cardinality(Unspent) + (IF bucket[w] = 0 THEN Limit ELSE 0)
<1>1. /\ bucket \in [Workers -> Nat] /\ bucket[w] \in Nat /\ IsFiniteSet(Unspent)
      /\ Cardinality(Unspent) \in Nat /\ Limit \in Nat /\ Limit > 0
  BY LimitIsPositive, FS_CardinalityType DEF RateTypes
<1>2. \A v \in Workers : v # w => Left(v)' = Left(v)
  BY <1>1 DEF Left
<1>3. Left(w)' = {w} \X ((bucket[w] + 2) .. Limit)
  BY <1>1 DEF Left
<1>4. \A v \in Workers : \A x \in Left(v) : x[1] = v
  BY DEF Left
<1>5. CASE bucket[w] = 0
  <2> DEFINE New == {w} \X (2 .. Limit)
  <2>1. Left(w) = {} /\ Left(w)' = New
    BY <1>1, <1>3, <1>5 DEF Left
  <2>2. Unspent' = Unspent \cup New
    BY <1>2, <2>1 DEF Unspent
  <2>3. \A x \in New : x[1] = w
    OBVIOUS
  <2>4. Unspent \cap New = {}
    BY <1>4, <2>1, <2>3 DEF Unspent
  <2>5. IsFiniteSet(New) /\ Cardinality(New) = Limit - 1
    <3>1. IsFiniteSet({w}) /\ Cardinality({w}) = 1
      BY FS_Singleton
    <3>2. IsFiniteSet(2 .. Limit) /\ Cardinality(2 .. Limit) = Limit - 1
      <4>1. 2 \in Int /\ Limit \in Int
        BY <1>1
      <4>2. IsFiniteSet(2 .. Limit)
            /\ Cardinality(2 .. Limit) = IF 2 > Limit THEN 0 ELSE Limit - 2 + 1
        BY <4>1, FS_Interval
      <4> QED  BY <1>1, <4>2
    <3>3. IsFiniteSet(New) /\ Cardinality(New) = Cardinality({w}) * Cardinality(2 .. Limit)
      BY <3>1, <3>2, FS_Product
    <3> QED  BY <1>1, <3>1, <3>2, <3>3
  <2> HIDE DEF New
  <2>6. IsFiniteSet(Unspent') /\ Cardinality(Unspent') = Cardinality(Unspent) + (Limit - 1)
    <3>1. IsFiniteSet(Unspent \cup New)
          /\ Cardinality(Unspent \cup New)
               = Cardinality(Unspent) + Cardinality(New) - Cardinality(Unspent \cap New)
      BY <1>1, <2>5, FS_Union
    <3>2. Cardinality(Unspent \cap New) = 0
      BY <2>4, FS_EmptySet
    <3> QED  BY <1>1, <2>2, <2>5, <3>1, <3>2
  <2> QED  BY <1>1, <1>5, <2>6
<1>6. CASE bucket[w] # 0 /\ bucket[w] < Limit
  <2> DEFINE x == <<w, bucket[w] + 1>>
  <2>1. Left(w) = Left(w)' \cup {x} /\ x \notin Left(w)'
    <3>1. Left(w) = {w} \X ((bucket[w] + 1) .. Limit)
      BY <1>6 DEF Left
    <3>2. (bucket[w] + 1) .. Limit = ((bucket[w] + 2) .. Limit) \cup {bucket[w] + 1}
      BY <1>1, <1>6
    <3> QED  BY <1>1, <1>3, <3>1, <3>2
  <2>2. x[1] = w
    OBVIOUS
  <2> HIDE DEF x
  <2>3. Unspent' = Unspent \ {x} /\ x \in Unspent
    BY <1>2, <1>4, <2>1, <2>2 DEF Unspent
  <2>4. IsFiniteSet(Unspent') /\ Cardinality(Unspent') = Cardinality(Unspent) - 1
    BY <1>1, <2>3, FS_RemoveElement
  <2> QED  BY <1>1, <1>6, <2>4
<1>7. CASE bucket[w] >= Limit
  <2>1. (bucket[w] + 1) .. Limit = {} /\ (bucket[w] + 2) .. Limit = {}
    BY <1>1, <1>7
  <2>2. Left(w)' = Left(w)
    BY <1>1, <1>3, <1>7, <2>1 DEF Left
  <2>3. Unspent' = Unspent
    BY <1>2, <2>2 DEF Unspent
  <2> QED  BY <1>1, <1>7, <2>3
<1> QED  BY <1>1, <1>5, <1>6, <1>7

(* Every request that is settled leaves the promises. *)
LEMMA SettledLeaves ==
  ASSUME RateTypes, NEW r \in Calls, NEW w \in Workers, NEW ok \in BOOLEAN, NEW n \in Minutes,
         request' = [request EXCEPT ![r] = [pc |-> "done", at |-> w, minute |-> n, ok |-> ok]]
  PROVE  /\ \A m \in Minutes : Promised(m)' = Promised(m) \ {r}
         /\ request' \in [Calls -> [pc : {"idle", "sent", "counted", "done"}, at : Workers \cup {None},
                                    minute : Minutes, ok : BOOLEAN]]
         /\ \A s \in Calls : request'[s].pc \in {"sent", "counted"} => request'[s].at \in Workers
<1> DEFINE x == [pc |-> "done", at |-> w, minute |-> n, ok |-> ok]
<1>1. /\ x \in [pc : {"idle", "sent", "counted", "done"}, at : Workers \cup {None}, minute : Minutes,
                ok : BOOLEAN]
      /\ x.pc = "done"
  OBVIOUS
<1>2. request' = [request EXCEPT ![r] = x]
  OBVIOUS
<1> HIDE DEF x
<1> QED  BY <1>1, <1>2 DEF RateTypes, Promised

LEMMA RateInit == Guard!Init => RateInv
<1> SUFFICES ASSUME Guard!Init PROVE RateInv
  OBVIOUS
<1>1. /\ request = [r \in Calls |-> Guard!Unasked] /\ bucket = [w \in Workers |-> 0]
      /\ counter = [m \in Minutes |-> 0] /\ admitted = [m \in Minutes |-> 0]
      /\ opened = [m \in Minutes |-> 0]
  BY DEF Guard!Init, Guard!Both, Guard!Minutes, Minutes
<1>2. (\A m \in Minutes : Promised(m) = {}) /\ Unspent = {}
  BY <1>1 DEF Promised, Unspent, Left, Guard!Unasked
<1>3. RateTypes
  BY <1>1, <1>2, FS_EmptySet DEF RateTypes, Guard!Unasked, Minutes
<1>4. ASSUME NEW m \in Minutes PROVE Budget(m)
  <2>1. InBuckets(m) = {} /\ Promised(m) = {} /\ Spare(m) = Limit /\ admitted[m] = 0 /\ opened[m] = 0
    BY <1>1, <1>2, LimitIsPositive DEF InBuckets, Spare
  <2>2. Cardinality({}) = 0 /\ Limit * 0 = 0
    BY FS_EmptySet, LimitIsPositive
  <2> QED  BY <2>1, <2>2, LimitIsPositive DEF Budget
<1> QED  BY <1>3, <1>4 DEF RateInv

(* A request that Redis counts is promised only out of what the counter    *)
(* can still give.                                                         *)
LEMMA CountKeeps ==
  ASSUME RateInv, NEW r \in Calls, Guard!Count(r)
  PROVE  RateInv'
<1>0. RateTypes /\ \A m \in Minutes : Budget(m)
  BY DEF RateInv
<1>1. PICK m \in Minutes : m = request[r].minute
  BY <1>0 DEF RateTypes
<1>2. /\ request[r].pc = "sent" /\ counter' = [counter EXCEPT ![m] = @ + 1]
      /\ request' = [request EXCEPT ![r].pc = "counted", ![r].ok = Guard!Within(counter[m] + 1)]
      /\ UNCHANGED <<bucket, admitted, opened>>
  BY <1>1 DEF Guard!Count
<1>3. counter[m] \in Nat /\ Limit \in Nat /\ Limit > 0 /\ request[r].at \in Workers
  BY <1>0, <1>2, LimitIsPositive DEF RateTypes
<1> DEFINE fits == counter[m] + 1 <= Limit
<1>4. /\ request'[r].pc = "counted" /\ request'[r].at = request[r].at
      /\ request'[r].minute = m /\ request'[r].ok = fits
      /\ \A s \in Calls : s # r => request'[s] = request[s]
      /\ request' \in [Calls -> [pc : {"idle", "sent", "counted", "done"}, at : Workers \cup {None},
                                 minute : Minutes, ok : BOOLEAN]]
  <2> DEFINE Form == [pc : {"idle", "sent", "counted", "done"}, at : Workers \cup {None},
                      minute : Minutes, ok : BOOLEAN]
  <2>1. fits \in BOOLEAN /\ Guard!Within(counter[m] + 1) = fits
    BY DEF Guard!Within
  <2> HIDE DEF fits
  <2>2. request \in [Calls -> Form]
    BY <1>0 DEF RateTypes
  <2>3. PICK q \in Form : q = request[r]
    BY <2>2
  <2>4. PICK x : x = [[q EXCEPT !.pc = "counted"] EXCEPT !.ok = fits]
    OBVIOUS
  <2>5. x.pc = "counted" /\ x.at = q.at /\ x.minute = q.minute /\ x.ok = fits /\ x \in Form
    BY <2>1, <2>4
  <2>6. request' = [request EXCEPT ![r] = x]
    BY <1>2, <2>1, <2>2, <2>3, <2>4
  <2> QED  BY <1>1, <2>2, <2>3, <2>5, <2>6
<1>5. /\ r \notin Promised(m)
      /\ Promised(m)' = IF fits THEN Promised(m) \cup {r} ELSE Promised(m)
      /\ \A n \in Minutes : n # m => Promised(n)' = Promised(n)
  <2>1. \A n \in Minutes : r \notin Promised(n)
    BY <1>2 DEF Promised
  <2>2. \A n \in Minutes, s \in Calls : s # r => (s \in Promised(n)' <=> s \in Promised(n))
    BY <1>4 DEF Promised
  <2>3. \A n \in Minutes : r \in Promised(n)' <=> fits /\ n = m
    BY <1>4 DEF Promised
  <2>4. \A n \in Minutes : Promised(n) \subseteq Calls /\ Promised(n)' \subseteq Calls
    BY DEF Promised
  <2> HIDE DEF fits
  <2> QED  BY <2>1, <2>2, <2>3, <2>4
<1>6. \A n \in Minutes : IsFiniteSet(Promised(n)) /\ IsFiniteSet(Promised(n)')
  BY <1>0, <1>5, FS_AddElement DEF RateTypes
<1>7. RateTypes'
  <2>1. \A s \in Calls : request'[s].pc \in {"sent", "counted"} => request'[s].at \in Workers
    BY <1>0, <1>3, <1>4 DEF RateTypes
  <2>2. counter' \in [Minutes -> Nat] /\ bucket' \in [Workers -> Nat]
        /\ admitted' \in [Minutes -> Nat] /\ opened' \in [Minutes -> Nat]
    BY <1>0, <1>2, <1>3 DEF RateTypes
  <2>3. Unspent' = Unspent
    BY <1>2 DEF Unspent, Left
  <2> QED  BY <1>0, <1>4, <1>6, <2>1, <2>2, <2>3 DEF RateTypes
<1>8. \A n \in Minutes : InBuckets(n)' = InBuckets(n)
  BY <1>2 DEF InBuckets, Unspent, Left
<1>9. ASSUME NEW n \in Minutes, n # m PROVE Budget(n)'
  <2>1. counter'[n] = counter[n]
    BY <1>0, <1>2, <1>9 DEF RateTypes
  <2> QED  BY <1>2, <1>5, <1>8, <1>9, <2>1, BudgetShrinks
<1>10. Budget(m)'
  <2>1. /\ admitted[m] \in Nat /\ Spare(m) \in Nat /\ Limit * opened[m] \in Nat
        /\ Cardinality(Promised(m)) \in Nat /\ Cardinality(InBuckets(m)) \in Nat
    BY <1>0, CountsAreNumbers
  <2>2. admitted[m] + Cardinality(Promised(m)) + Cardinality(InBuckets(m)) + Spare(m)
          <= Limit + Limit * opened[m]
    BY <1>0 DEF Budget
  <2>3. Cardinality(Promised(m)') + Spare(m)' <= Cardinality(Promised(m)) + Spare(m)
    <3>1. counter'[m] = counter[m] + 1
      BY <1>0, <1>2 DEF RateTypes
    <3>2. CASE fits
      <4>1. Cardinality(Promised(m)') = Cardinality(Promised(m)) + 1
        BY <1>5, <1>6, <3>2, FS_AddElement
      <4>2. Spare(m)' = Spare(m) - 1
        BY <1>3, <3>1, <3>2 DEF Spare
      <4> QED  BY <2>1, <4>1, <4>2
    <3>3. CASE ~ fits
      <4>1. Promised(m)' = Promised(m) /\ Spare(m)' = Spare(m)
        BY <1>3, <1>5, <3>1, <3>3 DEF Spare
      <4> QED  BY <2>1, <4>1
    <3> QED  BY <3>2, <3>3
  <2>4. Cardinality(Promised(m)') \in Nat /\ Spare(m)' \in Nat
    BY <1>6, <1>7, CountsAreNumbers, FS_CardinalityType, LimitIsPositive DEF Spare, RateTypes
  <2>5. admitted[m] + Cardinality(Promised(m)') + Cardinality(InBuckets(m)) + Spare(m)'
          <= Limit + Limit * opened[m]
    BY <1>3, <2>1, <2>2, <2>3, <2>4
  <2> QED  BY <1>2, <1>8, <2>5 DEF Budget
<1> QED  BY <1>7, <1>9, <1>10 DEF RateInv

(* The answer redeems the promise. *)
LEMMA AnswerKeeps ==
  ASSUME RateInv, NEW r \in Calls, Guard!Answered(r)
  PROVE  RateInv'
<1>0. RateTypes /\ \A m \in Minutes : Budget(m)
  BY DEF RateInv
<1>1. request[r].pc = "counted"
  BY DEF Guard!Answered
<1>2. PICK m \in Minutes, w \in Workers, ok \in BOOLEAN :
        m = request[r].minute /\ w = request[r].at /\ ok = request[r].ok
  BY <1>0, <1>1 DEF RateTypes
<1>3. /\ request' = [request EXCEPT ![r] = [pc |-> "done", at |-> w, minute |-> m, ok |-> ok]]
      /\ admitted' = [admitted EXCEPT ![m] = @ + IF ok THEN 1 ELSE 0]
      /\ UNCHANGED <<counter, bucket, opened>>
  BY <1>2 DEF Guard!Answered, Guard!Settle
<1>4. /\ \A n \in Minutes : Promised(n)' = Promised(n) \ {r}
      /\ request' \in [Calls -> [pc : {"idle", "sent", "counted", "done"}, at : Workers \cup {None},
                                 minute : Minutes, ok : BOOLEAN]]
      /\ \A s \in Calls : request'[s].pc \in {"sent", "counted"} => request'[s].at \in Workers
  BY <1>0, <1>3, SettledLeaves
<1>5. admitted' \in [Minutes -> Nat] /\ admitted[m] \in Nat
  BY <1>0, <1>3 DEF RateTypes
<1>6. \A n \in Minutes : IsFiniteSet(Promised(n)')
  <2> TAKE n \in Minutes
  <2>1. IsFiniteSet(Promised(n)) /\ Promised(n)' \subseteq Promised(n)
    BY <1>0, <1>4 DEF RateTypes
  <2> QED  BY <2>1, FS_Subset
<1>7. Unspent' = Unspent /\ \A n \in Minutes : InBuckets(n)' = InBuckets(n) /\ Spare(n)' = Spare(n)
  BY <1>3 DEF Unspent, Left, InBuckets, Spare
<1>8. RateTypes'
  BY <1>0, <1>3, <1>4, <1>5, <1>6, <1>7 DEF RateTypes
<1>9. ASSUME NEW n \in Minutes, n # m \/ ~ ok PROVE Budget(n)'
  <2>1. admitted'[n] = admitted[n]
    BY <1>0, <1>3, <1>5, <1>9 DEF RateTypes
  <2> QED  BY <1>3, <1>4, <1>7, <2>1, BudgetShrinks
<1>10. ASSUME ok PROVE Budget(m)'
  <2>1. r \in Promised(m)
    BY <1>1, <1>2, <1>10 DEF Promised
  <2>2. Cardinality(Promised(m)') = Cardinality(Promised(m)) - 1
    BY <1>0, <1>4, <2>1, FS_RemoveElement DEF RateTypes
  <2>3. admitted'[m] = admitted[m] + 1
    BY <1>0, <1>3, <1>10 DEF RateTypes
  <2>4. /\ Spare(m) \in Nat /\ Limit * opened[m] \in Nat /\ Limit \in Nat
        /\ Cardinality(Promised(m)) \in Nat /\ Cardinality(InBuckets(m)) \in Nat
    BY <1>0, CountsAreNumbers, LimitIsPositive
  <2>5. admitted[m] + Cardinality(Promised(m)) + Cardinality(InBuckets(m)) + Spare(m)
          <= Limit + Limit * opened[m]
    BY <1>0 DEF Budget
  <2>6. admitted'[m] + Cardinality(Promised(m)') + Cardinality(InBuckets(m)) + Spare(m)
          <= Limit + Limit * opened[m]
    BY <1>5, <2>2, <2>3, <2>4, <2>5
  <2> QED  BY <1>3, <1>7, <2>6 DEF Budget
<1> QED  BY <1>8, <1>9, <1>10 DEF RateInv

(* Without Redis the bucket of the process decides. *)
LEMMA LocallyKeeps ==
  ASSUME RateInv, NEW r \in Calls, NEW w \in Workers, Guard!Locally(r, w)
  PROVE  RateInv'
<1>0. RateTypes /\ \A m \in Minutes : Budget(m)
  BY DEF RateInv
<1> DEFINE ok == fallback /\ (bucket[w] = 0 \/ bucket[w] < Limit)
           new == fallback /\ bucket[w] = 0
<1>1. /\ bucket' = IF fallback THEN [bucket EXCEPT ![w] = @ + 1] ELSE bucket
      /\ request' = [request EXCEPT ![r] = [pc |-> "done", at |-> w, minute |-> "this", ok |-> ok]]
      /\ admitted' = [admitted EXCEPT !["this"] = @ + IF ok THEN 1 ELSE 0]
      /\ opened' = [opened EXCEPT !["this"] = @ + IF new THEN 1 ELSE 0]
      /\ UNCHANGED counter
  BY DEF Guard!Locally, Guard!Settle
<1>2. ok \in BOOLEAN /\ "this" \in Minutes /\ "last" \in Minutes
  BY DEF Minutes
<1>3. /\ IsFiniteSet(Unspent')
      /\ Cardinality(Unspent') + (IF ok THEN 1 ELSE 0) <= Cardinality(Unspent) + (IF new THEN Limit ELSE 0)
  <2>1. CASE fallback
    BY <1>0, <1>1, <2>1, BucketSpends
  <2>2. CASE ~ fallback
    <3>1. Unspent' = Unspent
      BY <1>1, <2>2 DEF Unspent, Left
    <3>2. Cardinality(Unspent) \in Nat /\ IsFiniteSet(Unspent)
      BY <1>0, FS_CardinalityType DEF RateTypes
    <3> QED  BY <2>2, <3>1, <3>2
  <2> QED  BY <2>1, <2>2
<1>4. PICK yes \in BOOLEAN, open \in BOOLEAN : yes = ok /\ open = new
  BY <1>2
<1> HIDE DEF ok, new
<1>5. /\ \A n \in Minutes : Promised(n)' = Promised(n) \ {r}
      /\ request' \in [Calls -> [pc : {"idle", "sent", "counted", "done"}, at : Workers \cup {None},
                                 minute : Minutes, ok : BOOLEAN]]
      /\ \A s \in Calls : request'[s].pc \in {"sent", "counted"} => request'[s].at \in Workers
  BY <1>0, <1>1, <1>2, <1>4, SettledLeaves
<1>6. /\ admitted' \in [Minutes -> Nat] /\ opened' \in [Minutes -> Nat] /\ bucket' \in [Workers -> Nat]
      /\ admitted'["this"] = admitted["this"] + IF yes THEN 1 ELSE 0
      /\ opened'["this"] = opened["this"] + IF open THEN 1 ELSE 0
      /\ admitted'["last"] = admitted["last"] /\ opened'["last"] = opened["last"]
  BY <1>0, <1>1, <1>2, <1>4 DEF RateTypes
<1>7. \A n \in Minutes : IsFiniteSet(Promised(n)')
  <2> TAKE n \in Minutes
  <2>1. IsFiniteSet(Promised(n)) /\ Promised(n)' \subseteq Promised(n)
    BY <1>0, <1>5 DEF RateTypes
  <2> QED  BY <2>1, FS_Subset
<1>8. RateTypes'
  BY <1>0, <1>1, <1>3, <1>5, <1>6, <1>7 DEF RateTypes
<1>9. Budget("last")'
  <2>1. InBuckets("last")' = {} /\ InBuckets("last") = {}
    BY DEF InBuckets
  <2> QED  BY <1>1, <1>2, <1>5, <1>6, <2>1, BudgetShrinks
<1>10. Budget("this")'
  <2> DEFINE m == "this"
  <2>1. InBuckets(m) = Unspent /\ InBuckets(m)' = Unspent' /\ Spare(m)' = Spare(m)
    BY <1>1 DEF InBuckets, Spare
  <2>2. /\ Spare(m) \in Nat /\ Limit * opened[m] \in Nat /\ Limit \in Nat /\ admitted[m] \in Nat
        /\ Cardinality(Promised(m)) \in Nat /\ Cardinality(Unspent) \in Nat /\ opened[m] \in Nat
    BY <1>0, <1>2, <2>1, CountsAreNumbers, LimitIsPositive
  <2>3. Cardinality(Unspent') \in Nat /\ Cardinality(Promised(m)') \in Nat
        /\ Cardinality(Promised(m)') <= Cardinality(Promised(m))
    BY <1>0, <1>2, <1>3, <1>5, <1>7, FS_CardinalityType, FS_Subset DEF RateTypes
  <2>4. admitted[m] + Cardinality(Promised(m)) + Cardinality(Unspent) + Spare(m)
          <= Limit + Limit * opened[m]
    BY <1>0, <1>2, <2>1 DEF Budget
  <2>5. Limit * opened'[m] = Limit * opened[m] + IF open THEN Limit ELSE 0
    BY <1>6, <2>2, OneMoreBucket
  <2>6. admitted'[m] + Cardinality(Promised(m)') + Cardinality(Unspent') + Spare(m)
          <= Limit + Limit * opened'[m]
    BY <1>3, <1>4, <1>6, <2>2, <2>3, <2>4, <2>5
  <2> QED  BY <2>1, <2>6 DEF Budget
<1> QED  BY <1>8, <1>9, <1>10 DEF RateInv, Minutes

(* A command is only sent: nothing is promised yet. *)
LEMMA AllowKeeps ==
  ASSUME RateInv, NEW r \in Calls, NEW w \in Workers, Guard!Allow(r, w)
  PROVE  RateInv'
<1>0. RateTypes
  BY DEF RateInv
<1> DEFINE x == [pc |-> "sent", at |-> w, minute |-> "this", ok |-> FALSE]
<1>1. /\ request' = [request EXCEPT ![r] = x] /\ request[r].pc = "idle"
      /\ UNCHANGED <<counter, bucket, admitted, opened>>
  BY DEF Guard!Allow, Guard!Ready
<1>2. /\ x \in [pc : {"idle", "sent", "counted", "done"}, at : Workers \cup {None}, minute : Minutes,
                ok : BOOLEAN]
      /\ x.pc = "sent" /\ x.at = w
  BY DEF Minutes
<1> HIDE DEF x
<1>3. \A m \in Minutes : Promised(m)' = Promised(m)
  BY <1>0, <1>1, <1>2 DEF RateTypes, Promised
<1>4. Unspent' = Unspent /\ \A m \in Minutes : InBuckets(m)' = InBuckets(m)
  BY <1>1 DEF Unspent, Left, InBuckets
<1>5. RateTypes'
  BY <1>0, <1>1, <1>2, <1>3, <1>4 DEF RateTypes
<1>6. \A m \in Minutes : Budget(m)'
  BY <1>1, <1>3, <1>4, BudgetShrinks
<1> QED  BY <1>5, <1>6 DEF RateInv

(* A process that ends takes its bucket and its requests with it. *)
LEMMA EndKeeps ==
  ASSUME RateInv, NEW w \in Workers, Guard!Ends(w)
  PROVE  RateInv'
<1>0. RateTypes
  BY DEF RateInv
<1>1. /\ bucket' = [bucket EXCEPT ![w] = 0]
      /\ request' = [r \in Calls |->
                       IF request[r].at = w THEN [request[r] EXCEPT !.pc = "done"] ELSE request[r]]
      /\ UNCHANGED <<counter, admitted, opened>>
  BY DEF Guard!Ends
<1>2. ASSUME NEW r \in Calls
      PROVE  /\ request'[r] \in [pc : {"idle", "sent", "counted", "done"}, at : Workers \cup {None},
                                 minute : Minutes, ok : BOOLEAN]
             /\ request'[r] = request[r] \/ request'[r].pc = "done"
             /\ request'[r].pc \in {"sent", "counted"} => request'[r].at \in Workers
  <2>1. request[r] \in [pc : {"idle", "sent", "counted", "done"}, at : Workers \cup {None},
                        minute : Minutes, ok : BOOLEAN]
        /\ (request[r].pc \in {"sent", "counted"} => request[r].at \in Workers)
    BY <1>0 DEF RateTypes
  <2>2. CASE request[r].at = w
    <3>1. request'[r] = [request[r] EXCEPT !.pc = "done"]
      BY <1>1, <2>2
    <3> QED  BY <2>1, <3>1
  <2>3. CASE request[r].at # w
    BY <1>1, <2>1, <2>3
  <2> QED  BY <2>2, <2>3
<1>3. \A m \in Minutes : Promised(m)' \subseteq Promised(m)
  BY <1>2 DEF Promised
<1>4. Unspent' \subseteq Unspent
  <2>1. \A v \in Workers : Left(v)' \subseteq Left(v)
    BY <1>0, <1>1 DEF Left, RateTypes
  <2> QED  BY <2>1 DEF Unspent
<1>5. \A m \in Minutes : InBuckets(m)' \subseteq InBuckets(m)
  BY <1>4 DEF InBuckets
<1>6. \A m \in Minutes : Budget(m)' /\ IsFiniteSet(Promised(m)')
  BY <1>1, <1>3, <1>5, BudgetShrinks
<1>7. RateTypes'
  <2>1. request' \in [Calls -> [pc : {"idle", "sent", "counted", "done"}, at : Workers \cup {None},
                                minute : Minutes, ok : BOOLEAN]]
    <3>1. request' = [r \in Calls |-> request'[r]]
      BY <1>1
    <3> QED  BY <1>2, <3>1
  <2>2. bucket' \in [Workers -> Nat]
    BY <1>0, <1>1 DEF RateTypes
  <2>3. IsFiniteSet(Unspent')
    BY <1>0, <1>4, FS_Subset DEF RateTypes
  <2> QED  BY <1>0, <1>1, <1>2, <1>6, <2>1, <2>2, <2>3 DEF RateTypes
<1> QED  BY <1>6, <1>7 DEF RateInv

(* The minute turns: what it promised is settled as the last one's, and    *)
(* its buckets are gone.                                                   *)
LEMMA TurnKeeps ==
  ASSUME RateInv,
         \A r \in Calls : ~ (request[r].pc \in {"sent", "counted"} /\ request[r].minute = "last"),
         counter' = [this |-> 0, last |-> counter["this"]],
         admitted' = [this |-> 0, last |-> admitted["this"]],
         opened' = [this |-> 0, last |-> opened["this"]],
         bucket' = [w \in Workers |-> 0],
         request' = [r \in Calls |-> [request[r] EXCEPT !.minute = "last"]]
  PROVE  RateInv'
<1>0. RateTypes /\ Budget("this") /\ "this" \in Minutes /\ "last" \in Minutes
  BY DEF RateInv, Minutes
<1>1. ASSUME NEW r \in Calls
      PROVE  /\ request'[r] \in [pc : {"idle", "sent", "counted", "done"}, at : Workers \cup {None},
                                 minute : Minutes, ok : BOOLEAN]
             /\ request'[r].minute = "last" /\ request'[r].pc = request[r].pc
             /\ request'[r].ok = request[r].ok /\ request'[r].at = request[r].at
  <2>1. request[r] \in [pc : {"idle", "sent", "counted", "done"}, at : Workers \cup {None},
                        minute : Minutes, ok : BOOLEAN]
    BY <1>0 DEF RateTypes
  <2>2. request'[r] = [request[r] EXCEPT !.minute = "last"]
    OBVIOUS
  <2> QED  BY <1>0, <2>1, <2>2
<1>2. Promised("this")' = {}
  BY <1>1 DEF Promised
<1>3. Promised("last")' = Promised("this")
  <2>1. ASSUME NEW r \in Calls PROVE r \in Promised("last")' <=> r \in Promised("this")
    <3>1. request[r].minute \in Minutes
      BY <1>0 DEF RateTypes
    <3> QED  BY <1>1, <3>1 DEF Promised, Minutes
  <2>2. Promised("last")' \subseteq Calls /\ Promised("this") \subseteq Calls
    BY DEF Promised
  <2> QED  BY <2>1, <2>2
<1>4. Unspent' = {}
  BY DEF Unspent, Left
<1>5. InBuckets("this")' = {} /\ InBuckets("last")' = {}
  BY <1>4 DEF InBuckets
<1>6. /\ admitted'["this"] = 0 /\ counter'["this"] = 0 /\ opened'["this"] = 0
      /\ admitted'["last"] = admitted["this"] /\ counter'["last"] = counter["this"]
      /\ opened'["last"] = opened["this"]
  OBVIOUS
<1>7. Cardinality({}) = 0 /\ IsFiniteSet({})
  BY FS_EmptySet
<1>8. RateTypes'
  <2>1. request' \in [Calls -> [pc : {"idle", "sent", "counted", "done"}, at : Workers \cup {None},
                                minute : Minutes, ok : BOOLEAN]]
    <3>1. request' = [r \in Calls |-> request'[r]]
      OBVIOUS
    <3> QED  BY <1>1, <3>1
  <2>2. \A r \in Calls : request'[r].pc \in {"sent", "counted"} => request'[r].at \in Workers
    BY <1>0, <1>1 DEF RateTypes
  <2>3. /\ counter' \in [Minutes -> Nat] /\ admitted' \in [Minutes -> Nat]
        /\ opened' \in [Minutes -> Nat] /\ bucket' \in [Workers -> Nat]
    <3>1. counter["this"] \in Nat /\ admitted["this"] \in Nat /\ opened["this"] \in Nat
      BY <1>0 DEF RateTypes
    <3> QED  BY <3>1 DEF Minutes
  <2>4. \A m \in Minutes : IsFiniteSet(Promised(m)')
    BY <1>0, <1>2, <1>3, <1>7 DEF RateTypes, Minutes
  <2> QED  BY <1>4, <1>7, <2>1, <2>2, <2>3, <2>4 DEF RateTypes
<1>9. Budget("this")'
  <2>1. Spare("this")' = Limit /\ Limit \in Nat
    BY <1>6, LimitIsPositive DEF Spare
  <2>2. Limit * opened'["this"] = 0
    BY <1>6, <2>1
  <2>3. Cardinality(Promised("this")') = 0 /\ Cardinality(InBuckets("this")') = 0
    BY <1>2, <1>5, <1>7
  <2> QED  BY <1>6, <2>1, <2>2, <2>3 DEF Budget
<1>10. Budget("last")'
  <2>1. Spare("last")' = Spare("this")
    BY <1>6 DEF Spare
  <2>2. /\ admitted["this"] \in Nat /\ Spare("this") \in Nat /\ Limit * opened["this"] \in Nat
        /\ Cardinality(Promised("this")) \in Nat /\ Cardinality(InBuckets("this")) \in Nat
    BY <1>0, CountsAreNumbers
  <2>3. admitted["this"] + Cardinality(Promised("this")) + 0 + Spare("this")
          <= Limit + Limit * opened["this"]
    BY <1>0, <2>2, LimitIsPositive DEF Budget
  <2> QED  BY <1>3, <1>5, <1>6, <1>7, <2>1, <2>3 DEF Budget
<1> QED  BY <1>8, <1>9, <1>10 DEF RateInv, Minutes

LEMMA RateStep ==
  ASSUME RateInv, Guard!Next \/ UNCHANGED Guard!vars
  PROVE  RateInv'
<1>1. ASSUME UNCHANGED Guard!rateVars PROVE RateInv'
  <2>1. UNCHANGED <<request, counter, bucket, admitted, opened>>
    BY <1>1 DEF Guard!rateVars
  <2> QED  BY <2>1 DEF RateInv, RateTypes, Budget, Promised, InBuckets, Unspent, Left, Spare
<1>2. ASSUME NEW w \in Workers,
             Guard!WarmUp(w) \/ Guard!WarmUpFails(w) \/ Guard!AcquireFails(w) \/ Guard!Loop(w)
      PROVE  RateInv'
  BY <1>1, <1>2 DEF Guard!WarmUp, Guard!WarmUpFails, Guard!AcquireFails, Guard!Loop,
     Guard!AcquireRefused, Guard!Acquire, Guard!Decide, Guard!AcquireAnswered, Guard!RoundEnds,
     Guard!Boot
<1>3. ASSUME NEW w \in Workers, Guard!ShutDown(w) \/ Guard!Crash(w) PROVE RateInv'
  BY <1>3, EndKeeps DEF Guard!ShutDown, Guard!Crash
<1>4. ASSUME NEW r \in Calls, NEW w \in Workers, Guard!AllowLocally(r, w) PROVE RateInv'
  BY <1>4, LocallyKeeps DEF Guard!AllowLocally
<1>5. ASSUME NEW r \in Calls, NEW w \in Workers, Guard!Allow(r, w) PROVE RateInv'
  BY <1>5, AllowKeeps
<1>6. ASSUME NEW r \in Calls, Guard!CountFails(r) PROVE RateInv'
  <2>1. request[r].at \in Workers /\ Guard!Locally(r, request[r].at)
    BY <1>6 DEF Guard!CountFails, RateInv, RateTypes
  <2> QED  BY <2>1, LocallyKeeps
<1>7. CASE Guard!Tick
  <2> DEFINE turns == phase + 1 = MinuteTicks
  <2>1. CASE turns
    <3>1. /\ \A r \in Calls : ~ (request[r].pc \in {"sent", "counted"} /\ request[r].minute = "last")
          /\ counter' = [this |-> 0, last |-> counter["this"]]
          /\ admitted' = [this |-> 0, last |-> admitted["this"]]
          /\ opened' = [this |-> 0, last |-> opened["this"]]
          /\ bucket' = [w \in Workers |-> 0]
          /\ request' = [r \in Calls |-> [request[r] EXCEPT !.minute = "last"]]
      BY <1>7, <2>1 DEF Guard!Tick
    <3> QED  BY <3>1, TurnKeeps
  <2>2. CASE ~ turns
    BY <1>1, <1>7, <2>2 DEF Guard!Tick
  <2> QED  BY <2>1, <2>2
<1>8. CASE UNCHANGED Guard!vars
  BY <1>1, <1>8 DEF Guard!vars
<1>9. ASSUME NEW r \in Calls, Guard!Limiter(r) \/ Guard!Count(r) \/ Guard!Answered(r) PROVE RateInv'
  BY <1>4, <1>5, <1>9, CountKeeps, AnswerKeeps DEF Guard!Limiter
<1> QED  BY <1>2, <1>3, <1>6, <1>7, <1>8, <1>9 DEF Guard!Next

LEMMA RateHolds == Guard!Spec => []RateInv
<1>1. RateInv /\ [Guard!Next]_(Guard!vars) => RateInv'
  BY RateStep
<1> QED  BY <1>1, RateInit, PTL DEF Guard!Spec

-----------------------------------------------------------------------------
(* ChannelCooldown: failures are counted once, by the task that publishes  *)
(* them, by the counter in Redis or by a cooldown they began.              *)

CoolInv ==
  /\ failureTasks \in [Workers -> Nat] /\ trips \in Nat /\ sharedFails \in Nat /\ failures \in Nat
  /\ IsFiniteSet(Cooldowns!Unpublished)
  /\ AllowedFails * trips + sharedFails + Cardinality(Cooldowns!Unpublished) <= failures

LEMMA CooldownCounts == \A S : Cooldowns!Cardinality(S) = Cardinality(S)
BY DEF Cooldowns!Cardinality, Cardinality

LEMMA FailsArePositive ==
  /\ AllowedFails \in Nat /\ AllowedFails > 0
  /\ \A n \in Nat : AllowedFails * n \in Nat /\ AllowedFails * (n + 1) = AllowedFails * n + AllowedFails
<1>1. AllowedFails \in Nat /\ AllowedFails > 0
  BY CooldownAssumed DEF Cooldowns!CooldownAssumption
<1> QED  BY <1>1

(* A failure more, or less, to publish. *)
LEMMA OneMoreTask ==
  ASSUME CoolInv, NEW w \in Workers, failureTasks' = [failureTasks EXCEPT ![w] = @ + 1]
  PROVE  /\ failureTasks' \in [Workers -> Nat] /\ IsFiniteSet(Cooldowns!Unpublished')
         /\ Cardinality(Cooldowns!Unpublished') = Cardinality(Cooldowns!Unpublished) + 1
<1>1. failureTasks \in [Workers -> Nat] /\ IsFiniteSet(Cooldowns!Unpublished)
  BY DEF CoolInv
<1> DEFINE x == <<w, failureTasks[w] + 1>>
<1>2. 1 .. failureTasks'[w] = (1 .. failureTasks[w]) \cup {failureTasks[w] + 1}
      /\ failureTasks[w] + 1 \notin 1 .. failureTasks[w]
  BY <1>1
<1>3. x \notin Cooldowns!Unpublished
  BY <1>2 DEF Cooldowns!Unpublished
<1>4. Cooldowns!Unpublished' = Cooldowns!Unpublished \cup {x}
  <2>1. \A v \in Workers : v # w => failureTasks'[v] = failureTasks[v]
    BY <1>1
  <2>2. {w} \X (1 .. failureTasks'[w]) = ({w} \X (1 .. failureTasks[w])) \cup {x}
    BY <1>2
  <2> QED  BY <2>1, <2>2 DEF Cooldowns!Unpublished
<1> HIDE DEF x
<1>5. failureTasks' \in [Workers -> Nat]
  BY <1>1
<1> QED  BY <1>1, <1>3, <1>4, <1>5, FS_AddElement

LEMMA OneTaskLess ==
  ASSUME CoolInv, NEW w \in Workers, failureTasks[w] > 0,
         failureTasks' = [failureTasks EXCEPT ![w] = @ - 1]
  PROVE  /\ failureTasks' \in [Workers -> Nat] /\ IsFiniteSet(Cooldowns!Unpublished')
         /\ Cardinality(Cooldowns!Unpublished') = Cardinality(Cooldowns!Unpublished) - 1
         /\ Cardinality(Cooldowns!Unpublished) \in Nat /\ Cardinality(Cooldowns!Unpublished') \in Nat
<1>1. failureTasks \in [Workers -> Nat] /\ IsFiniteSet(Cooldowns!Unpublished)
  BY DEF CoolInv
<1> DEFINE x == <<w, failureTasks[w]>>
<1>2. 1 .. failureTasks'[w] = (1 .. failureTasks[w]) \ {failureTasks[w]}
      /\ failureTasks[w] \in 1 .. failureTasks[w]
  BY <1>1
<1>3. x \in Cooldowns!Unpublished
  BY <1>2 DEF Cooldowns!Unpublished
<1>4. Cooldowns!Unpublished' = Cooldowns!Unpublished \ {x}
  <2>1. \A v \in Workers : v # w => failureTasks'[v] = failureTasks[v]
    BY <1>1
  <2>2. {w} \X (1 .. failureTasks'[w]) = ({w} \X (1 .. failureTasks[w])) \ {x}
    BY <1>2
  <2>3. \A v \in Workers : \A y \in {v} \X (1 .. failureTasks[v]) : y[1] = v
    OBVIOUS
  <2>4. x[1] = w
    OBVIOUS
  <2> HIDE DEF x
  <2> QED  BY <2>1, <2>2, <2>3, <2>4 DEF Cooldowns!Unpublished
<1> HIDE DEF x
<1>5. failureTasks' \in [Workers -> Nat]
  BY <1>1
<1> QED  BY <1>1, <1>3, <1>4, <1>5, FS_RemoveElement, FS_CardinalityType

LEMMA CoolInit == Cooldowns!Init => CoolInv
<1> SUFFICES ASSUME Cooldowns!Init PROVE CoolInv
  OBVIOUS
<1>1. /\ failureTasks = [w \in Workers |-> 0] /\ trips = 0 /\ sharedFails = 0 /\ failures = 0
  BY DEF Cooldowns!Init
<1>2. Cooldowns!Unpublished = {}
  BY <1>1 DEF Cooldowns!Unpublished
<1>3. IsFiniteSet({}) /\ Cardinality({}) = 0 /\ AllowedFails * 0 = 0
  BY FS_EmptySet, FailsArePositive
<1> QED  BY <1>1, <1>2, <1>3 DEF CoolInv

LEMMA CoolStep ==
  ASSUME CoolInv, Cooldowns!Next \/ UNCHANGED Cooldowns!vars
  PROVE  CoolInv'
<1>0. /\ failureTasks \in [Workers -> Nat] /\ trips \in Nat /\ sharedFails \in Nat /\ failures \in Nat
      /\ Cardinality(Cooldowns!Unpublished) \in Nat /\ AllowedFails * trips \in Nat
      /\ AllowedFails * trips + sharedFails + Cardinality(Cooldowns!Unpublished) <= failures
  BY FS_CardinalityType, FailsArePositive DEF CoolInv
<1>1. ASSUME UNCHANGED <<failureTasks, trips, failures>>, sharedFails' \in Nat, sharedFails' <= sharedFails
      PROVE  CoolInv'
  <2>1. Cooldowns!Unpublished' = Cooldowns!Unpublished
    BY <1>1 DEF Cooldowns!Unpublished
  <2>2. AllowedFails * trips + sharedFails' + Cardinality(Cooldowns!Unpublished) <= failures
    BY <1>0, <1>1
  <2> QED  BY <1>1, <2>1, <2>2 DEF CoolInv
<1>2. ASSUME NEW w \in Workers, Cooldowns!RecordFailure(w) PROVE CoolInv'
  <2>1. /\ failures' = failures + 1 /\ failureTasks' = [failureTasks EXCEPT ![w] = @ + 1]
        /\ UNCHANGED <<trips, sharedFails>>
    BY <1>2 DEF Cooldowns!RecordFailure, Cooldowns!shared
  <2>2. /\ failureTasks' \in [Workers -> Nat] /\ IsFiniteSet(Cooldowns!Unpublished')
        /\ Cardinality(Cooldowns!Unpublished') = Cardinality(Cooldowns!Unpublished) + 1
    BY <2>1, OneMoreTask
  <2>3. AllowedFails * trips + sharedFails + Cardinality(Cooldowns!Unpublished') <= failures'
    BY <1>0, <2>1, <2>2
  <2> QED  BY <1>0, <2>1, <2>2, <2>3 DEF CoolInv
<1>3. ASSUME NEW w \in Workers, failureTasks[w] > 0,
             failureTasks' = [failureTasks EXCEPT ![w] = @ - 1], failures' = failures,
             UNCHANGED Cooldowns!shared \/ \E u \in Nat : Cooldowns!RecordFailureScript(u)
      PROVE  CoolInv'
  <2>1. /\ failureTasks' \in [Workers -> Nat] /\ IsFiniteSet(Cooldowns!Unpublished')
        /\ Cardinality(Cooldowns!Unpublished') = Cardinality(Cooldowns!Unpublished) - 1
        /\ Cardinality(Cooldowns!Unpublished') \in Nat
    BY <1>3, OneTaskLess
  <2>2. \/ trips' = trips /\ sharedFails' = sharedFails
        \/ trips' = trips /\ sharedFails' = sharedFails + 1
        \/ trips' = trips + 1 /\ sharedFails' = 0 /\ sharedFails + 1 >= AllowedFails
    BY <1>3 DEF Cooldowns!RecordFailureScript, Cooldowns!shared, Cooldowns!Reached, Cooldowns!Counted
  <2>3. trips' \in Nat /\ sharedFails' \in Nat
    BY <1>0, <2>2
  <2>4. AllowedFails * trips' + sharedFails' <= AllowedFails * trips + sharedFails + 1
    <3>1. AllowedFails * (trips + 1) = AllowedFails * trips + AllowedFails
      BY <1>0, FailsArePositive
    <3>2. CASE trips' = trips + 1 /\ sharedFails' = 0 /\ sharedFails + 1 >= AllowedFails
      BY <1>0, <3>1, <3>2, FailsArePositive
    <3>3. CASE trips' = trips /\ sharedFails' \in {sharedFails, sharedFails + 1}
      BY <1>0, <3>3
    <3> QED  BY <2>2, <3>2, <3>3
  <2>5. AllowedFails * trips' \in Nat
    BY <2>3, FailsArePositive
  <2>6. AllowedFails * trips' + sharedFails' + Cardinality(Cooldowns!Unpublished') <= failures
    BY <1>0, <2>1, <2>3, <2>4, <2>5
  <2> QED  BY <1>0, <1>3, <2>1, <2>3, <2>6 DEF CoolInv
<1>4. ASSUME NEW w \in Workers, Cooldowns!PublishFailure(w) PROVE CoolInv'
  <2>1. /\ failureTasks[w] > 0 /\ failureTasks' = [failureTasks EXCEPT ![w] = @ - 1]
        /\ failures' = failures /\ \E u \in Nat : Cooldowns!RecordFailureScript(u)
    BY <1>4 DEF Cooldowns!PublishFailure
  <2> QED  BY <1>3, <2>1
<1>5. ASSUME NEW w \in Workers, Cooldowns!FailureNotPublished(w) PROVE CoolInv'
  <2>1. failures' = failures /\ UNCHANGED Cooldowns!shared
    BY <1>5 DEF Cooldowns!FailureNotPublished
  <2>2. CASE failureTasks[w] > 0 /\ failureTasks' = [failureTasks EXCEPT ![w] = @ - 1]
    BY <1>3, <2>1, <2>2
  <2>3. CASE UNCHANGED failureTasks
    BY <1>0, <1>1, <2>1, <2>3 DEF Cooldowns!shared
  <2> QED  BY <1>5, <2>2, <2>3 DEF Cooldowns!FailureNotPublished
<1>6. ASSUME NEW w \in Workers, Cooldowns!PublishSuccess(w) PROVE CoolInv'
  BY <1>0, <1>1, <1>6 DEF Cooldowns!PublishSuccess
<1>7. ASSUME NEW w \in Workers,
             Cooldowns!RecordSuccess(w) \/ Cooldowns!ResetChannel(w) \/ Cooldowns!FailureAnswered(w)
      PROVE  CoolInv'
  BY <1>0, <1>1, <1>7 DEF Cooldowns!RecordSuccess, Cooldowns!ResetChannel, Cooldowns!FailureAnswered,
     Cooldowns!shared
<1>8. ASSUME NEW w \in Workers, Cooldowns!SyncFetch(w) \/ Cooldowns!SyncReconcile(w) PROVE CoolInv'
  BY <1>0, <1>1, <1>8 DEF Cooldowns!SyncFetch, Cooldowns!SyncReconcile, Cooldowns!shared,
     Cooldowns!tasks
<1>9. ASSUME NEW w \in Workers, NEW ok \in BOOLEAN, Cooldowns!SyncRepublish(w, ok) PROVE CoolInv'
  BY <1>0, <1>1, <1>9 DEF Cooldowns!SyncRepublish, Cooldowns!tasks
<1>10. CASE Cooldowns!Tick \/ Cooldowns!ForgetFailures
  BY <1>0, <1>1, <1>10 DEF Cooldowns!Tick, Cooldowns!ForgetFailures, Cooldowns!tasks, Cooldowns!shared
<1>11. CASE UNCHANGED Cooldowns!vars
  BY <1>0, <1>1, <1>11 DEF Cooldowns!vars, Cooldowns!tasks, Cooldowns!shared
<1> QED  BY <1>2, <1>4, <1>5, <1>6, <1>7, <1>8, <1>9, <1>10, <1>11 DEF Cooldowns!Next

LEMMA CoolHolds == Cooldowns!Spec => []CoolInv
<1>1. CoolInv /\ [Cooldowns!Next]_(Cooldowns!vars) => CoolInv'
  BY CoolStep
<1> QED  BY <1>1, CoolInit, PTL DEF Cooldowns!Spec

-----------------------------------------------------------------------------
(* AlertDelivery.  A task is counted, or claims, once, and only then has a *)
(* time; the failures that Redis and the processes keep are counted ones;  *)
(* and the keys in Redis outlast every alert they let through.             *)

Waiting == {"unused", "claim", "count"}
Sending == {"create", "post", "complete"}

AlertRecord == [pc : Waiting \cup Sending \cup {"done"}, kind : {"none", "fallback", "burst", "test"},
                at : Workers \cup {None}, when : Nat, alone : BOOLEAN, known : BOOLEAN, ok : BOOLEAN]

AlertTypes ==
  /\ clock \in Nat \ {0} /\ faults \in Nat /\ claim \in Nat /\ muted \in Nat
  /\ task \in [MCAlerts -> AlertRecord]
  /\ event \in [MCAlerts -> {"none", "pending", "sent", "failed"}]
  /\ posted \subseteq MCAlerts

(* Tasks that wait have no time, no record and no post, and are of a kind. *)
Stages ==
  \A t \in MCAlerts :
    /\ task[t].when <= clock
    /\ task[t].pc \in Waiting => task[t].when = 0 /\ event[t] = "none" /\ t \notin posted
    /\ task[t].pc = "unused" <=> task[t].kind = "none"
    /\ task[t].pc = "unused" => task[t].at = None
    /\ task[t].pc # "unused" => task[t].at \in Workers
    /\ task[t].pc = "claim" => task[t].kind = "fallback"
    /\ task[t].pc = "count" => task[t].kind = "burst"

Counted == {u \in MCAlerts : task[u].kind = "burst" /\ task[u].when > 0}

FailuresCounted ==
  /\ counted \subseteq Counted
  /\ localFailures \in [Workers -> SUBSET Counted]

KeysOutlast ==
  \A t \in MCAlerts : Alerting!Decided(t) /\ ~ task[t].alone =>
    /\ task[t].kind = "burst" => muted >= task[t].when + Dedup
    /\ task[t].kind = "fallback" => claim >= task[t].when + Suppress

(* Without failures the record follows the post. *)
Told ==
  \A t \in MCAlerts :
    /\ task[t].ok => t \in posted
    /\ event[t] = "sent" => t \in posted
    /\ faults = 0 =>
         /\ task[t].pc \in {"post", "complete"} => task[t].known
         /\ task[t].pc = "create" \/ task[t].pc = "post" => t \notin posted
         /\ task[t].pc = "complete" => task[t].ok
         /\ task[t].pc = "done" /\ t \in posted => event[t] = "sent"

AlertInv ==
  /\ AlertTypes /\ Stages /\ FailuresCounted /\ KeysOutlast /\ Told
  /\ Alerting!BurstEarned /\ Alerting!OncePerWindow

LEMMA AlertCounts == \A S : Alerting!Cardinality(S) = Cardinality(S)
BY DEF Alerting!Cardinality, Cardinality

LEMMA AlertBounds ==
  /\ Threshold \in Nat \ {0} /\ Window \in Nat \ {0} /\ Dedup \in Nat /\ Dedup > 0
  /\ Suppress \in Nat \ {0} /\ None \notin Workers
BY AlertAssumed DEF Alerting!AlertAssumption

LEMMA AlertsFinite == \A S \in SUBSET MCAlerts : IsFiniteSet(S) /\ Cardinality(S) \in Nat
<1>1. 1 \in Int /\ 3 \in Int
  OBVIOUS
<1>2. IsFiniteSet(MCAlerts)
  BY <1>1, FS_Interval DEF MCAlerts
<1> QED  BY <1>2, FS_Subset, FS_CardinalityType

LEMMA AlertInit == Alerting!Init => AlertInv
<1> SUFFICES ASSUME Alerting!Init PROVE AlertInv
  OBVIOUS
<1> DEFINE u == Alerting!Unused
<1>1. /\ u \in AlertRecord /\ u.pc = "unused" /\ u.when = 0 /\ u.kind = "none" /\ ~ u.ok /\ u.at = None
  BY DEF Alerting!Unused, AlertRecord, Waiting
<1>2. /\ \A t \in MCAlerts : task[t] = u /\ event[t] = "none"
      /\ task = [t \in MCAlerts |-> u] /\ event = [t \in MCAlerts |-> "none"]
      /\ posted = {} /\ counted = {} /\ localFailures = [w \in Workers |-> {}]
      /\ clock = 1 /\ faults = 0 /\ claim = 0 /\ muted = 0
  BY DEF Alerting!Init
<1> HIDE DEF u
<1>3. AlertTypes /\ Stages /\ FailuresCounted /\ Told
  BY <1>1, <1>2 DEF AlertTypes, Stages, FailuresCounted, Told, Waiting
<1>4. \A t \in MCAlerts : ~ Alerting!Decided(t)
  BY <1>1, <1>2 DEF Alerting!Decided
<1> QED  BY <1>3, <1>4 DEF AlertInv, KeysOutlast, Alerting!BurstEarned, Alerting!OncePerWindow

(* A step that decides nothing new and gives no task a time: what is said  *)
(* of the decided alerts stays.                                            *)
LEMMA DecidedStay ==
  ASSUME AlertInv, AlertTypes', muted' >= muted, claim' >= claim,
         \A t \in MCAlerts : task'[t].when = task[t].when /\ task'[t].alone = task[t].alone,
         \A t \in MCAlerts : task'[t].kind = task[t].kind \/ task[t].kind = "none",
         \A t \in MCAlerts :
           Alerting!Decided(t)' => (\/ task'[t].kind = "test"
                                    \/ Alerting!Decided(t) /\ task'[t].kind = task[t].kind)
  PROVE  KeysOutlast' /\ Alerting!BurstEarned' /\ Alerting!OncePerWindow'
<1>1. /\ AlertTypes /\ muted \in Nat /\ muted' \in Nat /\ claim \in Nat /\ claim' \in Nat
      /\ \A t \in MCAlerts : task[t].when \in Nat /\ task[t].kind \in {"none", "fallback", "burst", "test"}
      /\ \A t \in MCAlerts : task'[t].kind \in {"none", "fallback", "burst", "test"}
  BY DEF AlertInv, AlertTypes, AlertRecord
<1>2. KeysOutlast'
  <2> SUFFICES ASSUME NEW t \in MCAlerts, Alerting!Decided(t)', ~ task'[t].alone
               PROVE  /\ task'[t].kind = "burst" => muted' >= task'[t].when + Dedup
                      /\ task'[t].kind = "fallback" => claim' >= task'[t].when + Suppress
    BY DEF KeysOutlast
  <2> QED  BY <1>1, AlertBounds DEF AlertInv, KeysOutlast
<1>3. Alerting!BurstEarned'
  <2> SUFFICES ASSUME NEW t \in MCAlerts, task'[t].kind = "burst", Alerting!Decided(t)'
               PROVE  Alerting!Cardinality(Alerting!Before(task[t].when)') >= Threshold
    BY DEF Alerting!BurstEarned
  <2>1. PICK x \in Nat : x = task[t].when
    BY <1>1
  <2>2. Alerting!Cardinality(Alerting!Before(x)) >= Threshold
    BY <2>1 DEF AlertInv, Alerting!BurstEarned
  <2>3. Alerting!Before(x) \subseteq Alerting!Before(x)' /\ Alerting!Before(x)' \subseteq MCAlerts
    BY DEF Alerting!Before
  <2>4. Cardinality(Alerting!Before(x)) <= Cardinality(Alerting!Before(x)')
    BY <2>3, AlertsFinite, FS_Subset
  <2>5. Cardinality(Alerting!Before(x)) \in Nat /\ Cardinality(Alerting!Before(x)') \in Nat
    BY <2>3, AlertsFinite
  <2> QED  BY <2>1, <2>2, <2>4, <2>5, AlertCounts, AlertBounds
<1>4. Alerting!OncePerWindow'
  BY <1>1 DEF AlertInv, Alerting!OncePerWindow
<1> QED  BY <1>2, <1>3, <1>4

Stage == Waiting \cup Sending \cup {"done"}

(* How a step of a task changes what it knows. *)
LEMMA TaskStarts ==
  ASSUME task \in [MCAlerts -> AlertRecord], NEW t \in MCAlerts, NEW w \in Workers,
         NEW kind \in {"fallback", "burst", "test"}, NEW pc \in Stage,
         Alerting!Starts(t, w, kind, pc)
  PROVE  /\ task' \in [MCAlerts -> AlertRecord] /\ \A u \in MCAlerts : u # t => task'[u] = task[u]
         /\ task[t].pc = "unused" /\ task'[t].pc = pc /\ task'[t].kind = kind /\ task'[t].at = w
         /\ task'[t].when = task[t].when /\ task'[t].alone = task[t].alone /\ task'[t].ok = task[t].ok
<1>1. PICK q \in AlertRecord : q = task[t]
  OBVIOUS
<1>2. PICK x : x = [q EXCEPT !.pc = pc, !.kind = kind, !.at = w]
  OBVIOUS
<1>3. /\ x \in AlertRecord /\ x.pc = pc /\ x.kind = kind /\ x.at = w /\ x.when = q.when
      /\ x.alone = q.alone /\ x.ok = q.ok
  BY <1>2 DEF AlertRecord, Stage
<1>4. task' = [task EXCEPT ![t] = x] /\ task[t].pc = "unused"
  BY <1>1, <1>2 DEF Alerting!Starts
<1> QED  BY <1>1, <1>3, <1>4

LEMMA TaskGoes ==
  ASSUME task \in [MCAlerts -> AlertRecord], clock \in Nat, NEW t \in MCAlerts,
         NEW send \in BOOLEAN, NEW alone \in BOOLEAN, Alerting!Goes(t, send, alone)
  PROVE  /\ task' \in [MCAlerts -> AlertRecord] /\ \A u \in MCAlerts : u # t => task'[u] = task[u]
         /\ task'[t].pc = (IF send THEN "create" ELSE "done")
         /\ task'[t].when = clock /\ task'[t].alone = alone
         /\ task'[t].kind = task[t].kind /\ task'[t].at = task[t].at /\ task'[t].ok = task[t].ok
<1>1. PICK q \in AlertRecord : q = task[t]
  OBVIOUS
<1>2. PICK pc \in Stage : pc = IF send THEN "create" ELSE "done"
  BY DEF Stage, Sending
<1>3. PICK x : x = [q EXCEPT !.pc = pc, !.when = clock, !.alone = alone]
  OBVIOUS
<1>4. /\ x \in AlertRecord /\ x.pc = pc /\ x.when = clock /\ x.alone = alone
      /\ x.kind = q.kind /\ x.at = q.at /\ x.ok = q.ok
  BY <1>3 DEF AlertRecord, Stage
<1>5. task' = [task EXCEPT ![t] = x]
  BY <1>1, <1>2, <1>3 DEF Alerting!Goes
<1> QED  BY <1>1, <1>2, <1>4, <1>5

LEMMA TaskProceeds ==
  ASSUME task \in [MCAlerts -> AlertRecord], NEW t \in MCAlerts, NEW pc \in Stage,
         \/ task' = [task EXCEPT ![t].pc = pc]
         \/ task' = [task EXCEPT ![t].pc = pc, ![t].known = TRUE]
         \/ task' = [task EXCEPT ![t].pc = pc, ![t].ok = TRUE]
  PROVE  /\ task' \in [MCAlerts -> AlertRecord] /\ \A u \in MCAlerts : u # t => task'[u] = task[u]
         /\ task'[t].pc = pc /\ task'[t].kind = task[t].kind /\ task'[t].at = task[t].at
         /\ task'[t].when = task[t].when /\ task'[t].alone = task[t].alone
         /\ task' = [task EXCEPT ![t].pc = pc] =>
              task'[t].ok = task[t].ok /\ task'[t].known = task[t].known
         /\ task' = [task EXCEPT ![t].pc = pc, ![t].known = TRUE] =>
              task'[t].ok = task[t].ok /\ task'[t].known
         /\ task' = [task EXCEPT ![t].pc = pc, ![t].ok = TRUE] =>
              task'[t].ok /\ task'[t].known = task[t].known
<1>1. PICK q \in AlertRecord : q = task[t]
  OBVIOUS
<1>2. PICK x, y, z : x = [q EXCEPT !.pc = pc] /\ y = [q EXCEPT !.pc = pc, !.known = TRUE]
                     /\ z = [q EXCEPT !.pc = pc, !.ok = TRUE]
  OBVIOUS
<1>3. /\ x \in AlertRecord /\ x.pc = pc /\ x.kind = q.kind /\ x.at = q.at /\ x.when = q.when
      /\ x.alone = q.alone /\ x.ok = q.ok /\ x.known = q.known
  BY <1>2 DEF AlertRecord, Stage
<1>4. /\ y \in AlertRecord /\ y.pc = pc /\ y.kind = q.kind /\ y.at = q.at /\ y.when = q.when
      /\ y.alone = q.alone /\ y.ok = q.ok /\ y.known
  BY <1>2 DEF AlertRecord, Stage
<1>5. /\ z \in AlertRecord /\ z.pc = pc /\ z.kind = q.kind /\ z.at = q.at /\ z.when = q.when
      /\ z.alone = q.alone /\ z.ok /\ z.known = q.known
  BY <1>2 DEF AlertRecord, Stage
<1>6. /\ [task EXCEPT ![t].pc = pc] = [task EXCEPT ![t] = x]
      /\ [task EXCEPT ![t].pc = pc, ![t].known = TRUE] = [task EXCEPT ![t] = y]
      /\ [task EXCEPT ![t].pc = pc, ![t].ok = TRUE] = [task EXCEPT ![t] = z]
  BY <1>1, <1>2
<1>7. CASE task' = [task EXCEPT ![t].pc = pc]
  <2>1. task' = [task EXCEPT ![t] = x]
    BY <1>6, <1>7
  <2>2. /\ task' \in [MCAlerts -> AlertRecord] /\ \A u \in MCAlerts : u # t => task'[u] = task[u]
        /\ task'[t] = x
    BY <1>3, <2>1
  <2> QED  BY <1>1, <1>3, <1>4, <1>5, <1>6, <2>1, <2>2
<1>8. CASE task' = [task EXCEPT ![t].pc = pc, ![t].known = TRUE]
  <2>1. task' = [task EXCEPT ![t] = y]
    BY <1>6, <1>8
  <2>2. /\ task' \in [MCAlerts -> AlertRecord] /\ \A u \in MCAlerts : u # t => task'[u] = task[u]
        /\ task'[t] = y
    BY <1>4, <2>1
  <2> QED  BY <1>1, <1>3, <1>4, <1>5, <1>6, <2>1, <2>2
<1>9. CASE task' = [task EXCEPT ![t].pc = pc, ![t].ok = TRUE]
  <2>1. task' = [task EXCEPT ![t] = z]
    BY <1>6, <1>9
  <2>2. /\ task' \in [MCAlerts -> AlertRecord] /\ \A u \in MCAlerts : u # t => task'[u] = task[u]
        /\ task'[t] = z
    BY <1>5, <2>1
  <2> QED  BY <1>1, <1>3, <1>4, <1>5, <1>6, <2>1, <2>2
<1> QED  BY <1>7, <1>8, <1>9

LEMMA TaskEnds ==
  ASSUME task \in [MCAlerts -> AlertRecord], NEW t \in MCAlerts,
         task' = [task EXCEPT ![t].pc = "done"]
  PROVE  /\ task' \in [MCAlerts -> AlertRecord] /\ \A u \in MCAlerts : u # t => task'[u] = task[u]
         /\ task'[t].pc = "done" /\ task'[t].kind = task[t].kind /\ task'[t].at = task[t].at
         /\ task'[t].when = task[t].when /\ task'[t].alone = task[t].alone
         /\ task'[t].ok = task[t].ok /\ task'[t].known = task[t].known
<1>1. PICK q \in AlertRecord : q = task[t]
  OBVIOUS
<1>2. PICK x : x = [q EXCEPT !.pc = "done"]
  OBVIOUS
<1>3. /\ x \in AlertRecord /\ x.pc = "done" /\ x.kind = q.kind /\ x.at = q.at /\ x.when = q.when
      /\ x.alone = q.alone /\ x.ok = q.ok /\ x.known = q.known
  BY <1>2 DEF AlertRecord
<1>4. task' = [task EXCEPT ![t] = x]
  BY <1>1, <1>2
<1> QED  BY <1>1, <1>3, <1>4

LEMMA GoesKeeps ==
  ASSUME AlertInv, NEW t \in MCAlerts, task[t].pc \in {"claim", "count"},
         NEW send \in BOOLEAN, NEW alone \in BOOLEAN, Alerting!Goes(t, send, alone),
         UNCHANGED <<clock, event, posted>>, faults' \in Nat, faults' >= faults,
         muted' \in Nat, muted' >= muted, claim' \in Nat, claim' >= claim,
         send /\ ~ alone /\ task[t].kind = "burst" => muted <= clock /\ muted' >= clock + Dedup,
         send /\ ~ alone /\ task[t].kind = "fallback" => claim <= clock /\ claim' >= clock + Suppress,
         send /\ task[t].kind = "burst" => Cardinality(Alerting!Before(clock)') >= Threshold
  PROVE  /\ AlertTypes' /\ Stages' /\ KeysOutlast' /\ Told' /\ Alerting!BurstEarned'
         /\ Alerting!OncePerWindow'
<1>1. AlertTypes /\ task \in [MCAlerts -> AlertRecord] /\ clock \in Nat \ {0} /\ muted \in Nat
      /\ claim \in Nat /\ faults \in Nat
  BY DEF AlertInv, AlertTypes
<1>2. /\ task' \in [MCAlerts -> AlertRecord] /\ \A u \in MCAlerts : u # t => task'[u] = task[u]
      /\ task'[t].pc = (IF send THEN "create" ELSE "done")
      /\ task'[t].when = clock /\ task'[t].alone = alone
      /\ task'[t].kind = task[t].kind /\ task'[t].at = task[t].at /\ task'[t].ok = task[t].ok
  BY <1>1, TaskGoes
<1>3. AlertTypes'
  BY <1>1, <1>2 DEF AlertTypes
<1>4. task[t].when = 0 /\ event[t] = "none" /\ t \notin posted /\ task[t].kind \in {"burst", "fallback"}
      /\ task[t].at \in Workers
  BY DEF AlertInv, Stages, Waiting
<1>5. Stages'
  BY <1>1, <1>2, <1>4 DEF AlertInv, Stages, Waiting
<1>6. Told'
  BY <1>1, <1>2, <1>4 DEF AlertInv, Told
<1>7. \A u \in MCAlerts : u # t => (Alerting!Decided(u)' <=> Alerting!Decided(u))
  BY <1>2 DEF Alerting!Decided
<1>8. Alerting!Decided(t)' <=> send
  BY <1>2, <1>4 DEF Alerting!Decided
<1>9. \A u \in MCAlerts : task[u].when \in Nat
  BY <1>1 DEF AlertRecord
<1>10. KeysOutlast'
  <2> SUFFICES ASSUME NEW u \in MCAlerts, Alerting!Decided(u)', ~ task'[u].alone
               PROVE  /\ task'[u].kind = "burst" => muted' >= task'[u].when + Dedup
                      /\ task'[u].kind = "fallback" => claim' >= task'[u].when + Suppress
    BY DEF KeysOutlast
  <2>1. CASE u = t
    BY <1>2, <1>8, <2>1
  <2>2. CASE u # t
    <3>1. /\ task[u].kind = "burst" => muted >= task[u].when + Dedup
          /\ task[u].kind = "fallback" => claim >= task[u].when + Suppress
      BY <1>2, <1>7, <2>2 DEF AlertInv, KeysOutlast
    <3> QED  BY <1>1, <1>2, <1>9, <2>2, <3>1, AlertBounds
  <2> QED  BY <2>1, <2>2
<1>11. Alerting!BurstEarned'
  <2> SUFFICES ASSUME NEW u \in MCAlerts, task'[u].kind = "burst", Alerting!Decided(u)'
               PROVE  Alerting!Cardinality(Alerting!Before(task[u].when)') >= Threshold
    BY DEF Alerting!BurstEarned
  <2>1. CASE u = t
    <3>1. PICK x \in Nat : x = clock
      BY <1>1
    <3>2. Cardinality(Alerting!Before(x)') >= Threshold /\ task'[t].when = x
      BY <1>2, <1>8, <2>1, <3>1
    <3> QED  BY <2>1, <3>2, AlertCounts
  <2>2. CASE u # t
    <3>1. PICK x \in Nat : x = task[u].when
      BY <1>9
    <3>2. Alerting!Cardinality(Alerting!Before(x)) >= Threshold
      BY <1>2, <1>7, <2>2, <3>1 DEF AlertInv, Alerting!BurstEarned
    <3>3. Alerting!Before(x) \subseteq Alerting!Before(x)' /\ Alerting!Before(x)' \subseteq MCAlerts
      BY <1>2, <1>4 DEF Alerting!Before
    <3>4. /\ Cardinality(Alerting!Before(x)) <= Cardinality(Alerting!Before(x)')
          /\ Cardinality(Alerting!Before(x)) \in Nat /\ Cardinality(Alerting!Before(x)') \in Nat
      BY <3>3, AlertsFinite, FS_Subset
    <3> QED  BY <1>2, <2>2, <3>1, <3>2, <3>4, AlertCounts, AlertBounds
  <2> QED  BY <2>1, <2>2
<1>12. Alerting!OncePerWindow'
  <2>1. ASSUME NEW u \in MCAlerts, u # t, send, ~ alone, Alerting!Decided(u), ~ task[u].alone,
               task[u].kind = task[t].kind
        PROVE  /\ task[t].kind = "burst" => clock >= task[u].when + Dedup
               /\ task[t].kind = "fallback" => clock >= task[u].when + Suppress
    <3>1. /\ task[u].kind = "burst" => muted >= task[u].when + Dedup
          /\ task[u].kind = "fallback" => claim >= task[u].when + Suppress
      BY <2>1 DEF AlertInv, KeysOutlast
    <3> QED  BY <1>1, <1>9, <2>1, <3>1, AlertBounds
  <2> SUFFICES ASSUME NEW u \in MCAlerts, NEW v \in MCAlerts, u # v, Alerting!Decided(u)',
                      Alerting!Decided(v)', ~ task'[u].alone, ~ task'[v].alone,
                      task'[u].kind = task'[v].kind, task'[u].kind # "test"
               PROVE  LET apart == IF task'[u].kind = "burst" THEN Dedup ELSE Suppress
                      IN  task'[v].when >= task'[u].when + apart \/ task'[u].when >= task'[v].when + apart
    BY DEF Alerting!OncePerWindow
  <2>2. CASE u = t
    BY <1>2, <1>4, <1>7, <1>8, <2>1, <2>2
  <2>3. CASE v = t
    BY <1>2, <1>4, <1>7, <1>8, <2>1, <2>3
  <2>4. CASE u # t /\ v # t
    BY <1>2, <1>7, <2>4 DEF AlertInv, Alerting!OncePerWindow
  <2> QED  BY <2>2, <2>3, <2>4
<1> QED  BY <1>3, <1>5, <1>6, <1>10, <1>11, <1>12

(* A task starts: it waits, is dropped for want of capacity, or is a test. *)
LEMMA StartKeeps ==
  ASSUME AlertInv, NEW t \in MCAlerts, NEW w \in Workers,
         Alerting!Notify(t, w) \/ Alerting!Schedule(t, w) \/ Alerting!TestDestination(t, w)
  PROVE  AlertInv'
<1>1. AlertTypes /\ task \in [MCAlerts -> AlertRecord]
  BY DEF AlertInv, AlertTypes
<1>2. UNCHANGED <<clock, claim, counted, muted, localFailures, event, posted, faults>>
  BY DEF Alerting!Notify, Alerting!Schedule, Alerting!TestDestination, Alerting!local, Alerting!shared
<1>3. PICK kind \in {"fallback", "burst", "test"}, pc \in Stage :
        /\ Alerting!Starts(t, w, kind, pc)
        /\ \/ kind = "fallback" /\ pc = "claim"
           \/ kind = "burst" /\ pc \in {"count", "done"}
           \/ kind = "test" /\ pc = "create"
  BY DEF Alerting!Notify, Alerting!Schedule, Alerting!TestDestination, Stage, Waiting, Sending
<1>4. /\ task' \in [MCAlerts -> AlertRecord] /\ \A u \in MCAlerts : u # t => task'[u] = task[u]
      /\ task[t].pc = "unused" /\ task'[t].pc = pc /\ task'[t].kind = kind /\ task'[t].at = w
      /\ task'[t].when = task[t].when /\ task'[t].alone = task[t].alone /\ task'[t].ok = task[t].ok
  BY <1>1, <1>3, TaskStarts
<1>5. AlertTypes'
  BY <1>1, <1>2, <1>4 DEF AlertTypes
<1>6. task[t].when = 0 /\ event[t] = "none" /\ t \notin posted /\ task[t].kind = "none"
  BY <1>4 DEF AlertInv, Stages, Waiting
<1>7. Stages'
  BY <1>2, <1>3, <1>4, <1>6 DEF AlertInv, Stages, Waiting
<1>8. FailuresCounted'
  <2>1. Counted' = Counted
    BY <1>4, <1>6 DEF Counted
  <2> QED  BY <1>2, <2>1 DEF AlertInv, FailuresCounted
<1>9. Told'
  BY <1>2, <1>3, <1>4, <1>6 DEF AlertInv, Told
<1>10. KeysOutlast' /\ Alerting!BurstEarned' /\ Alerting!OncePerWindow'
  <2>1. \A u \in MCAlerts : task'[u].when = task[u].when /\ task'[u].alone = task[u].alone
    BY <1>4
  <2>2. \A u \in MCAlerts : task'[u].kind = task[u].kind \/ task[u].kind = "none"
    BY <1>4, <1>6
  <2>3. \A u \in MCAlerts :
          Alerting!Decided(u)' => (\/ task'[u].kind = "test"
                                   \/ Alerting!Decided(u) /\ task'[u].kind = task[u].kind)
    <3>1. \A u \in MCAlerts : u # t => (Alerting!Decided(u)' <=> Alerting!Decided(u))
      BY <1>2, <1>4 DEF Alerting!Decided
    <3>2. kind # "test" => pc \notin {"create", "post", "complete"}
      BY <1>3
    <3>3. event'[t] = "none" /\ t \notin posted'
      BY <1>2, <1>6
    <3>4. Alerting!Decided(t)' => task'[t].kind = "test"
      BY <1>4, <3>2, <3>3 DEF Alerting!Decided
    <3>5. \A u \in MCAlerts : u # t => task'[u].kind = task[u].kind
      BY <1>4
    <3>6. \A u \in MCAlerts : Alerting!Decided(u)' => u # t \/ task'[u].kind = "test"
      BY <1>4, <3>2, <3>3 DEF Alerting!Decided
    <3> QED  BY <3>1, <3>5, <3>6
  <2>4. muted' >= muted /\ claim' >= claim
    BY <1>1, <1>2 DEF AlertTypes
  <2> QED  BY <1>5, <2>1, <2>2, <2>3, <2>4, DecidedStay
<1> QED  BY <1>5, <1>7, <1>8, <1>9, <1>10 DEF AlertInv

(* A claim is granted when the key is not there, or is not asked for.      *)
LEMMA ClaimKeeps ==
  ASSUME AlertInv, NEW t \in MCAlerts, Alerting!Claim(t) \/ Alerting!ClaimLost(t)
  PROVE  AlertInv'
<1>1. /\ AlertTypes /\ task \in [MCAlerts -> AlertRecord] /\ clock \in Nat /\ muted \in Nat
      /\ claim \in Nat /\ faults \in Nat /\ Suppress \in Nat
  BY AlertBounds DEF AlertInv, AlertTypes
<1>2. /\ task[t].pc = "claim" /\ task[t].kind = "fallback"
      /\ UNCHANGED <<clock, counted, muted, localFailures, event, posted>>
  BY DEF AlertInv, Stages, Alerting!Claim, Alerting!ClaimLost, Alerting!local
<1>3. /\ claim' \in Nat /\ claim' >= claim /\ faults' \in Nat /\ faults' >= faults /\ muted' >= muted
  <2>1. claim' = claim \/ (claim <= clock /\ claim' = clock + Suppress)
    BY DEF Alerting!Claim, Alerting!ClaimLost, Alerting!Free
  <2>2. faults' = faults \/ faults' = faults + 1
    BY DEF Alerting!Claim, Alerting!ClaimLost, Alerting!Fine, Alerting!Trouble
  <2> QED  BY <1>1, <1>2, <2>1, <2>2
<1>4. PICK send \in BOOLEAN, alone \in BOOLEAN :
        /\ Alerting!Goes(t, send, alone)
        /\ send /\ ~ alone => claim <= clock /\ claim' >= clock + Suppress
  <2>1. CASE Alerting!Claim(t)
    <3>1. Alerting!Goes(t, Alerting!Free(claim), FALSE)
          /\ claim' = IF Alerting!Free(claim) THEN clock + Suppress ELSE claim
      BY <2>1 DEF Alerting!Claim
    <3>2. Alerting!Free(claim) \in BOOLEAN /\ (Alerting!Free(claim) <=> claim <= clock)
      BY DEF Alerting!Free
    <3>3. Alerting!Free(claim) => claim <= clock /\ claim' >= clock + Suppress
      BY <1>1, <3>1, <3>2
    <3> QED  BY <3>1, <3>2, <3>3
  <2>2. CASE Alerting!ClaimLost(t)
    BY <2>2 DEF Alerting!ClaimLost
  <2> QED  BY <2>1, <2>2
<1>5. /\ AlertTypes' /\ Stages' /\ KeysOutlast' /\ Told' /\ Alerting!BurstEarned'
      /\ Alerting!OncePerWindow'
  BY <1>1, <1>2, <1>3, <1>4, GoesKeeps
<1>6. FailuresCounted'
  <2>1. /\ \A u \in MCAlerts : u # t => task'[u] = task[u]
        /\ task'[t].kind = "fallback"
    BY <1>1, <1>2, <1>4, TaskGoes
  <2>2. Counted' = Counted
    BY <1>2, <2>1 DEF Counted
  <2> QED  BY <1>2, <2>2 DEF AlertInv, FailuresCounted
<1> QED  BY <1>5, <1>6 DEF AlertInv

(* The failures that a count finds recent were counted in the window, and  *)
(* so is the one it adds.                                                  *)
LEMMA RecentCounted ==
  ASSUME AlertInv, NEW t \in MCAlerts, task[t].pc = "count", NEW send \in BOOLEAN,
         NEW alone \in BOOLEAN, Alerting!Goes(t, send, alone), clock' = clock,
         NEW S \in SUBSET Counted
  PROVE  /\ Counted \subseteq Counted' /\ t \in Counted'
         /\ Alerting!Recent(S) \cup {t} \subseteq Counted'
         /\ Cardinality(Alerting!Recent(S) \cup {t}) \in Nat
         /\ Cardinality(Alerting!Before(clock)') \in Nat
         /\ Cardinality(Alerting!Recent(S) \cup {t}) <= Cardinality(Alerting!Before(clock)')
<1>1. /\ task \in [MCAlerts -> AlertRecord] /\ clock \in Nat \ {0}
      /\ task[t].kind = "burst" /\ task[t].when = 0
      /\ \A u \in MCAlerts : task[u].when \in Nat /\ task[u].when <= clock
  BY DEF AlertInv, AlertTypes, Stages, Waiting, AlertRecord
<1>2. /\ \A u \in MCAlerts : u # t => task'[u] = task[u]
      /\ task'[t].when = clock /\ task'[t].kind = "burst"
  BY <1>1, TaskGoes
<1>3. Counted \subseteq Counted' /\ t \in Counted' /\ t \notin Counted
  BY <1>1, <1>2 DEF Counted
<1>4. Alerting!Recent(S) \subseteq S
  BY DEF Alerting!Recent
<1> DEFINE set == Alerting!Recent(S) \cup {t}
<1>5. set \subseteq Counted' /\ set \subseteq MCAlerts
  BY <1>3, <1>4 DEF Counted
<1>6. PICK x \in Nat : x = clock
  BY <1>1
<1>7. set \subseteq Alerting!Before(x)' /\ Alerting!Before(x)' \subseteq MCAlerts
  <2>1. Alerting!Before(x)' \subseteq MCAlerts
    BY DEF Alerting!Before
  <2>2. ASSUME NEW u \in set PROVE u \in Alerting!Before(x)'
    <3>1. CASE u = t
      BY <1>1, <1>2, <1>6, <3>1, AlertBounds DEF Alerting!Before
    <3>2. CASE u # t
      <4>1. u \in Alerting!Recent(S) /\ u \in Counted /\ u \in MCAlerts
        BY <1>4, <3>2 DEF Counted
      <4>2. task[u].kind = "burst" /\ task[u].when > 0 /\ task[u].when >= clock - Window
        BY <4>1 DEF Counted, Alerting!Recent
      <4> QED  BY <1>1, <1>2, <1>6, <3>2, <4>1, <4>2, AlertBounds DEF Alerting!Before
    <3> QED  BY <3>1, <3>2
  <2> QED  BY <2>1, <2>2
<1> HIDE DEF set
<1>8. /\ Cardinality(set) \in Nat /\ Cardinality(Alerting!Before(x)') \in Nat
      /\ Cardinality(set) <= Cardinality(Alerting!Before(x)')
  BY <1>5, <1>7, AlertsFinite, FS_Subset
<1> QED  BY <1>3, <1>5, <1>6, <1>8 DEF set

LEMMA CountSharedKeeps ==
  ASSUME AlertInv, NEW t \in MCAlerts, Alerting!CountShared(t)
  PROVE  AlertInv'
<1>1. /\ AlertTypes /\ task \in [MCAlerts -> AlertRecord] /\ clock \in Nat /\ muted \in Nat
      /\ claim \in Nat /\ faults \in Nat /\ Dedup \in Nat /\ Dedup > 0 /\ Threshold \in Nat
  BY AlertBounds DEF AlertInv, AlertTypes
<1> DEFINE set == Alerting!Recent(counted) \cup {t}
           send == muted' # muted
<1>2. /\ task[t].pc = "count" /\ counted' = set /\ Alerting!Goes(t, send, FALSE)
      /\ muted' = IF Alerting!Reached(set) /\ Alerting!Free(muted) THEN clock + Dedup ELSE muted
      /\ UNCHANGED <<clock, claim, localFailures, event, posted, faults>>
  BY DEF Alerting!CountShared, Alerting!Record, Alerting!Fine, Alerting!local
<1>3. task[t].kind = "burst" /\ counted \in SUBSET Counted
  BY <1>2 DEF AlertInv, Stages, FailuresCounted
<1>4. /\ Counted \subseteq Counted' /\ set \subseteq Counted' /\ Cardinality(set) \in Nat
      /\ Cardinality(set) <= Cardinality(Alerting!Before(clock)')
      /\ Cardinality(Alerting!Before(clock)') \in Nat
  <2>1. send \in BOOLEAN
    OBVIOUS
  <2> HIDE DEF send
  <2> QED  BY <1>2, <1>3, <2>1, RecentCounted
<1>5. /\ send => Cardinality(set) >= Threshold /\ muted <= clock
      /\ muted' \in Nat /\ muted' >= muted /\ (send => muted' >= clock + Dedup)
  <2> HIDE DEF set
  <2>1. Alerting!Reached(set) <=> Cardinality(set) >= Threshold
    BY AlertCounts DEF Alerting!Reached
  <2>2. Alerting!Free(muted) <=> muted <= clock
    BY DEF Alerting!Free
  <2>3. muted' = muted \/ (Cardinality(set) >= Threshold /\ muted <= clock /\ muted' = clock + Dedup)
    BY <1>2, <2>1, <2>2
  <2> QED  BY <1>1, <2>3
<1>6. send => Cardinality(Alerting!Before(clock)') >= Threshold
  <2> HIDE DEF set, send
  <2> QED  BY <1>1, <1>4, <1>5
<1>7. FailuresCounted'
  BY <1>2, <1>4 DEF AlertInv, FailuresCounted
<1>8. send \in BOOLEAN
  OBVIOUS
<1> HIDE DEF set, send
<1>9. faults' \in Nat /\ faults' >= faults /\ claim' \in Nat /\ claim' >= claim
  BY <1>1, <1>2
<1>10. /\ AlertTypes' /\ Stages' /\ KeysOutlast' /\ Told' /\ Alerting!BurstEarned'
       /\ Alerting!OncePerWindow'
  BY <1>2, <1>3, <1>5, <1>6, <1>8, <1>9, GoesKeeps
<1> QED  BY <1>7, <1>10 DEF AlertInv

LEMMA CountAloneKeeps ==
  ASSUME AlertInv, NEW t \in MCAlerts, Alerting!CountAlone(t)
  PROVE  AlertInv'
<1>1. /\ AlertTypes /\ task \in [MCAlerts -> AlertRecord] /\ clock \in Nat /\ muted \in Nat
      /\ claim \in Nat /\ faults \in Nat /\ Dedup \in Nat /\ Dedup > 0 /\ Threshold \in Nat
  BY AlertBounds DEF AlertInv, AlertTypes
<1>2. PICK w \in Workers : w = task[t].at
  BY DEF AlertInv, Stages, Alerting!CountAlone
<1> DEFINE own == Alerting!Recent(localFailures[w]) \cup {t}
           send == Alerting!Reached(own) /\ (localMuted[w] = 0 \/ clock - localMuted[w] >= Dedup)
<1>3. /\ task[t].pc = "count" /\ Alerting!Goes(t, send, TRUE) /\ faults' = faults + 1
      /\ Alerting!Record(t) \/ UNCHANGED <<counted, muted>>
      /\ localFailures' = [localFailures EXCEPT ![w] = own]
      /\ UNCHANGED <<clock, claim, event, posted>>
  BY <1>2 DEF Alerting!CountAlone, Alerting!Trouble
<1>4. /\ task[t].kind = "burst" /\ counted \in SUBSET Counted /\ localFailures[w] \in SUBSET Counted
      /\ localFailures \in [Workers -> SUBSET Counted]
  BY <1>3 DEF AlertInv, Stages, FailuresCounted
<1>5. send \in BOOLEAN /\ (send => Cardinality(own) >= Threshold)
  BY AlertCounts DEF Alerting!Reached
<1> HIDE DEF send
<1>6. /\ Counted \subseteq Counted' /\ own \subseteq Counted' /\ Cardinality(own) \in Nat
      /\ Cardinality(own) <= Cardinality(Alerting!Before(clock)')
      /\ Cardinality(Alerting!Before(clock)') \in Nat
  BY <1>3, <1>4, <1>5, RecentCounted
<1>7. t \in Counted' /\ Alerting!Recent(counted) \cup {t} \subseteq Counted'
  BY <1>3, <1>4, <1>5, RecentCounted
<1> HIDE DEF own
<1>8. send => Cardinality(Alerting!Before(clock)') >= Threshold
  BY <1>1, <1>5, <1>6
<1>9. muted' \in Nat /\ muted' >= muted
  <2>1. muted' = muted \/ (muted <= clock /\ muted' = clock + Dedup)
    BY <1>3 DEF Alerting!Record, Alerting!Free
  <2> QED  BY <1>1, <2>1
<1>10. FailuresCounted'
  <2>1. counted' \subseteq Counted'
    BY <1>3, <1>4, <1>6, <1>7 DEF Alerting!Record
  <2>2. localFailures' \in [Workers -> SUBSET Counted']
    BY <1>3, <1>4, <1>6
  <2> QED  BY <2>1, <2>2 DEF FailuresCounted
<1>11. faults' \in Nat /\ faults' >= faults /\ claim' \in Nat /\ claim' >= claim
  BY <1>1, <1>3
<1>12. /\ AlertTypes' /\ Stages' /\ KeysOutlast' /\ Told' /\ Alerting!BurstEarned'
       /\ Alerting!OncePerWindow'
  BY <1>3, <1>4, <1>5, <1>8, <1>9, <1>11, GoesKeeps
<1> QED  BY <1>10, <1>12 DEF AlertInv

(* A task that goes on keeps its time and its kind. *)
LEMMA ProceedKeeps ==
  ASSUME AlertInv, AlertTypes', Stages', Told', NEW t \in MCAlerts,
         \A u \in MCAlerts : u # t => task'[u] = task[u],
         task[t].pc \notin {"unused", "claim"}, task'[t].pc \notin {"unused", "claim", "count"},
         task[t].pc = "count" => task'[t].pc = "done" /\ event' = event /\ posted' = posted,
         task'[t].kind = task[t].kind /\ task'[t].when = task[t].when /\ task'[t].alone = task[t].alone,
         \A u \in MCAlerts : u # t => event'[u] = event[u] /\ (u \in posted' <=> u \in posted),
         task[t].pc = "done" => task'[t].pc = "done" /\ event' = event /\ posted' = posted,
         UNCHANGED <<counted, muted, claim, localFailures>>
  PROVE  AlertInv'
<1>1. \A u \in MCAlerts : /\ task'[u].when = task[u].when /\ task'[u].alone = task[u].alone
                          /\ task'[u].kind = task[u].kind
  OBVIOUS
<1>2. FailuresCounted'
  <2>1. Counted' = Counted
    BY <1>1 DEF Counted
  <2> QED  BY <2>1 DEF AlertInv, FailuresCounted
<1>3. \A u \in MCAlerts : Alerting!Decided(u)' => Alerting!Decided(u)
  <2>1. \A u \in MCAlerts : u # t => (Alerting!Decided(u)' => Alerting!Decided(u))
    BY DEF Alerting!Decided
  <2>2. task[t].pc \in {"count", "done"} \cup Sending
    BY DEF AlertInv, AlertTypes, AlertRecord, Waiting
  <2>3. CASE task[t].pc \in Sending
    BY <2>1, <2>3 DEF Alerting!Decided, Sending
  <2>4. CASE task[t].pc \in {"count", "done"}
    BY <2>1, <2>4 DEF Alerting!Decided
  <2> QED  BY <2>2, <2>3, <2>4
<1>4. muted' >= muted /\ claim' >= claim
  BY DEF AlertInv, AlertTypes
<1> QED  BY <1>1, <1>2, <1>3, <1>4, DecidedStay DEF AlertInv

LEMMA DisabledKeeps ==
  ASSUME AlertInv, NEW t \in MCAlerts, Alerting!Disabled(t)
  PROVE  AlertInv'
<1>1. /\ task[t].pc \in {"count", "create"} /\ task' = [task EXCEPT ![t].pc = "done"]
      /\ UNCHANGED <<clock, claim, counted, muted, localFailures, event, posted, faults>>
  BY DEF Alerting!Disabled, Alerting!local, Alerting!shared
<1>2. AlertTypes /\ task \in [MCAlerts -> AlertRecord]
  BY DEF AlertInv, AlertTypes
<1>3. /\ task' \in [MCAlerts -> AlertRecord] /\ \A u \in MCAlerts : u # t => task'[u] = task[u]
      /\ task'[t].pc = "done" /\ task'[t].kind = task[t].kind /\ task'[t].at = task[t].at
      /\ task'[t].when = task[t].when /\ task'[t].alone = task[t].alone
      /\ task'[t].ok = task[t].ok /\ task'[t].known = task[t].known
  BY <1>1, <1>2, TaskEnds
<1>4. AlertTypes'
  BY <1>1, <1>2, <1>3 DEF AlertTypes
<1>5. Stages'
  BY <1>1, <1>3 DEF AlertInv, Stages, Waiting
<1>6. Told'
  BY <1>1, <1>3 DEF AlertInv, Told, Stages, Waiting
<1> QED  BY <1>1, <1>3, <1>4, <1>5, <1>6, ProceedKeeps

(* The task enters its record, posts, and completes the record.            *)
LEMMA CreateKeeps ==
  ASSUME AlertInv, NEW t \in MCAlerts, Alerting!Create(t)
  PROVE  AlertInv'
<1>1. /\ AlertTypes /\ task \in [MCAlerts -> AlertRecord] /\ faults \in Nat
      /\ event \in [MCAlerts -> {"none", "pending", "sent", "failed"}]
  BY DEF AlertInv, AlertTypes
<1>2. PICK pc \in Stage : pc = "post"
  BY DEF Stage, Sending
<1>3. /\ task[t].pc = "create" /\ event' \in {event, [event EXCEPT ![t] = "pending"]}
      /\ UNCHANGED <<clock, claim, counted, muted, localFailures, posted>>
      /\ \/ faults' = faults /\ task' = [task EXCEPT ![t].pc = pc, ![t].known = TRUE]
         \/ faults' = faults + 1 /\ task' = [task EXCEPT ![t].pc = pc]
  BY <1>2 DEF Alerting!Create, Alerting!Entered, Alerting!Fine, Alerting!Trouble, Alerting!local,
     Alerting!shared
<1>4. /\ task' \in [MCAlerts -> AlertRecord] /\ \A u \in MCAlerts : u # t => task'[u] = task[u]
      /\ task'[t].pc = "post" /\ task'[t].kind = task[t].kind /\ task'[t].at = task[t].at
      /\ task'[t].when = task[t].when /\ task'[t].alone = task[t].alone
      /\ task'[t].ok = task[t].ok
      /\ (faults' = faults /\ task'[t].known) \/ faults' = faults + 1
  BY <1>1, <1>2, <1>3, TaskProceeds
<1>5. /\ event' \in [MCAlerts -> {"none", "pending", "sent", "failed"}]
      /\ event'[t] \in {event[t], "pending"}
      /\ \A u \in MCAlerts : u # t => event'[u] = event[u]
  BY <1>1, <1>3
<1>6. AlertTypes'
  BY <1>1, <1>3, <1>4, <1>5 DEF AlertTypes
<1>7. Stages'
  BY <1>3, <1>4, <1>5 DEF AlertInv, Stages, Waiting
<1>8. Told'
  <2> SUFFICES ASSUME NEW u \in MCAlerts
               PROVE  /\ task'[u].ok => u \in posted
                      /\ event'[u] = "sent" => u \in posted
                      /\ faults' = 0 =>
                           /\ task'[u].pc \in {"post", "complete"} => task'[u].known
                           /\ task'[u].pc = "create" \/ task'[u].pc = "post" => u \notin posted
                           /\ task'[u].pc = "complete" => task'[u].ok
                           /\ task'[u].pc = "done" /\ u \in posted => event'[u] = "sent"
    BY <1>3 DEF Told
  <2>1. CASE u = t
    BY <1>1, <1>3, <1>4, <1>5, <2>1 DEF AlertInv, Told
  <2>2. CASE u # t
    BY <1>1, <1>3, <1>4, <1>5, <2>2 DEF AlertInv, Told
  <2> QED  BY <2>1, <2>2
<1> QED  BY <1>3, <1>4, <1>5, <1>6, <1>7, <1>8, ProceedKeeps

LEMMA PostKeeps ==
  ASSUME AlertInv, NEW t \in MCAlerts, Alerting!Post(t)
  PROVE  AlertInv'
<1>1. /\ AlertTypes /\ task \in [MCAlerts -> AlertRecord] /\ faults \in Nat /\ posted \subseteq MCAlerts
  BY DEF AlertInv, AlertTypes
<1>2. PICK pc \in Stage : pc = "complete"
  BY DEF Stage, Sending
<1>3. /\ task[t].pc = "post" /\ posted' \in {posted, posted \cup {t}}
      /\ UNCHANGED <<clock, claim, counted, muted, localFailures, event>>
      /\ \/ faults' = faults /\ task' = [task EXCEPT ![t].pc = pc, ![t].ok = TRUE] /\ t \in posted'
         \/ faults' = faults + 1 /\ task' = [task EXCEPT ![t].pc = pc]
  BY <1>2 DEF Alerting!Post, Alerting!Fine, Alerting!Trouble, Alerting!local, Alerting!shared
<1>4. /\ task' \in [MCAlerts -> AlertRecord] /\ \A u \in MCAlerts : u # t => task'[u] = task[u]
      /\ task'[t].pc = "complete" /\ task'[t].kind = task[t].kind /\ task'[t].at = task[t].at
      /\ task'[t].when = task[t].when /\ task'[t].alone = task[t].alone
      /\ task'[t].known = task[t].known
      /\ \/ faults' = faults /\ task'[t].ok /\ t \in posted'
         \/ faults' = faults + 1 /\ task'[t].ok = task[t].ok
  BY <1>1, <1>2, <1>3, TaskProceeds
<1>5. posted \subseteq posted' /\ posted' \subseteq MCAlerts
      /\ \A u \in MCAlerts : u # t => (u \in posted' <=> u \in posted)
  BY <1>1, <1>3
<1>6. AlertTypes'
  BY <1>1, <1>3, <1>4, <1>5 DEF AlertTypes
<1>7. Stages'
  BY <1>3, <1>4, <1>5 DEF AlertInv, Stages, Waiting
<1>8. Told'
  <2> SUFFICES ASSUME NEW u \in MCAlerts
               PROVE  /\ task'[u].ok => u \in posted'
                      /\ event[u] = "sent" => u \in posted'
                      /\ faults' = 0 =>
                           /\ task'[u].pc \in {"post", "complete"} => task'[u].known
                           /\ task'[u].pc = "create" \/ task'[u].pc = "post" => u \notin posted'
                           /\ task'[u].pc = "complete" => task'[u].ok
                           /\ task'[u].pc = "done" /\ u \in posted' => event[u] = "sent"
    BY <1>3 DEF Told
  <2>1. CASE u = t
    BY <1>1, <1>3, <1>4, <1>5, <2>1 DEF AlertInv, Told
  <2>2. CASE u # t
    BY <1>1, <1>3, <1>4, <1>5, <2>2 DEF AlertInv, Told
  <2> QED  BY <2>1, <2>2
<1> QED  BY <1>3, <1>4, <1>5, <1>6, <1>7, <1>8, ProceedKeeps

LEMMA CompleteKeeps ==
  ASSUME AlertInv, NEW t \in MCAlerts, Alerting!Complete(t)
  PROVE  AlertInv'
<1>1. /\ AlertTypes /\ task \in [MCAlerts -> AlertRecord] /\ faults \in Nat
      /\ event \in [MCAlerts -> {"none", "pending", "sent", "failed"}]
  BY DEF AlertInv, AlertTypes
<1>2. PICK word \in {"sent", "failed"} : word = Alerting!Word(task[t].ok)
  BY DEF Alerting!Word
<1>3. /\ task[t].pc = "complete" /\ task' = [task EXCEPT ![t].pc = "done"]
      /\ UNCHANGED <<clock, claim, counted, muted, localFailures, posted>>
      /\ event' \in {event, [event EXCEPT ![t] = word]}
      /\ faults' \in {faults, faults + 1}
      /\ faults' = faults /\ task[t].known => event' = [event EXCEPT ![t] = word]
  <2> DEFINE written == [event EXCEPT ![t] = Alerting!Word(task[t].ok)]
  <2>1. written = [event EXCEPT ![t] = word]
    BY <1>2
  <2>2. /\ task[t].pc = "complete" /\ task' = [task EXCEPT ![t].pc = "done"]
        /\ UNCHANGED <<clock, claim, counted, muted, localFailures, posted>>
        /\ IF task[t].known
           THEN (event' = written /\ UNCHANGED faults)
                \/ (event' \in {event, written} /\ faults' = faults + 1)
           ELSE UNCHANGED <<event, faults>>
    BY Zenon DEF Alerting!Complete, Alerting!Fine, Alerting!Trouble, Alerting!local,
       Alerting!shared
  <2> HIDE DEF written
  <2> QED  BY <1>1, <2>1, <2>2
<1>4. /\ task' \in [MCAlerts -> AlertRecord] /\ \A u \in MCAlerts : u # t => task'[u] = task[u]
      /\ task'[t].pc = "done" /\ task'[t].kind = task[t].kind /\ task'[t].at = task[t].at
      /\ task'[t].when = task[t].when /\ task'[t].alone = task[t].alone
      /\ task'[t].ok = task[t].ok
  BY <1>1, <1>3, TaskEnds
<1>5. /\ event' \in [MCAlerts -> {"none", "pending", "sent", "failed"}]
      /\ event'[t] \in {event[t], word}
      /\ faults' = faults /\ task[t].known => event'[t] = word
      /\ \A u \in MCAlerts : u # t => event'[u] = event[u]
  BY <1>1, <1>2, <1>3
<1>6. word = "sent" <=> task[t].ok
  BY <1>2 DEF Alerting!Word
<1>7. AlertTypes'
  BY <1>1, <1>3, <1>4, <1>5 DEF AlertTypes
<1>8. Stages'
  BY <1>3, <1>4, <1>5 DEF AlertInv, Stages, Waiting
<1>9. Told'
  <2> SUFFICES ASSUME NEW u \in MCAlerts
               PROVE  /\ task'[u].ok => u \in posted
                      /\ event'[u] = "sent" => u \in posted
                      /\ faults' = 0 =>
                           /\ task'[u].pc \in {"post", "complete"} => task'[u].known
                           /\ task'[u].pc = "create" \/ task'[u].pc = "post" => u \notin posted
                           /\ task'[u].pc = "complete" => task'[u].ok
                           /\ task'[u].pc = "done" /\ u \in posted => event'[u] = "sent"
    BY <1>3 DEF Told
  <2>1. faults' = 0 => faults = 0 /\ faults' = faults
    BY <1>1, <1>3
  <2>2. CASE u = t
    BY <1>3, <1>4, <1>5, <1>6, <2>1, <2>2 DEF AlertInv, Told
  <2>3. CASE u # t
    BY <1>3, <1>4, <1>5, <2>1, <2>3 DEF AlertInv, Told
  <2> QED  BY <2>2, <2>3
<1> QED  BY <1>3, <1>4, <1>5, <1>7, <1>8, <1>9, ProceedKeeps

(* A new process has done with the tasks of the old one. *)
LEMMA RestartKeeps ==
  ASSUME AlertInv, NEW w \in Workers, Alerting!Restart(w)
  PROVE  AlertInv'
<1>1. /\ AlertTypes /\ task \in [MCAlerts -> AlertRecord] /\ faults \in Nat
  BY DEF AlertInv, AlertTypes
<1>2. /\ task' = [t \in MCAlerts |-> IF task[t].at = w THEN [task[t] EXCEPT !.pc = "done"] ELSE task[t]]
      /\ localFailures' = [localFailures EXCEPT ![w] = {}] /\ faults' = faults + 1
      /\ UNCHANGED <<clock, claim, counted, muted, event, posted>>
  BY DEF Alerting!Restart, Alerting!Trouble, Alerting!shared
<1>3. ASSUME NEW t \in MCAlerts
      PROVE  /\ task'[t] \in AlertRecord /\ task'[t].kind = task[t].kind /\ task'[t].at = task[t].at
             /\ task'[t].when = task[t].when /\ task'[t].alone = task[t].alone
             /\ task'[t].ok = task[t].ok
             /\ task'[t].pc = task[t].pc \/ (task'[t].pc = "done" /\ task[t].pc # "unused")
  <2>1. PICK q \in AlertRecord : q = task[t]
    BY <1>1
  <2>2. PICK x : x = [q EXCEPT !.pc = "done"]
    OBVIOUS
  <2>3. /\ x \in AlertRecord /\ x.pc = "done" /\ x.kind = q.kind /\ x.at = q.at /\ x.when = q.when
        /\ x.alone = q.alone /\ x.ok = q.ok
    BY <2>2 DEF AlertRecord
  <2>4. CASE task[t].at = w
    <3>1. task'[t] = x
      BY <1>2, <2>1, <2>2, <2>4
    <3>2. task[t].pc # "unused"
      <4>1. task[t].pc = "unused" => task[t].at = None
        BY DEF AlertInv, Stages
      <4> QED  BY <2>4, <4>1, AlertBounds
    <3> QED  BY <2>1, <2>3, <3>1, <3>2
  <2>5. CASE task[t].at # w
    BY <1>2, <2>1, <2>5
  <2> QED  BY <2>4, <2>5
<1>4. AlertTypes'
  <2>1. task' = [t \in MCAlerts |-> task'[t]]
    BY <1>2
  <2>2. task' \in [MCAlerts -> AlertRecord]
    BY <1>3, <2>1
  <2> QED  BY <1>1, <1>2, <2>2 DEF AlertTypes
<1>5. Stages'
  <2> SUFFICES ASSUME NEW t \in MCAlerts
               PROVE  /\ task'[t].when <= clock
                      /\ task'[t].pc \in Waiting => task'[t].when = 0 /\ event[t] = "none" /\ t \notin posted
                      /\ task'[t].pc = "unused" <=> task'[t].kind = "none"
                      /\ task'[t].pc = "unused" => task'[t].at = None
                      /\ task'[t].pc # "unused" => task'[t].at \in Workers
                      /\ task'[t].pc = "claim" => task'[t].kind = "fallback"
                      /\ task'[t].pc = "count" => task'[t].kind = "burst"
    BY <1>2 DEF Stages
  <2> QED  BY <1>3 DEF AlertInv, Stages, Waiting
<1>6. FailuresCounted'
  <2>1. Counted' = Counted
    BY <1>3 DEF Counted
  <2> QED  BY <1>2, <2>1 DEF AlertInv, FailuresCounted
<1>7. Told'
  BY <1>1, <1>2, <1>3 DEF AlertInv, Told
<1>8. \A t \in MCAlerts : Alerting!Decided(t)' => Alerting!Decided(t)
  BY <1>2, <1>3 DEF Alerting!Decided
<1>9. muted' >= muted /\ claim' >= claim
  BY <1>2 DEF AlertInv, AlertTypes
<1>10. KeysOutlast' /\ Alerting!BurstEarned' /\ Alerting!OncePerWindow'
  BY <1>3, <1>4, <1>8, <1>9, DecidedStay
<1> QED  BY <1>4, <1>5, <1>6, <1>7, <1>10 DEF AlertInv

LEMMA AlertStep ==
  ASSUME AlertInv, Alerting!Next \/ UNCHANGED Alerting!vars
  PROVE  AlertInv'
<1>1. ASSUME UNCHANGED <<task, claim, counted, muted, localFailures, event, posted>>,
             clock' \in {clock, clock + 1}, faults' \in {faults, faults + 1}
      PROVE  AlertInv'
  <2>1. AlertTypes'
    BY <1>1 DEF AlertInv, AlertTypes
  <2>2. Stages'
    <3>1. \A t \in MCAlerts : task[t].when \in Nat /\ task[t].when <= clock'
      BY <1>1 DEF AlertInv, AlertTypes, AlertRecord, Stages
    <3> QED  BY <1>1, <3>1 DEF AlertInv, Stages
  <2>3. FailuresCounted'
    BY <1>1 DEF AlertInv, FailuresCounted, Counted
  <2>4. Told'
    <3>1. faults' = 0 => faults = 0
      BY <1>1 DEF AlertInv, AlertTypes
    <3> QED  BY <1>1, <3>1 DEF AlertInv, Told
  <2>5. \A t \in MCAlerts : Alerting!Decided(t)' <=> Alerting!Decided(t)
    BY <1>1 DEF Alerting!Decided
  <2>6. muted' >= muted /\ claim' >= claim
    BY <1>1 DEF AlertInv, AlertTypes
  <2>7. KeysOutlast' /\ Alerting!BurstEarned' /\ Alerting!OncePerWindow'
    BY <1>1, <2>1, <2>5, <2>6, DecidedStay
  <2> QED  BY <2>1, <2>2, <2>3, <2>4, <2>7 DEF AlertInv
<1>2. ASSUME NEW t \in MCAlerts, Alerting!Runs(t) PROVE AlertInv'
  BY <1>2, ClaimKeeps, CountSharedKeeps, CountAloneKeeps, DisabledKeeps, CreateKeeps, PostKeeps,
     CompleteKeeps DEF Alerting!Runs
<1>3. ASSUME NEW t \in MCAlerts, NEW w \in Workers,
             Alerting!Notify(t, w) \/ Alerting!Schedule(t, w) \/ Alerting!TestDestination(t, w)
      PROVE  AlertInv'
  BY <1>3, StartKeeps
<1>4. ASSUME NEW w \in Workers, Alerting!Configure(w) PROVE AlertInv'
  BY <1>1, <1>4 DEF Alerting!Configure, Alerting!Trouble, Alerting!local, Alerting!shared
<1>5. CASE Alerting!Tick
  BY <1>1, <1>5 DEF Alerting!Tick, Alerting!local, Alerting!shared
<1>6. CASE UNCHANGED Alerting!vars
  BY <1>1, <1>6 DEF Alerting!vars, Alerting!local, Alerting!shared
<1> QED  BY <1>2, <1>3, <1>4, <1>5, <1>6, RestartKeeps DEF Alerting!Next

LEMMA AlertHolds == Alerting!Spec => []AlertInv
<1>1. AlertInv /\ [Alerting!Next]_(Alerting!vars) => AlertInv'
  BY AlertStep
<1> QED  BY <1>1, AlertInit, PTL DEF Alerting!Spec

-----------------------------------------------------------------------------
(* Each part of the instance follows its own module. *)
LEMMA PartsFollow == PartsSpec => Spec /\ Guard!Spec /\ Cooldowns!Spec /\ Alerting!Spec
<1>1. PartsInit => Init /\ Guard!Init /\ Cooldowns!Init /\ Alerting!Init
  BY DEF PartsInit
<1>2. [PartsNext]_parts => [Next]_vars
  <2>1. UNCHANGED parts => UNCHANGED vars
    BY DEF parts
  <2>2. PartsNext => Next \/ UNCHANGED vars
    BY DEF PartsNext, KeyPart, GuardPart, CooldownPart, AlertPart
  <2> QED  BY <2>1, <2>2
<1>3. [PartsNext]_parts => [Guard!Next]_(Guard!vars)
  <2>1. UNCHANGED guardVars => UNCHANGED Guard!vars
    BY DEF guardVars, Guard!vars, Guard!guardVars, Guard!leaderVars, Guard!rateVars
  <2>2. UNCHANGED parts => UNCHANGED guardVars
    BY DEF parts
  <2>3. ASSUME NEW x \in {"leader", "limiter"}, GuardPart(x),
               \/ Guard!Tick
               \/ \E w \in Workers :
                    Guard!WarmUp(w) \/ Guard!WarmUpFails(w) \/ Guard!ShutDown(w) \/ Guard!Crash(w)
        PROVE  Guard!Next
    BY <2>3 DEF Guard!Next
  <2>4. ASSUME NEW w \in Workers, Guard!Loop(w) \/ Guard!AcquireFails(w)
        PROVE  Guard!Next
    BY <2>4 DEF Guard!Next
  <2>5. ASSUME \/ \E w \in Workers : Guard!Boot(w)
               \/ \E r \in Calls :
                    Guard!Limiter(r) \/ Guard!Count(r) \/ Guard!Answered(r) \/ Guard!CountFails(r)
        PROVE  Guard!Next
    BY <2>5 DEF Guard!Next, Guard!Boot, Guard!Loop
  <2>6. PartsNext => Guard!Next \/ UNCHANGED guardVars
    BY <2>3, <2>4, <2>5 DEF PartsNext, KeyPart, GuardPart, CooldownPart, AlertPart
  <2> QED  BY <2>1, <2>2, <2>6
<1>4. [PartsNext]_parts => [Cooldowns!Next]_(Cooldowns!vars)
  <2>1. UNCHANGED cooldownVars => UNCHANGED Cooldowns!vars
    BY DEF cooldownVars, Cooldowns!vars, Cooldowns!local, Cooldowns!tasks, Cooldowns!loop,
       Cooldowns!shared
  <2>2. UNCHANGED parts => UNCHANGED cooldownVars
    BY DEF parts
  <2>3. PartsNext => Cooldowns!Next \/ UNCHANGED cooldownVars
    BY DEF PartsNext, KeyPart, GuardPart, CooldownPart, AlertPart
  <2> QED  BY <2>1, <2>2, <2>3
<1>5. [PartsNext]_parts => [Alerting!Next]_(Alerting!vars)
  <2>1. UNCHANGED alertVars => UNCHANGED Alerting!vars
    BY DEF alertVars, Alerting!vars, Alerting!local, Alerting!shared
  <2>2. UNCHANGED parts => UNCHANGED alertVars
    BY DEF parts
  <2>3. PartsNext => Alerting!Next \/ UNCHANGED alertVars
    BY DEF PartsNext, KeyPart, GuardPart, CooldownPart, AlertPart, Alerting!Next, MCAlerts
  <2> QED  BY <2>1, <2>2, <2>3
<1> QED
  BY <1>1, <1>2, <1>3, <1>4, <1>5, PTL
     DEF PartsSpec, Spec, Guard!Spec, Cooldowns!Spec, Alerting!Spec

(* Two workers run the reconcile loop at once only when one of them went   *)
(* ahead without Redis or outlived its lease on the clock, whatever        *)
(* restarts, lost answers and releases lie between                         *)
(* (distributed_state.py, LeaderLock).                                     *)
THEOREM LeadershipIsExclusive == PartsSpec => []OneLeader
<1>1. LeaderInv => OneLeader
  BY DEF LeaderInv, LeaderTypes, LeaseHeld, Holds, OneLeader, Guard!OneLeader
<1> QED  BY <1>1, PartsFollow, LeaderHolds, PTL

(* In a minute a user gets the limit from Redis, and once more from each   *)
(* process that had to count alone: a request that Redis counted and whose *)
(* answer was lost is counted again, never let through twice               *)
(* (rate_limiter.py, allow).                                               *)
THEOREM LimitHoldsAlways == PartsSpec => []LimitHolds
<1>1. RateInv => LimitHolds
  <2> SUFFICES ASSUME RateInv, NEW m \in Minutes PROVE admitted[m] <= Limit * (1 + opened[m])
    BY DEF LimitHolds, Guard!LimitHolds, Guard!Minutes, Minutes
  <2>1. RateTypes /\ Budget(m)
    BY DEF RateInv
  <2>2. /\ admitted[m] \in Nat /\ Spare(m) \in Nat /\ Limit * opened[m] \in Nat /\ opened[m] \in Nat
        /\ Cardinality(Promised(m)) \in Nat /\ Cardinality(InBuckets(m)) \in Nat /\ Limit \in Nat
    BY <2>1, CountsAreNumbers, LimitIsPositive
  <2>3. admitted[m] <= Limit + Limit * opened[m]
    BY <2>1, <2>2 DEF Budget
  <2>4. Limit * (1 + opened[m]) = Limit + Limit * opened[m]
    BY <2>2
  <2> QED  BY <2>3, <2>4
<1> QED  BY <1>1, PartsFollow, RateHolds, PTL

(* Every cooldown that Redis begins took allowed_fails failures that no    *)
(* other cooldown took, in whatever order the workers report them          *)
(* (distributed_state.py, SharedCooldownRegistry).                         *)
THEOREM CooldownsAreEarned == PartsSpec => []CooldownsEarned
<1>1. CoolInv => CooldownsEarned
  BY CooldownCounts DEF CoolInv, CooldownsEarned, Cooldowns!CooldownsEarned
<1> QED  BY <1>1, PartsFollow, CoolHolds, PTL

(* An alert of a burst reports one, the workers that see the same outage   *)
(* send one alert of a kind in its window but for those Redis did not      *)
(* answer, and the record of an alert says "sent" only of one the robot    *)
(* has (fallback_alerts.py, alert_history.py).                             *)
THEOREM AlertsStayHonest == PartsSpec => []AlertsHonest
<1>1. AlertInv => AlertsHonest
  <2> SUFFICES ASSUME AlertInv PROVE Alerting!AlertsHonest
    BY DEF AlertsHonest
  <2>1. Alerting!HistoryTruthful
    BY DEF AlertInv, Told, Alerting!HistoryTruthful
  <2> QED  BY <2>1 DEF AlertInv, Alerting!AlertsHonest
<1> QED  BY <1>1, PartsFollow, AlertHolds, PTL
=============================================================================
