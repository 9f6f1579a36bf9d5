---------------------------- MODULE ImageJobProofs ----------------------------
(***************************************************************************)
(* Proofs about ImageJob: types, that images are billed as they are        *)
(* delivered, and that files live as long as their job, for any jobs,      *)
(* workers, channels and number of failures.                               *)
(***************************************************************************)
EXTENDS ImageJob, FiniteSetTheorems, TLAPS

(* The steps at which a loop owns the job it holds. *)
Owning == {"claimed", "sent", "billing", "completing", "failing", "cleanup"}

(* A loop that is not idle holds a job; it owns a job that it has claimed. *)
Held ==
  \A w \in Workers :
    /\ (pc[w] = "idle") = (held[w] = None)
    /\ pc[w] \in Owning \ {"cleanup"} => status[held[w]] = "running"
    /\ pc[w] = "cleanup" => status[held[w]] \in {"running", "completed", "failed"}

(* What the conditional update of the claim is for. *)
OneOwner ==
  \A w, v \in Workers :
    pc[w] \in Owning /\ pc[v] \in Owning /\ held[w] = held[v] => w = v

BilledByStep ==
  /\ \A j \in Jobs : status[j] \in {None, "queued"} => billed[j] = 0
  /\ \A w \in Workers :
       /\ pc[w] \in {"claimed", "sent", "billing", "failing"} => billed[held[w]] = 0
       /\ pc[w] = "completing" => billed[held[w]] = 1

(* Where the row of a request's job stands. *)
RowsByRequest ==
  \A j \in Jobs :
    /\ request[j] \in {"new", "writing"} => status[j] = None
    /\ request[j] = "committed" => status[j] # None
    /\ request[j] = "done" => (told[j] = "accepted" => status[j] # None)
    /\ request[j] # "done" => told[j] = None

FilesByStep ==
  \A j \in Jobs :
    /\ j \in Edits /\ request[j] = "writing" => j \in files
    /\ j \in Edits /\ status[j] = "queued" /\ told[j] # "refused" => j \in files
    /\ j \in files /\ status[j] = None =>
         request[j] = "writing" \/ (request[j] = "done" /\ told[j] = None) \/ j \in broken
    /\ j \in files /\ status[j] \in {"completed", "failed"} =>
         j \in broken \/ \E w \in Workers : held[w] = j /\ pc[w] = "cleanup"

IInv ==
  TypeOK /\ Held /\ OneOwner /\ BilledByStep /\ BilledAsDelivered /\ RowsByRequest /\ FilesByStep

-----------------------------------------------------------------------------
(* A loop that is not idle holds the id of a job. *)
LEMMA HoldsJob ==
  ASSUME TypeOK, Held, NEW w \in Workers, pc[w] # "idle"
  PROVE  held[w] \in Jobs
BY DEF TypeOK, Held

(* The place a new row gets is a natural number. *)
LEMMA PlaceIsNat == 1 + Cardinality({k \in Jobs : status[k] # None}) \in Nat
<1>1. IsFiniteSet({k \in Jobs : status[k] # None})
  BY ImageAssumption, FS_Subset DEF ImageAssumption
<1>2. Cardinality({k \in Jobs : status[k] # None}) \in Nat
  BY <1>1, FS_CardinalityType
<1> QED BY <1>2

(* No job has a row, files or a bill, and every loop is idle. *)
LEMMA InitInv == Init => IInv
<1> SUFFICES ASSUME Init PROVE IInv
  OBVIOUS
<1> USE ImageAssumption DEF ImageAssumption, Init
<1>1. TypeOK BY DEF TypeOK, Steps
<1>2. Held /\ OneOwner BY DEF Held, OneOwner, Owning
<1>3. BilledByStep /\ BilledAsDelivered BY DEF BilledByStep, BilledAsDelivered
<1>4. RowsByRequest /\ FilesByStep BY DEF RowsByRequest, FilesByStep
<1> QED BY <1>1, <1>2, <1>3, <1>4 DEF IInv

(* An edit that begins has its files and no row. *)
LEMMA CreateEditInv ==
  ASSUME IInv, NEW j \in Jobs, CreateEdit(j)
  PROVE  IInv'
<1> USE ImageAssumption DEF ImageAssumption, IInv, CreateEdit, Stored, Begin,
        front, loop, Steps, Owning, TypeOK, Held, OneOwner
<1>1. TypeOK' OBVIOUS
<1>2. Held' OBVIOUS
<1>3. OneOwner' OBVIOUS
<1>4. BilledByStep' BY DEF BilledByStep
<1>5. BilledAsDelivered' BY DEF BilledByStep, BilledAsDelivered
<1>6. RowsByRequest' BY DEF RowsByRequest
<1>7. FilesByStep' BY DEF RowsByRequest, FilesByStep
<1> QED BY <1>1, <1>2, <1>3, <1>4, <1>5, <1>6, <1>7

(* A generation that begins has neither. *)
LEMMA CreateGenerationInv ==
  ASSUME IInv, NEW j \in Jobs, CreateGeneration(j)
  PROVE  IInv'
<1> USE ImageAssumption DEF ImageAssumption, IInv, CreateGeneration, Begin,
        front, loop, Steps, Owning, TypeOK, Held, OneOwner
<1>1. TypeOK' OBVIOUS
<1>2. Held' OBVIOUS
<1>3. OneOwner' OBVIOUS
<1>4. BilledByStep' BY DEF BilledByStep
<1>5. BilledAsDelivered' BY DEF BilledByStep, BilledAsDelivered
<1>6. RowsByRequest' BY DEF RowsByRequest
<1>7. FilesByStep' BY DEF RowsByRequest, FilesByStep
<1> QED BY <1>1, <1>2, <1>3, <1>4, <1>5, <1>6, <1>7

(* A row begins queued, unbilled, with the files of its edit. *)
LEMMA CreateCommitInv ==
  ASSUME IInv, NEW j \in Jobs, CreateCommit(j)
  PROVE  IInv'
<1> USE ImageAssumption DEF ImageAssumption, IInv, CreateCommit,
        front, loop, Steps, Owning, TypeOK, Held, OneOwner
<1>1. TypeOK' BY PlaceIsNat
<1>2. Held' BY DEF RowsByRequest
<1>3. OneOwner' OBVIOUS
<1>4. BilledByStep' BY DEF BilledByStep, RowsByRequest
<1>5. BilledAsDelivered' BY DEF BilledByStep, BilledAsDelivered, RowsByRequest
<1>6. RowsByRequest' BY DEF RowsByRequest
<1>7. FilesByStep' BY DEF RowsByRequest, FilesByStep
<1> QED BY <1>1, <1>2, <1>3, <1>4, <1>5, <1>6, <1>7

(* The client is told of a row that exists. *)
LEMMA AcceptInv ==
  ASSUME IInv, NEW j \in Jobs, Accept(j)
  PROVE  IInv'
<1> USE ImageAssumption DEF ImageAssumption, IInv, Accept, Answer,
        front, loop, Steps, Owning, TypeOK, Held, OneOwner
<1>1. TypeOK' OBVIOUS
<1>2. Held' OBVIOUS
<1>3. OneOwner' OBVIOUS
<1>4. BilledByStep' BY DEF BilledByStep
<1>5. BilledAsDelivered' BY DEF BilledByStep, BilledAsDelivered
<1>6. RowsByRequest' BY DEF RowsByRequest
<1>7. FilesByStep' BY DEF RowsByRequest, FilesByStep
<1> QED BY <1>1, <1>2, <1>3, <1>4, <1>5, <1>6, <1>7

(* A refusal takes the files of a job that is not accepted. *)
LEMMA RefuseInv ==
  ASSUME IInv, NEW j \in Jobs, Refuse(j)
  PROVE  IInv'
<1> USE ImageAssumption DEF ImageAssumption, IInv, Refuse, Answer, Discarded, Fault,
        front, loop, Steps, Owning, TypeOK, Held, OneOwner
<1>1. TypeOK' OBVIOUS
<1>2. Held' OBVIOUS
<1>3. OneOwner' OBVIOUS
<1>4. BilledByStep' BY DEF BilledByStep
<1>5. BilledAsDelivered' BY DEF BilledByStep, BilledAsDelivered
<1>6. RowsByRequest' BY DEF RowsByRequest
<1>7. FilesByStep' BY DEF RowsByRequest, FilesByStep
<1> QED BY <1>1, <1>2, <1>3, <1>4, <1>5, <1>6, <1>7

(* A failed write leaves files without a row. *)
LEMMA WriteFailsInv ==
  ASSUME IInv, NEW j \in Jobs, WriteFails(j)
  PROVE  IInv'
<1> USE ImageAssumption DEF ImageAssumption, IInv, WriteFails, Answer, Fault,
        front, loop, Steps, Owning, TypeOK, Held, OneOwner
<1>1. TypeOK' OBVIOUS
<1>2. Held' OBVIOUS
<1>3. OneOwner' OBVIOUS
<1>4. BilledByStep' BY DEF BilledByStep
<1>5. BilledAsDelivered' BY DEF BilledByStep, BilledAsDelivered
<1>6. RowsByRequest' BY DEF RowsByRequest
<1>7. FilesByStep' BY DEF RowsByRequest, FilesByStep
<1> QED BY <1>1, <1>2, <1>3, <1>4, <1>5, <1>6, <1>7

(* A request that dies leaves what it did. *)
LEMMA RequestDiesInv ==
  ASSUME IInv, NEW j \in Jobs, RequestDies(j)
  PROVE  IInv'
<1> USE ImageAssumption DEF ImageAssumption, IInv, RequestDies, Fault,
        front, loop, Steps, Owning, TypeOK, Held, OneOwner
<1>1. TypeOK' OBVIOUS
<1>2. Held' OBVIOUS
<1>3. OneOwner' OBVIOUS
<1>4. BilledByStep' BY DEF BilledByStep
<1>5. BilledAsDelivered' BY DEF BilledByStep, BilledAsDelivered
<1>6. RowsByRequest' BY DEF RowsByRequest
<1>7. FilesByStep' BY DEF RowsByRequest, FilesByStep
<1> QED BY <1>1, <1>2, <1>3, <1>4, <1>5, <1>6, <1>7

(* A loop picks a job that it does not own yet. *)
LEMMA PollInv ==
  ASSUME IInv, NEW w \in Workers, Poll(w)
  PROVE  IInv'
<1> USE ImageAssumption DEF ImageAssumption, IInv, Poll, Oldest, Waiting,
        front, loop, Steps, Owning, TypeOK, Held, OneOwner
<1>0. \A v \in Workers : pc[v] # "idle" => held[v] \in Jobs BY HoldsJob
<1>1. TypeOK' BY <1>0
<1>2. Held' BY <1>0
<1>3. OneOwner' BY <1>0
<1>4. BilledByStep' BY <1>0 DEF BilledByStep
<1>5. BilledAsDelivered' BY <1>0 DEF BilledByStep, BilledAsDelivered
<1>6. RowsByRequest' BY <1>0 DEF RowsByRequest
<1>7. FilesByStep' BY <1>0 DEF RowsByRequest, FilesByStep
<1> QED BY <1>1, <1>2, <1>3, <1>4, <1>5, <1>6, <1>7

(* Only a queued job is claimed, so no other loop owns it. *)
LEMMA ClaimInv ==
  ASSUME IInv, NEW w \in Workers, Claim(w)
  PROVE  IInv'
<1> USE ImageAssumption DEF ImageAssumption, IInv, Claim, Leave, Claimable,
        front, loop, Steps, Owning, TypeOK, Held, OneOwner
<1>0. \A v \in Workers : pc[v] # "idle" => held[v] \in Jobs BY HoldsJob
<1>1. TypeOK' BY <1>0
<1>2. Held' BY <1>0
<1>3. OneOwner' BY <1>0
<1>4. BilledByStep' BY <1>0 DEF BilledByStep
<1>5. BilledAsDelivered' BY <1>0 DEF BilledByStep, BilledAsDelivered
<1>6. RowsByRequest' BY <1>0 DEF RowsByRequest
<1>7. FilesByStep' BY <1>0 DEF RowsByRequest, FilesByStep
<1> QED BY <1>1, <1>2, <1>3, <1>4, <1>5, <1>6, <1>7

(* Resolving an upstream changes no row. *)
LEMMA PrepareInv ==
  ASSUME IInv, NEW w \in Workers, Prepare(w)
  PROVE  IInv'
<1> USE ImageAssumption DEF ImageAssumption, IInv, Prepare,
        front, loop, Steps, Owning, TypeOK, Held, OneOwner
<1>0. \A v \in Workers : pc[v] # "idle" => held[v] \in Jobs BY HoldsJob
<1>1. TypeOK' BY <1>0
<1>2. Held' BY <1>0
<1>3. OneOwner' BY <1>0
<1>4. BilledByStep' BY <1>0 DEF BilledByStep
<1>5. BilledAsDelivered' BY <1>0 DEF BilledByStep, BilledAsDelivered
<1>6. RowsByRequest' BY <1>0 DEF RowsByRequest
<1>7. FilesByStep' BY <1>0 DEF RowsByRequest, FilesByStep
<1> QED BY <1>1, <1>2, <1>3, <1>4, <1>5, <1>6, <1>7

(* Neither does what the upstream answers. *)
LEMMA SettleInv ==
  ASSUME IInv, NEW w \in Workers, Settle(w)
  PROVE  IInv'
<1> USE ImageAssumption DEF ImageAssumption, IInv, Settle,
        front, loop, Steps, Owning, TypeOK, Held, OneOwner
<1>0. \A v \in Workers : pc[v] # "idle" => held[v] \in Jobs BY HoldsJob
<1>1. TypeOK' BY <1>0
<1>2. Held' BY <1>0
<1>3. OneOwner' BY <1>0
<1>4. BilledByStep' BY <1>0 DEF BilledByStep
<1>5. BilledAsDelivered' BY <1>0 DEF BilledByStep, BilledAsDelivered
<1>6. RowsByRequest' BY <1>0 DEF RowsByRequest
<1>7. FilesByStep' BY <1>0 DEF RowsByRequest, FilesByStep
<1> QED BY <1>1, <1>2, <1>3, <1>4, <1>5, <1>6, <1>7

(* Nor the next channel. *)
LEMMA TryNextInv ==
  ASSUME IInv, NEW w \in Workers, TryNext(w)
  PROVE  IInv'
<1> USE ImageAssumption DEF ImageAssumption, IInv, TryNext, Fallbacks,
        front, loop, Steps, Owning, TypeOK, Held, OneOwner
<1>0. \A v \in Workers : pc[v] # "idle" => held[v] \in Jobs BY HoldsJob
<1>1. TypeOK' BY <1>0
<1>2. Held' BY <1>0
<1>3. OneOwner' BY <1>0
<1>4. BilledByStep' BY <1>0 DEF BilledByStep
<1>5. BilledAsDelivered' BY <1>0 DEF BilledByStep, BilledAsDelivered
<1>6. RowsByRequest' BY <1>0 DEF RowsByRequest
<1>7. FilesByStep' BY <1>0 DEF RowsByRequest, FilesByStep
<1> QED BY <1>1, <1>2, <1>3, <1>4, <1>5, <1>6, <1>7

(* The owner bills a job that is not billed yet. *)
LEMMA BillInv ==
  ASSUME IInv, NEW w \in Workers, Bill(w)
  PROVE  IInv'
<1> USE ImageAssumption DEF ImageAssumption, IInv, Bill,
        front, loop, Steps, Owning, TypeOK, Held, OneOwner
<1>0. \A v \in Workers : pc[v] # "idle" => held[v] \in Jobs BY HoldsJob
<1>1. TypeOK' BY <1>0
<1>2. Held' BY <1>0
<1>3. OneOwner' BY <1>0
<1>4. BilledByStep' BY <1>0 DEF BilledByStep
<1>5. BilledAsDelivered' BY <1>0 DEF BilledByStep, BilledAsDelivered
<1>6. RowsByRequest' BY <1>0 DEF RowsByRequest
<1>7. FilesByStep' BY <1>0 DEF RowsByRequest, FilesByStep
<1> QED BY <1>1, <1>2, <1>3, <1>4, <1>5, <1>6, <1>7

(* The owner marks as completed what it has billed, as failed what it has not. *)
LEMMA MarkInv ==
  ASSUME IInv, NEW w \in Workers, Mark(w)
  PROVE  IInv'
<1> USE ImageAssumption DEF ImageAssumption, IInv, Mark, Outcome,
        front, loop, Steps, Owning, TypeOK, Held, OneOwner
<1>0. \A v \in Workers : pc[v] # "idle" => held[v] \in Jobs BY HoldsJob
<1>1. TypeOK' BY <1>0
<1>2. Held' BY <1>0
<1>3. OneOwner' BY <1>0
<1>4. BilledByStep' BY <1>0 DEF BilledByStep
<1>5. BilledAsDelivered' BY <1>0 DEF BilledByStep, BilledAsDelivered
<1>6. RowsByRequest' BY <1>0 DEF RowsByRequest
<1>7. FilesByStep' BY <1>0 DEF RowsByRequest, FilesByStep
<1> QED BY <1>1, <1>2, <1>3, <1>4, <1>5, <1>6, <1>7

(* The owner takes the files of a job that is over. *)
LEMMA CleanupInv ==
  ASSUME IInv, NEW w \in Workers, Cleanup(w)
  PROVE  IInv'
<1> USE ImageAssumption DEF ImageAssumption, IInv, Cleanup, Leave, Disposable,
        front, loop, Steps, Owning, TypeOK, Held, OneOwner
<1>0. \A v \in Workers : pc[v] # "idle" => held[v] \in Jobs BY HoldsJob
<1>1. TypeOK' BY <1>0
<1>2. Held' BY <1>0
<1>3. OneOwner' BY <1>0
<1>4. BilledByStep' BY <1>0 DEF BilledByStep
<1>5. BilledAsDelivered' BY <1>0 DEF BilledByStep, BilledAsDelivered
<1>6. RowsByRequest' BY <1>0 DEF RowsByRequest
<1>7. FilesByStep' BY <1>0 DEF RowsByRequest, FilesByStep
<1> QED BY <1>1, <1>2, <1>3, <1>4, <1>5, <1>6, <1>7

(* A failed statement breaks the job that the loop owns or was claiming. *)
LEMMA DatabaseFailsInv ==
  ASSUME IInv, NEW w \in Workers, DatabaseFails(w)
  PROVE  IInv'
<1> USE ImageAssumption DEF ImageAssumption, IInv, DatabaseFails, Leave, Claimable, Outcome, Owned, Fault,
        front, loop, Steps, Owning, TypeOK, Held, OneOwner
<1>0. \A v \in Workers : pc[v] # "idle" => held[v] \in Jobs BY HoldsJob
<1>1. TypeOK' BY <1>0
<1>2. Held' BY <1>0
<1>3. OneOwner' BY <1>0
<1>4. BilledByStep' BY <1>0 DEF BilledByStep
<1>5. BilledAsDelivered' BY <1>0 DEF BilledByStep, BilledAsDelivered
<1>6. RowsByRequest' BY <1>0 DEF RowsByRequest
<1>7. FilesByStep' BY <1>0 DEF RowsByRequest, FilesByStep
<1> QED BY <1>1, <1>2, <1>3, <1>4, <1>5, <1>6, <1>7

(* A crash breaks the job that the loop owns. *)
LEMMA CrashInv ==
  ASSUME IInv, NEW w \in Workers, Crash(w)
  PROVE  IInv'
<1> USE ImageAssumption DEF ImageAssumption, IInv, Crash, Leave, Owned, Fault,
        front, loop, Steps, Owning, TypeOK, Held, OneOwner
<1>0. \A v \in Workers : pc[v] # "idle" => held[v] \in Jobs BY HoldsJob
<1>1. TypeOK' BY <1>0
<1>2. Held' BY <1>0
<1>3. OneOwner' BY <1>0
<1>4. BilledByStep' BY <1>0 DEF BilledByStep
<1>5. BilledAsDelivered' BY <1>0 DEF BilledByStep, BilledAsDelivered
<1>6. RowsByRequest' BY <1>0 DEF RowsByRequest
<1>7. FilesByStep' BY <1>0 DEF RowsByRequest, FilesByStep
<1> QED BY <1>1, <1>2, <1>3, <1>4, <1>5, <1>6, <1>7

-----------------------------------------------------------------------------
(* Every step keeps the invariant. *)
LEMMA StepInv == IInv /\ [Next]_vars => IInv'
<1> SUFFICES ASSUME IInv, [Next]_vars PROVE IInv'
  OBVIOUS
<1>1. CASE \E j \in Jobs : CreateEdit(j) \/ CreateGeneration(j) \/ Respond(j)
                            \/ Refuse(j) \/ WriteFails(j) \/ RequestDies(j)
  BY <1>1, CreateEditInv, CreateGenerationInv, CreateCommitInv, AcceptInv, RefuseInv,
     WriteFailsInv, RequestDiesInv DEF Respond
<1>2. CASE \E w \in Workers : Loop(w) \/ DatabaseFails(w) \/ Crash(w)
  BY <1>2, PollInv, ClaimInv, PrepareInv, SettleInv, TryNextInv, BillInv, MarkInv,
     CleanupInv, DatabaseFailsInv, CrashInv
     DEF Loop, PrepareGeneration, PrepareEdit, SettleGeneration, SettleEdit
<1>3. CASE UNCHANGED vars
  <2> USE <1>3 DEF vars, front, loop
  <2>1. TypeOK' /\ Held' /\ OneOwner' BY DEF IInv, TypeOK, Held, OneOwner
  <2>2. BilledByStep' /\ BilledAsDelivered' BY DEF IInv, BilledByStep, BilledAsDelivered
  <2>3. RowsByRequest' /\ FilesByStep' BY DEF IInv, RowsByRequest, FilesByStep
  <2> QED BY <2>1, <2>2, <2>3 DEF IInv
<1> QED BY <1>1, <1>2, <1>3 DEF Next

(* The inductive invariant holds in every reachable state. *)
THEOREM ImageInvariant == Spec => []IInv
<1> QED BY InitInv, StepInv, PTL DEF Spec

(* The variables have their types. *)
THEOREM ImageTypeCorrect == Spec => []TypeOK
<1>1. IInv => TypeOK BY DEF IInv
<1> QED BY <1>1, ImageInvariant, PTL

(* Images are billed once, when and only when they are delivered, except   *)
(* around a failure, whatever workers poll the same row.                   *)
THEOREM ImagesBilledAsDelivered == Spec => []BilledAsDelivered
<1>1. IInv => BilledAsDelivered BY DEF IInv
<1> QED BY <1>1, ImageInvariant, PTL

(* An edit's files are there as long as its job waits, and are left behind *)
(* only by a failure.                                                      *)
THEOREM ImageFilesWithJob == Spec => []FilesWithJob
<1>1. IInv => FilesWithJob
  BY ImageAssumption DEF IInv, FilesWithJob, TypeOK, RowsByRequest, FilesByStep, ImageAssumption
<1> QED BY <1>1, ImageInvariant, PTL
=============================================================================
