------------------------------- MODULE ImageJob -------------------------------
(***************************************************************************)
(* Asynchronous image jobs (app/image_jobs.py): the requests that create   *)
(* them, and the loops that process them, one in every worker process.     *)
(*                                                                         *)
(* A job is a row; an edit also has a directory with its input files. What *)
(* an attempt counts for or against its channel is left out, and so are    *)
(* the artifacts that are recorded with a result.                          *)
(***************************************************************************)
EXTENDS Integers, FiniteSets

CONSTANTS
  Jobs,       \* job ids, one per creation request
  Edits,      \* the jobs that edit images; the others generate them
  Workers,    \* processes that run image_job_loop
  Channels,   \* provider channels with a route for the model
  None,
  MaxFaults   \* bound: failures of processes and of the database

ASSUME ImageAssumption ==
  /\ IsFiniteSet(Jobs) /\ IsFiniteSet(Workers) /\ IsFiniteSet(Channels)
  /\ None \notin Jobs \cup Channels /\ Edits \subseteq Jobs
  /\ None \notin {"accepted", "refused", "queued", "running", "completed", "failed"}
  /\ MaxFaults \in Nat

VARIABLES
  request,   \* the creation request: "new", "writing", "committed" or "done"
  told,      \* what its client got: None, "accepted" or "refused"
  status,    \* coincoin_image_jobs.status, None without a row
  created,   \* created_at as the row's place among the rows, 0 without a row
  files,     \* jobs whose directory exists
  billed,    \* usage records handed to the usage buffer
  pc, held,  \* step and job of each loop
  used,      \* attempt_cfg: a channel, or None for the model's own upstream
  tried,     \* the channels that were tried before it
  broken,    \* history: jobs that a failure hit in a loop that had claimed them,
             \* or while their files were written
  faults

loop == <<pc, held, used, tried>>
front == <<request, told, created>>
vars == <<front, status, files, billed, loop, broken, faults>>

Steps == {"idle", "picked", "claimed", "sent", "billing", "completing", "failing", "cleanup"}

Init ==
  /\ request = [j \in Jobs |-> "new"]
  /\ told = [j \in Jobs |-> None]
  /\ status = [j \in Jobs |-> None]
  /\ created = [j \in Jobs |-> 0] /\ files = {}
  /\ billed = [j \in Jobs |-> 0]
  /\ pc = [w \in Workers |-> "idle"] /\ held = [w \in Workers |-> None]
  /\ used = [w \in Workers |-> None] /\ tried = [w \in Workers |-> {}]
  /\ broken = {} /\ faults = 0

Fault == faults < MaxFaults /\ faults' = faults + 1

-----------------------------------------------------------------------------
(* Creation. *)

Begin(j) ==
  /\ request[j] = "new"
  /\ request' = [request EXCEPT ![j] = "writing"]
  /\ UNCHANGED <<told, created, status, billed, loop, broken, faults>>

(* _store_job_files, _load_job_files: a directory for each job.             *)
Stored(j) == files \cup {j}
Loadable(j) == j \in files

(* A valid request of a user with funds: an edit's files are written first.*)
CreateEdit(j) == j \in Edits /\ Begin(j) /\ files' = Stored(j)
CreateGeneration(j) == j \notin Edits /\ Begin(j) /\ UNCHANGED files

CreateCommit(j) ==
  /\ request[j] = "writing"
  /\ request' = [request EXCEPT ![j] = "committed"]
  /\ status' = [status EXCEPT ![j] = "queued"]
  /\ created' = [created EXCEPT ![j] = 1 + Cardinality({k \in Jobs : status[k] # None})]
  /\ UNCHANGED <<told, files, billed, loop, broken, faults>>

Answer(j, result) ==
  /\ request' = [request EXCEPT ![j] = "done"]
  /\ told' = [told EXCEPT ![j] = result]

Accept(j) ==
  /\ request[j] = "committed"
  /\ Answer(j, "accepted")
  /\ UNCHANGED <<created, status, files, billed, loop, broken, faults>>

(* _cleanup_job_storage of the request. *)
Discarded(j) == {j}

(* The commit fails, or it is applied and its answer or the refresh fails. *)
Refuse(j) ==
  /\ request[j] \in {"writing", "committed"}
  /\ Fault
  /\ Answer(j, "refused")
  /\ files' = files \ Discarded(j)
  /\ UNCHANGED <<created, status, billed, loop, broken>>

(* The files cannot be written: the exception leaves what is there.        *)
WriteFails(j) ==
  /\ request[j] = "writing" /\ j \in Edits
  /\ Fault
  /\ Answer(j, "refused")
  /\ broken' = broken \cup {j}
  /\ UNCHANGED <<created, status, files, billed, loop>>

-----------------------------------------------------------------------------
(* The loop: the oldest queued job is claimed. *)

SlipWaiting == {j \in Jobs : status[j] \in {"queued", "running"}}

Waiting == {j \in Jobs : status[j] = "queued"}

Oldest(j) == j \in Waiting /\ \A k \in Waiting : created[j] <= created[k]

Poll(w) ==
  /\ pc[w] = "idle"
  /\ pc' = [pc EXCEPT ![w] = "picked"]
  /\ \E j \in Jobs : Oldest(j) /\ held' = [held EXCEPT ![w] = j]
  /\ UNCHANGED <<front, status, files, billed, used, tried, broken, faults>>

Leave(w) ==
  /\ pc' = [pc EXCEPT ![w] = "idle"]
  /\ held' = [held EXCEPT ![w] = None]
  /\ used' = [used EXCEPT ![w] = None] /\ tried' = [tried EXCEPT ![w] = {}]

SlipClaimable(j) == TRUE   \* the update forgets the status

Claimable(j) == status[j] = "queued"

(* UPDATE ... WHERE status = 'queued': the row that is not matched is left.*)
Claim(w) ==
  /\ pc[w] = "picked"
  /\ IF Claimable(held[w])
     THEN /\ status' = [status EXCEPT ![held[w]] = "running"]
          /\ pc' = [pc EXCEPT ![w] = "claimed"]
          /\ UNCHANGED <<held, used, tried>>
     ELSE Leave(w) /\ UNCHANGED status
  /\ UNCHANGED <<front, files, billed, broken, faults>>

(* The job is loaded and its upstream resolved; what is missing or not     *)
(* supported any more fails the job. An edit also reads its files.         *)
Prepare(w) ==
  /\ pc[w] = "claimed"
  /\ \/ pc' = [pc EXCEPT ![w] = "failing"] /\ UNCHANGED used
     \/ /\ pc' = [pc EXCEPT ![w] = "sent"]
        /\ \E c \in Channels \cup {None} : used' = [used EXCEPT ![w] = c]
  /\ UNCHANGED <<front, status, files, billed, held, tried, broken, faults>>

PrepareGeneration(w) == held[w] \notin Edits /\ Prepare(w)
PrepareEdit(w) ==
  /\ held[w] \in Edits /\ Prepare(w)
  /\ pc'[w] = "sent" => Loadable(held[w])

SlipFallbacks(w) == Channels \ (tried[w] \cup {used[w]})  \* the model's own upstream counts as one

(* Channels that were not tried yet, for a job that was sent to one.       *)
Fallbacks(w) == IF used[w] = None THEN {} ELSE Channels \ (tried[w] \cup {used[w]})

(* The upstream gives images, or an error that ends the job. *)
Settle(w) ==
  /\ pc[w] = "sent"
  /\ \E next \in {"billing", "failing"} : pc' = [pc EXCEPT ![w] = next]
  /\ UNCHANGED <<front, status, files, billed, held, used, tried, broken, faults>>

SettleEdit(w) == held[w] \in Edits /\ Settle(w)
SettleGeneration(w) == held[w] \notin Edits /\ Settle(w)

(* A generation has an error that another channel may avoid.               *)
TryNext(w) ==
  /\ pc[w] = "sent" /\ held[w] \notin Edits
  /\ \E c \in Fallbacks(w) : used' = [used EXCEPT ![w] = c]
  /\ tried' = [tried EXCEPT ![w] = @ \cup {used[w]}]
  /\ UNCHANGED <<front, status, files, billed, pc, held, broken, faults>>

(* usage_buffer.add, in memory. *)
Bill(w) ==
  /\ pc[w] = "billing"
  /\ billed' = [billed EXCEPT ![held[w]] = @ + 1]
  /\ pc' = [pc EXCEPT ![w] = "completing"]
  /\ UNCHANGED <<front, status, files, held, used, tried, broken, faults>>

Outcome(w) == IF pc[w] = "completing" THEN "completed" ELSE "failed"

(* _mark_job_completed and _mark_job_failed. *)
Mark(w) ==
  /\ pc[w] \in {"completing", "failing"}
  /\ status' = [status EXCEPT ![held[w]] = Outcome(w)]
  /\ pc' = [pc EXCEPT ![w] = "cleanup"]
  /\ UNCHANGED <<front, files, billed, held, used, tried, broken, faults>>

SlipDisposable(j) == status[j] = "completed"   \* the files of failures stay

Disposable(j) == status[j] \in {"completed", "failed"}

(* The finally clause. *)
Cleanup(w) ==
  /\ pc[w] = "cleanup"
  /\ files' = IF Disposable(held[w]) THEN files \ {held[w]} ELSE files
  /\ Leave(w)
  /\ UNCHANGED <<front, status, billed, broken, faults>>

-----------------------------------------------------------------------------
(* Failures. *)

(* A job that is only picked is not claimed yet. *)
Owned(w) == IF pc[w] = "picked" THEN {} ELSE {held[w]}

(* A statement or a commit of the loop fails, or its answer is lost. The   *)
(* claim and the clean-up are abandoned, the rest still cleans up.         *)
DatabaseFails(w) ==
  /\ pc[w] \in {"picked", "claimed", "completing", "failing", "cleanup"}
  /\ Fault
  /\ \/ UNCHANGED status /\ broken' = broken \cup Owned(w)
     \/ /\ pc[w] = "picked" /\ Claimable(held[w])
        /\ status' = [status EXCEPT ![held[w]] = "running"]
        /\ broken' = broken \cup {held[w]}
     \/ /\ pc[w] \in {"completing", "failing"}
        /\ status' = [status EXCEPT ![held[w]] = Outcome(w)]
        /\ broken' = broken \cup {held[w]}
  /\ IF pc[w] \in {"picked", "cleanup"}
     THEN Leave(w)
     ELSE pc' = [pc EXCEPT ![w] = "cleanup"] /\ UNCHANGED <<held, used, tried>>
  /\ UNCHANGED <<front, files, billed>>

(* The process dies or is stopped, and is started again. *)
Crash(w) ==
  /\ pc[w] # "idle"
  /\ Fault
  /\ broken' = broken \cup Owned(w)
  /\ Leave(w)
  /\ UNCHANGED <<front, status, files, billed>>

(* The process that serves the creation dies. *)
RequestDies(j) ==
  /\ request[j] \in {"writing", "committed"}
  /\ Fault
  /\ request' = [request EXCEPT ![j] = "done"]
  /\ UNCHANGED <<told, created, status, files, billed, loop, broken>>

-----------------------------------------------------------------------------
Loop(w) ==
  \/ Poll(w) \/ Claim(w) \/ PrepareGeneration(w) \/ PrepareEdit(w)
  \/ SettleGeneration(w) \/ SettleEdit(w) \/ TryNext(w)
  \/ Bill(w) \/ Mark(w) \/ Cleanup(w)
Respond(j) == CreateCommit(j) \/ Accept(j)

Next ==
  \/ \E j \in Jobs : CreateEdit(j) \/ CreateGeneration(j) \/ Respond(j)
       \/ Refuse(j) \/ WriteFails(j) \/ RequestDies(j)
  \/ \E w \in Workers : Loop(w) \/ DatabaseFails(w) \/ Crash(w)

Spec == Init /\ [][Next]_vars

(* asyncio runs the loops and the handlers on; upstreams answer or time out.*)
Fairness ==
  /\ \A w \in Workers : WF_vars(Loop(w))
  /\ \A j \in Jobs : WF_vars(Respond(j))

FairSpec == Spec /\ Fairness

-----------------------------------------------------------------------------
(* Types of the rows and of the loops' variables. *)
TypeOK ==
  /\ request \in [Jobs -> {"new", "writing", "committed", "done"}]
  /\ told \in [Jobs -> {None, "accepted", "refused"}]
  /\ status \in [Jobs -> {None, "queued", "running", "completed", "failed"}]
  /\ created \in [Jobs -> Nat] /\ files \subseteq Jobs
  /\ billed \in [Jobs -> Nat]
  /\ pc \in [Workers -> Steps] /\ held \in [Workers -> Jobs \cup {None}]
  /\ used \in [Workers -> Channels \cup {None}] /\ tried \in [Workers -> SUBSET Channels]
  /\ broken \subseteq Jobs /\ faults \in 0 .. MaxFaults

(* Images are billed once when they are delivered and never for a failed   *)
(* job; a bill without a delivery belongs to a loop that is about to mark  *)
(* the job, or that was hit by a failure (usage_buffer.add comes before    *)
(* _mark_job_completed, whatever workers poll the same row).               *)
BilledAsDelivered ==
  \A j \in Jobs :
    /\ billed[j] = 1 \/ (billed[j] = 0 /\ status[j] # "completed")
    /\ status[j] = "failed" => billed[j] = 0
    /\ billed[j] = 1 /\ status[j] # "completed" =>
         j \in broken \/ \E w \in Workers : held[w] = j /\ pc[w] = "completing"

(* An accepted edit that waits has its files. Files that no request and no *)
(* loop is about to remove belong to a job that is not over, to a request  *)
(* that died, or to a job that a failure hit.                              *)
FilesWithJob ==
  \A j \in Jobs :
    /\ told[j] = "accepted" /\ status[j] = "queued" /\ j \in Edits => j \in files
    /\ j \in files =>
         \/ request[j] \in {"writing", "committed"} \/ (request[j] = "done" /\ told[j] = None)
         \/ status[j] \in {"queued", "running"}
         \/ j \in broken \/ \E w \in Workers : held[w] = j

(* Every job that has a row ends, unless a failure hit it while a loop     *)
(* held it: jobs that are stuck behind one do not keep the rest waiting.   *)
JobsEnd ==
  \A j \in Jobs : status[j] = "queued" ~> (status[j] \in {"completed", "failed"} \/ j \in broken)
=============================================================================
