--------------------------- MODULE StationPayout ---------------------------
(***************************************************************************)
(* The payout of a station's commission (app/stations.py): entries of the  *)
(* commission ledger that have been held long enough go into a batch, and  *)
(* the batch is marked as paid.  Whoever creates a batch reads the entries *)
(* without a lock and writes them by id, whatever they have become since;  *)
(* whoever marks one as paid locks the batch, not its entries.             *)
(***************************************************************************)
EXTENDS StationParameters, FiniteSetsExt

VARIABLES
  entry,     \* status ("none", "held", "pending", "batched", "paid") and batch
  batch,     \* "none", "pending" or "paid"
  total,     \* total_commission_rmb_cents
  creating,  \* the entries that the creation of the batch has read
  paying,    \* the entries that the marking of the batch has read
  disturbed  \* history: batches whose entries changed between read and write

vars == <<entry, batch, total, creating, paying, disturbed>>

Init ==
  /\ entry = [e \in Entries |-> [status |-> "none", batch |-> None]]
  /\ batch = [b \in Batches |-> "none"]
  /\ total = [b \in Batches |-> 0]
  /\ creating = [b \in Batches |-> {}]
  /\ paying = [b \in Batches |-> None]
  /\ disturbed = {}

Sum(es) == MapThenSumSet(LAMBDA e : Commission[e], es)
In(b) == {e \in Entries : entry[e].batch = b}

(* A commission is written when an order is confirmed, and its hold passes. *)
Earn(e) ==
  /\ entry[e].status = "none"
  /\ entry' = [entry EXCEPT ![e].status = "held"]
  /\ UNCHANGED <<batch, total, creating, paying, disturbed>>

HoldPasses(e) ==
  /\ entry[e].status = "held"
  /\ entry' = [entry EXCEPT ![e].status = "pending"]
  /\ UNCHANGED <<batch, total, creating, paying, disturbed>>

-----------------------------------------------------------------------------
(* create_station_payout_batch: pending entries whose hold has passed.     *)
Ready == {e \in Entries : entry[e].status = "pending"}

ReadEntries(b) ==
  /\ batch[b] = "none" /\ creating[b] = {}
  /\ Ready # {} /\ Sum(Ready) >= MinPayout
  /\ creating' = [creating EXCEPT ![b] = Ready]
  /\ UNCHANGED <<entry, batch, total, paying, disturbed>>

(* Entries that another batch has taken since they were read.             *)
Overtaken(b) == {e \in creating[b] : entry[e].status # "pending"}

(* A plausible error, put in place of CreateBatch to see that the property *)
(* fails: what is ready by now is written, not what was read and added up. *)
SlipCreateBatch(b) ==
  /\ creating[b] # {}
  /\ batch' = [batch EXCEPT ![b] = "pending"]
  /\ total' = [total EXCEPT ![b] = Sum(creating[b])]
  /\ entry' = [e \in Entries |-> IF e \in Ready THEN [status |-> "batched", batch |-> b]
                                 ELSE entry[e]]
  /\ disturbed' = disturbed \cup
       (IF Overtaken(b) = {} THEN {} ELSE {b} \cup {entry[e].batch : e \in Overtaken(b)})
  /\ creating' = [creating EXCEPT ![b] = {}]
  /\ UNCHANGED paying

CreateBatch(b) ==
  /\ creating[b] # {}
  /\ batch' = [batch EXCEPT ![b] = "pending"]
  /\ total' = [total EXCEPT ![b] = Sum(creating[b])]
  /\ entry' = [e \in Entries |-> IF e \in creating[b] THEN [status |-> "batched", batch |-> b]
                                 ELSE entry[e]]
  /\ disturbed' = disturbed \cup
       (IF Overtaken(b) = {} THEN {} ELSE {b} \cup {entry[e].batch : e \in Overtaken(b)})
  /\ creating' = [creating EXCEPT ![b] = {}]
  /\ UNCHANGED paying

-----------------------------------------------------------------------------
(* mark_station_payout_batch_paid. *)
ReadBatch(b) ==
  /\ batch[b] = "pending" /\ paying[b] = None
  /\ paying' = [paying EXCEPT ![b] = {e \in In(b) : entry[e].status # "paid"}]
  /\ UNCHANGED <<entry, batch, total, creating, disturbed>>

MarkPaid(b) ==
  /\ paying[b] # None
  /\ batch' = [batch EXCEPT ![b] = "paid"]
  /\ entry' = [e \in Entries |-> IF e \in paying[b] THEN [entry[e] EXCEPT !.status = "paid"]
                                 ELSE entry[e]]
  /\ paying' = [paying EXCEPT ![b] = None]
  /\ UNCHANGED <<total, creating, disturbed>>

Next ==
  \/ \E e \in Entries : Earn(e) \/ HoldPasses(e)
  \/ \E b \in Batches : ReadEntries(b) \/ CreateBatch(b) \/ ReadBatch(b) \/ MarkPaid(b)

Spec == Init /\ [][Next]_vars

-----------------------------------------------------------------------------
(* Types. *)
TypeOK ==
  /\ entry \in [Entries -> [status : {"none", "held", "pending", "batched", "paid"},
                            batch : Batches \cup {None}]]
  /\ batch \in [Batches -> {"none", "pending", "paid"}]
  /\ total \in [Batches -> 0 .. Sum(Entries)]
  /\ creating \in [Batches -> SUBSET Entries]
  /\ paying \in [Batches -> (SUBSET Entries) \cup {None}]
  /\ disturbed \subseteq Batches

(* What a batch pays is what its entries earned, and an entry counts as    *)
(* paid exactly when its batch is, for every batch but those that two      *)
(* overlapping creations took the same entries for: these pay them twice.  *)
BatchesPayTheirEntries ==
  \A b \in {b \in Batches : batch[b] # "none"} \ disturbed :
    /\ total[b] = Sum(In(b))
    /\ \A e \in In(b) : entry[e].status = IF batch[b] = "paid" THEN "paid" ELSE "batched"
=============================================================================
