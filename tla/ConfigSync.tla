----------------------------- MODULE ConfigSync -----------------------------
(***************************************************************************)
(* The runtime configuration that each worker process keeps in memory, and *)
(* how an operator's edit of the database reaches it: the overrides of the *)
(* model aliases, the provider channels (and, the same way, the pricing    *)
(* overrides), and the system settings (app/admin.py, app/alert_admin.py,  *)
(* the refresh loops of app/main.py, app/system_settings.py).              *)
(*                                                                         *)
(* A document is a table of a few rows.  Its loop notices an edit of the   *)
(* first two by the number of rows and the last updated_at, which has the  *)
(* precision of a second; an edit of the settings by their values.  One    *)
(* document is followed in each behaviour: they share no state.  A session *)
(* reads one snapshot from its first query on.                             *)
(***************************************************************************)
EXTENDS Integers, FiniteSets, FiniteSetsExt

CONSTANTS
  Workers,
  Sessions,   \* requests of operators that are handled at one time
  ServedBy,   \* the worker of each
  Keys, Values,
  Earlier,    \* tables that the system may start with
  LastSecond, \* bound: the clock
  MaxEvents,  \* bound: edits and restarts
  None

ConfigAssumption ==
  /\ ServedBy \in [Sessions -> Workers]
  /\ LastSecond \in Nat /\ MaxEvents \in Nat
  /\ None \notin Values
  /\ Earlier \subseteq [Keys -> Values \cup {None}]

VARIABLES
  doc,            \* the document: "aliases", "channels" or "settings"
  now,
  rows, updated,  \* the table: the value and updated_at of each row
  view,           \* the snapshot that the worker routes by
  lastState,      \* last_state of the loop
  loop,           \* what the loop has read and not applied yet
  session,        \* an operator's request
  lock,           \* _RUNTIME_SYSTEM_SETTINGS_LOCK of the worker
  events,
  states, tied, late    \* history, see ConfigConverges

table == <<rows, updated, states, tied>>
process == <<view, lastState, loop, lock, late>>
vars == <<doc, now, table, process, session, events>>

Empty == [k \in Keys |-> None]
Idle == [at |-> "idle", key |-> None, value |-> None, rows |-> Empty]

Present(r) == {k \in Keys : r[k] # None}

(* What the loop notices an edit by. *)
StateOf(r, u) ==
  IF doc = "settings" THEN r
  ELSE <<Cardinality(Present(r)), Max({0} \cup {u[k] : k \in Present(r)})>>

Init ==
  /\ doc \in {"aliases", "channels", "settings"}
  /\ now = 1
  /\ rows \in Earlier /\ updated = [k \in Keys |-> 0]
  /\ view = [w \in Workers |-> rows]
  /\ lastState = [w \in Workers |-> None]
  /\ loop = [w \in Workers |-> None]
  /\ session = [s \in Sessions |-> Idle]
  /\ lock = [w \in Workers |-> None]
  /\ events = 0
  /\ states = {StateOf(rows, updated)}
  /\ tied = FALSE /\ late = FALSE

-----------------------------------------------------------------------------
(* The refresh loop of a worker. *)

Known(w) == IF doc = "settings" THEN view[w] ELSE lastState[w]

(* The state, and if it has changed the rows of the same transaction.      *)
LoopReads(w) ==
  /\ loop[w] = None
  /\ StateOf(rows, updated) # Known(w)
  /\ loop' = [loop EXCEPT ![w] = [state |-> StateOf(rows, updated), rows |-> rows]]
  /\ UNCHANGED <<doc, now, table, view, lastState, lock, late, session, events>>

(* A plausible error, put in place of LoopApplies to see that the property *)
(* fails: last_state is read after the rows were.                          *)
SlipLoopApplies(w) ==
  /\ loop[w] # None
  /\ lock[w] = None
  /\ view' = [view EXCEPT ![w] = loop[w].rows]
  /\ lastState' = [lastState EXCEPT ![w] = IF doc = "settings" THEN None ELSE StateOf(rows, updated)]
  /\ loop' = [loop EXCEPT ![w] = None]
  /\ UNCHANGED <<doc, now, table, lock, late, session, events>>

(* set_snapshot, set_runtime_alias_overrides and so on; the settings wait  *)
(* for the lock here, although their snapshot is older.                    *)
LoopApplies(w) ==
  /\ loop[w] # None
  /\ lock[w] = None
  /\ view' = [view EXCEPT ![w] = loop[w].rows]
  /\ lastState' = [lastState EXCEPT ![w] = IF doc = "settings" THEN None ELSE loop[w].state]
  /\ loop' = [loop EXCEPT ![w] = None]
  /\ UNCHANGED <<doc, now, table, lock, late, session, events>>

-----------------------------------------------------------------------------
(* The handlers of an operator's requests. *)

At(s, stage) == session[s].at = stage
W(s) == ServedBy[s]

(* refresh_..._from_db of a GET, and of a PATCH of an alias: the rows are  *)
(* read.  The settings are read with the lock held.                        *)
Refresh(s) ==
  /\ At(s, "idle")
  /\ doc \in {"aliases", "settings"}
  /\ lock[W(s)] = None
  /\ session' = [session EXCEPT ![s] = [Idle EXCEPT !.at = "loaded", !.rows = rows]]
  /\ lock' = IF doc = "settings" THEN [lock EXCEPT ![W(s)] = s] ELSE lock
  /\ UNCHANGED <<doc, now, table, view, lastState, loop, late, events>>

Released(w) == [lock EXCEPT ![w] = None]

(* What was read becomes the view of the worker; the handler of a PATCH of *)
(* an alias goes on, in the snapshot it has read.                          *)
Install(s) ==
  /\ At(s, "loaded")
  /\ view' = [view EXCEPT ![W(s)] = session[s].rows]
  /\ late' = (late \/ session[s].rows # rows)
  /\ session' = [session EXCEPT ![s] =
                   IF doc = "aliases" THEN [@ EXCEPT !.at = "editing"] ELSE Idle]
  /\ lock' = Released(W(s))
  /\ UNCHANGED <<doc, now, table, lastState, loop, events>>

(* A GET is answered, or the commit of a PATCH fails.                      *)
GetEnds(s) ==
  /\ At(s, "editing")
  /\ session' = [session EXCEPT ![s] = Idle]
  /\ UNCHANGED <<doc, now, table, process, events>>

(* A row gets a value, or with None is deleted. *)
Write(k, v) ==
  /\ rows' = [rows EXCEPT ![k] = v]
  /\ updated' = [updated EXCEPT ![k] = now]
  /\ LET new == StateOf(rows', updated')
     IN  /\ tied' = (tied \/ (rows' # rows /\ new \in states))
         /\ states' = states \cup {new}

(* The handler has committed, and then has the stage. *)
Commit(s, k, v, stage) ==
  /\ events < MaxEvents
  /\ session' = [session EXCEPT ![s] = [Idle EXCEPT !.at = stage, !.key = k, !.value = v]]
  /\ events' = events + 1
  /\ UNCHANGED <<doc, now, view, lastState, loop, late>>

(* update_model_alias edits the row of its snapshot: it writes nothing if  *)
(* that has the value, and fails if the row has come or gone since.        *)
UpdateAlias(s, k, v) ==
  /\ doc = "aliases" /\ v # None
  /\ At(s, "editing")
  /\ LET seen == session[s].rows[k]
     IN  \/ seen = v /\ UNCHANGED table
         \/ seen # v /\ (seen = None <=> rows[k] = None) /\ Write(k, v)
  /\ Commit(s, k, v, "patching")
  /\ UNCHANGED lock

(* clear_model_alias_override reads nothing before, and clears the view    *)
(* whether it found a row or not.                                          *)
ClearAlias(s, k) ==
  /\ doc = "aliases"
  /\ At(s, "idle")
  /\ IF rows[k] = None THEN UNCHANGED table ELSE Write(k, None)
  /\ Commit(s, k, None, "patching")
  /\ UNCHANGED lock

EditChannel(s, k, v) ==
  /\ doc = "channels"
  /\ At(s, "idle")
  /\ rows[k] # v /\ Write(k, v)
  /\ Commit(s, k, v, "reloading")
  /\ UNCHANGED lock

(* A setting is written with the lock held, and never deleted.             *)
EditSetting(s, k, v) ==
  /\ doc = "settings" /\ v # None
  /\ At(s, "idle") /\ lock[W(s)] = None
  /\ rows[k] # v /\ Write(k, v)
  /\ Commit(s, k, v, "patching")
  /\ lock' = [lock EXCEPT ![W(s)] = s]

(* apply_runtime_alias_override, clear_runtime_alias_override and          *)
(* _apply_runtime_system_settings merge the edit into the view.            *)
Patch(s) ==
  /\ At(s, "patching")
  /\ view' = [view EXCEPT ![W(s)][session[s].key] = session[s].value]
  /\ late' = (late \/ rows[session[s].key] # session[s].value)
  /\ session' = [session EXCEPT ![s] = Idle]
  /\ lock' = Released(W(s))
  /\ UNCHANGED <<doc, now, table, lastState, loop, events>>

(* refresh_provider_channel_router_from_db after the commit: the rows are  *)
(* read; with an error before it the view is left to the loop.             *)
Reload(s) ==
  /\ At(s, "reloading")
  /\ session' = [session EXCEPT ![s] = [Idle EXCEPT !.at = "loaded", !.rows = rows]]
  /\ UNCHANGED <<doc, now, table, process, events>>

ReloadFails(s) ==
  /\ At(s, "reloading")
  /\ session' = [session EXCEPT ![s] = Idle]
  /\ UNCHANGED <<doc, now, table, process, events>>

-----------------------------------------------------------------------------
(* lifespan of a worker that died: what it had is gone, and it starts from *)
(* the database, or from the catalogue alone if that read fails.           *)
Restart(w) ==
  /\ events < MaxEvents
  /\ events' = events + 1
  /\ \E start \in {rows, Empty} : view' = [view EXCEPT ![w] = start]
  /\ lastState' = [lastState EXCEPT ![w] = None]
  /\ loop' = [loop EXCEPT ![w] = None]
  /\ lock' = Released(w)
  /\ session' = [s \in Sessions |-> IF W(s) = w THEN Idle ELSE session[s]]
  /\ UNCHANGED <<doc, now, table, late>>

Tick ==
  /\ now < LastSecond
  /\ now' = now + 1
  /\ UNCHANGED <<doc, table, process, session, events>>

Next ==
  \/ Tick
  \/ \E w \in Workers : LoopReads(w) \/ LoopApplies(w) \/ Restart(w)
  \/ \E s \in Sessions :
       \/ Refresh(s) \/ Install(s) \/ GetEnds(s)
       \/ Patch(s) \/ Reload(s) \/ ReloadFails(s)
       \/ \E k \in Keys : ClearAlias(s, k)
       \/ \E k \in Keys, v \in Values \cup {None} :
            UpdateAlias(s, k, v) \/ EditChannel(s, k, v) \/ EditSetting(s, k, v)

Spec == Init /\ [][Next]_vars

(* The loops go on, and so does a handler that is past its commit or holds *)
(* the lock.                                                               *)
Fairness ==
  /\ \A w \in Workers : WF_vars(LoopReads(w)) /\ SF_vars(LoopApplies(w))
  /\ \A s \in Sessions : WF_vars(Install(s)) /\ WF_vars(Patch(s)) /\ WF_vars(Reload(s) \/ ReloadFails(s))

FairSpec == Spec /\ Fairness

-----------------------------------------------------------------------------
(* Types. *)
Tables == [Keys -> Values \cup {None}]

TypeOK ==
  /\ now \in 1 .. LastSecond /\ events \in 0 .. MaxEvents
  /\ rows \in Tables /\ view \in [Workers -> Tables]
  /\ lock \in [Workers -> Sessions \cup {None}]
  /\ \A s \in Sessions :
       /\ session[s].at \in {"idle", "loaded", "editing", "patching", "reloading"}
       /\ session[s].rows \in Tables

(* After the last edit every worker comes to route by what the database    *)
(* holds.  The settings always do.  For the other documents two races can  *)
(* leave a worker behind until the next edit, and nothing else does: two   *)
(* versions of the table that the change test of the loop cannot tell      *)
(* apart (tied: two edits of one row in a second; a row created and        *)
(* deleted again), and a handler that installs what it read, wrote or was  *)
(* asked for over a newer edit (late).                                     *)
ConfigConverges ==
  <>[](\/ \A w \in Workers : view[w] = rows
       \/ doc # "settings" /\ (tied \/ late))
=============================================================================
