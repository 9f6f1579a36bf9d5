--------------------------- MODULE ChannelMonitor ---------------------------
(***************************************************************************)
(* The active probes of one provider channel (app/channel_monitoring.py,   *)
(* app/channel_monitor_leases.py, the monitor operations of app/admin.py). *)
(* Every worker runs the same loop over shared rows: it reconciles the     *)
(* monitors with the channel's routes, then claims due monitors one at a   *)
(* time under a lease, probes, and records the result.  An operator edits  *)
(* monitors, routes and the channel and runs a monitor by hand meanwhile.  *)
(*                                                                         *)
(* A transaction reads in a snapshot, that of its first read, and commits  *)
(* later what its session changed.  A reconciliation of the loop locks     *)
(* nothing; an edit of monitors locks the channel's row, against other     *)
(* edits and not against the loops.  Either may act on rows that are gone  *)
(* or changed.                                                             *)
(*                                                                         *)
(* Times are coarse and counted down: a row has the ticks that its claim   *)
(* lasts and those until it is due.  A probe is given up within its lease  *)
(* (the hard timeout is the lease less five seconds).                      *)
(***************************************************************************)
EXTENDS Integers, FiniteSets, FiniteSetsExt

CONSTANTS
  Workers, Requests,   \* the loops; the operator's requests, one at a time each
  Targets,             \* (endpoint, model) of the routes, best first
  Ids, AutoId,         \* ids of monitors; _auto_monitor_id of the channel
  Lease, Interval,     \* claim lease and interval_seconds, in ticks
  MaxEdits             \* bound: the operator's edits

MonitorAssumption ==
  /\ Targets \subseteq Nat /\ IsFiniteSet(Targets)
  /\ Ids \subseteq Nat /\ AutoId \in Ids
  /\ Lease \in Nat \ {0} /\ Interval \in Nat \ {0} /\ MaxEdits \in Nat
  /\ Requests \cap Workers = {}

VARIABLES
  channel,   \* whether the channel exists
  routes,    \* targets of the channel's active routes
  monitor,   \* rows of provider_channel_monitors
  spent,     \* ids that were given to monitors
  actor,     \* what each loop and each request is doing
  edits

vars == <<channel, routes, monitor, spent, actor, edits>>

Actors == Workers \cup Requests
Idle == [pc |-> "idle"]
Overdue == [pc |-> "overdue"]        \* a reconciliation is to be made

(* claimed: until claimed_until; rest: from last_checked_at on.            *)
NewMonitor(owner, t, st) ==
  [owner |-> owner, target |-> t, status |-> st, claimed |-> 0, rest |-> 0]

(* Before the loops begin: no monitor, or those of an earlier time: the    *)
(* automatic one, or what the operator made of it, set aside for another   *)
(* that the operator has chosen, while that has a route and after.         *)
Init ==
  /\ channel = TRUE
  /\ routes \in SUBSET Targets
  /\ \/ monitor = << >>
     \/ \E t, u \in Targets, i \in Ids \ {AutoId}, o \in {"auto", "manual"} :
        \E x \in {NewMonitor("manual", u, "active"), NewMonitor("invalid", u, "disabled")} :
          monitor = [j \in {AutoId, i} |-> IF j = i THEN x ELSE NewMonitor(o, t, "disabled")]
  /\ spent = DOMAIN monitor \cup {AutoId}
  /\ actor = [a \in Actors |-> IF a \in Workers THEN Overdue ELSE Idle]
  /\ edits = 0

-----------------------------------------------------------------------------
(* reconcile_provider_channel_monitors, a function of routes and rows. *)

(* desired_route_monitor_specs: the best of the active routes. *)
Best(r) == Min(r)

Automatic(s) == {i \in DOMAIN s : s[i].owner = "auto"}
Active(s) == {i \in DOMAIN s : s[i].status = "active"}
ManualActive(s) == Active(s) \ Automatic(s)
Valid(r, s) == {i \in ManualActive(s) : s[i].target \in r}

(* manual_controls_channel *)
ManualControl(s) == ManualActive(s) # {} \/ \E i \in DOMAIN s : s[i].owner = "invalid"

Owner(i, r, s) ==
  LET kept == Valid(r, s) # {}
  IN  IF i \in Automatic(s) THEN "auto"
      ELSE IF kept /\ (i = Min(Valid(r, s)) \/ s[i].owner = "invalid") THEN "manual"
      ELSE IF ~ kept /\ i \in ManualActive(s) /\ i = Min(ManualActive(s)) THEN "invalid"
      ELSE s[i].owner

(* The manual monitor that is kept, if any; every other one is disabled. *)
UnderManual(r, s) ==
  [i \in DOMAIN s |->
     [s[i] EXCEPT !.owner = Owner(i, r, s),
                  !.status = IF i \in Valid(r, s) /\ i = Min(Valid(r, s)) THEN @ ELSE "disabled"]]

(* The automatic monitor of the best route: one that has this target, or   *)
(* the first, or a new one.                                                *)
Chosen(r, s) ==
  LET matching == {i \in Automatic(s) : s[i].target = Best(r)}
  IN  IF matching # {} THEN Min(matching)
      ELSE IF Automatic(s) # {} THEN Min(Automatic(s)) ELSE AutoId

Disabled(s, S) == [i \in DOMAIN s |-> IF i \in S THEN [s[i] EXCEPT !.status = "disabled"] ELSE s[i]]

UnderRoutes(r, s) ==
  LET c == Chosen(r, s)
      rest == Disabled(s, Automatic(s))
  IN  [i \in DOMAIN s \cup {c} |->
         IF i # c THEN rest[i]
         ELSE IF i \in Automatic(s) THEN [s[i] EXCEPT !.target = Best(r), !.status = "active"]
         ELSE NewMonitor("auto", Best(r), "active")]

SlipReconciled(r, s) ==                        \* redundant monitors forgotten
  IF ManualControl(s) THEN UnderManual(r, s)
  ELSE IF r = {} THEN Disabled(s, Automatic(s))
  ELSE [i \in DOMAIN s \cup {Chosen(r, s)} |->
          IF i # Chosen(r, s) THEN s[i] ELSE UnderRoutes(r, s)[i]]

Reconciled(r, s) ==
  IF ManualControl(s) THEN UnderManual(r, s)
  ELSE IF r = {} THEN Disabled(s, Automatic(s))
  ELSE UnderRoutes(r, s)

(* The row that is added has the id of one that the operator has made his. *)
IdTaken(r, s) ==
  ~ ManualControl(s) /\ r # {} /\ Automatic(s) = {} /\ AutoId \in DOMAIN s

-----------------------------------------------------------------------------
(* Sessions. *)

Goto(a, x) == actor' = [actor EXCEPT ![a] = x]

(* What a reconciliation looks at. *)
Seen == [i \in DOMAIN monitor |-> [monitor[i] EXCEPT !.claimed = 0, !.rest = 0]]

(* What a session writes: the rows it adds, and of the others the          *)
(* attributes it changed.                                                  *)
Changes(seen, new, added) ==
  [i \in {j \in DOMAIN new : j \in added \/ new[j] # seen[j]} |->
     [added |-> i \in added,
      fields |-> LET fs == {f \in DOMAIN new[i] : i \in added \/ new[i][f] # seen[i][f]}
                 IN  [f \in fs |-> new[i][f]]]]

Edited(seen, new) == Changes(seen, new, DOMAIN new \ DOMAIN seen)

Reconciling(r, s) ==
  LET new == Reconciled(r, s)
  IN  Changes(s, new, IF IdTaken(r, s) THEN {AutoId} ELSE DOMAIN new \ DOMAIN s)

(* A commit fails if it inserts a row that exists or updates one that is   *)
(* gone, or adds to a channel that is gone.                                *)
Applies(c, s) == \A i \in DOMAIN c : IF c[i].added THEN channel /\ i \notin DOMAIN s
                                          ELSE i \in DOMAIN s

Patched(row, fields) == [f \in DOMAIN row |-> IF f \in DOMAIN fields THEN fields[f] ELSE row[f]]

Patch(c, s) ==
  [i \in DOMAIN s \cup DOMAIN c |->
     IF i \notin DOMAIN c THEN s[i]
     ELSE IF c[i].added THEN c[i].fields
     ELSE Patched(s[i], c[i].fields)]

-----------------------------------------------------------------------------
(* The loop: provider_channel_monitor_loop. *)

(* A loop goes on with its monitors; a request has then been answered. *)
After(a) == IF a \in Requests THEN Idle ELSE [pc |-> "poll"]

(* A reconciliation: of a loop, or after an edit of routes.                *)
Read(a) ==
  /\ actor[a] \in (IF a \in Workers THEN {Idle, Overdue} ELSE {Overdue})
  /\ LET c == Reconciling(routes, Seen)
     IN  Goto(a, IF c = << >> THEN After(a) ELSE [pc |-> "write", changes |-> c])
  /\ UNCHANGED <<channel, routes, monitor, spent, edits>>

(* Reconciled at most once a minute, if that has succeeded. *)
SkipReconcile(w) ==
  /\ actor[w] = Idle
  /\ Goto(w, [pc |-> "poll"])
  /\ UNCHANGED <<channel, routes, monitor, spent, edits>>

(* A loop whose commit fails pauses, and begins with a reconciliation; a   *)
(* request lets it be.                                                     *)
WriteMonitors(a) ==
  /\ actor[a].pc = "write"
  /\ LET c == actor[a].changes
     IN  IF Applies(c, monitor) THEN monitor' = Patch(c, monitor) /\ Goto(a, After(a))
         ELSE UNCHANGED monitor /\ Goto(a, IF a \in Workers THEN Overdue ELSE Idle)
  /\ UNCHANGED <<channel, routes, spent, edits>>

(* claim_due_provider_channel_monitor_ids with limit=1: of the active      *)
(* monitors without a live claim the one that was checked first, if due;   *)
(* if it is not, none is.                                                  *)
Unclaimed(i) == monitor[i].claimed = 0
Due == {i \in Active(monitor) : Unclaimed(i) /\ monitor[i].rest = 0}

(* left: what the hard timeout leaves of the lease. *)
Probing(i) == [pc |-> "probing", id |-> i, left |-> Lease - 1]

Claim(w) ==
  /\ actor[w].pc = "poll"
  /\ \E i \in Due :
       /\ monitor' = [monitor EXCEPT ![i].claimed = Lease]
       /\ Goto(w, Probing(i))
  /\ UNCHANGED <<channel, routes, spent, edits>>

EndPoll(w) ==
  /\ actor[w].pc = "poll" /\ Due = {}
  /\ Goto(w, Idle)
  /\ UNCHANGED <<channel, routes, monitor, spent, edits>>

(* claim_provider_channel_monitor_for_run *)
SlipRunNow(a) ==                               \* the lease is not looked at
  /\ actor[a] = Idle
  /\ \E i \in DOMAIN monitor :
       /\ monitor' = [monitor EXCEPT ![i].claimed = Lease]
       /\ Goto(a, Probing(i))
  /\ UNCHANGED <<channel, routes, spent, edits>>

RunNow(a) ==
  /\ actor[a] = Idle
  /\ \E i \in DOMAIN monitor :
       /\ Unclaimed(i)
       /\ monitor' = [monitor EXCEPT ![i].claimed = Lease]
       /\ Goto(a, Probing(i))
  /\ UNCHANGED <<channel, routes, spent, edits>>

(* The interval begins with the probe. *)
Rest(left) == Max({0, Interval - (Lease - 1 - left)})

(* run_provider_channel_monitor_once: the answer, whatever it says, is     *)
(* recorded and ends the claim; if the row has gone with the channel,      *)
(* nothing is.                                                             *)
Record(a) ==
  /\ actor[a].pc = "probing"
  /\ LET i == actor[a].id
     IN  monitor' = IF i \notin DOMAIN monitor THEN monitor
                    ELSE [monitor EXCEPT ![i].claimed = 0, ![i].rest = Rest(actor[a].left)]
  /\ Goto(a, After(a))
  /\ UNCHANGED <<channel, routes, spent, edits>>

(* The hard timeout, an error, or the end of the process: the claim stays. *)
GiveUp(a) ==
  /\ actor[a].pc = "probing"
  /\ Goto(a, After(a))
  /\ UNCHANGED <<channel, routes, monitor, spent, edits>>

Loop(w) ==
  \/ SkipReconcile(w) \/ Read(w) \/ WriteMonitors(w)
  \/ EndPoll(w) \/ Claim(w)

Probe(a) == Record(a) \/ GiveUp(a)

-----------------------------------------------------------------------------
(* The operator. *)

Edit(a) ==
  /\ actor[a] = Idle /\ edits < MaxEdits
  /\ edits' = edits + 1

(* The channel's row is locked, then routes and monitors are read ...      *)
Locked == \E b \in Requests : actor[b].pc = "locked"

Lock(a) ==
  /\ Edit(a) /\ channel /\ ~ Locked
  /\ Goto(a, [pc |-> "locked", routes |-> routes, rows |-> Seen])
  /\ UNCHANGED <<channel, routes, monitor, spent>>

(* ... or a monitor is looked up first, and all is read as it then was,    *)
(* but for the monitor, which is read again under its lock.                *)
LookUp(a) ==
  /\ Edit(a)
  /\ \E i \in DOMAIN monitor :
       Goto(a, [pc |-> "waiting", id |-> i, routes |-> routes, rows |-> Seen])
  /\ UNCHANGED <<channel, routes, monitor, spent>>

(* The rows the session saw become those it wants, are reconciled, and     *)
(* that is committed.                                                      *)
Store(a, base, seen, wanted) ==
  LET first == Edited(seen, wanted)
      rest == Reconciling(actor[a].routes, wanted)
      mid == Patch(first, base)
  IN  /\ Applies(first, base) /\ Applies(rest, mid)
      /\ monitor' = Patch(rest, mid)
      /\ spent' = spent \cup DOMAIN wanted
      /\ Goto(a, Idle)
      /\ UNCHANGED <<channel, routes, edits>>

Unused == Ids \ spent

Create(a) ==
  /\ actor[a].pc = "locked"
  /\ \E i \in Unused, t \in Targets, o \in {"manual", "admin"} :
       LET rows == actor[a].rows
           row == NewMonitor(o, t, IF o = "manual" THEN "active" ELSE "disabled")
       IN  Store(a, monitor, rows, [j \in DOMAIN rows \cup {i} |-> IF j = i THEN row ELSE rows[j]])

Update(a) ==
  /\ actor[a].pc = "waiting" /\ ~ Locked
  /\ LET i == actor[a].id IN
       /\ i \in DOMAIN monitor
       /\ \E t \in Targets, st \in {"active", "disabled"} :
            LET seen == [actor[a].rows EXCEPT ![i] = Seen[i]]
            IN  Store(a, monitor, seen,
                      [seen EXCEPT ![i].target = t, ![i].status = st,
                                   ![i].owner = IF st = "active" THEN "manual" ELSE @])

Without(s, i) == [j \in DOMAIN s \ {i} |-> s[j]]

Delete(a) ==
  /\ actor[a].pc = "waiting" /\ ~ Locked
  /\ LET i == actor[a].id
         rest == Without(actor[a].rows, i)
     IN  /\ i \in DOMAIN monitor /\ Unclaimed(i)
         /\ Store(a, Without(monitor, i), rest, rest)

(* The monitor a selection is about: one with its target, of those it      *)
(* prefers if there is one, or a new one.                                  *)
Picks(rows, t, prefers, i) ==
  LET matching == {j \in DOMAIN rows : rows[j].target = t}
      first == matching \cap prefers
  IN  IF first # {} THEN i = Min(first) ELSE IF matching # {} THEN i = Min(matching) ELSE i \in Unused

(* update_provider_channel_monitor_selection, manual: it prefers a monitor *)
(* that the operator made.                                                 *)
Select(a) ==
  /\ actor[a].pc = "locked"
  /\ LET rows == actor[a].rows IN
     \E t \in actor[a].routes, i \in Ids :
       /\ Picks(rows, t, DOMAIN rows \ Automatic(rows), i)
       /\ LET row == IF i \in DOMAIN rows THEN rows[i] ELSE NewMonitor("manual", t, "active")
          IN  Store(a, monitor, rows,
                    [j \in DOMAIN rows \cup {i} |->
                       IF j = i THEN [row EXCEPT !.status = "active", !.owner = "manual"]
                       ELSE [rows[j] EXCEPT !.status = "disabled"]])

(* Automatic again: every monitor becomes an automatic one, and that of    *)
(* the best route, if there is a route, is active.                         *)
SelectAutomatic(a) ==
  /\ actor[a].pc = "locked"
  /\ LET rows == actor[a].rows
         all(S) == [j \in DOMAIN rows \cup S |->
                      [(IF j \in DOMAIN rows THEN rows[j]
                        ELSE NewMonitor("auto", Best(actor[a].routes), "active"))
                         EXCEPT !.owner = "auto", !.status = IF j \in S THEN "active" ELSE "disabled"]]
     IN  IF actor[a].routes = {} THEN Store(a, monitor, rows, all({}))
         ELSE \E i \in Ids :
                /\ Picks(rows, Best(actor[a].routes), Automatic(rows), i)
                /\ Store(a, monitor, rows, all({i}))

(* The edit is refused or fails, and is rolled back. *)
Refuse(a) ==
  /\ actor[a].pc \in {"locked", "waiting"}
  /\ Goto(a, Idle)
  /\ UNCHANGED <<channel, routes, monitor, spent, edits>>

(* Routes or the settings of the channel change, and are committed; then   *)
(* the monitors are reconciled.                                            *)
EditRoutes(a) ==
  /\ Edit(a) /\ channel
  /\ \E r \in SUBSET Targets : r # routes /\ routes' = r
  /\ Goto(a, Overdue)
  /\ UNCHANGED <<channel, monitor, spent>>

(* delete_provider_channel: its routes and monitors go with it, claimed or *)
(* not.                                                                    *)
DeleteChannel(a) ==
  /\ Edit(a) /\ channel /\ ~ Locked
  /\ channel' = FALSE /\ routes' = {} /\ monitor' = << >>
  /\ UNCHANGED <<spent, actor>>

Administration(a) ==
  \/ Lock(a) \/ LookUp(a) \/ Create(a) \/ Update(a) \/ Delete(a) \/ Select(a) \/ SelectAutomatic(a)
  \/ Refuse(a) \/ EditRoutes(a) \/ Read(a) \/ WriteMonitors(a) \/ DeleteChannel(a) \/ RunNow(a)

(* Nobody probes on when his lease ends. *)
Down(n) == IF n = 0 THEN 0 ELSE n - 1

Tick ==
  /\ \A a \in Actors : actor[a].pc = "probing" => actor[a].left > 0
  /\ monitor' = [i \in DOMAIN monitor |->
                   [monitor[i] EXCEPT !.claimed = Down(@), !.rest = Down(@)]]
  /\ actor' = [a \in Actors |->
                 IF actor[a].pc = "probing" THEN [actor[a] EXCEPT !.left = @ - 1] ELSE actor[a]]
  /\ UNCHANGED <<channel, routes, spent, edits>>

Next ==
  \/ \E w \in Workers : Loop(w)
  \/ \E a \in Requests : Administration(a)
  \/ \E a \in Actors : Probe(a)
  \/ Tick

Spec == Init /\ [][Next]_vars

(* The loops of the workers do not stop: each of their steps ends, within  *)
(* a timeout, and a minute after a reconciliation they make another.       *)
Fairness == \A w \in Workers : []<><<Read(w)>>_vars

FairSpec == Spec /\ Fairness

-----------------------------------------------------------------------------
(* Properties. *)

TypeOK ==
  /\ channel \in BOOLEAN
  /\ routes \subseteq Targets
  /\ DOMAIN monitor \subseteq spent /\ spent \subseteq Ids
  /\ \A i \in DOMAIN monitor :
       /\ monitor[i].owner \in {"auto", "manual", "invalid", "admin"}
       /\ monitor[i].status \in {"active", "disabled"}
       /\ monitor[i].target \in Targets

(* A monitor is never probed by two at a time, two workers or a worker and *)
(* the operator, nor deleted while it is probed, unless its channel is:    *)
(* the results of a monitor are read, added to the counters of the day and *)
(* written back without a lock.                                            *)
Busy(a, i) == actor[a].pc = "probing" /\ actor[a].id = i

ProbedByOne ==
  \A i \in Ids, a \in Actors :
    Busy(a, i) => /\ channel => i \in DOMAIN monitor
                  /\ \A b \in Actors \ {a} : ~ Busy(b, i)

(* Once the operator has stopped, whatever stale rows the loops and the    *)
(* edits acted on, the channel comes to have at most one active monitor,   *)
(* of one of its active routes; and one, of the best route, unless the     *)
(* operator's own choice rules the channel, or a monitor that is no longer *)
(* automatic keeps the id from a new one.                                  *)
Settled ==
  /\ Cardinality(Active(monitor)) <= 1
  /\ \A i \in Active(monitor) : monitor[i].target \in routes
  /\ ~ ManualControl(monitor) /\ routes # {} /\ ~ IdTaken(routes, monitor) =>
       \E i \in Active(monitor) : monitor[i].owner = "auto" /\ monitor[i].target = Best(routes)

MonitorsConverge == <>[]Settled
=============================================================================
