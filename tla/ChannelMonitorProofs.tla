-------------------------- MODULE ChannelMonitorProofs --------------------------
(***************************************************************************)
(* Proofs about the monitors of a channel, for every number of workers,    *)
(* requests, monitors, routes and edits: the lease of a claim keeps the    *)
(* others away from a monitor while it is probed.  The reconciliation of   *)
(* the loops locks nothing, an edit does not lock the loops out, and both  *)
(* commit what they saw earlier, so the argument is about what such a      *)
(* commit can carry: whole rows that nobody has, and of the others never   *)
(* the claim.                                                              *)
(***************************************************************************)
EXTENDS MCChannelMonitor, TLAPS

LEMMA Bounds == Lease \in Nat \ {0} /\ Requests \cap Workers = {}
BY MonitorAssumed DEF MonitorAssumed, MonitorAssumption

-----------------------------------------------------------------------------
(* Rows. *)

Columns == {"owner", "target", "status", "claimed", "rest"}
IsRow(x) == DOMAIN x = Columns /\ x = [f \in Columns |-> x[f]] /\ x.claimed \in Nat

IsTable(s) == s = [i \in DOMAIN s |-> s[i]] /\ \A i \in DOMAIN s : IsRow(s[i])

(* What sessions compute with: rows without their claims. *)
PlainRow(x) == IsRow(x) /\ x.claimed = 0
Plain(s) == s = [i \in DOMAIN s |-> s[i]] /\ \A i \in DOMAIN s : PlainRow(s[i])

LEMMA NewIsPlain ==
  ASSUME NEW owner, NEW t, NEW st
  PROVE  PlainRow(NewMonitor(owner, t, st))
BY DEF PlainRow, IsRow, NewMonitor, Columns

LEMMA EditIsPlain ==
  ASSUME NEW x, PlainRow(x), NEW v
  PROVE  /\ PlainRow([x EXCEPT !.owner = v])
         /\ PlainRow([x EXCEPT !.target = v])
         /\ PlainRow([x EXCEPT !.status = v])
BY DEF PlainRow, IsRow, Columns

LEMMA EditsArePlain ==
  ASSUME NEW x, PlainRow(x), NEW v, NEW st
  PROVE  /\ PlainRow([x EXCEPT !.owner = v, !.status = st])
         /\ PlainRow([x EXCEPT !.target = v, !.status = st])
         /\ PlainRow([x EXCEPT !.status = st, !.owner = v])
<1>1. DOMAIN x = Columns /\ x = [f \in Columns |-> x[f]]
  BY DEF PlainRow, IsRow
<1>2. [x EXCEPT !.owner = v, !.status = st] = [[x EXCEPT !.owner = v] EXCEPT !.status = st]
  BY <1>1 DEF Columns
<1>3. [x EXCEPT !.target = v, !.status = st] = [[x EXCEPT !.target = v] EXCEPT !.status = st]
  BY <1>1 DEF Columns
<1>4. [x EXCEPT !.status = st, !.owner = v] = [[x EXCEPT !.status = st] EXCEPT !.owner = v]
  BY <1>1 DEF Columns
<1>5. ASSUME NEW z, PlainRow(z)
      PROVE  PlainRow([z EXCEPT !.status = st]) /\ PlainRow([z EXCEPT !.owner = v])
  BY <1>5, EditIsPlain
<1> QED  BY <1>2, <1>3, <1>4, <1>5, EditIsPlain, Zenon

(* What a transaction sees of the monitors. *)
LEMMA SeenIsPlain ==
  ASSUME IsTable(monitor)
  PROVE  Plain(Seen) /\ DOMAIN Seen = DOMAIN monitor
<1>1. ASSUME NEW x, IsRow(x) PROVE PlainRow([x EXCEPT !.claimed = 0, !.rest = 0])
  <2>1. PICK y : y = [x EXCEPT !.claimed = 0]
    OBVIOUS
  <2>2. PICK z : z = [y EXCEPT !.rest = 0]
    OBVIOUS
  <2>3. DOMAIN y = Columns /\ y = [f \in Columns |-> y[f]] /\ y.claimed = 0
    BY <1>1, <2>1 DEF IsRow, Columns
  <2>4. DOMAIN z = Columns /\ z = [f \in Columns |-> z[f]] /\ z.claimed = 0
    BY <2>2, <2>3 DEF Columns
  <2>5. z = [x EXCEPT !.claimed = 0, !.rest = 0]
    BY <1>1, <2>1, <2>2 DEF IsRow
  <2>6. PlainRow(z)
    BY <2>4 DEF PlainRow, IsRow
  <2> QED  BY <2>5, <2>6
<1>2. PICK s : s = Seen
  OBVIOUS
<1>3. s = [i \in DOMAIN monitor |-> [monitor[i] EXCEPT !.claimed = 0, !.rest = 0]]
  BY <1>2 DEF Seen
<1>4. DOMAIN s = DOMAIN monitor /\ s = [i \in DOMAIN s |-> s[i]]
  BY <1>3, Zenon
<1>5. ASSUME NEW i \in DOMAIN monitor PROVE PlainRow(s[i])
  <2>1. PICK x : x = monitor[i]
    OBVIOUS
  <2>2. IsRow(x) /\ s[i] = [x EXCEPT !.claimed = 0, !.rest = 0]
    BY <1>3, <2>1 DEF IsTable
  <2> QED  BY <1>1, <2>2
<1> QED  BY <1>2, <1>4, <1>5 DEF Plain

(* A reconciliation makes rows like those it finds. *)
LEMMA ReconciledIsPlain ==
  ASSUME NEW r, NEW s, Plain(s)
  PROVE  Plain(Reconciled(r, s))
<1>1. \A i \in DOMAIN s : PlainRow(s[i])
  BY DEF Plain
<1>2. Plain(UnderManual(r, s))
  <2>1. PICK new : new = UnderManual(r, s)
    OBVIOUS
  <2>2. DOMAIN new = DOMAIN s /\ new = [i \in DOMAIN new |-> new[i]]
    BY <2>1, Zenon DEF UnderManual
  <2>3. ASSUME NEW i \in DOMAIN s PROVE PlainRow(new[i])
    <3>1. PICK x, v : x = s[i] /\ v = Owner(i, r, s)
      BY Zenon
    <3>2. PICK y : y = [x EXCEPT !.owner = v]
      OBVIOUS
    <3>3. PICK st : st = IF i \in Valid(r, s) /\ i = Min(Valid(r, s)) THEN y.status ELSE "disabled"
      OBVIOUS
    <3>4. new[i] = [y EXCEPT !.status = st]
      BY <2>1, <3>1, <3>2, <3>3 DEF UnderManual
    <3>5. PlainRow(y)
      BY <1>1, <3>1, <3>2, EditIsPlain, Zenon
    <3>6. PlainRow([y EXCEPT !.status = st])
      BY <3>5, EditIsPlain, Zenon
    <3> QED  BY <3>4, <3>6
  <2> QED  BY <2>1, <2>2, <2>3 DEF Plain
<1>3. PICK rest : rest = Disabled(s, Automatic(s))
  OBVIOUS
<1>4. DOMAIN rest = DOMAIN s /\ rest = [i \in DOMAIN rest |-> rest[i]]
  BY <1>3, Zenon DEF Disabled
<1>5. ASSUME NEW i \in DOMAIN s PROVE PlainRow(rest[i])
  <2>1. rest[i] \in {s[i], [s[i] EXCEPT !.status = "disabled"]}
    BY <1>3, Zenon DEF Disabled
  <2>2. PlainRow([s[i] EXCEPT !.status = "disabled"])
    BY <1>1, EditIsPlain, Zenon
  <2> QED  BY <1>1, <2>1, <2>2
<1>6. Plain(UnderRoutes(r, s))
  <2>1. PICK c, t : c = Chosen(r, s) /\ t = Best(r)
    OBVIOUS
  <2>2. PICK new : new = UnderRoutes(r, s)
    OBVIOUS
  <2>3. new = [i \in DOMAIN s \cup {c} |->
                 IF i # c THEN rest[i]
                 ELSE IF i \in Automatic(s) THEN [s[i] EXCEPT !.target = t, !.status = "active"]
                 ELSE NewMonitor("auto", t, "active")]
    BY <1>3, <2>1, <2>2, Zenon DEF UnderRoutes
  <2>4. new = [i \in DOMAIN new |-> new[i]] /\ DOMAIN new = DOMAIN s \cup {c}
    BY <2>3, Zenon
  <2>5. ASSUME NEW i \in DOMAIN s \cup {c} PROVE PlainRow(new[i])
    <3>1. CASE i # c
      BY <1>5, <2>3, <3>1, Zenon
    <3>2. CASE i = c /\ i \in Automatic(s)
      <4>1. new[i] = [s[i] EXCEPT !.target = t, !.status = "active"]
        BY <2>3, <3>2, Zenon
      <4>2. PlainRow(s[i])
        BY <1>1, <3>2 DEF Automatic
      <4>3. PlainRow([s[i] EXCEPT !.target = t, !.status = "active"])
        BY <4>2, EditsArePlain, Zenon
      <4> QED  BY <4>1, <4>3
    <3>3. CASE i = c /\ i \notin Automatic(s)
      <4>1. new[i] = NewMonitor("auto", t, "active")
        BY <2>3, <3>3, Zenon
      <4> QED  BY <4>1, NewIsPlain, Zenon
    <3> QED  BY <3>1, <3>2, <3>3
  <2> QED  BY <2>2, <2>4, <2>5 DEF Plain
<1>7. Plain(rest)
  BY <1>4, <1>5 DEF Plain
<1> QED  BY <1>2, <1>3, <1>6, <1>7 DEF Reconciled

-----------------------------------------------------------------------------
(* What a session commits: whole rows, or parts of rows without their      *)
(* claim.                                                                  *)
Acceptable(c) ==
  \A i \in DOMAIN c :
    IF c[i].added THEN IsRow(c[i].fields) ELSE "claimed" \notin DOMAIN c[i].fields

LEMMA ChangesAcceptable ==
  ASSUME NEW s, Plain(s), NEW new, Plain(new), NEW added, DOMAIN new \subseteq DOMAIN s \cup added
  PROVE  Acceptable(Changes(s, new, added))
<1> DEFINE fs(i) == {f \in DOMAIN new[i] : i \in added \/ new[i][f] # s[i][f]}
           fields(i) == [f \in fs(i) |-> new[i][f]]
           rows == {j \in DOMAIN new : j \in added \/ new[j] # s[j]}
<1>1. Changes(s, new, added) = [i \in rows |-> [added |-> i \in added, fields |-> fields(i)]]
  BY DEF Changes
<1>2. ASSUME NEW i \in rows, i \in added
      PROVE  IsRow(fields(i))
  <2>1. fs(i) = DOMAIN new[i] /\ DOMAIN new[i] = Columns /\ IsRow(new[i])
    BY <1>2 DEF Plain, PlainRow, IsRow
  <2>2. fields(i) = new[i]
    BY <2>1 DEF IsRow
  <2> QED  BY <2>1, <2>2
<1>3. ASSUME NEW i \in rows, i \notin added
      PROVE  "claimed" \notin DOMAIN fields(i)
  <2>1. i \in DOMAIN s /\ i \in DOMAIN new
    BY <1>3
  <2>2. new[i].claimed = 0 /\ s[i].claimed = 0
    BY <2>1 DEF Plain, PlainRow
  <2> QED  BY <1>3, <2>2
<1>4. PICK c : c = Changes(s, new, added)
  OBVIOUS
<1>5. /\ DOMAIN c = rows
      /\ \A i \in rows : c[i].added = (i \in added) /\ c[i].fields = fields(i)
  BY <1>1, <1>4
<1> HIDE DEF fs, fields, rows
<1>6. Acceptable(c)
  <2> SUFFICES ASSUME NEW i \in rows
               PROVE  IF c[i].added THEN IsRow(c[i].fields) ELSE "claimed" \notin DOMAIN c[i].fields
    BY <1>5 DEF Acceptable
  <2>1. CASE i \in added
    BY <1>2, <1>5, <2>1, Zenon
  <2>2. CASE i \notin added
    BY <1>3, <1>5, <2>2, Zenon
  <2> QED  BY <2>1, <2>2
<1> QED  BY <1>4, <1>6

LEMMA EditedAcceptable ==
  ASSUME NEW s, Plain(s), NEW new, Plain(new)
  PROVE  Acceptable(Edited(s, new))
<1>1. PICK added : added = DOMAIN new \ DOMAIN s
  OBVIOUS
<1>2. Acceptable(Changes(s, new, added))
  BY <1>1, ChangesAcceptable
<1> QED  BY <1>1, <1>2 DEF Edited

LEMMA ReconcilingAcceptable ==
  ASSUME NEW r, NEW s, Plain(s)
  PROVE  Acceptable(Reconciling(r, s))
<1>1. PICK new : new = Reconciled(r, s)
  OBVIOUS
<1>2. Plain(new)
  BY <1>1, ReconciledIsPlain
<1>3. PICK added : added = IF IdTaken(r, s) THEN {AutoId} ELSE DOMAIN new \ DOMAIN s
  OBVIOUS
<1>4. DOMAIN new \subseteq DOMAIN s \cup added
  <2>1. CASE IdTaken(r, s)
    <3>1. new = UnderRoutes(r, s) /\ Automatic(s) = {} /\ added = {AutoId}
      BY <1>1, <1>3, <2>1 DEF IdTaken, Reconciled
    <3>2. Chosen(r, s) = AutoId
      BY <3>1 DEF Chosen
    <3>3. DOMAIN UnderRoutes(r, s) = DOMAIN s \cup {Chosen(r, s)}
      BY Zenon DEF UnderRoutes
    <3> QED  BY <3>1, <3>2, <3>3
  <2>2. CASE ~ IdTaken(r, s)
    BY <1>3, <2>2
  <2> QED  BY <2>1, <2>2
<1>5. Acceptable(Changes(s, new, added))
  BY <1>2, <1>4, ChangesAcceptable
<1> QED  BY <1>1, <1>3, <1>5 DEF Reconciling

(* A commit takes no row away and moves nobody's claim, and adds nothing   *)
(* to a channel that is gone.                                              *)
Keeps(s, new) ==
  /\ DOMAIN s \subseteq DOMAIN new
  /\ \A i \in DOMAIN s : new[i].claimed = s[i].claimed
  /\ ~ channel => DOMAIN new = DOMAIN s

LEMMA PatchKeeps ==
  ASSUME NEW s, IsTable(s), NEW c, Acceptable(c), Applies(c, s)
  PROVE  IsTable(Patch(c, s)) /\ Keeps(s, Patch(c, s))
<1>1. PICK new : new = Patch(c, s)
  OBVIOUS
<1>2. new = [i \in DOMAIN s \cup DOMAIN c |->
               IF i \notin DOMAIN c THEN s[i]
               ELSE IF c[i].added THEN c[i].fields ELSE Patched(s[i], c[i].fields)]
  BY <1>1 DEF Patch
<1>3. DOMAIN new = DOMAIN s \cup DOMAIN c /\ new = [i \in DOMAIN new |-> new[i]]
  BY <1>2, Zenon
<1>4. ASSUME NEW i \in DOMAIN s PROVE IsRow(new[i]) /\ new[i].claimed = s[i].claimed
  <2>1. IsRow(s[i])
    BY DEF IsTable
  <2>2. CASE i \notin DOMAIN c
    BY <1>2, <2>1, <2>2, Zenon
  <2>3. CASE i \in DOMAIN c
    <3>1. ~ c[i].added /\ "claimed" \notin DOMAIN c[i].fields
      BY <2>3 DEF Applies, Acceptable
    <3>2. PICK p, x : p = new[i] /\ x = s[i]
      OBVIOUS
    <3>3. p = Patched(x, c[i].fields)
      BY <1>2, <2>3, <3>1, <3>2, Zenon
    <3>4. DOMAIN p = Columns /\ p = [f \in Columns |-> p[f]] /\ p.claimed = x.claimed
      BY <2>1, <3>1, <3>2, <3>3 DEF Patched, IsRow, Columns
    <3> QED  BY <2>1, <3>2, <3>4 DEF IsRow
  <2> QED  BY <2>2, <2>3
<1>5. ASSUME NEW i \in DOMAIN c, i \notin DOMAIN s PROVE channel /\ IsRow(new[i])
  <2>1. c[i].added /\ channel /\ IsRow(c[i].fields)
    BY <1>5 DEF Applies, Acceptable
  <2>2. new[i] = c[i].fields
    BY <1>2, <2>1, Zenon
  <2> QED  BY <2>1, <2>2
<1>6. IsTable(new)
  BY <1>3, <1>4, <1>5 DEF IsTable
<1>7. Keeps(s, new)
  <2>1. ~ channel => DOMAIN c \subseteq DOMAIN s
    BY <1>5
  <2> QED  BY <1>3, <1>4, <2>1 DEF Keeps
<1> QED  BY <1>1, <1>6, <1>7

-----------------------------------------------------------------------------
(* The lease.  Whoever probes a monitor holds the claim that the row       *)
(* shows, and gives the probe up before it ends; a channel that is gone    *)
(* has no monitors to claim.                                               *)

Probes(a) == actor[a].pc = "probing"

LeaseHeld(a) ==
  /\ actor[a].left \in Nat
  /\ channel => /\ actor[a].id \in DOMAIN monitor
                /\ monitor[actor[a].id].claimed = actor[a].left + 1

(* What an actor holds: its probe, or what its session commits. *)
Holds(x) ==
  /\ x.pc = "probing" => x = [pc |-> "probing", id |-> x.id, left |-> x.left]
  /\ x.pc = "write" => Acceptable(x.changes)
  /\ x.pc \in {"locked", "waiting"} => Plain(x.rows)

MonitorInv ==
  /\ channel \in BOOLEAN /\ IsTable(monitor) /\ (~ channel => DOMAIN monitor = {})
  /\ actor = [a \in Actors |-> actor[a]]
  /\ \A a \in Actors : Probes(a) => LeaseHeld(a)
  /\ \A a, b \in Actors : a # b /\ Probes(a) /\ Probes(b) => actor[a].id # actor[b].id
  /\ \A a \in Actors : Holds(actor[a])

LEMMA MonitorInit == Init => MonitorInv
<1> SUFFICES ASSUME Init PROVE MonitorInv
  OBVIOUS
<1>1. /\ channel = TRUE /\ actor = [a \in Actors |-> actor[a]]
      /\ \A a \in Actors : actor[a].pc \in {"idle", "overdue"}
  BY DEF Init, Idle, Overdue
<1>2. IsTable(monitor)
  <2>1. CASE monitor = << >>
    BY <2>1 DEF IsTable
  <2>2. CASE monitor # << >>
    <3>1. PICK t, u \in Targets, i \in Ids \ {AutoId}, o \in {"auto", "manual"} :
            \E x \in {NewMonitor("manual", u, "active"), NewMonitor("invalid", u, "disabled")} :
              monitor = [j \in {AutoId, i} |-> IF j = i THEN x ELSE NewMonitor(o, t, "disabled")]
      BY <2>2, Zenon DEF Init
    <3>2. PICK x \in {NewMonitor("manual", u, "active"), NewMonitor("invalid", u, "disabled")} :
            monitor = [j \in {AutoId, i} |-> IF j = i THEN x ELSE NewMonitor(o, t, "disabled")]
      BY <3>1, Zenon
    <3>3. IsRow(x)
      BY NewIsPlain, Zenon DEF PlainRow
    <3>4. IsRow(NewMonitor(o, t, "disabled"))
      BY NewIsPlain, Zenon DEF PlainRow
    <3> QED  BY <3>2, <3>3, <3>4 DEF IsTable
  <2> QED  BY <2>1, <2>2
<1> QED  BY <1>1, <1>2 DEF MonitorInv, Probes, Holds

(* An actor goes on; nobody else moves. *)
LEMMA ActorMoves ==
  ASSUME MonitorInv, NEW a \in Actors, NEW x, Goto(a, x)
  PROVE  /\ actor' = [b \in Actors |-> actor'[b]] /\ actor'[a] = x
         /\ \A b \in Actors : b # a => actor'[b] = actor[b]
BY DEF MonitorInv, Goto

(* The rows change, one actor goes on, and no probe begins. *)
LEMMA SessionMoves ==
  ASSUME MonitorInv, NEW a \in Actors, NEW x, Goto(a, x), x.pc # "probing", Holds(x),
         IsTable(monitor'), UNCHANGED channel, ~ channel => DOMAIN monitor' = {},
         \A b \in Actors : b # a /\ Probes(b) /\ channel =>
           /\ actor[b].id \in DOMAIN monitor'
           /\ monitor'[actor[b].id].claimed = monitor[actor[b].id].claimed
  PROVE  MonitorInv'
<1>1. /\ actor' = [b \in Actors |-> actor'[b]] /\ actor'[a] = x
      /\ \A b \in Actors : b # a => actor'[b] = actor[b]
  BY ActorMoves
<1>2. ASSUME NEW b \in Actors, actor'[b].pc = "probing"
      PROVE  /\ b # a /\ Probes(b) /\ actor'[b] = actor[b] /\ actor[b].left \in Nat
             /\ channel => /\ actor[b].id \in DOMAIN monitor'
                           /\ monitor'[actor[b].id].claimed = actor[b].left + 1
  <2>1. b # a /\ Probes(b) /\ actor'[b] = actor[b]
    BY <1>1, <1>2 DEF Probes
  <2> QED  BY <2>1 DEF MonitorInv, LeaseHeld
<1>3. \A b \in Actors : Probes(b)' => LeaseHeld(b)'
  BY <1>2 DEF Probes, LeaseHeld
<1>4. \A b, d \in Actors : b # d /\ Probes(b)' /\ Probes(d)' => actor'[b].id # actor'[d].id
  BY <1>2 DEF MonitorInv, Probes
<1>5. ASSUME NEW b \in Actors PROVE Holds(actor'[b])
  BY <1>1 DEF MonitorInv
<1>6. \A b \in Actors : Holds(actor[b])'
  BY <1>5 DEF Holds, Acceptable, Plain
<1> QED  BY <1>1, <1>3, <1>4, <1>6 DEF MonitorInv

LEMMA SessionStays ==
  ASSUME MonitorInv, NEW a \in Actors, NEW x, Goto(a, x), x.pc # "probing", Holds(x),
         UNCHANGED <<channel, monitor>>
  PROVE  MonitorInv'
<1>1. IsTable(monitor') /\ (~ channel => DOMAIN monitor' = {})
  BY DEF MonitorInv
<1>2. \A b \in Actors : b # a /\ Probes(b) /\ channel =>
        /\ actor[b].id \in DOMAIN monitor'
        /\ monitor'[actor[b].id].claimed = monitor[actor[b].id].claimed
  BY DEF MonitorInv, LeaseHeld
<1> QED  BY <1>1, <1>2, SessionMoves

(* A probe begins on a monitor whose claim has ended. *)
LEMMA ClaimKeeps ==
  ASSUME MonitorInv, NEW a \in Actors, NEW i \in DOMAIN monitor, ~ Probes(a), Unclaimed(i),
         monitor' = [monitor EXCEPT ![i].claimed = Lease], Goto(a, Probing(i)),
         UNCHANGED channel
  PROVE  MonitorInv'
<1>1. /\ actor' = [b \in Actors |-> actor'[b]] /\ actor'[a] = Probing(i)
      /\ \A b \in Actors : b # a => actor'[b] = actor[b]
  BY ActorMoves
<1>2. actor'[a].pc = "probing" /\ actor'[a].id = i /\ actor'[a].left = Lease - 1
  BY <1>1 DEF Probing
<1>3. Lease \in Nat \ {0} /\ IsTable(monitor) /\ channel = TRUE /\ channel' = channel
  BY Bounds DEF MonitorInv
<1>4. PICK q : q = monitor[i]
  OBVIOUS
<1>5. IsRow(q) /\ q.claimed = 0
  BY <1>3, <1>4 DEF IsTable, Unclaimed
<1>6. PICK x : x = [q EXCEPT !.claimed = Lease]
  OBVIOUS
<1>7. IsRow(x) /\ x.claimed = Lease
  BY <1>3, <1>5, <1>6 DEF IsRow, Columns
<1>8. monitor' = [monitor EXCEPT ![i] = x]
  BY <1>3, <1>4, <1>6, Zenon
<1>9. DOMAIN monitor' = DOMAIN monitor /\ monitor'[i] = x /\ IsTable(monitor')
      /\ \A j \in DOMAIN monitor : j # i => monitor'[j] = monitor[j]
  BY <1>3, <1>7, <1>8 DEF IsTable
<1>10. ASSUME NEW b \in Actors, b # a, Probes(b)
       PROVE  LeaseHeld(b) /\ actor[b].id # i
  <2>1. LeaseHeld(b)
    BY <1>10 DEF MonitorInv
  <2>2. monitor[actor[b].id].claimed # 0
    BY <1>3, <2>1 DEF LeaseHeld
  <2> QED  BY <1>4, <1>5, <2>1, <2>2
<1>11. \A b \in Actors : Probes(b)' => LeaseHeld(b)'
  <2> SUFFICES ASSUME NEW b \in Actors, actor'[b].pc = "probing"
               PROVE  /\ actor'[b].left \in Nat /\ actor'[b].id \in DOMAIN monitor
                      /\ monitor'[actor'[b].id].claimed = actor'[b].left + 1
    BY <1>3, <1>9 DEF Probes, LeaseHeld
  <2>1. CASE b = a
    BY <1>2, <1>3, <1>7, <1>9, <2>1
  <2>2. CASE b # a
    <3>1. LeaseHeld(b) /\ actor[b].id # i
      BY <1>1, <1>10, <2>2 DEF Probes
    <3> QED  BY <1>1, <1>3, <1>9, <2>2, <3>1 DEF LeaseHeld
  <2> QED  BY <2>1, <2>2
<1>12. \A b, d \in Actors : b # d /\ Probes(b)' /\ Probes(d)' => actor'[b].id # actor'[d].id
  BY <1>1, <1>2, <1>10 DEF MonitorInv, Probes
<1>13. ASSUME NEW b \in Actors PROVE Holds(actor'[b])
  <2>1. CASE b = a
    <3>1. PICK p : p = Probing(i)
      OBVIOUS
    <3>2. p = [pc |-> "probing", id |-> p.id, left |-> p.left] /\ p.pc = "probing"
      BY <3>1 DEF Probing
    <3>3. Holds(p)
      BY <3>2 DEF Holds
    <3> QED  BY <1>1, <2>1, <3>1, <3>3
  <2>2. CASE b # a
    BY <1>1, <2>2 DEF MonitorInv
  <2> QED  BY <2>1, <2>2
<1>14. \A b \in Actors : Holds(actor[b])'
  BY <1>13 DEF Holds, Acceptable, Plain
<1> QED  BY <1>1, <1>3, <1>9, <1>11, <1>12, <1>14 DEF MonitorInv

-----------------------------------------------------------------------------
(* Reconciliations: read, and committed later. *)

LEMMA ReadKeeps ==
  ASSUME MonitorInv, NEW a \in Actors, Read(a)
  PROVE  MonitorInv'
<1>1. PICK c : c = Reconciling(routes, Seen)
  OBVIOUS
<1>2. Acceptable(c)
  BY <1>1, SeenIsPlain, ReconcilingAcceptable DEF MonitorInv
<1>3. PICK x : x = IF c = << >> THEN After(a) ELSE [pc |-> "write", changes |-> c]
  OBVIOUS
<1>4. Goto(a, x) /\ UNCHANGED <<channel, monitor>>
  BY <1>1, <1>3, Zenon DEF Read
<1>5. x.pc # "probing" /\ Holds(x)
  BY <1>2, <1>3 DEF After, Idle, Holds
<1> QED  BY <1>4, <1>5, SessionStays

LEMMA WriteKeeps ==
  ASSUME MonitorInv, NEW a \in Actors, WriteMonitors(a)
  PROVE  MonitorInv'
<1>1. PICK c : c = actor[a].changes
  OBVIOUS
<1>2. Acceptable(c) /\ channel' = channel
  BY <1>1 DEF WriteMonitors, MonitorInv, Holds
<1>3. CASE Applies(c, monitor)
  <2>1. PICK x : x = After(a)
    OBVIOUS
  <2>2. monitor' = Patch(c, monitor) /\ Goto(a, x)
    BY <1>1, <1>3, <2>1, Zenon DEF WriteMonitors
  <2>3. IsTable(monitor') /\ Keeps(monitor, monitor')
    BY <1>2, <1>3, <2>2, PatchKeeps DEF MonitorInv
  <2>4. x.pc # "probing" /\ Holds(x)
    BY <2>1 DEF After, Idle, Holds
  <2>5. ~ channel => DOMAIN monitor' = {}
    BY <2>3 DEF Keeps, MonitorInv
  <2>6. \A b \in Actors : b # a /\ Probes(b) /\ channel =>
          /\ actor[b].id \in DOMAIN monitor'
          /\ monitor'[actor[b].id].claimed = monitor[actor[b].id].claimed
    BY <2>3 DEF Keeps, MonitorInv, LeaseHeld
  <2> QED  BY <1>2, <2>2, <2>3, <2>4, <2>5, <2>6, SessionMoves
<1>4. CASE ~ Applies(c, monitor)
  <2>1. PICK x : x = IF a \in Workers THEN Overdue ELSE Idle
    OBVIOUS
  <2>2. Goto(a, x) /\ UNCHANGED <<channel, monitor>>
    BY <1>1, <1>2, <1>4, <2>1, Zenon DEF WriteMonitors
  <2>3. x.pc # "probing" /\ Holds(x)
    BY <2>1 DEF Overdue, Idle, Holds
  <2> QED  BY <2>2, <2>3, SessionStays
<1> QED  BY <1>3, <1>4

LEMMA PollKeeps ==
  ASSUME MonitorInv, NEW w \in Actors, SkipReconcile(w) \/ EndPoll(w) \/ Claim(w)
  PROVE  MonitorInv'
<1>1. CASE SkipReconcile(w)
  <2>1. PICK x : x = [pc |-> "poll"]
    OBVIOUS
  <2>2. Goto(w, x) /\ UNCHANGED <<channel, monitor>> /\ x.pc # "probing" /\ Holds(x)
    BY <1>1, <2>1 DEF SkipReconcile, Holds
  <2> QED  BY <2>2, SessionStays
<1>2. CASE EndPoll(w)
  <2>1. PICK x : x = Idle
    OBVIOUS
  <2>2. Goto(w, x) /\ UNCHANGED <<channel, monitor>> /\ x.pc # "probing" /\ Holds(x)
    BY <1>2, <2>1 DEF EndPoll, Holds, Idle
  <2> QED  BY <2>2, SessionStays
<1>3. CASE Claim(w)
  <2>1. PICK i \in Due :
          /\ monitor' = [monitor EXCEPT ![i].claimed = Lease]
          /\ Goto(w, Probing(i)) /\ UNCHANGED channel /\ actor[w].pc = "poll"
    BY <1>3, Zenon DEF Claim
  <2>2. i \in DOMAIN monitor /\ Unclaimed(i) /\ ~ Probes(w)
    BY <2>1 DEF Due, Active, Probes
  <2> QED  BY <2>1, <2>2, ClaimKeeps
<1> QED  BY <1>1, <1>2, <1>3

-----------------------------------------------------------------------------
(* A probe ends: the claim is lifted from nobody else's monitor. *)
LEMMA ProbeKeeps ==
  ASSUME MonitorInv, NEW a \in Actors, Probe(a)
  PROVE  MonitorInv'
<1>1. PICK x : x = After(a)
  OBVIOUS
<1>2. x.pc # "probing" /\ Holds(x)
  BY <1>1 DEF After, Idle, Holds
<1>3. CASE GiveUp(a)
  <2>1. Goto(a, x) /\ UNCHANGED <<channel, monitor>>
    BY <1>1, <1>3 DEF GiveUp
  <2> QED  BY <1>2, <2>1, SessionStays
<1>4. CASE Record(a)
  <2>1. PICK i, n : i = actor[a].id /\ n = Rest(actor[a].left)
    OBVIOUS
  <2>2. /\ Probes(a) /\ Goto(a, x) /\ channel' = channel /\ IsTable(monitor)
        /\ monitor' = IF i \notin DOMAIN monitor THEN monitor
                      ELSE [monitor EXCEPT ![i].claimed = 0, ![i].rest = n]
    BY <1>1, <1>4, <2>1, Zenon DEF Record, MonitorInv, Probes
  <2>3. CASE i \notin DOMAIN monitor
    BY <1>2, <2>2, <2>3, SessionStays
  <2>4. CASE i \in DOMAIN monitor
    <3>1. PICK q, y, z : /\ q = monitor[i]
                         /\ y = [q EXCEPT !.claimed = 0]
                         /\ z = [y EXCEPT !.rest = n]
      BY Zenon
    <3>2. IsRow(q)
      BY <2>2, <2>4, <3>1 DEF IsTable
    <3>3. IsRow(y)
      BY <3>1, <3>2 DEF IsRow, Columns
    <3>4. IsRow(z)
      BY <3>1, <3>3 DEF IsRow, Columns
    <3>5. monitor' = [monitor EXCEPT ![i] = z]
      <4>1. monitor' = [[monitor EXCEPT ![i] = y] EXCEPT ![i] = z]
        BY <2>2, <2>4, <3>1
      <4> QED  BY <2>2, <4>1 DEF IsTable
    <3>6. IsTable(monitor') /\ DOMAIN monitor' = DOMAIN monitor
          /\ \A j \in DOMAIN monitor : j # i => monitor'[j] = monitor[j]
      BY <2>2, <3>4, <3>5 DEF IsTable
    <3>7. \A b \in Actors : b # a /\ Probes(b) /\ channel =>
            /\ actor[b].id \in DOMAIN monitor'
            /\ monitor'[actor[b].id].claimed = monitor[actor[b].id].claimed
      BY <2>1, <2>2, <3>6 DEF MonitorInv, LeaseHeld
    <3>8. ~ channel => DOMAIN monitor' = {}
      BY <3>6 DEF MonitorInv
    <3> QED  BY <1>2, <2>2, <3>6, <3>7, <3>8, SessionMoves
  <2> QED  BY <2>3, <2>4
<1> QED  BY <1>3, <1>4 DEF Probe

-----------------------------------------------------------------------------
(* The operator: a monitor with a live claim is not deleted, and no edit   *)
(* of the monitors touches a claim.                                        *)

LEMMA StoreKeeps ==
  ASSUME MonitorInv, NEW a \in Actors, NEW base, IsTable(base),
         NEW seen, Plain(seen), NEW wanted, Plain(wanted), Store(a, base, seen, wanted),
         DOMAIN base \subseteq DOMAIN monitor,
         \A i \in DOMAIN monitor : ~ Unclaimed(i) => i \in DOMAIN base /\ base[i] = monitor[i]
  PROVE  MonitorInv'
<1>1. PICK first, rest, mid : /\ first = Edited(seen, wanted)
                              /\ rest = Reconciling(actor[a].routes, wanted)
                              /\ mid = Patch(first, base)
  BY Zenon
<1>2. /\ Applies(first, base) /\ Applies(rest, mid) /\ monitor' = Patch(rest, mid)
      /\ Goto(a, Idle) /\ UNCHANGED channel
  BY <1>1, Zenon DEF Store
<1>3. Acceptable(first)
  BY <1>1, EditedAcceptable
<1>4. Acceptable(rest)
  BY <1>1, ReconcilingAcceptable
<1>5. IsTable(mid) /\ Keeps(base, mid)
  BY <1>1, <1>2, <1>3, PatchKeeps
<1>6. IsTable(monitor') /\ Keeps(mid, monitor')
  BY <1>2, <1>4, <1>5, PatchKeeps
<1>7. ASSUME NEW i \in DOMAIN monitor, ~ Unclaimed(i)
      PROVE  i \in DOMAIN monitor' /\ monitor'[i].claimed = monitor[i].claimed
  BY <1>5, <1>6, <1>7 DEF Keeps
<1>8. ~ channel => DOMAIN monitor' = {}
  BY <1>5, <1>6 DEF Keeps, MonitorInv
<1>9. ASSUME NEW b \in Actors, Probes(b), channel
      PROVE  /\ actor[b].id \in DOMAIN monitor'
             /\ monitor'[actor[b].id].claimed = monitor[actor[b].id].claimed
  <2>1. LeaseHeld(b)
    BY <1>9 DEF MonitorInv
  <2>2. actor[b].id \in DOMAIN monitor /\ ~ Unclaimed(actor[b].id)
    BY <1>9, <2>1 DEF LeaseHeld, Unclaimed
  <2> QED  BY <1>7, <2>2
<1>10. Idle.pc # "probing" /\ Holds(Idle)
  BY DEF Idle, Holds
<1> QED  BY <1>2, <1>6, <1>8, <1>9, <1>10, SessionMoves

(* An edit that deletes nothing. *)
LEMMA EditKeeps ==
  ASSUME MonitorInv, NEW a \in Actors, NEW seen, Plain(seen), NEW wanted, Plain(wanted),
         Store(a, monitor, seen, wanted)
  PROVE  MonitorInv'
<1>1. IsTable(monitor)
  BY DEF MonitorInv
<1> QED  BY <1>1, StoreKeeps

(* The rows that a request holds, all of them rewritten, with one more or  *)
(* without.                                                                *)
LEMMA TableIsPlain ==
  ASSUME NEW s, s = [j \in DOMAIN s |-> s[j]], \A j \in DOMAIN s : PlainRow(s[j])
  PROVE  Plain(s)
BY DEF Plain

LEMMA CreateKeeps ==
  ASSUME MonitorInv, NEW a \in Actors, Create(a)
  PROVE  MonitorInv'
<1>1. PICK rows : rows = actor[a].rows
  OBVIOUS
<1>2. Plain(rows)
  BY <1>1 DEF Create, MonitorInv, Holds
<1>3. PICK i \in Unused, t \in Targets, o \in {"manual", "admin"} :
        LET row == NewMonitor(o, t, IF o = "manual" THEN "active" ELSE "disabled")
        IN  Store(a, monitor, rows, [j \in DOMAIN rows \cup {i} |-> IF j = i THEN row ELSE rows[j]])
  BY <1>1, Zenon DEF Create
<1>4. PICK row : row = NewMonitor(o, t, IF o = "manual" THEN "active" ELSE "disabled")
  OBVIOUS
<1>5. PICK s : s = [j \in DOMAIN rows \cup {i} |-> IF j = i THEN row ELSE rows[j]]
  OBVIOUS
<1>6. Store(a, monitor, rows, s)
  BY <1>3, <1>4, <1>5, Zenon
<1>7. PlainRow(row)
  BY <1>4, NewIsPlain, Zenon
<1>8. s = [j \in DOMAIN s |-> s[j]] /\ DOMAIN s = DOMAIN rows \cup {i}
  BY <1>5, Zenon
<1>9. ASSUME NEW j \in DOMAIN s PROVE PlainRow(s[j])
  BY <1>2, <1>5, <1>7, <1>8, Zenon DEF Plain
<1>10. Plain(s)
  BY <1>8, <1>9, TableIsPlain
<1> QED  BY <1>2, <1>6, <1>10, EditKeeps

LEMMA UpdateKeeps ==
  ASSUME MonitorInv, NEW a \in Actors, Update(a)
  PROVE  MonitorInv'
<1>1. PICK rows, i : rows = actor[a].rows /\ i = actor[a].id
  BY Zenon
<1>2. Plain(rows) /\ Plain(Seen) /\ DOMAIN Seen = DOMAIN monitor /\ i \in DOMAIN monitor
  BY <1>1, SeenIsPlain DEF Update, MonitorInv, Holds
<1>3. PICK seen : seen = [rows EXCEPT ![i] = Seen[i]]
  OBVIOUS
<1>4. PICK t \in Targets, st \in {"active", "disabled"} :
        Store(a, monitor, seen,
              [seen EXCEPT ![i].target = t, ![i].status = st,
                           ![i].owner = IF st = "active" THEN "manual" ELSE @])
  BY <1>1, <1>3, Zenon DEF Update
<1>5. /\ seen = [j \in DOMAIN seen |-> seen[j]] /\ DOMAIN seen = DOMAIN rows
      /\ \A j \in DOMAIN seen : seen[j] = IF j = i THEN Seen[i] ELSE rows[j]
  BY <1>2, <1>3 DEF Plain
<1>6. Plain(seen)
  BY <1>2, <1>5 DEF Plain
<1>7. PICK wanted : wanted = [seen EXCEPT ![i].target = t, ![i].status = st,
                                          ![i].owner = IF st = "active" THEN "manual" ELSE @]
  OBVIOUS
<1>8. CASE i \notin DOMAIN seen
  <2>1. wanted = seen
    BY <1>5, <1>7, <1>8
  <2> QED  BY <1>4, <1>6, <1>7, <2>1, EditKeeps
<1>9. CASE i \in DOMAIN seen
  <2>1. PICK q, x : q = seen[i] /\ x = [q EXCEPT !.target = t, !.status = st]
    BY Zenon
  <2>2. PICK y : y = [x EXCEPT !.owner = IF st = "active" THEN "manual" ELSE x.owner]
    OBVIOUS
  <2>3. PlainRow(q)
    BY <1>6, <1>9, <2>1 DEF Plain
  <2>4. PlainRow(x)
    BY <2>1, <2>3, EditsArePlain, Zenon
  <2>5. PlainRow(y)
    BY <2>2, <2>4, EditIsPlain, Zenon
  <2>6. wanted = [seen EXCEPT ![i] = y]
    BY <1>5, <1>7, <1>9, <2>1, <2>2
  <2>7. Plain(wanted)
    BY <1>6, <2>5, <2>6 DEF Plain
  <2> QED  BY <1>4, <1>6, <1>7, <2>7, EditKeeps
<1> QED  BY <1>8, <1>9

LEMMA DeleteKeeps ==
  ASSUME MonitorInv, NEW a \in Actors, Delete(a)
  PROVE  MonitorInv'
<1>1. PICK rows, i : rows = actor[a].rows /\ i = actor[a].id
  BY Zenon
<1>2. Plain(rows) /\ IsTable(monitor)
  BY <1>1 DEF Delete, MonitorInv, Holds
<1>3. PICK rest, base : rest = Without(rows, i) /\ base = Without(monitor, i)
  BY Zenon
<1>4. Store(a, base, rest, rest) /\ Unclaimed(i)
  BY <1>1, <1>3, Zenon DEF Delete
<1>5. Plain(rest)
  BY <1>2, <1>3 DEF Plain, Without
<1>6. IsTable(base) /\ DOMAIN base \subseteq DOMAIN monitor
  BY <1>2, <1>3 DEF IsTable, Without
<1>7. \A j \in DOMAIN monitor : ~ Unclaimed(j) => j \in DOMAIN base /\ base[j] = monitor[j]
  BY <1>3, <1>4 DEF Without
<1> QED  BY <1>4, <1>5, <1>6, <1>7, StoreKeeps

LEMMA SelectKeeps ==
  ASSUME MonitorInv, NEW a \in Actors, Select(a)
  PROVE  MonitorInv'
<1>1. PICK rows : rows = actor[a].rows
  OBVIOUS
<1>2. Plain(rows)
  BY <1>1 DEF Select, MonitorInv, Holds
<1>3. PICK t \in actor[a].routes, i \in Ids :
        LET row == IF i \in DOMAIN rows THEN rows[i] ELSE NewMonitor("manual", t, "active")
        IN  Store(a, monitor, rows,
                  [j \in DOMAIN rows \cup {i} |->
                     IF j = i THEN [row EXCEPT !.status = "active", !.owner = "manual"]
                     ELSE [rows[j] EXCEPT !.status = "disabled"]])
  BY <1>1, Zenon DEF Select
<1>4. PICK row : row = IF i \in DOMAIN rows THEN rows[i] ELSE NewMonitor("manual", t, "active")
  OBVIOUS
<1>5. PICK x : x = [row EXCEPT !.status = "active", !.owner = "manual"]
  OBVIOUS
<1>6. PICK s : s = [j \in DOMAIN rows \cup {i} |->
                      IF j = i THEN x ELSE [rows[j] EXCEPT !.status = "disabled"]]
  OBVIOUS
<1>7. Store(a, monitor, rows, s)
  BY <1>3, <1>4, <1>5, <1>6, Zenon
<1>8. PlainRow(x)
  <2>1. PlainRow(NewMonitor("manual", t, "active"))
    BY NewIsPlain, Zenon
  <2>2. PlainRow(row)
    BY <1>2, <1>4, <2>1, Zenon DEF Plain
  <2> QED  BY <1>5, <2>2, EditsArePlain, Zenon
<1>9. s = [j \in DOMAIN s |-> s[j]] /\ DOMAIN s = DOMAIN rows \cup {i}
  BY <1>6, Zenon
<1>10. ASSUME NEW j \in DOMAIN s PROVE PlainRow(s[j])
  <2>1. CASE j = i
    BY <1>6, <1>8, <2>1, Zenon
  <2>2. CASE j # i
    <3>1. s[j] = [rows[j] EXCEPT !.status = "disabled"] /\ j \in DOMAIN rows
      BY <1>6, <1>9, <2>2, Zenon
    <3>2. PlainRow(rows[j])
      BY <1>2, <3>1 DEF Plain
    <3>3. PlainRow([rows[j] EXCEPT !.status = "disabled"])
      BY <3>2, EditIsPlain, Zenon
    <3> QED  BY <3>1, <3>3
  <2> QED  BY <2>1, <2>2
<1>11. Plain(s)
  BY <1>9, <1>10, TableIsPlain
<1> QED  BY <1>2, <1>7, <1>11, EditKeeps

LEMMA SelectAutomaticKeeps ==
  ASSUME MonitorInv, NEW a \in Actors, SelectAutomatic(a)
  PROVE  MonitorInv'
<1>1. PICK rows, t : rows = actor[a].rows /\ t = Best(actor[a].routes)
  BY Zenon
<1>2. Plain(rows)
  BY <1>1 DEF SelectAutomatic, MonitorInv, Holds
<1> DEFINE row(j) == IF j \in DOMAIN rows THEN rows[j] ELSE NewMonitor("auto", t, "active")
           all(S) == [j \in DOMAIN rows \cup S |->
                        [row(j) EXCEPT !.owner = "auto",
                                       !.status = IF j \in S THEN "active" ELSE "disabled"]]
<1>3. PICK S : Store(a, monitor, rows, all(S))
  BY <1>1, Zenon DEF SelectAutomatic
<1>4. PICK s : s = all(S)
  OBVIOUS
<1>5. s = [j \in DOMAIN s |-> s[j]] /\ DOMAIN s = DOMAIN rows \cup S
  BY <1>4, Zenon
<1>6. ASSUME NEW j \in DOMAIN s PROVE PlainRow(s[j])
  <2>1. PlainRow(NewMonitor("auto", t, "active"))
    BY NewIsPlain, Zenon
  <2>2. PlainRow(row(j))
    BY <1>2, <2>1, Zenon DEF Plain
  <2>3. PICK x, st : x = row(j) /\ st = IF j \in S THEN "active" ELSE "disabled"
    BY Zenon
  <2>4. s[j] = [x EXCEPT !.owner = "auto", !.status = st]
    BY <1>4, <1>5, <2>3, Zenon
  <2> HIDE DEF row
  <2>5. PlainRow(x)
    BY <2>2, <2>3
  <2>6. PlainRow([x EXCEPT !.owner = "auto", !.status = st])
    BY <2>5, EditsArePlain, Zenon
  <2> QED  BY <2>4, <2>6
<1>7. Plain(s)
  BY <1>5, <1>6, TableIsPlain
<1> QED  BY <1>2, <1>3, <1>4, <1>7, EditKeeps

(* Requests that write no monitor yet, or take them all away. *)
LEMMA RequestKeeps ==
  ASSUME MonitorInv, NEW a \in Actors,
         Lock(a) \/ LookUp(a) \/ Refuse(a) \/ EditRoutes(a)
  PROVE  MonitorInv'
<1>1. Plain(Seen)
  BY SeenIsPlain DEF MonitorInv
<1>2. PICK x : /\ Goto(a, x) /\ UNCHANGED <<channel, monitor>>
               /\ \/ x \in {Idle, Overdue}
                  \/ x.pc \in {"locked", "waiting"} /\ x.rows = Seen
  <2>1. CASE Lock(a)
    <3>1. PICK x : x = [pc |-> "locked", routes |-> routes, rows |-> Seen]
      OBVIOUS
    <3>2. x.pc = "locked" /\ x.rows = Seen
      BY <3>1
    <3>3. Goto(a, x) /\ UNCHANGED <<channel, monitor>>
      BY <2>1, <3>1 DEF Lock
    <3> QED  BY <3>2, <3>3
  <2>2. CASE LookUp(a)
    <3>1. PICK i \in DOMAIN monitor :
            /\ Goto(a, [pc |-> "waiting", id |-> i, routes |-> routes, rows |-> Seen])
            /\ UNCHANGED <<channel, monitor>>
      BY <2>2, Zenon DEF LookUp
    <3>2. PICK x : x = [pc |-> "waiting", id |-> i, routes |-> routes, rows |-> Seen]
      OBVIOUS
    <3>3. x.pc = "waiting" /\ x.rows = Seen
      BY <3>2
    <3> QED  BY <3>1, <3>2, <3>3
  <2>3. CASE Refuse(a)
    BY <2>3 DEF Refuse
  <2>4. CASE EditRoutes(a)
    BY <2>4 DEF EditRoutes
  <2> QED  BY <2>1, <2>2, <2>3, <2>4
<1>3. x.pc # "probing" /\ Holds(x)
  BY <1>1, <1>2 DEF Idle, Overdue, Holds
<1> QED  BY <1>2, <1>3, SessionStays

LEMMA DeleteChannelKeeps ==
  ASSUME MonitorInv, NEW a \in Actors, DeleteChannel(a)
  PROVE  MonitorInv'
<1>1. channel' = FALSE /\ monitor' = << >> /\ actor' = actor
  BY DEF DeleteChannel
<1>2. IsTable(monitor') /\ DOMAIN monitor' = {}
  BY <1>1 DEF IsTable
<1>3. \A b \in Actors : Holds(actor[b])'
  BY <1>1 DEF MonitorInv, Holds, Acceptable, Plain
<1>4. \A b \in Actors : Probes(b)' => LeaseHeld(b)'
  BY <1>1 DEF MonitorInv, Probes, LeaseHeld
<1> QED  BY <1>1, <1>2, <1>3, <1>4 DEF MonitorInv, Probes

LEMMA AdministrationKeeps ==
  ASSUME MonitorInv, NEW a \in Requests, Administration(a)
  PROVE  MonitorInv'
<1>1. a \in Actors
  BY DEF Actors
<1>2. CASE RunNow(a)
  <2>1. PICK i \in DOMAIN monitor :
          /\ Unclaimed(i) /\ monitor' = [monitor EXCEPT ![i].claimed = Lease]
          /\ Goto(a, Probing(i)) /\ UNCHANGED channel /\ actor[a] = Idle
    BY <1>2, Zenon DEF RunNow
  <2>2. ~ Probes(a)
    BY <2>1 DEF Idle, Probes
  <2> QED  BY <1>1, <2>1, <2>2, ClaimKeeps
<1> QED  BY <1>1, <1>2, CreateKeeps, UpdateKeeps, DeleteKeeps, SelectKeeps, SelectAutomaticKeeps,
            RequestKeeps, DeleteChannelKeeps, ReadKeeps, WriteKeeps DEF Administration

-----------------------------------------------------------------------------
(* Time passes for the claims and for those who hold them. *)
LEMMA TickKeeps ==
  ASSUME MonitorInv, Tick
  PROVE  MonitorInv'
<1>1. /\ monitor' = [i \in DOMAIN monitor |->
                       [monitor[i] EXCEPT !.claimed = Down(@), !.rest = Down(@)]]
      /\ actor' = [a \in Actors |->
                     IF actor[a].pc = "probing" THEN [actor[a] EXCEPT !.left = @ - 1] ELSE actor[a]]
      /\ \A a \in Actors : actor[a].pc = "probing" => actor[a].left > 0
      /\ channel' = channel
  BY DEF Tick
<1>2. DOMAIN monitor' = DOMAIN monitor /\ monitor' = [i \in DOMAIN monitor' |-> monitor'[i]]
  BY <1>1, Zenon
<1>3. ASSUME NEW i \in DOMAIN monitor
      PROVE  IsRow(monitor'[i]) /\ monitor'[i].claimed = Down(monitor[i].claimed)
  <2>1. PICK q, y, z : /\ q = monitor[i]
                       /\ y = [q EXCEPT !.claimed = Down(q.claimed)]
                       /\ z = [y EXCEPT !.rest = Down(y.rest)]
    BY Zenon
  <2>2. IsRow(q) /\ Down(q.claimed) \in Nat
    BY <2>1 DEF MonitorInv, IsTable, IsRow, Down
  <2>3. IsRow(y) /\ y.claimed = Down(q.claimed)
    BY <2>1, <2>2 DEF IsRow, Columns
  <2>4. IsRow(z) /\ z.claimed = y.claimed
    BY <2>1, <2>3 DEF IsRow, Columns
  <2>5. monitor'[i] = z
    BY <1>1, <2>1
  <2> QED  BY <2>1, <2>3, <2>4, <2>5
<1>4. IsTable(monitor')
  BY <1>2, <1>3 DEF IsTable
<1>5. ASSUME NEW a \in Actors, Probes(a)
      PROVE  /\ actor'[a].pc = "probing" /\ actor'[a].id = actor[a].id
             /\ actor[a].left \in Nat \ {0} /\ actor'[a].left = actor[a].left - 1
             /\ Holds(actor'[a])
  <2>1. PICK x : x = actor[a]
    OBVIOUS
  <2>2. x.pc = "probing" /\ x.left \in Nat \ {0} /\ Holds(x)
    <3>1. actor[a].pc = "probing" /\ actor[a].left > 0 /\ LeaseHeld(a) /\ Holds(actor[a])
      BY <1>1, <1>5 DEF MonitorInv, Probes
    <3> QED  BY <2>1, <3>1 DEF LeaseHeld
  <2>3. PICK y : y = [x EXCEPT !.left = x.left - 1]
    OBVIOUS
  <2>4. y = [pc |-> "probing", id |-> x.id, left |-> x.left - 1]
    BY <2>2, <2>3 DEF Holds
  <2>5. actor'[a] = y
    BY <1>1, <1>5, <2>1, <2>3 DEF Probes
  <2>6. Holds(y)
    BY <2>4 DEF Holds
  <2> QED  BY <2>1, <2>2, <2>4, <2>5, <2>6
<1>6. ASSUME NEW a \in Actors, ~ Probes(a) PROVE actor'[a] = actor[a]
  BY <1>1, <1>6 DEF Probes
<1>7. ASSUME NEW a \in Actors PROVE Probes(a)' => Probes(a) /\ LeaseHeld(a)'
  <2>1. CASE Probes(a)
    <3>1. LeaseHeld(a) /\ actor[a].left - 1 \in Nat /\ Down(actor[a].left + 1) = actor[a].left
      BY <1>5, <2>1 DEF MonitorInv, Down
    <3>2. ASSUME channel
          PROVE  /\ actor'[a].id \in DOMAIN monitor'
                 /\ monitor'[actor'[a].id].claimed = actor'[a].left + 1
      BY <1>2, <1>3, <1>5, <2>1, <3>1, <3>2 DEF LeaseHeld
    <3> QED  BY <1>1, <1>5, <2>1, <3>1, <3>2 DEF LeaseHeld
  <2>2. CASE ~ Probes(a)
    BY <1>6, <2>2 DEF Probes
  <2> QED  BY <2>1, <2>2
<1>8. ASSUME NEW a \in Actors PROVE Holds(actor'[a])
  BY <1>5, <1>6 DEF MonitorInv
<1>9. \A a \in Actors : Holds(actor[a])'
  BY <1>8 DEF Holds, Acceptable, Plain
<1>10. \A a, b \in Actors : a # b /\ Probes(a)' /\ Probes(b)' => actor'[a].id # actor'[b].id
  BY <1>5, <1>7 DEF MonitorInv
<1>11. actor' = [a \in Actors |-> actor'[a]] /\ channel' = channel
  BY <1>1
<1>12. channel \in BOOLEAN /\ (~ channel => DOMAIN monitor' = {})
  BY <1>2 DEF MonitorInv
<1> QED  BY <1>4, <1>7, <1>9, <1>10, <1>11, <1>12 DEF MonitorInv

LEMMA MonitorStep == MonitorInv /\ [Next]_vars => MonitorInv'
<1> SUFFICES ASSUME MonitorInv, [Next]_vars PROVE MonitorInv'
  OBVIOUS
<1>1. ASSUME NEW w \in Workers, Loop(w) PROVE MonitorInv'
  <2>1. w \in Actors
    BY DEF Actors
  <2> QED  BY <1>1, <2>1, ReadKeeps, WriteKeeps, PollKeeps DEF Loop
<1>2. ASSUME NEW a \in Requests, Administration(a) PROVE MonitorInv'
  BY <1>2, AdministrationKeeps
<1>3. ASSUME NEW a \in Actors, Probe(a) PROVE MonitorInv'
  BY <1>3, ProbeKeeps
<1>4. CASE Tick
  BY <1>4, TickKeeps
<1>5. CASE UNCHANGED vars
  BY <1>5 DEF vars, MonitorInv, IsTable, Probes, LeaseHeld, Holds, Acceptable, Plain
<1> QED  BY <1>1, <1>2, <1>3, <1>4, <1>5 DEF Next

(* A monitor is never probed by two at a time, and not deleted while it is *)
(* probed unless its channel is: neither a stale reconciliation nor an     *)
(* edit of monitors lifts a claim that is live, and a probe is given up    *)
(* before its lease ends (channel_monitor_leases.py; channel_monitoring.py,*)
(* the hard timeout; admin.py, the monitor operations).                    *)
THEOREM OneProbesAlways == Spec => []ProbedByOne
<1>1. MonitorInv => ProbedByOne
  BY DEF MonitorInv, Probes, LeaseHeld, ProbedByOne, Busy
<1> QED  BY <1>1, MonitorInit, MonitorStep, PTL DEF Spec
=============================================================================
