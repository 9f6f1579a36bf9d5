------------------------------ MODULE KeyCache ------------------------------
(***************************************************************************)
(* The cache of one API key that each worker process keeps (KeyCache and   *)
(* _resolve_user of app/proxy.py), the edits of the key in the database    *)
(* (app/keys.py, app/admin.py) and the bus that tells the other workers of *)
(* an edit (CacheInvalidationBus of app/distributed_state.py).             *)
(*                                                                         *)
(* The row of the key is abstracted to a version and to whether the key is *)
(* active.  The lifetime of an entry counts down: no clock is needed.      *)
(***************************************************************************)
EXTENDS Integers

CONSTANTS
  Workers,
  Requests,   \* bound: requests that are authenticated at one time
  TTL,        \* key_cache_ttl, in ticks
  MaxEdits,   \* bound: edits of the key
  None

ASSUME KeyCacheAssumption ==
  /\ TTL \in Nat \ {0}
  /\ MaxEdits \in Nat
  /\ None \notin [version : Nat, left : Nat, fresh : BOOLEAN]
  /\ None \notin [at : Workers, version : Nat]

VARIABLES
  version, active,  \* the row in the database
  cache,            \* KeyCache._data at each worker: the entry of the key
  lookup,           \* _resolve_user, between its query and key_cache.set
  stage,            \* the edit that a worker handles: "idle", "committed", "deleted"
  link,             \* listen_forever: "down", "subscribed", "listening"
  inbox,            \* messages of others that the subscription holds
  lost              \* history: an edit was committed and never announced

row == <<version, active>>
bus == <<link, inbox>>
vars == <<row, cache, lookup, stage, bus, lost>>

Versions == 0 .. MaxEdits
(* `fresh` is history: the entry was up to date when it was stored. *)
Entries == [version : Versions, left : 0 .. TTL, fresh : BOOLEAN]
Lookups == [at : Workers, version : Versions]

Init ==
  /\ version = 0 /\ active = TRUE
  /\ cache = [w \in Workers |-> None]
  /\ lookup = [r \in Requests |-> None]
  /\ stage = [w \in Workers |-> "idle"]
  /\ link = [w \in Workers |-> "down"]
  /\ inbox = [w \in Workers |-> 0]
  /\ lost = FALSE

-----------------------------------------------------------------------------
(* Slips: plausible errors, each put in place of the operator it is named  *)
(* after to see that a property fails.                                     *)

SlipLive(e) == e # None                          \* expires_at not compared
SlipLifetime == TTL + 1                          \* off by one
SlipAfterSubscribe(c) == c                       \* no on_resubscribe handler

-----------------------------------------------------------------------------
(* Authentication: KeyCache.get, the query, KeyCache.set. *)

Live(e) == e # None /\ e.left > 0
Lifetime == TTL

(* The entry is missing or has expired, and the query finds the key. *)
Query(r, w) ==
  /\ lookup[r] = None
  /\ ~Live(cache[w])
  /\ cache' = [cache EXCEPT ![w] = None]
  /\ lookup' = IF active THEN [lookup EXCEPT ![r] = [at |-> w, version |-> version]] ELSE lookup
  /\ UNCHANGED <<row, stage, bus, lost>>

(* After more queries (station, overrides) the entry is stored. *)
Fill(r) ==
  /\ lookup[r] # None
  /\ cache' = [cache EXCEPT ![lookup[r].at] =
                 [version |-> lookup[r].version, left |-> Lifetime,
                  fresh |-> lookup[r].version = version]]
  /\ lookup' = [lookup EXCEPT ![r] = None]
  /\ UNCHANGED <<row, stage, bus, lost>>

(* KeyCache.set of another key, at key_cache_max. *)
Evict(w) ==
  /\ cache[w] # None
  /\ cache' = [cache EXCEPT ![w] = None]
  /\ UNCHANGED <<row, lookup, stage, bus, lost>>

Aged(e) == IF e # None /\ e.left > 0 THEN [e EXCEPT !.left = @ - 1] ELSE e

Tick ==
  /\ cache' = [w \in Workers |-> Aged(cache[w])]
  /\ UNCHANGED <<row, lookup, stage, bus, lost>>

-----------------------------------------------------------------------------
(* An edit: update_my_developer_key, update_key, the model overrides. *)

Commit(w) ==
  /\ stage[w] = "idle" /\ version < MaxEdits
  /\ version' = version + 1
  /\ active' \in BOOLEAN
  /\ stage' = [stage EXCEPT ![w] = "committed"]
  /\ UNCHANGED <<cache, lookup, bus, lost>>

(* KeyCache.delete: delete_local, and then the publication. *)
DeleteLocal(w) ==
  /\ stage[w] = "committed"
  /\ cache' = [cache EXCEPT ![w] = None]
  /\ stage' = [stage EXCEPT ![w] = "deleted"]
  /\ UNCHANGED <<row, lookup, bus, lost>>

(* Redis gives the message to the subscriptions that exist; the worker     *)
(* ignores its own.  The call may fail, and then nothing tries again.      *)
Publish(w) ==
  /\ stage[w] = "deleted"
  /\ stage' = [stage EXCEPT ![w] = "idle"]
  /\ \/ /\ inbox' = [v \in Workers |->
                       IF v # w /\ link[v] # "down" THEN inbox[v] + 1 ELSE inbox[v]]
        /\ UNCHANGED lost
     \/ lost' = TRUE /\ UNCHANGED inbox
  /\ UNCHANGED <<row, cache, lookup, link>>

-----------------------------------------------------------------------------
(* The bus. *)

Subscribe(w) ==
  /\ link[w] = "down"
  /\ link' = [link EXCEPT ![w] = "subscribed"]
  /\ UNCHANGED <<row, cache, lookup, stage, inbox, lost>>

AfterSubscribe(c) == None

(* _on_subscribed: clear_local. *)
OnSubscribed(w) ==
  /\ link[w] = "subscribed"
  /\ link' = [link EXCEPT ![w] = "listening"]
  /\ cache' = [cache EXCEPT ![w] = AfterSubscribe(cache[w])]
  /\ UNCHANGED <<row, lookup, stage, inbox, lost>>

HandleMessage(w) ==
  /\ link[w] = "listening" /\ inbox[w] > 0
  /\ inbox' = [inbox EXCEPT ![w] = @ - 1]
  /\ cache' = [cache EXCEPT ![w] = None]
  /\ UNCHANGED <<row, lookup, stage, link, lost>>

(* The connection breaks: what it held is lost. *)
Disconnect(w) ==
  /\ link[w] # "down"
  /\ link' = [link EXCEPT ![w] = "down"]
  /\ inbox' = [inbox EXCEPT ![w] = 0]
  /\ UNCHANGED <<row, cache, lookup, stage, lost>>

(* The worker process dies and is started again. *)
Restart(w) ==
  /\ cache' = [cache EXCEPT ![w] = None]
  /\ lookup' = [r \in Requests |->
                  IF lookup[r] # None /\ lookup[r].at = w THEN None ELSE lookup[r]]
  /\ stage' = [stage EXCEPT ![w] = "idle"]
  /\ link' = [link EXCEPT ![w] = "down"]
  /\ inbox' = [inbox EXCEPT ![w] = 0]
  /\ lost' = (lost \/ stage[w] # "idle")
  /\ UNCHANGED row

Next ==
  \/ Tick
  \/ \E r \in Requests : Fill(r) \/ \E w \in Workers : Query(r, w)
  \/ \E w \in Workers :
       \/ Evict(w) \/ Commit(w) \/ DeleteLocal(w) \/ Publish(w)
       \/ Subscribe(w) \/ OnSubscribed(w) \/ HandleMessage(w) \/ Disconnect(w)
       \/ Restart(w)

Spec == Init /\ [][Next]_vars

(* Time passes, and a lookup that found the key comes to its end. *)
Fairness == WF_vars(Tick) /\ \A r \in Requests : WF_vars(Fill(r))

FairSpec == Spec /\ Fairness

-----------------------------------------------------------------------------
(* Types: entries and lookups hold versions of the row, and an entry lives *)
(* for the TTL at most.                                                    *)
TypeOK ==
  /\ version \in Versions /\ active \in BOOLEAN
  /\ cache \in [Workers -> Entries \cup {None}]
  /\ lookup \in [Requests -> Lookups \cup {None}]
  /\ stage \in [Workers -> {"idle", "committed", "deleted"}]
  /\ link \in [Workers -> {"down", "subscribed", "listening"}]
  /\ inbox \in [Workers -> Nat]
  /\ lost \in BOOLEAN

Stale(w) == Live(cache[w]) /\ cache[w].version # version

Editing(v) == stage[v] # "idle"

(* A worker that listens forgets what an edit made stale: an entry that    *)
(* was up to date when it was stored and is not any more is only seen      *)
(* while an edit is under way, while its message waits, while the worker   *)
(* is not listening, or after an announcement was lost.                    *)
StaleExplained ==
  \A w \in Workers :
    Stale(w) /\ cache[w].fresh =>
      \/ lost
      \/ link[w] # "listening" \/ inbox[w] > 0
      \/ \E v \in Workers : Editing(v)

(* Whatever is lost, no worker admits requests by an old version of the    *)
(* key for ever: after the last edit the TTL ends it.                      *)
EditsReachWorkers == <>[](\A w \in Workers : ~Stale(w))
=============================================================================
