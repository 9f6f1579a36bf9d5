---------------------------- MODULE ChannelRouting ----------------------------
(***************************************************************************)
(* Which channel serves a request to one model, and which one after it     *)
(* (app/channel_router.py: select_for_model; app/router.py: ModelRegistry; *)
(* the fallback helpers of app/proxy.py). Workers route on a snapshot of   *)
(* the channels and their routes, and on cooldowns of their own; both      *)
(* change while requests walk from channel to channel. A conversation      *)
(* prefers one channel of a tier by rendezvous hashing (app/prompt_cache.py*)
(* names it); requests without one draw at random. Weights are constant.   *)
(***************************************************************************)
EXTENDS RoutingParameters

VARIABLES
  table,     \* the channels and routes in the database
  snapshot,  \* ChannelRouter._channels and _routes_by_model, per worker
  cooling,   \* the channels in cooldown, per worker
  mode,      \* the model: has a catalog upstream, goes by the Gemini pool, or by routes only
  request,   \* the requests: where they are, what they tried
  visits,    \* ghost: how often a request went to a channel
  changes

vars == <<table, snapshot, cooling, mode, request, visits, changes>>

New == [pc |-> "new", at |-> Nothing, key |-> Anyone, cfg |-> Nothing, from |-> {}, result |-> "none"]

Init ==
  /\ table \in Tables
  /\ snapshot = [w \in Workers |-> table]
  /\ cooling = [w \in Workers |-> {}]
  /\ mode \in {"catalog", "gemini", "route_only"}
  /\ request = [r \in Requests |-> New]
  /\ visits = [r \in Requests |-> [c \in Channels |-> 0]]
  /\ changes = 0

-----------------------------------------------------------------------------
(* _route_public_model_ids_for: the alias counts for a model without rows. *)
Listed(rows) ==
  LET under(id) == {c \in Channels : rows[c].under = id}
  IN IF under("model") # {} THEN under("model") ELSE under("alias")

Candidates(rows, cold, excluded) ==
  {c \in Listed(rows) : rows[c].usable} \ (cold \cup excluded)

Best(rows, set) == {c \in set : \A d \in set : rows[c].tier <= rows[d].tier}

(* Another hash of the conversation: a position among the candidates.      *)
SlipPick(v, tier) ==
  CHOOSE c \in tier :
    Cardinality({d \in tier : Score[v][d] < Score[v][c]})
      = Score[v][CHOOSE d \in Channels : TRUE] % Cardinality(tier)

Pick(v, tier) == CHOOSE c \in tier : \A d \in tier : Score[v][c] <= Score[v][d]

Prefers(rows, cold, excluded, v) ==
  LET set == Candidates(rows, cold, excluded)
  IN IF set = {} THEN Nothing ELSE Pick(v, Best(rows, set))

SlipSelectable(rows, cold, excluded, key) ==
  IF key = Anyone THEN Best(rows, Candidates(rows, cold, {})) \ excluded
  ELSE {Prefers(rows, cold, {}, key)} \ (excluded \cup {Nothing})

(* select_for_model: the channels it may return. *)
Selectable(rows, cold, excluded, key) ==
  IF key = Anyone THEN Best(rows, Candidates(rows, cold, excluded))
  ELSE {Prefers(rows, cold, excluded, key)} \ {Nothing}

-----------------------------------------------------------------------------
(* The request goes to c: a channel, "catalog" for the upstream of the     *)
(* model without a channel id, "system" or "pool" after the channels.      *)
Goes(r, c, attempted) ==
  /\ request' = [request EXCEPT ![r].pc = "trying", ![r].cfg = c, ![r].from = attempted]
  /\ visits' = [visits EXCEPT ![r] = [d \in Channels |-> @[d] + IF d = c THEN 1 ELSE 0]]

Ends(r, result) ==
  /\ request' = [request EXCEPT ![r].pc = "done", ![r].result = result]
  /\ UNCHANGED visits

Arrives(r, w, key) ==
  /\ request[r].pc = "new" /\ request[r].at = Nothing
  /\ request' = [request EXCEPT ![r].at = w, ![r].key = key]
  /\ UNCHANGED <<table, snapshot, cooling, mode, visits, changes>>

View(r, attempted) ==
  LET w == request[r].at IN Selectable(snapshot[w], cooling[w], attempted, request[r].key)

(* resolve_public_model: a model that lives by its routes ignores the      *)
(* cooldowns before it refuses; any other has its catalog upstream.        *)
Resolve(r) ==
  /\ request[r].pc = "new" /\ request[r].at # Nothing
  /\ LET w == request[r].at
         set == IF mode = "route_only" /\ View(r, {}) = {}
                THEN Selectable(snapshot[w], {}, {}, request[r].key) ELSE View(r, {})
     IN \/ \E c \in set : Goes(r, c, {})
        \/ set = {} /\ mode # "route_only" /\ Goes(r, "catalog", {})
        \/ set = {} /\ mode = "route_only" /\ Ends(r, "unresolved")
  /\ UNCHANGED <<table, snapshot, cooling, mode, changes>>

SlipAttempted(r) == {request[r].cfg}

(* _channel_attempted_ids: the list carried along, and the last channel.   *)
Attempted(r) == request[r].from \cup {request[r].cfg}

(* resolve_channel_fallback, up to the limit of attempts. *)
NextChannels(r) ==
  IF Cardinality(Attempted(r)) >= MaxAttempts THEN {} ELSE View(r, Attempted(r))

(* resolve_system_fallback, and none for a model that has routes only.     *)
SystemFallback(r) ==
  /\ mode # "route_only"
  /\ Goes(r, IF mode = "gemini" THEN "pool" ELSE "system", Attempted(r))

(* The upstream failed in a way that lets the request move on; only a      *)
(* provider channel has a fallback.                                        *)
Fails(r) ==
  /\ request[r].pc = "trying"
  /\ IF request[r].cfg \in Channels
     THEN \/ \E c \in NextChannels(r) : Goes(r, c, Attempted(r))
          \/ NextChannels(r) = {} /\ SystemFallback(r)
          \/ NextChannels(r) = {} /\ mode = "route_only" /\ Ends(r, "exhausted")
     ELSE Ends(r, "exhausted")
  /\ UNCHANGED <<table, snapshot, cooling, mode, changes>>

Answers(r) ==
  /\ request[r].pc = "trying" /\ Ends(r, "answered")
  /\ UNCHANGED <<table, snapshot, cooling, mode, changes>>

-----------------------------------------------------------------------------
Change == changes < MaxChanges /\ changes' = changes + 1

(* Failures of other requests, time, a sync of the cooldowns. *)
Cools(w, c) ==
  /\ Change /\ c \notin cooling[w]
  /\ cooling' = [cooling EXCEPT ![w] = @ \cup {c}]
  /\ UNCHANGED <<table, snapshot, mode, request, visits>>

Recovers(w, c) ==
  /\ Change /\ c \in cooling[w]
  /\ cooling' = [cooling EXCEPT ![w] = @ \ {c}]
  /\ UNCHANGED <<table, snapshot, mode, request, visits>>

Edit(c) ==
  /\ Change /\ \E row \in ChannelRows : table' = [table EXCEPT ![c] = row]
  /\ UNCHANGED <<snapshot, cooling, mode, request, visits>>

(* set_snapshot: at once in the worker of the edit, later in the others.   *)
Refresh(w) ==
  /\ snapshot[w] # table
  /\ snapshot' = [snapshot EXCEPT ![w] = table]
  /\ UNCHANGED <<table, cooling, mode, request, visits, changes>>

Next ==
  \/ \E r \in Requests : Resolve(r) \/ Fails(r) \/ Answers(r)
  \/ \E r \in Requests, w \in Workers, key \in Conversations \cup {Anyone} : Arrives(r, w, key)
  \/ \E w \in Workers : Refresh(w) \/ \E c \in Channels : Cools(w, c) \/ Recovers(w, c)
  \/ \E c \in Channels : Edit(c)

Spec == Init /\ [][Next]_vars

-----------------------------------------------------------------------------
TypeOK ==
  /\ table \in [Channels -> ChannelRows] /\ snapshot \in [Workers -> [Channels -> ChannelRows]]
  /\ cooling \in [Workers -> SUBSET Channels]

(* A request goes to no channel twice, though channels cool and recover,   *)
(* are edited and change their tier while it walks.                        *)
NeverTwice == \A r \in Requests, c \in Channels : visits[r][c] <= 1

(* A request gives up its channels only when its worker knows no other one *)
(* that it could try, or at the limit of attempts.                         *)
GivesUp(r) ==
  /\ request[r].pc = "trying" /\ request[r].cfg \in Channels
  /\ request'[r].cfg \notin Channels \/ request'[r].result = "exhausted"

Tried(r) == {c \in Channels : visits[r][c] > 0}

NothingLeft(r) ==
  \/ Cardinality(Tried(r)) >= MaxAttempts
  \/ Candidates(snapshot[request[r].at], cooling[request[r].at], Tried(r)) = {}

NoneLeftUntried == [][\A r \in Requests : GivesUp(r) => NothingLeft(r)]_vars

(* A request tries every channel it could, and none twice.                 *)
TriesAllOnce == []NeverTwice /\ NoneLeftUntried

Home(w, v) == Prefers(snapshot[w], cooling[w], {}, v)

(* A cooldown moves the conversations of the channel and no others, and    *)
(* its end brings back only conversations to that channel: prompt caches   *)
(* of all the others stay warm.                                            *)
ConversationsStay ==
  [][\A w \in Workers, c \in Channels, v \in Conversations :
       cooling'[w] # cooling[w] /\ snapshot'[w] = snapshot[w] =>
         /\ cooling'[w] = cooling[w] \cup {c} => Home(w, v) = c \/ Home(w, v)' = Home(w, v)
         /\ cooling[w] = cooling'[w] \cup {c} => Home(w, v)' = c \/ Home(w, v)' = Home(w, v)]_vars
=============================================================================
