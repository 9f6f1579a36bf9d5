--------------------------- MODULE StationCatalog ---------------------------
(***************************************************************************)
(* The models that a station sells: an alias names a public model, and its *)
(* pricebook entry has the retail prices (app/stations.py), by which the   *)
(* station's users are charged (app/station_runtime.py).  A handler reads  *)
(* rows without a lock, validates against what it read, and writes the     *)
(* columns it changed.                                                     *)
(***************************************************************************)
EXTENDS StationParameters

Columns == {"input", "output"}

VARIABLES
  cost,     \* PublicModelConfig.price_*_per_million of each model
  target,   \* StationAlias.target_public_model_id
  retail,   \* StationPricebookEntry.retail_*_per_million_cents
  version,  \* StationPricebookEntry.price_version
  pricing,  \* a request to price an alias, validated and not committed
  edits,
  moved     \* history: aliases not validated since their model or its cost changed

vars == <<cost, target, retail, version, pricing, edits, moved>>

Idle == [alias |-> None, against |-> None, cost |-> None, read |-> None, next |-> None, version |-> 0]

Init ==
  /\ cost = FirstCost
  /\ target = [x \in Aliases |-> None]
  /\ retail = [x \in Aliases |-> [c \in Columns |-> 0]]
  /\ version = [x \in Aliases |-> 0]
  /\ pricing = [h \in Handlers |-> Idle]
  /\ edits = 0
  /\ moved = {}

(* A plausible error, put in place of Covers to see that the property      *)
(* fails: one price of the two is compared.                                *)
SlipCovers(prices, c) == prices["input"] >= c

(* _validate_retail_price. *)
Covers(prices, c) == \A column \in Columns : prices[column] >= c

Edit == edits < MaxEdits /\ edits' = edits + 1

-----------------------------------------------------------------------------
(* create_station_alias; the index of the aliases stops a second one.      *)
Create(x, model, prices) ==
  /\ target[x] = None
  /\ Covers(prices, cost[model])
  /\ Edit
  /\ target' = [target EXCEPT ![x] = model]
  /\ retail' = [retail EXCEPT ![x] = prices]
  /\ version' = [version EXCEPT ![x] = 1]
  /\ UNCHANGED <<cost, pricing, moved>>

(* update_station_alias validates the model, not the prices.               *)
Retarget(x, model) ==
  /\ target[x] \notin {None, model}
  /\ Edit
  /\ target' = [target EXCEPT ![x] = model]
  /\ moved' = moved \cup {x}
  /\ UNCHANGED <<cost, retail, version, pricing>>

(* update_station_pricebook_entry: prices that are not given are those of  *)
(* the entry.                                                              *)
ReadEntry(h, x, prices) ==
  /\ pricing[h] = Idle
  /\ target[x] # None
  /\ Covers(prices, cost[target[x]])
  /\ pricing' = [pricing EXCEPT ![h] =
       [alias |-> x, against |-> target[x], cost |-> cost[target[x]],
        read |-> retail[x], next |-> prices, version |-> version[x] + 1]]
  /\ UNCHANGED <<cost, target, retail, version, edits, moved>>

Written(h, prices) ==
  [column \in Columns |->
     IF pricing[h].next[column] # pricing[h].read[column] THEN pricing[h].next[column]
     ELSE prices[column]]

WriteEntry(h) ==
  LET x == pricing[h].alias
      current == pricing[h].against = target[x] /\ pricing[h].cost = cost[target[x]]
  IN  /\ x # None
      /\ Edit
      /\ retail' = [retail EXCEPT ![x] = Written(h, retail[x])]
      /\ version' = [version EXCEPT ![x] = pricing[h].version]
      /\ moved' = IF ~ current THEN moved \cup {x}
                  ELSE IF pricing[h].read = retail[x] THEN moved \ {x} ELSE moved
      /\ pricing' = [pricing EXCEPT ![h] = Idle]
      /\ UNCHANGED <<cost, target>>

-----------------------------------------------------------------------------
(* An operator's multiplier or a new catalogue changes what a model costs. *)
Raise(model, c) ==
  /\ c > cost[model]
  /\ Edit
  /\ cost' = [cost EXCEPT ![model] = c]
  /\ moved' = moved \cup {x \in Aliases : target[x] = model}
  /\ UNCHANGED <<target, retail, version, pricing>>

Next ==
  \/ \E x \in Aliases, model \in Models :
       \/ Retarget(x, model)
       \/ \E prices \in [Columns -> Prices] : Create(x, model, prices)
  \/ \E h \in Handlers :
       \/ WriteEntry(h)
       \/ \E x \in Aliases, prices \in [Columns -> Prices] : ReadEntry(h, x, prices)
  \/ \E model \in Models, c \in Prices : Raise(model, c)

Spec == Init /\ [][Next]_vars

-----------------------------------------------------------------------------
(* resolve_station_model_for_user: what a request through the alias costs  *)
(* the user, and what it costs the platform.                               *)
Charged(x) == retail[x]
Wholesale(x) == cost[target[x]]

(* Types. *)
TypeOK ==
  /\ cost \in [Models -> Prices]
  /\ target \in [Aliases -> Models \cup {None}]
  /\ retail \in [Aliases -> [Columns -> Prices \cup {0}]]
  /\ version \in [Aliases -> 0 .. MaxEdits]
  /\ edits \in 0 .. MaxEdits /\ moved \subseteq Aliases

(* No request is sold below what it costs the platform.                    *)
NeverBelowCost ==
  \A x \in Aliases : target[x] # None => Covers(Charged(x), Wholesale(x))

(* It is not, as long as neither the model of the alias nor its cost has   *)
(* changed since its prices were validated, however price requests that    *)
(* overlap merge their columns.                                            *)
CoversCostWhenValidated ==
  \A x \in Aliases \ moved :
    target[x] # None => \A column \in Columns : Charged(x)[column] >= Wholesale(x)
=============================================================================
