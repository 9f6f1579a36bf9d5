-------------------------- MODULE StationParameters --------------------------
(* The parameters of the modules about stations, and what is assumed of them. *)
EXTENDS Integers

CONSTANTS
  Handlers,                      \* requests that are handled at one time
  None

(* StationMembership. *)
CONSTANTS
  Users, Applications, Stations, \* ids that generate_id may return
  Slugs

ApplicationRows == [user : Users, status : {"pending", "approved", "rejected"}]
StationRows == [owner : Users, slug : Slugs]

ASSUME MembershipAssumption ==
  None \notin Users \cup Stations \cup Slugs \cup Applications \cup ApplicationRows \cup StationRows

(* StationPayout. *)
CONSTANTS
  Entries, Batches,
  Commission,  \* of each entry
  MinPayout    \* settings.station_min_payout_rmb_cents

ASSUME PayoutAssumption ==
  /\ Commission \in [Entries -> Nat] /\ MinPayout \in Nat
  /\ None \notin Batches

(* StationCatalog. *)
CONSTANTS
  Aliases,
  Models,
  Prices,    \* retail prices and costs, positive
  FirstCost, \* what each model costs the platform, before Raise
  MaxEdits   \* bound: committed edits

ASSUME CatalogAssumption ==
  /\ Prices \subseteq Nat /\ MaxEdits \in Nat
  /\ FirstCost \in [Models -> Prices]
  /\ None \notin Models
=============================================================================
