-------------------------- MODULE RoutingParameters --------------------------
(* The parameters of ChannelRouting, and what is assumed of them. *)
EXTENDS Integers, FiniteSets

CONSTANTS
  Workers, Requests, Channels, Conversations, Tiers,
  Score,        \* the score of a channel for a conversation (a hash, by weight)
  Tables,       \* what the table holds at first
  MaxAttempts,  \* CHANNEL_FALLBACK_MAX_ATTEMPTS
  MaxChanges,   \* bound: edits of the table and changes of a cooldown
  Nothing, Anyone

(* What a row of a channel says of this model: the channel is active, has  *)
(* its credentials and serves the endpoint; the tier is the priority, the  *)
(* one of the route if it has its own; the route is under the model's id,  *)
(* under its alias, or there is none.                                      *)
ChannelRows == [usable : BOOLEAN, tier : Tiers, under : {"model", "alias", "none"}]

(* Where a request goes besides the channels, whose ids are generated.      *)
NoChannel == {"catalog", "system", "pool"}

(* Two channels never hash to one score: 64 bits of SHA-256. *)
ASSUME RoutingAssumption ==
  /\ Tiers \subseteq Nat /\ Tables \subseteq [Channels -> ChannelRows]
  /\ Nothing \notin Channels /\ NoChannel \cap Channels = {} /\ Anyone \notin Conversations
  /\ MaxAttempts \in Nat \ {0} /\ MaxChanges \in Nat
  /\ Score \in [Conversations -> [Channels -> Nat]]
  /\ \A v \in Conversations : \A c, d \in Channels : Score[v][c] = Score[v][d] => c = d
=============================================================================
