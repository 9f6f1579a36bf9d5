------------------------------ MODULE MCPlatform ------------------------------
(***************************************************************************)
(* Instance for TLC of the parts with safety properties only: the funds of *)
(* a user, the migration of legacy credits, the stations, and the choice   *)
(* of a channel.  They share no state, so each behaviour follows one of    *)
(* them.                                                                   *)
(*   wallet: two video jobs, two sessions.                                 *)
(*   migration: a user with a balance and a pack, or in debt and with a    *)
(* pack too full to be valid, and two runs; the pack may expire.           *)
(*   membership: two users, two applications, two handlers.                *)
(*   payout: three commission entries, two batches.                        *)
(*   catalog: one alias, two models, two prices.                           *)
(*   routing: three channels in one or two tiers, a request with or        *)
(* without a conversation.                                                 *)
(***************************************************************************)
EXTENDS StationMembership, RoutingParameters, Sequences, TLC

CONSTANTS u1, u2, a1, a2, slug1, slug2, h1, h2

CONSTANTS b1, b2
VARIABLES entry, batch, total, creating, paying, disturbed
Payout == INSTANCE StationPayout
payoutVars == <<entry, batch, total, creating, paying, disturbed>>
ByNumber == [e \in Entries |-> e]

CONSTANTS alias1, m1, m2
VARIABLES cost, target, retail, version, pricing, edits, moved
Catalog == INSTANCE StationCatalog
catalogVars == <<cost, target, retail, version, pricing, edits, moved>>
OneAndTwo == m1 :> 1 @@ m2 :> 2

CONSTANTS s1, s2, j1, j2, Sessions, Jobs, Price, Quota, PaidUntil, PackCents, PackEnd,
          OpeningCredit, OpeningBalance, Costs, MaxFlushes, LastPeriod, Reserved, Entrances
MCPrice == [j \in Jobs |-> IF j = j1 THEN 4 ELSE 3]
OnePack == <<2>>
PackEnds == <<2>>
TwoBatches == <<2, 2>>
VARIABLES now, wallet, spent, job, sess, flushes
Wallet == INSTANCE CreditWallet
walletVars == <<now, wallet, spent, job, sess, flushes>>

CONSTANTS q1, r2, Payers, Packs, Owner, Original, Expiry, Openings, Runs, MaxScanned,
          MaxPlanned, Amounts, MaxEvents, LastTime
VARIABLES balance, pack, credit, holder, run, recharge, video, owed, flow, surplus, events, clock
Migration == INSTANCE CreditMigration WITH Users <- Payers, now <- clock
OneOwner == q1 :> u1
TwoCents == q1 :> 2
FirstTick == q1 :> 1
CreditOrDebt == {[balance |-> (u1 :> 1), left |-> (q1 :> 2)],
                 [balance |-> (u1 :> 2), left |-> (q1 :> 1)],
                 [balance |-> (u1 :> -1), left |-> (q1 :> 3)]}
migrationVars == <<balance, pack, credit, holder, run, recharge, video, owed, flow, surplus, events, clock>>

CONSTANTS w1, r1, c1, c2, c3, v1, v2
VARIABLES table, snapshot, cooling, mode, request, visits, changes
Routing == INSTANCE ChannelRouting
routingVars == <<table, snapshot, cooling, mode, request, visits, changes>>
ScoreTable == v1 :> (c1 :> 4 @@ c2 :> 7 @@ c3 :> 1) @@ v2 :> (c1 :> 5 @@ c2 :> 2 @@ c3 :> 9)
Row(t, u) == [usable |-> TRUE, tier |-> t, under |-> u]
TableWith(r) == c1 :> Row(1, "model") @@ c2 :> Row(1, "model") @@ c3 :> r
ThreeChannels == {TableWith(Row(1, "model")), TableWith(Row(2, "alias"))}

ASSUME WalletAssumed == Wallet!WalletAssumption
ASSUME MigrationAssumed == Migration!MigrationAssumption

VARIABLE part
parts == <<vars, walletVars, migrationVars, payoutVars, catalogVars, routingVars, part>>

PartsInit ==
  /\ Init /\ Wallet!Init /\ Migration!Init /\ Payout!Init /\ Catalog!Init /\ Routing!Init
  /\ part \in {"wallet", "migration", "membership", "payout", "catalog", "routing"}
  /\ part # "migration" => balance = (CHOOSE o \in Openings : TRUE).balance
  /\ part # "routing" => mode = "catalog" /\ table = TableWith(Row(1, "model"))

PartsNext ==
  /\ UNCHANGED part
  /\ \/ /\ part = "wallet" /\ Wallet!Next
        /\ UNCHANGED <<vars, migrationVars, payoutVars, catalogVars, routingVars>>
     \/ /\ part = "migration" /\ Migration!Next
        /\ UNCHANGED <<vars, walletVars, payoutVars, catalogVars, routingVars>>
     \/ /\ part = "membership" /\ Next
        /\ UNCHANGED <<walletVars, migrationVars, payoutVars, catalogVars, routingVars>>
     \/ /\ part = "payout" /\ Payout!Next
        /\ UNCHANGED <<vars, walletVars, migrationVars, catalogVars, routingVars>>
     \/ /\ part = "catalog" /\ Catalog!Next
        /\ UNCHANGED <<vars, walletVars, migrationVars, payoutVars, routingVars>>
     \/ /\ part = "routing" /\ Routing!Next
        /\ UNCHANGED <<vars, walletVars, migrationVars, payoutVars, catalogVars>>

PartsSpec == PartsInit /\ [][PartsNext]_parts

SessionSymmetry == Permutations(Sessions)

(* A payout batch that no overlapping creation marked pays what its entries*)
(* earned (stations.py, the payout batches).                               *)
BatchesPayTheirEntries == part = "payout" => Payout!BatchesPayTheirEntries
(* A validated alias sells at cost or above (stations.py, the pricebook).  *)
CoversCostWhenValidated == part = "catalog" => Catalog!CoversCostWhenValidated
(* A request tries every channel it could, and none twice (proxy.py, the   *)
(* fallback to the next channel).                                          *)
TriesAllOnce == Routing!TriesAllOnce
(* A cooldown moves the conversations of its own channel only              *)
(* (channel_router.py, the weighted choice by conversation).               *)
ConversationsStay == Routing!ConversationsStay
(* What users hold is what they were granted and not charged (billing.py,  *)
(* credit_wallet.py, video_jobs.py).                                       *)
WalletBalances == part = "wallet" => Wallet!WalletBalances
(* The migration moves every cent once (scripts/migrate_legacy_credits.py).*)
MigrationSound == part = "migration" => Migration!MigrationSound
(* A debit takes from a later source only what the earlier ones could not  *)
(* cover (billing.py, the waterfall).                                      *)
SourcesInOrder == Wallet!SourcesInOrder
=============================================================================
