# Formal models of coincoin-proxy

coincoin-proxy is an OpenAI/Anthropic/Gemini compatible API gateway with prepaid
billing: a FastAPI service that runs as several uvicorn worker processes on one
MySQL database (`app/`), an optional Redis, a Go service for quota reservations
and a usage event stream (`usage-quota-service/`), and a React console. Customers
buy permanent credit, requests are relayed to upstream channels, metered and
charged, asynchronous jobs that fail are refunded, and stations resell models. The
models are about what must not go wrong and is hard to test: **money, usage and
shared state under concurrency, retries and failure**.

Contents: 1 the system; 2 the stack semantics in the models; 3 the modules and
their correspondence to the code; 4 what the runs check; 5 bounds; 6 fairness;
7 what is proved; 8 where the code surprises, and where it and its documents
disagree; 9 what is not modelled; 10 the plan.

## 1. The system

Paths are relative to `src/`. "Properties" says what makes the part correct, and
in **bold** the definitions that state it here.

| Component | State | Operations | Hard behaviour | Properties |
|---|---|---|---|---|
| Recharge orders: `app/payment.py`, `payment_common.py`, `webhook.py`, `reconcile.py` | `payment_orders`, row locks, the session's identity map and snapshot | create, gateway callback, browser confirmation, reconcile round | three entry points race for one order; callbacks repeat; deadlock, lock timeout, unique key conflict, crash | a paid order is credited once, an unpaid one never (**CreditedExactlyOnce**, **ImplementsLedger**), and in the end (**PaidOrdersGetConfirmed**); one bonus, one order per trade, rewards within the limit (**ChecksHold**) |
| Finance summary: `app/finance_summary.py` | one aggregate row per user | lazy backfill, increments | backfill and second confirmation race the increment | **FinanceCountsOrders** |
| Usage buffer: `app/usage_buffer.py`, lifespan in `app/main.py` | per worker: day, user and key buckets, request logs; the batch in flight | schedule, add, flush, requeue; shutdown | adds during a flush, failed and ambiguous commits, cancellation, crash | **LoggedIffCharged**, **ImplementsLedger**, **DriftWithinHalfCentPerFlush**, **UsageGetsFlushed** |
| Debit waterfall, credit wallet, video jobs: `app/billing.py`, `credit_wallet.py`, `video_jobs.py`; request authorization in `proxy.py` | subscription, packs, credit batches, `users.balance`, job rows | debit, refund, grant, normalize; create, poll, complete, fail | sessions read before the lock and write after it; the period rolls over between charge and refund | nothing is lost or refunded twice (**WalletBalances**), sources are used and refunded in order (**SourcesInOrder**) |
| Quota reservations: `app/quota_client.py`, `quota_lifecycle.py`, `usage-quota-service/internal/quota` | reservations and counters in Redis | reserve, commit, release | timeout after execution, late calls, counters that expire | **QuotaKept**, **SlotsComeBack** |
| Usage stream: `app/usage_events.py`, `usage-quota-service/internal/redisstream`, `ledger` | stream, group, pending entries, summaries | publish, read, process, retry, reclaim, dead-letter | lost replies, crash between add and ack, two consumers on one entry | **EventsAccounted**, **StreamDrains** |
| API key cache and invalidation bus: `app/proxy.py`, `keys.py`, `distributed_state.py` | a cache per worker, pub/sub | fill, hit, edit, publish, subscribe | a fill races an edit; lost messages | **StaleExplained**, **WorkersAgree** |
| Shared cooldowns: `app/channel_router.py`, `distributed_state.py` | failure counters and cooldowns, local and in Redis | failure, success, publish, sync | background publications in any order | **CooldownsEarned**, **WorkersAgree** |
| Redis guard, leader lock, rate limiter: `app/distributed_state.py`, `rate_limiter.py` | circuit breaker, lease, window counters | acquire, renew, release, count | expiry while the leader works, open circuit, lost answer | **OneLeader**, **LeadershipGoesOn**, **LimitHolds** |
| Alerts: `app/fallback_alerts.py`, `alert_history.py` | counters, dedup keys, `alert_events` | count, claim, send, record, test | several workers see one outage; the claim's answer is lost | **AlertsHonest**, **BurstsAnnounced** |
| Channel choice: `app/channel_router.py`, `router.py`, `proxy.py` | snapshot of channels and routes, cooldowns, affinity | resolve, select, fall back, refresh | table and cooldowns change during a request | **TriesAllOnce**, **ConversationsStay** |
| Relay of `/v1/responses`, `/v1/chat/completions`, embeddings: `app/proxy.py`, `openai_compat.py` | attempts, open responses, verdicts, usage | send, fail over, stream, account | failure after bytes were relayed; a client that leaves; first-output timeout | **AccountedOnce**, **ResponsesClosed**, **AnsweredInTheEnd** |
| Relay of `/v1/messages`: `app/anthropic_compat.py` | the same, and the block state of the stream | native relay, translation | any order of deltas, errors and ends | **StreamWellFormed**, **RecordedAsShown** |
| Image jobs: `app/image_jobs.py` | `image_jobs` rows, files | create, claim, process, complete, fail, clean up | lost commit answers, worker death at each step | **BilledAsDelivered**, **FilesWithJob**, **JobsEnd** |
| Legacy credit migration: `scripts/migrate_legacy_credits.py`, operator recharge (`webhook.py`), redeem codes (`openai_compat.py`) | balances, packs, credits, locks | plan, lock, verify, retire and grant; debit, refund, redeem, recharge meanwhile | the plan is older than the locks; ambiguous commit; unlocked recharge | **MigrationSound** |
| Provider channel monitoring: `app/channel_monitoring.py`, `channel_monitor_leases.py`, `admin.py` | monitors, routes, leases | reconcile, claim, probe, record; edit, run now, delete | a probe outlives its lease; reconciliations overlap | **ProbedByOne**, **MonitorsConverge** |
| Runtime configuration: `app/system_settings.py`, `model_alias_overrides.py`, `provider_channels.py`, loops of `main.py` | tables, a view per worker | edit, install, detect, reload | a stale read installed after a fresh one; a change test that misses | **ConfigConverges** |
| Stations: `app/stations.py`, `station_runtime.py`, `auth.py` | applications, members, batches, entries, pricebook | apply, review, create, join; batch, pay; price | checks without locks | **OwnersBelong**, **BatchesPayTheirEntries**, **CoversCostWhenValidated** |
| Referral (rest), admin reports, adapters, prices, media, e-mail, console | rows, files | CRUD, translation, I/O | - | not modelled (section 9) |

How they interact: `authorize_request` resolves the key through the cache, reads
the wallet and the pending cost of the usage buffer, and asks the quota service
for a slot; the handler asks the router for a channel, relays, reports the verdict
to the router (which shares cooldowns through Redis) and schedules the usage. The
usage task adds to the buffer, appends the stream event and commits the
reservation; the release follows. The flush debits through the waterfall and
increments the finance summary. Order confirmation grants a credit batch, makes a
station commission entry, counts in the finance summary and issues referral
rewards, in one transaction. Video jobs debit and refund through the same
waterfall; image jobs are billed through the buffer. Reconcile and the monitors run
in every worker, under a lease. Edits of the configuration reach the other workers
through loops that poll the tables.

Every hazard met in the code is listed with its line in `PROJECT.json`, with the
properties that cover it, or the reason why none does.

## 2. Semantics of the stack that the models contain

Most of the interesting behaviour is in what MySQL, SQLAlchemy, asyncio and Redis
do, not in the text of the handlers. The models contain, as behaviour of the steps:

- **Locks.** `SELECT ... FOR UPDATE` waits for the row lock; locks are held until
  COMMIT or ROLLBACK, not until the end of the call.
- **Snapshots.** A plain `SELECT` under REPEATABLE READ reads the snapshot of the
  transaction's first plain read, also after a lock was waited for.
- **Identity map.** A locking read returns the object that the session holds
  already, with the attributes it was loaded with, unless `populate_existing` is
  given. The session factory has `expire_on_commit=False` (`app/db.py:56`), so
  objects stay stale across commits.
- **UPDATE writes what changed.** An attribute whose value equals the loaded one
  is not written (`Written` in CreditWallet).
- **Failures.** A deadlock rolls the victim back; a lock wait timeout fails the
  statement and keeps the transaction, so what the session has flushed goes with its
  next COMMIT; a crash or a closed session rolls back;
  COMMIT can be applied and still be reported as failed.
- **Redis.** A command or script is atomic; its answer can be lost after it ran.
  Keys expire while someone relies on them. Pub/sub messages to a disconnected
  subscriber are lost.
- **Cancellation.** `asyncio.CancelledError` is not an `Exception`: a flush that
  is cancelled does not requeue. A generator that was never started runs no
  `finally`; between two awaits nothing else runs in the process.

## 3. Modules

| Module | Code | Role |
|---|---|---|
| `OrderLedger` | - | abstract: absent, open, paid, credited once; one step may credit several orders |
| `PaymentConfirm`, `MCPaymentConfirm`, `PaymentConfirmProofs` | `payment_common.py`, `payment.py`, `webhook.py`, `reconcile.py`, parts of `referral.py`, `station_settlement.py`, `finance_summary.py`, `credit_wallet.py` | order confirmation in detail, refines `OrderLedger` |
| `UsageLedger` | - | abstract: owed, charged, charged again only after a charge in doubt, or dropped |
| `UsageBuffer`, `MCUsageBuffer`, `UsageBufferProofs` | `usage_buffer.py`, lifespan of `main.py` | buffer and flush in detail, refines `UsageLedger` |
| `CreditWallet` | `billing.py`, `credit_wallet.py`, `video_jobs.py`, `proxy.py` 2884-3027, the wallet part of `usage_buffer.py` | one user's funds, the flush, authorization and video jobs |
| `QuotaReservation` | `quota_lifecycle.py`, `quota_client.py`, `internal/quota/redis_store.go`, `service.go` | reservations of requests |
| `UsageStream` | `usage_events.py`, `internal/redisstream`, `internal/ledger`, `internal/events` | publication and consumer group |
| `MCUsageService`, `UsageServiceProofs` | - | the two above, one per behaviour |
| `KeyCache` | `proxy.py` (KeyCache, `_resolve_user`), `keys.py`, `distributed_state.py` (bus) | cached API keys |
| `ChannelCooldown` | `channel_router.py` 325-389, `distributed_state.py` 296-517 | local and shared cooldown of a channel |
| `RedisGuard` | `distributed_state.py`, `rate_limiter.py`, `reconcile.py` 48-72 | circuit breaker, lease, rate limit |
| `AlertDelivery` | `fallback_alerts.py`, `alert_history.py`, `claim_once` | alerts |
| `MCWorkerState`, `WorkerStateProofs` | - | the four above, one per behaviour |
| `ResponsesRelay` | `proxy.py` (`proxy_responses` and its streams), `router.py` 959-986, `channel_router.py` 219-323 | one `/v1/responses` request |
| `ModelRelay` | `openai_compat.py` | EXTENDS ResponsesRelay: any model handler |
| `AnthropicStream` | `anthropic_compat.py` 90-1043 | the state machine that writes an Anthropic stream, and a reader of it |
| `MessagesRelay`, `MCMessagesRelay`, `RelayProofs` | `anthropic_compat.py` 500-2095 | one `/v1/messages` request; composes ResponsesRelay and AnthropicStream. With the handlers of ModelRelay it makes `EndpointSpec`: one request to any of the seven handlers |
| `ImageJob`, `MCImageJob`, `ImageJobProofs` | `image_jobs.py` | jobs, claims, files, billing |
| `CreditMigration`, `MCCreditMigration` | `migrate_legacy_credits.py`, and the writers beside it | migration runs |
| `ChannelMonitor`, `MCChannelMonitor`, `ChannelMonitorProofs` | `channel_monitoring.py`, `channel_monitor_leases.py`, monitor operations of `admin.py` | leases and probes |
| `ConfigSync`, `MCConfigSync` | refresh loops of `main.py`, `system_settings.py`, `model_alias_overrides.py`, `provider_channels.py`, edits of `admin.py` | configuration across workers |
| `StationParameters` | `models.py` | constants of the station modules |
| `StationMembership` | `stations.py`, `auth.py` | applications, ownership, members |
| `StationPayout` | `stations.py` 1394-1533 | payout batches |
| `StationCatalog` | `stations.py` 204-928, `station_runtime.py` | aliases and prices |
| `RoutingParameters`, `ChannelRouting` | `channel_router.py`, `router.py`, fallback helpers of `proxy.py` | which channel, and which next |
| `MCPlatform`, `PlatformProofs` | - | the six parts with safety properties only (wallet, migration, membership, payout, catalog, routing), one per behaviour |

Operators named `Slip...` are plausible errors in the code ("the status is not
checked", "newest batch first"); one put in place of the operator it is named
after makes a checked property fail, which shows that the property speaks about
the code. They are not part of any specification. Where a property is a
conjunction of several statements, each conjunct has been seen violated by an
error of its own.

**Merged instances.** `MCPlatform`, `MCWorkerState` and `MCUsageService` hold parts
that share no variable. Each behaviour chooses a `part` at the start and follows
that part alone; a product would multiply the states and add no behaviour of
any part. A part that composes with another through state is composed in one
module instead (`ModelRelay` over `ResponsesRelay`, `MessagesRelay` over both,
`CreditMigration` with the online writers, `CreditWallet` with flush and jobs).

### Orders, usage, funds

**PaymentConfirm.** A *session* is one request or one reconcile round with its
database session; `pc` is where `confirm_paid_order` stands between two waits.

| Action | Code |
|---|---|
| `CreateOrder`, `Pay` | `create_order`; the buyer at the gateway (external) |
| `CallbackBegin` | `_handle_pay_notify` and `confirm_order_from_return`: nothing is loaded before the lock; the browser is only another messenger |
| `ConfirmBegin` | `confirm_order`: the order *is* loaded (`seen`, `view`), then the gateway is asked |
| `ReconcileBegin/Next/End` | `reconcile_once`: the oldest pending orders one after the other; errors are logged and the round goes on |
| `GatewayPaid/Refuses` | `_confirm_with_query_fallback` |
| `LockOrder`, `LockUser`, `LockReferrer` | the three locking reads |
| `AlreadyConfirmed` | the early return, which makes up for a missing commission entry |
| `Reject`, `Accept`, `Apply` | the checks; batch, status, commission and summary flushed; rewards and COMMIT |
| `Conflict`, `LockFailure`, `Crash` | IntegrityError; victim or lock timeout; lost worker |

Writes appear in the action that commits them: nobody else can read them before,
and every other writer of the same order needs its lock. Until then `unsaved` holds
the orders that the session has flushed as confirmed. A session that waits for the
referrer has flushed its order; when that wait times out, `confirm_paid_order`
raises, a request closes its session, and a reconcile round goes on in the same
transaction. `Save` is COMMIT: it writes every order in `unsaved`, that of an
earlier turn of the round among them, and `Reads` is what the session's own
queries show meanwhile.

**UsageBuffer.** A *record* is what one call of `UsageBuffer.add` contributes. `buf`
stands for the day and user buckets and the logs, which are filled, taken, written
and requeued together; `keyBuf` for `_cost_by_api_key`, which is not. `add` is one
action, since it holds its shard lock throughout and `snapshot_and_reset` and
`requeue` hold all of them. A flush is the snapshot and the transaction, which ends
in `FlushCommit`, `FlushFail` or `FlushAmbiguous`. `StopBegin` is lifespan's
`finally`; tasks may still add; `StopEnd` is the end of the process. `RoundCents`
is Python's `round`, half to even.

**CreditWallet.** One user: a subscription with a quota, packs, credit batches in
the order of their grants, the scalar balance. A debit or refund locks the user row
first and commits in the same call, so it is one action; what interleaves is the
loading of objects before it and their use after. `Split` is the waterfall, `Debit`
the rows it writes given what the session *believes*, `Refund` the reverse.
`Authorize` commits the normalized subscription, `Query`, `Answered`, `Failed` are
`_refresh_video_job`.

**CreditMigration.** `Start` reads the plan without locks; `Migrate` locks, reads
again, refuses when the plans differ, retires sources, grants credits, commits
(perhaps ambiguously) and reconciles. `Application` is what goes on meanwhile; all
of it waits for the row locks, and differs in what it has read before:

| Action | Code |
|---|---|
| `Debit` | the usage flush, on the rows as they are under its lock; from packs before credits before the balance, within packs and within credits in any order (`CreditWallet` says which) |
| `LoadUser`, `AskVideo`, `ChargeVideo` | a video request: the balance is loaded when it is authorized, the packs when the price is checked; after the upstream's answer the debit starts from those objects |
| `QueryVideo`, `Refund` | a poll that learns that the task failed: the refund is added to the balance loaded before the upstream was asked, and to the packs under their locks |
| `ReadForRecharge`, `WriteRecharge` | a recharge, a redeemed code, a referral bonus, an operator's edit of the balance: read, then written |
| `SetStatus` | the operator's edit of a pack |

A writer that starts from what it read earlier overwrites what happened since, the
migration's zero included. The ghost `surplus` counts exactly that: what such a
write put over a change it had not seen, in the balance and in packs.

### The request path

**ResponsesRelay** follows one request over its upstreams: choose, send, classify
the answer, relay bytes or a body, account, close; the client may leave before or
during the relay, and channels cool meanwhile. **ModelRelay** adds the handlers of
`openai_compat.py`: those with a failover of their own and those that know one
upstream. **MessagesRelay** adds the window in which nothing was shown to the
client yet (so another channel may be tried), and the two lanes, native and
translated; **AnthropicStream** has the state machine of the blocks and a reader
that is lost on a block opened twice, written to or closed while it is not open, or
left open at the end (it does not mind that the index of a closed block is used again). Channels are chosen freely here;
**ChannelRouting** says which are chosen: tiers, weights, rendezvous hashing of
conversations, aliases for models without rows of their own, fallback over at
most 16 attempts (`proxy.py:2221`).

**KeyCache**: `Query`/`Fill` are the database read of a request and its later
insertion into the cache; `Commit`, `DeleteLocal`, `Publish` are the three steps of an edit;
`Subscribe`, `OnSubscribed`, `HandleMessage`, `Disconnect` are the bus.
**QuotaReservation**: each of reserve, commit and release is a call with an answer,
a failure or a timeout; `LateCall` executes a call that the gateway has given up
on. Counters and reservations expire on their own.

### Background work

**UsageStream**: `Consume` is the consumer's loop call by call (autoclaim, read,
`Write`, ack, add again, dead letter), each of which can fail before or after it
took effect. **ImageJob**: `Loop` is the worker's next step (poll, claim by
conditional update, load files, send, bill, complete or fail, clean up);
`DatabaseFails` is a statement that fails or whose answer is lost; creation is
`CreateEdit/CreateGeneration`, then `Respond`, `Refuse` or the end of the request.
**ChannelMonitor** is one channel. `Loop` reconciles (`Read` in its snapshot, then
`WriteMonitors` commits), claims one monitor at a time, probes and records. A request
of the operator is `Lock` (the channel's row, then its rows are read) and `Create`,
`Select` or `SelectAutomatic`; or `LookUp`, which reads the monitor and with it opens
the snapshot *before* the channel's lock is waited for, and `Update` or `Delete`;
`Refuse` ends it without a write; `EditRoutes` commits and then reconciles in a
transaction of its own; `DeleteChannel` takes the monitors along without a look at
claims; `RunNow` claims one by hand. A session writes what differs from what it saw
(`Changes`); the commit fails when it inserts an id that exists, updates a row
that is gone, or adds to a channel that is gone (`Applies`). **ConfigSync**: an edit is a commit
followed by what the handler installs; `UpdateAlias` edits the row of the session's
snapshot, and so may write nothing, `ClearAlias` clears the view whether there was a row or not; `LoopReads` and `LoopApplies` are the two
halves of a refresh, with an await between them.
**RedisGuard**: `Loop` is `reconcile_loop` with its lease; `Limiter`, `Count`,
`Answered`, `CountFails` are one request at the rate limiter. **AlertDelivery**:
`Runs` are the steps of a background task: claim or count, create the event, post,
complete it. **StationMembership**, **StationPayout**, **StationCatalog**: every
handler is a read-and-check step and a write step, since that is where others come
in between.

## 4. Runs

Run each with `tlc -config X.cfg M`. `PROJECT.json` lists the properties of each.

| Run (module, cfg) | Question and result |
|---|---|
| `payment_all` (`MCPaymentConfirm`, `PaymentAll.cfg`), passes | All three entry points, rollbacks, victims, timeouts, crashes, a station order and a referred buyer. Credit is exactly-once, every step is a step of `OrderLedger`, stale reads included, and a paid order is confirmed in the end by reconcile alone. |
| `payment_callback` (`MCPaymentConfirm`, `PaymentCallback.cfg`), passes | Callbacks alone: three orders of one buyer, two with one gateway trade, delivered repeatedly. The buyer's lock makes the check-then-write decisions exact: what a check found under the locks is still so at the commit, and the finance summary counts each paid order once. |
| `payment_double_count` (`PaymentDoubleCount.cfg`), violated | section 8, item 1 |
| `usage_flush` (`MCUsageBuffer`, `UsageFlush.cfg`), passes | Two workers, a log-only record, an ambiguous commit: the three books agree, rounding drifts at most half a cent per flush, the buffer implements `UsageLedger`, and what is served is charged in the end unless its worker goes away. |
| `platform` (`MCPlatform`, `Platform.cfg`), passes | *wallet*: two video jobs between flushes, rollovers and expiry: credit is conserved, a failed job is refunded its price once, in order. *migration*: value moves once beside traffic. *membership*, *payout*, *catalog*: what the stations' unlocked checks still guarantee. *routing*: no channel twice, none left out, conversations move only when they must. |
| `migration_stranded` (`MCCreditMigration`, `MigrationStranded.cfg`), violated | section 8, item 2 |
| `relay` (`MCMessagesRelay`, `Relay.cfg`), passes | One request to any of the seven handlers: each attempt counts once, usage is recorded once, no upstream response stays open; the client of `/v1/messages` reads one well-formed message or an error, and what is recorded and billed is what was shown; a request to one of the other six ends. |
| `images` (`MCImageJob`, `Images.cfg`), passes | An edit and a generation, two workers, lost answers and deaths: billed as delivered, files with their job, unharmed jobs end. |
| `usage_service` (`MCUsageService`, `UsageService.cfg`), passes | Quota: the limit holds but for reservations that outlived their counter, slots come back. Stream: no event counted twice or dropped, dead letters are earned, the stream drains. |
| `monitors` (`MCChannelMonitor`, `Monitor.cfg`), passes | Leases keep probes apart, and a monitor goes under its probe only with its channel; the channel settles on at most one active monitor, of one of its active routes (one of the best route, unless the operator's choice rules or an id is taken: section 8). |
| `config` (`MCConfigSync`, `Config.cfg`), passes | The view of every worker reaches the table, unless two versions look alike to the change test or older data was installed after newer. |
| `worker_state` (`MCWorkerState`, `WorkerState.cfg`), passes | Stale keys are explained, at most one leader while Redis answers, leadership goes on, limits and cooldowns are honest, alerts are sent and recorded truthfully. |

Type invariants (`TypeOK` in each stateful module, or the `TypeInv` of its proofs)
are stated in the theorems of section 7; the runs spend their properties on behaviour.

Deadlock is checked in the three payment runs and in `usage_flush`. The others switch it off: the
request ends, clocks, edits and faults are used up, or loops have nothing more to do.

Properties that are *not* obvious from the code, and why they hold:

- `CreditedExactlyOnce` holds although the status check can be fooled by a stale
  object, because the source of a credit batch is a unique key and a replay returns
  the existing batch; the count of paid orders has no such key, and fails.
- Credit is conserved although balance, subscription and packs can be overwritten
  from stale objects: batches are only summed by a funds check and read anew
  under the lock.
- `ProbedByOne` needs the hard timeout, which is below the lease, and that no commit of
  a stale session carries the claim column, as it writes only what it changed; the rollup counters
  that the probe updates are read-modify-write without a lock and rely on it.
- `FilesWithJob` speaks of jobs whose client was told "accepted": a creation whose
  commit was applied and whose answer was lost deletes the files of a job that a
  worker may pick up, and the client has been told that there is none.
- `ConversationsStay` holds because rendezvous hashing over the *cooled* tier
  only removes candidates.

## 5. Bounds

- *payment*: two sessions give every pairwise race of entry points (each can be any
  of the three); two or three orders for a second order of one buyer and a shared
  trade (`payment_callback`). `BatchLimit` holds all pending orders (section 6).
  `MaxRewards = 1` with three orders reaches the limit.
- *usage*: two workers (crash, shutdown and restart of one beside the other), three
  records (two of one user, so that costs add before they are rounded), costs below,
  at and above half a cent, one ambiguous commit.
- *wallet*: quota 2, a pack of 2 that ends in period 2, batches 2 and 2, balance 1,
  jobs of 4 and 3 cents: one crosses from subscription through pack to credit, both
  exhaust all; three periods contain a rollover, an expiry and the end of paid time.
- *migration*: a user with a balance and a pack, full or half used, that may expire, or in
  debt with an overfull pack; two runs, two events of the application, of which one
  video request and one recharge may be under way at a time, and one job's sources are
  remembered for its refund.
- *stations*: two users, applications, slugs, handlers (every pairwise overlap); three
  entries of 1, 2 and 3 cents, `MinPayout = 2`, two batches; one alias, two models, two prices.
- *routing*: three channels in one or two tiers, two attempts (so that the limit is
  reached), one request, two conversations, two changes.
- *relay*: three channels, at most two attempts (so that one channel is left when the
  limit is reached), every kind of failure at every step; a stream has up to two
  tools. Fallback and its end are both reached.
- *images*: one edit, one generation, two workers, two channels, two faults in any place.
- *usage_service*: two requests of one user, one with a key limit, limits of one, counters
  that live two ticks; two events, two consumers, two attempts, two troubles.
- *monitors*: one channel, two routes, two ids, the loop of one worker and two requests
  of the operator with two edits between them, lease and interval of one tick. The rows
  to begin with are those of an operator who has already chosen a route and then
  another, so that two edits reach what takes five from nothing. Larger instances
  agree: two workers with one request, and three edits by one request.
- *config*: two workers with one operator each, one row, two values, two edits.
- *worker_state*: two workers; three calls, so that a breaker opens and a window
  fills; two failures make a cooldown or a burst; three troubles of Redis.

The theorems of section 7 remove these bounds for every safety property that a run
checks. What stays with the runs is liveness, and configuration, which has no other.

## 6. Fairness

- *Payments* (`Fairness(leader)`): a session that has begun goes on; the leader starts
  rounds again and again and from some time on does not crash in one; for an
  acceptable order the gateway does not refuse every time and a lock does not fail
  every time. Callbacks and browsers need not come. `BatchLimit` covers the pending
  orders: the code has `limit(20)`, oldest first, so twenty abandoned orders of the
  last 72 hours hide a younger one (listed as a hazard).
- *Usage*: tasks run, the loop flushes, a shutdown ends; the database does not fail
  *every* flush of a worker (strong fairness of `FlushCommit`).
- *Relay* (`EndpointFairSpec`): the handlers of `ModelRelay` go on (weak fairness of
  `HandlerProgress`); upstreams stall only as long as the code's timeouts let them, the
  client owes nothing. A message handler is promised nothing: its stream may go on
  for ever, since every delta restarts the read timeout.
- *Images*: the loops of living workers, and the handler of a creation, go on. A job
  whose worker died after the claim is not promised anything: nothing reclaims it.
- *Quota*: tasks and answers go on; time passes. *Stream*: consumers go on; idle times grow.
- *Monitors*: each worker's loop reads for a reconciliation again and again
  (`[]<><<Read(w)>>_vars`): its steps end within their timeouts, and a minute after a
  reconciliation it makes another. The operator's requests owe nothing.
- *Config*: loops read (weak) and apply (strong: a handler may reinstall between reading
  and applying), handlers finish.
- *Workers*: time passes, loops and syncs run; request fills end; alert tasks run.
  Lost answers, outages and restarts are bounded by named constants (`MaxTroubles`,
  `MaxFaults`, `MaxRestarts`): the liveness says what happens when they cease.

Liveness is written with `[]<>` and `<>[]` of states, so that TLC need not keep one
formula per record.

## 7. What is proved

TLAPS checks all proofs, in eight modules. The theorems hold for every value of the
constants; what is assumed are the named ASSUMEs of the modules: types of the
constants, positive limits, and that null values are none of the others. Where a
run merges parts (`MCPlatform`, `MCWorkerState`, `MCUsageService`), the theorem states
the run's own definition: lemma `PartsFollow` (and its like) shows that a
behaviour of the merged specification follows one part, and the invariant of
the part does the rest.

**PaymentConfirmProofs**, for any orders, users, sessions, referrers, entry points:
`TypeCorrect`; `ExactlyOnceCredit`, `StationCommission`: neither is inductive
alone, nothing would keep a session from confirming an order nobody paid. `ConfirmInv`
adds: past the gateway only for a paid order; a status read as "confirmed" is true
(the converse is false, that is the stale read); a session that accepted read the
order as unconfirmed, and has flushed it; what is flushed and not committed was paid for;
snapshots show no entry that is not there. The step that
matters is `Apply` of an order that was confirmed meanwhile (`ApplyConfirms`).
`Refinement`: `Spec => ImplementsLedger`; a commit credits the orders in `unsaved` that were not
credited, several after a lock wait timeout in a round, and is a stutter if all were.
`FinanceExact`: without the browser's entry point and with a summary row for every
user the count is exact, because a session past `lockOrder` holds the lock and what
it read is current (`CountInv`). `ChecksAreStable`: under callbacks alone, one bonus for
a buyer, one order for a trade, rewards within the limit. `CheckInv` needs that a session
which decides holds the buyer's row, that its view shows all rows of that buyer, and
that what was accepted is not refused by the rows as they are. The hypothesis
`Entrances \subseteq {"callback"}` is the code's limit, not the proof's: a reconcile
round or a browser request reads a snapshot that is older than its lock (section 8).

**UsageBufferProofs**, for any workers, records, users, costs, ambiguous commits: `IInv`
(a record is held by one worker, in the buffer or the flush; what is held was debited at most
as often as commits were ambiguous; debits, daily rows and logs move together; unserved
records are uncharged; pending key costs belong to records in no flush). From it
`UsageTypeCorrect`, `UsageNotForgotten`, `UsageBooksAgree`, `UsageChargedAtMostOnce`,
`UsagePendingNotLogged`, `UsageRefinement` (ambiguous commits are steps of the
ledger: `Doubt` makes a second charge possible), and, without ambiguous
commits, `UsageChargedOnce`. `UsageDriftBounded`: what a user was debited differs from the exact
cost of what was charged by at most half a cent for each committed flush. Both sides
are sums over a finite set of records; a flush moves its records from one to the other
and `RoundCents` is off by half a cent at most (`DriftInv`).

**UsageServiceProofs**. Quota, for any users, requests, limits, late calls: the counters
hold the requests that are pending or ended with a call outstanding (`Slots`), and a
reservation is finished by the request's end or by its usage task, never by both
(`OneFinisher`), so `QuotaConcurrencyBounded` (within
the limit but for reservations that outlived their counter), `QuotaNoPhantomSlot`,
`QuotaUsageCommitsFirst`, together `QuotaIsKept`. Stream, for any events, consumers,
attempts and troubles: `EventsAlwaysAccounted`. "Nothing acknowledged is lost" is not
inductive: an entry is acknowledged by a consumer that knows what became of it two
steps earlier. `StreamInv` says what the consumer knows at each step of its batch
(counted, written again to the end of the stream, or dead), that an acknowledged
event which is none of these is carried by a *later* entry, and that an entry's
attempt number counts failures that happened.

**WorkerStateProofs**, for any workers, bounds and troubles of Redis. *Keys*:
`KeyCacheTypeCorrect`, `KeyCacheHearsEdits`: an entry that was up to date when stored is
stale only while an edit or its message is under way, the worker is not
listening, or an announcement was lost. *Lease*: `LeadershipIsExclusive`; whoever was
granted the lease holds it or has outlived it (`LeaseHeld`). *Rate limit*:
`LimitHoldsAlways`; the invariant is a budget: the admissions of a minute, those
promised to requests that have an answer, those left in the processes' own
buckets and those left in Redis never exceed the limit times one plus the
buckets opened (`Budget`). *Cooldowns*: `CooldownsAreEarned`; each failure is in one
place, with the task that will publish it, in the counter, or spent on a trip
(`CoolInv`). *Alerts*: `AlertsStayHonest`; the keys in Redis outlast the windows of the
alerts they decided (`KeysOutlast`), and a task's record tells how far it came (`Told`).

**RelayProofs**, over `EndpointSpec`, for any channels, attempts and tools. `CourseInv`: a
response is open exactly while the handler waits for it, and an upstream due next
was not asked before; from it `ResponsesAreClosed`, `UpstreamsAskedOnce`. `AccountInv`: how
many verdicts and usage records there can be at each point of the handler, by
handler and kind of answer; from it `RequestsAccounted`. `SurrenderIsLast` is an action
property: a step that ends a request with an error on a channel's account is one
after which no channel is left to try, or is one of the answers after which the
code does not move on (a success that holds an error, or nothing).
`StreamsWellFormed`: the blocks that the reader has open are those that
the translator's state names, with distinct indices below the next one (`Tracked`);
each of the translator's functions keeps that, in whichever order deltas
arrive. `MessageInv` adds what is logged and billed; from it `MessagesRecorded`.

**PlatformProofs**. `OwnersBelongAlways` (`MembershipInv`: a handler that has checked holds a
pending application of its user, and an application is held once, its row lock; that
plus the unique indexes carries ownership). `PricesCoverCost` (`CatalogInv`: what a handler is
about to write covers the cost it was validated against; an alias whose model or cost
moved since is excepted, which is what the code does not revalidate).
`BatchesPayAlways` (`PayoutInv`: until an overlapping creation disturbs it, the entries that a
payment has read are those of its batch, and an entry in another batch
disturbs both). `CooldownsMoveTheirOwn`: a cooldown or its end moves only conversations
that had or get that channel, for any tiers, weights and scores; an action property
about the highest score of a set. `RequestsTryAllOnce` (`WalkInv`: the channels visited are
those attempted, once each).

The funds need sums over finite sets, for which the library has no theorem: what is
needed (a sum splits, grows by one member, follows a change of its summands) is
proved from the definition of the fold, by looking for a smallest set that makes an
exception, since an induction theorem could not be cited.
`WalletBalancesAlways`: a credit batch has lost what was spent and what jobs took that were
not refunded, no more and no less; a failed job was refunded its price, another nothing. `WalletInv` adds the types of rows and sessions
and `JobsApart`: a session that is about to charge for a job is the only one that
has it, and the job is not stored; one that polls finds it stored. `SourcesStayInOrder` is
proved of each step: a batch is touched only when the older ones are empty, the balance when
all are, and a refund leaves the quota of a later period alone.
`MigrationStaysSound`: `MigrationInv` says what the row locks are for. While a run holds them,
what it has read of users and packs, and the amounts of its plan, are what the rows hold.
Recharges and video jobs wait for the lock too, but write what they made of older
rows; it is that difference which `surplus` counts, and `ValueConserved` says that
nothing else is gained or lost.
What a run wrote stays in the credits, and a video job took from the sources of one
user, so that its refund is that user's. A transfer leaves each source worth the same, its own
value and its credit together; what a user holds is the sum of the worths.

**ChannelMonitorProofs**: `OneProbesAlways`, for any workers, requests, monitors, routes,
leases and edits. `MonitorInv`: while the channel exists, whoever probes holds the claim
that the row shows, which lasts longer than the probe (`claimed = left + 1`); no
two probe the same; and what a session holds, be it rows it read or changes it is
about to commit, is whole rows where it adds and never the claim column where it
edits (`Plain`, `Acceptable`): a stale commit cannot take a claim away. A single deletion looks
at the claim, that of the channel does not, which is the exception in
`ProbedByOne`. The hard timeout of a probe, below the lease, is in the model's guards.

**ImageJobProofs**, for any jobs, workers, channels and faults: the worker that holds a
job's claim is the only writer of its row, and files are ahead of the row by the step
under way (`ImageInvariant`); from it `ImageTypeCorrect`, `ImagesBilledAsDelivered`,
`ImageFilesWithJob`.

Only model-checked: liveness under fairness, out of the prover's reach:
`PaidOrdersGetConfirmed`, `UsageGetsFlushed`, `AnsweredInTheEnd`, `JobsEnd`, `SlotsComeBack`,
`StreamDrains`, `MonitorsConverge`, `ConfigConverges`, `LeadershipGoesOn`, `WorkersAgree`,
`BurstsAnnounced`. Configuration has only a liveness property, and so no theorem.

**What the proofs changed in the models.** "The refund is under way" was recognised in
`CreditWallet` by the state of any job; with several jobs that also excused a debit beside a
job that had failed long ago, and `SourcesInOrder` was not what its comment said. It is
now the step in which a job becomes failed. The debit of `CreditMigration` was exact for a user with
one pack only; it now takes from any packs and credits, in any order, as
its theorem is about any packs. Both modules take several sets to be finite
(`WalletAssumption`, `MigrationAssumption`), which rows of a database are.

## 8. Where the code surprises

Two runs end in a counterexample that is a behaviour of the code:

1. `payment_double_count`. `confirm_order` loads the order, asks the gateway, and
   `confirm_paid_order` then locks the row but sees the loaded status
   (`payment_common.py:84`). A callback in between makes the order count twice in the
   finance summary; credit is saved by its unique source. `reconcile.py:53-55` says
   that confirmation is idempotent by row lock and status check.
2. `migration_stranded`. A refund reopens a pack only when it is depleted
   (`video_jobs.py:775`): cents go into a pack that the migration has retired, where no
   debit finds them, and every later run refuses with `migrated_pack_not_retired`.

Others were met while modelling; the models contain them and the properties are
stated around them. They are grouped by module.

*Payments.* For a user without a summary row the backfill counts the order that is
being confirmed and the increment counts it again (`LegacyUsers` not empty). The
first-purchase decision is made on a snapshot that the browser's request opened before
it asked the gateway, so two orders can both get the bonus (entry `confirm`). When a reconcile
round times out at the referrer's row (`referral.py:215-217`), the error is logged and the round
goes on in the same transaction (`reconcile.py:41-43` does not roll back): the
next order's commit confirms this one too, credited, but without its referral rewards, which
nothing makes up for.
*Usage.* After a commit that was applied but reported as failed the batch is debited
again (`usage_buffer.py:794`; `docs/operations/claude-code-upstream-runbook.md:126-129` speaks of idempotent
inserts). `requeue` does not restore `_cost_by_api_key`.
*Wallet.* The locked user row is a stale object (`video_jobs.py:629`): a flush between
load and debit is overwritten and a job is charged beyond the funds, against the
comment at `billing.py:513-515`.
*Migration.* A recharge that read the balance before the commit (`webhook.py:81-82`), and a
video job that loaded it before it asked the upstream and charges or refunds after
(`video_jobs.py:628-640, 688-690, 796-797`), write the migrated balance back: the user has it twice. After a migration a redemption or refund into the balance makes later
runs refuse with `credit_source_state_conflict`, although the plan promises an
idempotent rerun. A pack that expires between start and commit is still migrated (`as_of`).
*Keys.* A request that read the row before an edit fills the cache after the
invalidation (`proxy.py:2857`); the old key works until its entry expires.
*Quota.* `proxy.py:3068` passes no estimated cost, so balance is never reserved. A failed
release is not retried; the slot comes back when the counter expires
(`docs/usage-quota-infra.md:317-318` promises a release for every reservation without usage).
*Stream.* A single consumer that restarts under its own name never reclaims its own
pending entries (`consumer.go:187`); a write that was applied but not answered at the
last attempt is dead-lettered though counted; events with one upstream request
id share an event id.
*Cooldowns.* A sync that fetched before, racing the worker's own success, leaves a
local cooldown until it expires; a cooldown that could not be published is forgotten
when publishing fails again (`distributed_state.py:471-472`, against its comment).
*Relay.* A stream request answered by a 200 JSON body is delivered without usage. An
error body that cannot be read (`proxy.py:3831`) ends in 500 without failover. A client that leaves
before the iterator starts leaves the upstream response open. An empty JSON answer to a
chat stream counts twice, and so does a failure of the Gemini pool. Truncated
streams of the Kiro lane count as success and are billed. `README.zh-CN.md:299` speaks of two
channels, the code tries up to 16.
*Messages.* The runbook (144-145) says that invalid JSON, an unexpected content type and an empty
response move on; the code ends. A native client that leaves is recorded nowhere; on the
translated lane it counts against the channel, and the `yield` in `finally` keeps
the upstream from being closed. Text, thought, text reuses a block index. A delivered
message without usage counts neither as success nor as failure.
*Images.* A job whose worker died after the claim stays running for ever. Usage is added
before the job is marked completed, so a failed mark leaves a billed, running job. A
commit that was applied while the refresh failed tells the client "refused" for a job
that is executed. A CPA-lane edit with an empty result counts as success and failure.
A generation of several images that fails at one asks the next channel for all again.
*Monitors.* A claim looks at the row that was probed longest ago, and ends the round when
that one is not due: a monitor with a long interval hides due ones with a shorter
(`channel_monitoring.py:597-616, 638-641`; the model has one interval for all). When a channel needs an
automatic monitor, has none, and the id of the automatic one belongs to a row that the operator made
his own, reconciliation inserts that id again (`channel_monitoring.py:281-298`) and its commit fails.
Five steps lead there: select route 1, select route 2, remove the routes, delete the second
monitor, restore a route. From then on each reconciliation fails and with it the loop's round, before it
claims anything: no channel is probed, and edits of the monitors answer 500, until
the operator selects automatic again (`IdTaken`). Disabling a manual monitor or moving the
automatic one to another channel can do the same. Deleting a channel deletes monitors under their
probes (`admin.py:2796-2798`); an update or a deletion reads its snapshot before it waits for the channel's
lock (`admin.py:800`), and may reconcile rows older than an edit it waited for. *Stations.* Concurrent batch creations put the same
entries into two batches, both of which can be paid (`stations.py:1407-1450`; ghost `disturbed`); two pending
applications are possible; an applicant linked to another station can never be
approved; a retargeted alias or a raised cost is not revalidated.
*Redis.* An open breaker makes every worker the leader; an early success in flight closes it;
a lease acquired by a task that is cancelled stays for its time; a lost answer counts both in
Redis and locally. *Alerts.* The claim precedes the send, so a failed send silences
the alert for its window; a timed-out script that ran sets the key with nobody sending; a
timed-out insert leaves a "pending" event. *Routing.* A request that begins on the
catalog's upstream while all channels cool has no fallback afterwards; aliases count
only for a model without rows of its own, active or not.
*Config.* Two edits within one second of `updated_at` with equal row counts look alike to
the change test; a handler may install what it read before a newer install. An alias edit whose
row was read from an older snapshot may write nothing and still patch its worker's view
(`admin.py:1909-1921`); clearing an alias patches the view also when it found no row (`admin.py:1931-1935`).

## 9. What is not modelled, and why

- Data transformation without state of its own: format adapters, prices, token
  counts, prompt cache keys, probe classification, what is inside payloads.
- Pure I/O and best-effort telemetry: HTTP bodies, media storage, e-mail, metrics, image keep-alive.
- CRUD and reports without a protocol between actors: accounts and sign-in, most of
  the administration's queries, listings, daily reports, console.
- Within modelled parts: token, image and video counters (they travel with the cost);
  money columns of the summary (same two functions as the count); the 72 hour
  window of reconcile; daily rows across midnight; the user deleted between use
  and flush; grants of subscriptions and packs; the RPM window of the quota
  service and the expiry of its hash; the memory store (the same protocol without
  expiry); trimming of the stream, expiry of deduplication keys, retries inside the Redis
  client; malformed credit rows of the migration; `extra_models`, rollups and
  availability rows of monitors, moves of a monitor to another channel, other channels in
  the commit of a reconciliation (which fail with it), intervals that differ; branding, default aliases and settlement summaries of
  stations; latency statistics of the router; malformed orders (possible in the
  module, absent from the instance).
- Storage of edit files is assumed to be shared by the workers of one host.
- The registration and first-usage referral rewards.

## 10. Plan

Built: orders, usage buffer, wallet and video jobs, quota, stream, cache, cooldown,
guard, alerts, routing, relays, image jobs, migration, monitors, configuration and
stations. Every safety and action property of a run is a theorem; what is left
to TLC is liveness, configuration with it.

What could come next, in this order: that a view older than the table is
installed only by the writers that `ConfigConverges` excepts, as an action property
with its theorem; the first-usage reward beside the flush; daily and key limits of
requests over `UsageBuffer` and `KeyCache` together; the flush of `UsageBuffer` over
the debit of `CreditWallet`, which now meet in the cost of one flush.
