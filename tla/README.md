# TLA+ verification of the SliderAPIV2 backend

The repository is an AI API gateway: a Go backend (`backend/`) that
authenticates API keys, schedules requests over upstream accounts, meters and
bills them, sells balance and subscriptions through payment providers, and an
admin front end. Several backend instances share a MySQL database and a Redis.
This directory holds TLA+ models of the parts of the backend where the order of
concurrent steps decides correctness, the TLC runs that check them, and TLAPS
proofs of the main invariants. All paths below are relative to
`backend/internal/` unless they start with `docs/`.

## 1. Inventory

| Component | State | Operations | What makes it hard | What makes it correct |
|---|---|---|---|---|
| Idempotency (`service/idempotency.go`, `repository/idempotency_repo.go`, `service/idempotency_cleanup_service.go`) | one row of `idempotency_records` per (scope, key hash) | `Execute`, `CreateProcessing`, `TryReclaim`, `MarkSucceeded`, `MarkFailedRetryable`, `DeleteExpired` | every statement is its own transaction; crashes between effect and record; expiry, cleanup and reclaim race | one effect per key and window, one executor, replays of the right response |
| System operation lock (`service/system_operation_lock_service.go`) | one row of the same table | `Acquire`, `renewLoop`, `Release` | lease renewed in the background, store errors, reclaim of a dead holder's row | nobody else gets the lock while the holder runs |
| Payment orders (`service/payment_order.go`, `payment_fulfillment.go`, `payment_order_lifecycle.go`, `payment_order_expiry_service.go`) | `payment_orders` row, redeem code, audit log, subscription | create, webhook, query, cancel, expire, fulfil, retry, manual fulfilment | repeated and late webhooks, workers that die or are overtaken, admin actions in between | delivered if and only if paid, once; no order is stuck |
| Refunds (`service/payment_refund.go`) | order status, user balance, audit log, the gateway's refund | request, prepare, execute, roll back, finalise | money moves at the gateway and locally in separate steps, each of which can fail | what is not refunded is restored, what is refunded is deducted once |
| Redeem codes (`service/redeem_service.go`) | `redeem_codes` row | create, redeem, delete | the code is the idempotency record of a balance order | a code pays once |
| OAuth refresh (`service/oauth_refresh_api.go`, `token_refresh_service.go`, token providers) | account credentials, Redis lock, token cache | `RefreshIfNeeded`, background sweep | single-use refresh tokens, lock with TTL and no owner token, stale account copies | a live refresh token is never lost |
| Concurrency slots (`repository/concurrency_cache.go`, `service/concurrency_service.go`) | sorted sets and counters in Redis | acquire, release, wait, start-up cleanup | slot TTL against long requests, instances restarting | the limit holds, slots come back |
| Scheduler (`service/scheduler_snapshot_service.go`, `repository/scheduler_cache.go`, `scheduler_outbox_repo.go`) | outbox table, watermark, per-bucket snapshots | enqueue, poll, rebuild, fall back | dedup window, ids against commit order, rebuild races | a change reaches the snapshot |
| Usage billing (`repository/usage_billing_repo.go`, `dashboard_aggregation_repo.go`) | dedup keys and their archive | `Apply`, `CleanupUsageBillingDedup` | retried charges while keys are archived, lost commit answers | a request is charged once |
| Balance cache (`service/billing_cache_service.go`, `repository/billing_cache.go`, `gateway_service.go`) | the cached balance in Redis, a bounded write queue | load, deduct, invalidate, expire | a load racing a charge, a full queue, failing Redis | no deduction is dropped silently, a wrong balance does not stay |
| API key auth cache (`service/api_key_auth_cache_impl.go`) | L1 per instance, L2 in Redis | load, invalidate | an invalidation between load and store | a revoked key stops working in bounded time |
| User message queue (`service/user_msg_queue_service.go`) | per-account lock in Redis | acquire, release, cleanup | lock of a dead holder | one user message at a time |
| OpenAI WebSocket pool (`service/openai_ws_pool.go`) | connections, leases, waiters | acquire, release, prewarm, evict | goroutines, limits, broken connections | a connection has one user, waiters are served |
| Shop (`service/shop.go`) | stock, reservations, card keys | order, deliver, release | reservation against late payment | a card key is sold once |
| Subscriptions (`service/subscription_service.go`), withdrawals (`service/withdrawal.go`), named locks (`pkg/dblock`), batch tasks | rows and in-memory maps | | read-then-write of dates, refunds of holds | |
| Gateway and protocol translation, handlers, `ent/`, front end, operations and reporting | | | no shared decisions | |

Components call one another directly; what they share is the database (row
state guarded by conditional UPDATEs and unique keys), Redis (locks and caches)
and the audit log, which several operations read back as a record of what was
done. The payment provider is the only other party: it calls the webhook, and
is asked by query, refund and refund query.

`PROJECT.json` lists every component with its status and, under `hazards`, each
place where an untested order of steps can go wrong.

## 2. Modules

| Module | Models |
|---|---|
| `IdempotencyStore` | the statements of `repository/idempotency_repo.go` as functions of the one row they touch |
| `Idempotency` | `IdempotencyCoordinator.Execute` and the cleanup job, over the store |
| `SystemOperationLock` | the lock service, over the same store |
| `OrderLifecycle` | abstract: which order status follows which, and what must be true of money and goods when it does |
| `PaymentOrder` | one balance or subscription order from its insertion on; implements `OrderLifecycle` |
| `PaymentRefund` | the refund of one completed order; follows `OrderLifecycle` |
| `UsageBilling` | the charge's transaction and the archive of its keys |
| `BalanceCache` | the cached balance of one user, and the charges that change it |
| `OAuthRefresh` | refreshing the token of one account |
| `SchedulerSnapshot` | the cached account list of one scheduling bucket |
| `ConcurrencySlots` | slots and wait counters of users and accounts |
| `*Proofs` | theorems, one module per component; `BillingProofs` for the charge and the balance cache |
| `MC*` | constants and symmetry for TLC |

**IdempotencyStore / Idempotency.** `row` is the row of the one key; absent is
a status of its own. Each request has a program counter whose values are the
statements of `Execute`; between any two statements other requests, the cleanup
job, a crash or the clock may step in. `t` is the single `now := time.Now()`
from which `expires_at` and `locked_until` derive. `CreateProcessing` is two
steps since the code inserts and then reads the id back by key. `StoreError` is
every error return of a store call; `Crash` ends a request anywhere. A
truncated response (over `MaxStoredResponseLen`) is a body with `whole =
FALSE`, which does not decode. `WellFormed`, part of the type invariant, is the
shape every statement keeps: a succeeded row has its response and no lock.
`effects` and `window` are history variables. One clock serves all instances
and the database.

**SystemOperationLock.** The acquisition has the same steps; the renewal loop
is a process of its own per holder (`loop`, `renewAt`, `errors`), which is
served before time passes its tick but may fail up to `MaxErrors` times in a
row, and may win its `select` once more after `Release` closed the stop
channel. A crashed holder leaves its row behind.

**PaymentOrder.** A worker is a request, a webhook delivery or a pass of the
expiry job; a step is one SQL statement or transaction, or one answer of the
provider. `age` and `idle` are the times since `created_at` and `updated_at`.
`idle` runs only in the statuses where some code asks for it. The audit log
keeps only the actions some code reads back; `ASSIGNED` stands for
`SUBSCRIPTION_ASSIGNED` and `SUBSCRIPTION_SUCCESS`, which are read together.
`creator` is the request in `CreateOrder`, which may still be opening the
payment, or have failed to, while webhooks arrive. The type invariant also says
that a row in PAID, RECHARGING or COMPLETED has its `paid_at`. `blind` and
`dropped` are history variables: a provider query missed a payment made in
time; a worker died between PAID and the fulfilment lock. Left out: the checks
on amount, currency and metadata before a confirmation (a notification that
fails them changes nothing), validation before the order is inserted, rate
limits, shop orders, and the redemption of the order's code through the user's
redeem form.

**PaymentRefund.** A worker is an admin's request. The amount deducted counts
as one unit, so the module tells "deducted", "not deducted" and "deducted
twice" apart and nothing else; PARTIALLY_REFUNDED is REFUNDED. Deductions and
roll-backs run in no transaction of their own: they may commit and still report
an error, when the balance or the subscription cannot be read back
(`repository/wallet_buckets.go:136-168`,
`service/subscription_service.go:576-598`). The history variable `hidden`
counts the units so moved, and `Known` is what is left, the units the code can
know of. The gateway refunds, defers, refuses, refunds with its answer lost, or
answers with a status the code does not know, which a refund query takes for a
failure. `writeAuditLog` only logs its errors and `hasAuditLog` takes an error
for "no such row"; the unique index on (order_id, action) keeps the first row.

**OrderLifecycle** composes the two: `PaymentOrder` has an order up to
COMPLETED and `PaymentRefund` from there on, so an order is in one of the two
at a time. Both map their status to the abstract one; `paid` is "received or
confirmed by an admin", `delivered` "credited or assigned", `returned` what the
gateway has done. `FollowsLifecycle` is the refinement as a temporal property;
`RefundFollowsLifecycle` states its step condition for providers without refund
queries, since `QueryAndFinalizeRefund` (only there for the others) writes
whatever it found over any status. Both are also proved.

**UsageBilling.** A row of `usage_billing_dedup` is named by the request whose
`Apply` inserted it; the type invariant says that this request has the row's
key and either has its transaction open or has been charged. `INSERT IGNORE`
waits for an uncommitted row of the same key; the archive is read after the
insert, in the same transaction. The retention job is three statements (select
a batch, copy it to the archive, delete it) and any number of instances run it.
What the charge does to the wallet is one step here and the subject of
**BalanceCache**: a charge commits, and then its process removes the entry or
queues a deduction, which one of several workers applies some time later; a
load on a miss reads the database and queues the entry. Every Redis call may
fail with only a log line, the commit's answer may be lost, and the process may
die. A charge takes points, balance or both (`result.taken`); recharges remove
the entry some time after their commit, and the balance writes of refunds
(`RefundWrites`) never do. `drift` is a history variable: some value on its way
to the entry, or the entry, may miss a change. `BillingProofs` extends both
modules, so the names of this specification begin with `Cache` (`CacheInit`,
`CacheNext`, `CacheSpec`, `CacheTypeOK`).

**OAuthRefresh.** Tokens are numbered by generation: the provider accepts the
newest refresh token once and then issues the next. A caller (a sweep or a
request) takes the mutex of its process, then the Redis lock or goes on without
it if Redis fails, reads the account again, exchanges the token and stores it.
The lock has a TTL and no owner: it may end under a slow caller, and a release
deletes whatever lock there is. The admin's manual refresh and edit take no
lock. The provider refuses a spent token with invalid_grant, from which a lost
race is recovered by reading the account again, or with refresh_token_reused,
from which it is not; and it may refuse any token for good (invalid_client,
unauthorized_client, access_denied and others), at which a sweep and the
admin's refresh mark the account as failed
(`service/token_refresh_service.go:301-313` and `430-460`,
`handler/admin/account_handler.go:1287`). `refused` is the history variable for
both. The type invariant also says that no `_token_version` is ahead of the
token it came with. Claude's provider and refresher are the ones modelled.

**SchedulerSnapshot.** Revisions number the contents of the database. An edit
changes the account, then enqueues an event (unless one is less than a second
old), then writes the payload; a charge's transaction enqueues with an id that
is visible only at commit. Pollers handle events behind the watermark and set
it at the end of the batch. An event is handled in two steps: the account is
read, then its payload is written and its buckets are rebuilt
(`handleAccountEvent`, `rebuildByAccount`). The bucket may be a mixed one,
which is skipped once mixed scheduling is off for the account
(`service/scheduler_snapshot_service.go:468`), so that an account that leaves
it stays listed. Edits without an event include `BindGroups` with no groups,
which takes the account out of the list. A rebuild takes the bucket's lock or
skips, loads, takes a version, writes payloads and activates or clears; a
request that misses does the same without the lock. The version counter is the
sequence of those who hold a version (`Without` takes one out), and
`RunsScript` says when the activation script finds its version newer than the
active one. `newest` and `missed` are history variables: the newest revision
loaded by a rebuild that an overlapping one of a newer version replaced or kept
out, or that was cleared; and the newest change whose event may do nothing.

**ConcurrencySlots.** A key (user or account) has the set of requests whose
member is in its sorted set, a number of members nobody will remove (leaked),
and a wait counter. A request counts itself, waits for its user's slot, tries
and then waits for the account's, runs and releases both. A client may leave
at any point (`gone`): its context is cancelled, so calls fail, and both slots
are released in any order by `context.AfterFunc`
(`handler/gateway_helper.go:153-172`) while `Forward` goes on draining the
upstream call on a detached context; `MayRelease` says which slots a request at
its place may give back. A wait counter may expire under its waiters, since its
TTL is started before the wait and equals the longest wait of an account
(`repository/wire.go:18-25`). `excused` and `drifted` are history variables: a
slot was removed under its request; a counter missed an increment or decrement,
or ended under a waiter.

`map` in `PROJECT.json` names the source lines of every definition. Definitions
introduced by a comment "Mutant" or "Mutation" are deliberate faults used to
show that a property can fail; no specification uses them.

## 3. Runs

All passing runs switch deadlock checking off: the models end when every
request is answered and the clock, the edits or the faults have reached their
bound.

| Run | Bounds | Shows |
|---|---|---|
| `idempotency` | 3 requests, 2 payloads, TTL 3, processing timeout 2, clock to 6 | `SingleEffect`, `SingleExecutor`, `ReplayIsOfSuccess` |
| `system_operation_lock` | 3 operations, 2 operation ids, lease 3, clock to 7, 1 failed renewal in a row | `CreatorExclusive`, `LeaseLiveWhileHeld` |
| `payment_order` | 2 workers, both order types, timeout and grace 1, 1 deletion of a used code | `CreditPerCode`, `DeliveredIsPaid`, `CompletedIsDelivered`, `RebateOnce`, `AssignedOnce`, `PaidInTimeIsKept`, `PaidIsAttended`, `FollowsLifecycle` |
| `payment_liveness` | 2 workers, fair expiry job | `RechargingEnds` |
| `refund` | 2 admins, providers with and without refund queries | `FailedRefundRestores`, `RetriesDeductOnce`, `RefundedIsReturned`, `RefundFollowsLifecycle` |
| `refund_double_finalize` | 2 admins | `DeductedAtMostOnce` fails |
| `usage_billing` | 3 requests, 2 keys, 2 fingerprints, 2 retention jobs | `ChargedOnce`, `AnswerIsTrue` |
| `balance_cache` | 2 charges, 2 recharges or refund writes, 2 workers, a queue of 1, balance 2 and 1 point | `CacheTracksBalance`, `StaleBalanceEnds` |
| `oauth_refresh` | 2 sweeps and a request in 2 processes, an admin, 2 generations, 1 fault | `LiveTokenKept`, `ErrorIsDeserved`, `DueIsHandled` |
| `scheduler_outbox` | 1 editor, 1 transaction, 2 pollers, 2 changes, 1 fault | `StaleIsExplained` |
| `scheduler_convergence` | 1 editor, 1 poller, 1 rebuilder, 1 request, 1 change, 1 fault | `Converges` |
| `concurrency_slots` | 3 requests of 2 users, 1 account, limits 1, 2 processes, 1 fault | `LimitHolds`, `WaitIsExact`, `RequestEnds` |

Why the bounds suffice: a worker that returns is idle and may start any other
operation, so two workers already give any sequence of operations with any two
overlapping; three requests are needed where two reclaim what a third left
behind, or where one waits for what two others hold. Clocks reach past the
largest sum of limits the code compares with. A fault is any failing call,
lost lock, dying process, leaving client or wait counter that expires under a
waiter; one is enough to reach each of the exceptions the
properties name, and the fault-free orders of steps are not bounded by it. A
queue of one is full after one task. Symmetry is over requests, payloads,
workers, pollers or jobs, none of which any definition tells apart, and is not
used in runs with fairness.

### Where the properties stop

The properties state what holds; these are the cases they leave out, because
the code behaves differently there.

* `SingleEffect` speaks of a record's first window. `TryReclaim` tests id,
  status and lock, not the expiry: two retries that read the same expired
  *succeeded* record may reclaim it one after the other and repeat the effect.
  `SingleExecutor` still keeps them from executing at once.
* `CreatorExclusive` and `LeaseLiveWhileHeld` speak of the operation that
  created the row. A reclaim keeps the old `request_fingerprint`, which
  `ExtendProcessingLock` compares with the new holder's operation id, so the
  new holder's loop stops at its first tick.
* `PaidIsAttended` excepts a worker that died between `toPaid` and the lock:
  webhooks are then answered "being processed" and the job looks at PENDING and
  RECHARGING only, so an admin must retry the order.
* `PaidInTimeIsKept` excepts a failed provider query, which counts as unpaid,
  and a failed `CreateOrder`: the provider may have opened the payment, and a
  payment of an order that is FAILED and unpaid is only audited as
  `PAYMENT_AFTER_FAILED_UNPAID` once the expiry and its grace have passed, with
  no query having missed it (`service/payment_fulfillment.go:195-203`).
* `AssignedOnce` excepts a RECHARGING order that was taken over and an audit row
  that could not be written or read.
* `FollowsLifecycle` lets an order fail from any status, so it does not object
  to `CreateOrder` writing FAILED over an order that a webhook has already paid;
  `RefundFollowsLifecycle` speaks of statuses, not of an order that stays in
  REFUNDING, its units deducted, after its process died. Nothing in the code
  ends that.
* `CreditPerCode` counts per life of the redeem code, since the admin API
  deletes used codes too.
* `RetriesDeductOnce` and `FailedRefundRestores` except units moved by a
  statement that committed and then reported an error: `ExecuteRefund` restores
  the status with the units gone and a retry takes them again.
* `RetriesDeductOnce`, `FailedRefundRestores` and `RefundFollowsLifecycle`
  speak of providers without refund queries. Where there are queries, the retry
  of a pending refund deducts nothing, and concurrent finalisations deduct
  twice: that is the run `refund_double_finalize`, against the comment that a
  re-check "must not deduct ... again" (`service/payment_refund.go:252`).
* `LiveTokenKept` and `ErrorIsDeserved` name their exceptions: a lost answer,
  a failed UPDATE, a crash in between, an admin's edit that writes an old row
  back; for the second also overlapping refreshes, a recovery that cannot read
  the database, and refusals other than invalid_grant, refresh_token_reused
  after a lost race among them.
* `StaleIsExplained` names what the outbox misses: a change deduplicated,
  committed late, not enqueued, or whose rebuild was skipped because the bucket
  was locked or because the account had left a mixed bucket; rebuilds that lost
  to an overlapping one or cleared the list; and an older list that becomes
  active after a clear (the version check compares with the active version
  only). `Converges` shows that full rebuilds make up for what the outbox
  missed, in a run of one change and without transactions: there a change is
  missed since no event was written for it, its insert failed or its rebuild was
  skipped, not by deduplication or a late id, which leave the same state.
* `LimitHolds` excepts slots that outlived their TTL or were removed by the
  cleanup of a starting process, and upstream calls that are drained after their
  client left: they run on without a slot.
* `WaitIsExact` excepts a counter after a failed call, a dead process, a client
  that left before it was counted, or a TTL that ended under a waiter, until the
  counter ends with nobody waiting.
* `CacheTracksBalance` excepts a load that overlaps a change, failed or lost
  calls, a recharge whose invalidation is still to come, and the balance writes
  of refunds, which invalidate nothing; `StaleBalanceEnds` shows that the TTL
  ends them all.

## 4. Assumptions and fairness

* `DurationAssumption`: `config.Validate` requires positive durations; claiming
  a record takes less than the processing timeout and a request less than the
  TTL (30 seconds and 24 hours by default). Without the second a request could
  complete after its record was deleted.
* `LeaseAssumption`: the acquisition takes some time, and the lease outlives it
  and `MaxErrors` failed renewals (the loop renews every third of the lease).
* `NoneAssumption`, `ActorAssumption`, `SlotAssumption`, `QueueAssumption`,
  `WorkersAssumption`, `StoreAssumption`, `TimesAssumption`,
  `BoundsAssumption`, `BoundAssumption`, `DeductsAssumption`, `BodiesAssumption`,
  `TypesAssumption`: identities are distinct, sets finite
  and constants in their ranges.
* `JobSpec` (payment): weak fairness of the clock and of the stale-order pass,
  which the expiry service runs every minute for as long as an instance runs.
* `CacheFairSpec` of `BalanceCache`: workers, loads and started charges go on and an
  entry expires (every write sets a TTL).
* `FairSpec` of `OAuthRefresh`: sweeps run on their ticker, started calls go on
  (HTTP and database calls have time-outs), Redis ends a lock whose TTL has
  passed, and the process mutex is strongly fair (Go mutexes do not starve).
* `FairSpec` of `SchedulerSnapshot`: pollers and full rebuilds run on their
  tickers, started calls go on, locks expire. A full rebuild visits registered
  buckets only, so its fairness asks for an active version.
* `FairSpec` of `ConcurrencySlots`: requests go on and waits time out. Nothing
  is assumed of slots being freed, of clients leaving or of counters expiring.

No fairness is assumed of users, admins, edits, faults or the provider's
success.

## 5. Proofs

Every invariant below is proved for all values of the constants that satisfy
the assumptions: any number of requests, workers, operations or jobs. None is
inductive as it stands; each module strengthens it to an `IInv`, with one lemma
per action (or group of actions) and one step per conjunct. The type theorems
carry the row shapes of section 2, not only the ranges of the variables.

`IdempotencyProofs`: `TypeOK`, `SingleEffect`, `SingleExecutor`,
`ReplayIsOfSuccess`. `IInv` adds where the clock can be relative to each
request's `t` (`Clocks`); that ids are never reused and that whoever owns an id
owns the present row or a deleted one (`Ids`, `Ownership`); what a request
about to reclaim has read, and that the row has only moved on since
(`Reclaims`); that a record in its first window was never reclaimed from
success (`FirstWindow`); and that while an effect's window is open the row
records it or its executor still holds it (`OpenEffects`).

`SystemOperationLockProofs`: `TypeOK`, `CreatorExclusive`,
`LeaseLiveWhileHeld`. `OwnerInv`: whoever inserted the row owns it, its lease
outlives the renewals that may still fail (`Slack`), its expiry is not before
its lease, and nobody else knows its id. `ClockInv` and `IdInv` say when loops
are served and that ids are new.

`PaymentOrderProofs`: the invariants of the run, and the refinement
`Spec => FollowsLifecycle`. `IInv` adds that whoever is on the way to
fulfilment has a paid order (`PaidInv`: this is why a FAILED order that was
never paid cannot be fulfilled), that the redeem code counts the credits
exactly (`CodeInv`), that everything past the delivery implies it
(`DeliveryInv`), and that without a takeover one worker holds RECHARGING and
every assignment is logged (`HolderInv`). `DInv` relates deadlines, queries and
the payment for the two properties about lost payments. The refinement maps
each action to a step of `OrderLifecycle` or a stutter under `IInv`.

`PaymentRefundProofs`: the invariants of the run, and
`Spec => RefundFollowsLifecycle`. `IInv` adds that the workers who hold a
deduction are no more than the units deducted (`HeldInv`, a cardinality
argument), that only returned money leads to REFUNDED (`ReturnInv`), that
without queries one worker at a time is past REFUNDING (`LockInv`), and how
deduction, roll-back and audit log balance in the units that the code knows of
(`BooksInv`, over `Known`); a statement that commits and reports an error moves
`deducted` and `hidden` together.

`BillingProofs`, for `UsageBilling`: `TypeOK`, `ChargedOnce`, `AnswerIsTrue`.
`IInv`: the row of a running transaction's key is its own (`RowInv`; `TypeOK`
says the converse, that a row is claimed by an open transaction or by a
charge); a charged key has its row or is archived, and while a transaction has
passed the archive check of a key nobody else is charged for it (`KeyInv`);
what a job has selected was charged, and is archived before it is deleted
(`JobInv`). For `BalanceCache`: `CacheTypeOK` (with the bound of the queue) and
`CacheTracksBalance`. The latter counts the deductions at three places: charges
between commit and cache, the queue, and the workers. The lemmas `QueueGrows`
and `QueueShrinks` say what a task that is appended or taken does to the count;
each action then moves a deduction from one place to the next or into the
entry. A loaded balance would overwrite deductions that passed it: `FlightInv`
says that, short of a drift, nothing is pending while one is on its way and
that it is the balance of the database, which is what `drift` in `LoadBalance`
and `ChargeCommits` has to ensure.

`OAuthRefreshProofs` shows `LiveTokenKept` and `ErrorIsDeserved`. No copy of
the account is newer than the provider's token, and who is about to exchange a
token found it due (`AgeInv`). Until a token is lost, an actor about to store
the newest is the only one to have it, and if there is none the database has
it: that is why the locks are not needed for this (`KeepInv`). While nothing
was lost or refused and nothing overlapped, one caller at a time is between
taking and giving back the lock, never beside the admin, so a refused caller
finds a newer row and is not told that the account is invalid (`RaceInv`).

`ConcurrencySlotsProofs`: `TypeOK` (the sorted sets and counters stay within
their limits), `LimitHolds` and `WaitIsExact`, for any number of requests, keys
and limits. `SlotInv`: a request that holds a slot and is not excused has its
member in the sorted set, so that the holders are no more than the members.
`HoldInv`: as long as its client stays, a request keeps its user's slot from the
moment it asks for the account's, and both while it runs; this is what lets
`LimitHolds` count running upstream calls and not only held slots.
`QueueInv`: a request that is counted is at a place from which it will be
uncounted, and an idle one holds nothing, which is why its excuses can be
forgotten when it arrives again. `WaitIsExact` is inductive beside them, each
way out of the queue removing one request from a finite set.

`SchedulerSnapshotProofs`: `TypeOK` and `StaleIsExplained`, for any number of
editors, charges, pollers, rebuilds and requests. The lemma `WithoutEntry` says
what dropping a version leaves; it keeps versions unique when lists are
activated, cleared or given up. `PlaceInv` says who can be where and that a
poller on its way to the watermark has a batch; `RowInv` that the rows of an
open transaction are its own and that the watermark and all batches name
visible rows only. The heart is `EventInv`: the newest change is covered (by a
list or rebuild that has loaded it, or as one the outbox may miss), about to be
enqueued, or has a visible event beyond the watermark; and the same beyond each
batch whose rebuild is done or was skipped, or else that rebuild has loaded the
newest change. The lemma `RebuildByAccountKeeps` has the case of the mixed
bucket, where the skipped change becomes one that the outbox missed. The second
half is what allows a poller to move the watermark over its batch, also when
another poller has moved it meanwhile; a poller that gives up or dies leaves
the watermark alone. `ListInv` says that an active list has a revision.

Only model-checked: liveness (`RechargingEnds`, `StaleBalanceEnds`,
`DueIsHandled`, `Converges`, `RequestEnds`), which the prover does not reach.
Induction over data and recursive operators are out of its reach too; the
modules need neither.

## 6. Not modelled, and the plan

In this order, by what could still go wrong unseen:

1. `AuthCache` (two cache levels and their invalidation messages),
   `ShopReservation` (stock, card keys, late payments), `Withdrawal`.
2. `WSPool` and the user message queue: leases, waiters and the lock of a dead
   holder.
3. The subscription service's read-then-write of an expiry date, the named
   database locks and account batch tasks.
4. Failover between accounts and the active index of `ConcurrencySlots`; group
   and bulk events of `SchedulerSnapshot`; the worker pool in front of
   `UsageBilling`.
5. Action properties of the cache and the watermark, with their proofs.

Not planned: protocol translation (`pkg/apicompat`, provider clients) is large
data conversion without shared state; `ent/` is generated; the gateway services
are mostly request and response conversion around the parts modelled here;
reporting, e-mail, backup and the front end make no decision another part
relies on. These make up nearly all lines of the repository, so that the share
of lines that `map` covers stays small whatever is modelled.
