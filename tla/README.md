# PlanBuddy backend: TLA+ models, model checks and proofs

This directory specifies the parts of the PlanBuddy backend whose correctness depends on the order in which
things happen: the v3 job runtime (lease queues, side effect journal, region leader, worker loop, outbox, notify
listener, token buckets, load shedding) and the v9 HTTP backend (idempotency, bookings, payments and webhooks,
credentials and tokens, rate limits, backpressure, shutdown, database pool, Redis client, queue health, migrations).
Each module is translated from the code; the exact lines behind every definition are in `PROJECT.json` under `map`.
File names below are relative to `src/`.

## 1. Inventory

Two programs share the repository. The **worker runtime v3** (repository root) is a set of Node processes that
poll queue tables in PostgreSQL. The **HTTP backend v9** (`planbuddy_v9/`) is an Express server on PostgreSQL and
Redis with BullMQ queues; its services and workers are required by the code but are not in the repository, so
what they do is external here.

| Component | State | Operations | What makes it hard | What makes it correct |
|---|---|---|---|---|
| Lease queue (`atomic-engine.js`, `base-worker.js`) | queue rows: status, leased_by, lease_expires_at, lease_version, attempt_count, run_after; executions in flight | atomicClaim, extendLease, commitSuccess, commitFailure, reclaimExpiredLeases, start | two-statement handlers, lost leases, crashes, commits whose answer is lost | one holder at a time behind the fence, bounded retries, finished rows final, every row settles |
| Shard router (`shard-router.js`) | shard keys of a worker | computeShardKey, computeWorkerShards | static assignment | every shard has a live poller (it has not) |
| Side effect journal (`atomic-engine.js`) | one row per operation_key | acquireSideEffectSlot, completeSideEffect, failSideEffect | overlapping executions, crash between call and completion | at most one effect, and no completed entry without one |
| Region leader (`region-manager.js`, `schema-v3.sql`) | lock row, registry rows, each manager's belief | start, tick, stop, acquire_region_leader | overlapping ticks, first boot, stalls | one primary, epochs fence, failover |
| Worker loop and controller (`base-worker.js`, `adaptive-controller.js`) | timers, polls in flight, busy slots, circuit, concurrency, drain flags | poll, wakeup, drain, stop, heartbeat; canProcess, onSuccess, onFailure, onRateLimited | awaits inside a poll, wakeups that overlap polls, drain racing a claim | the loop never dies, stop returns, a half-open circuit decides (refuted) |
| Idempotency (`planbuddy_v9/middleware/idempotency.js`) | done key and lock key in Redis, row in PostgreSQL | runIdempotency, captureIdempotentResponse | check-then-lock, Redis down or emptied, crash holding the lock | replay only what ran, no overlap, no re-execution, no zombie lock |
| Booking and payment (`planbuddy_v9/controllers`) | bookings, payments, trips, webhook_events, queue, provider | createOrder, verifyPayment, cancelBooking, webhook ingest, event handlers | unlocked reads, events out of order, redelivery, lost jobs, triggers that refuse statements | one refund, places released once, payments forward only, tables agree |
| Outbox (`atomic-engine.js`) | outbox rows: status, sequence_number, lease, lease_version, delivery_attempt, run_after | writeOutboxEvent, claimOutboxBatch, commitOutboxSuccess, commitOutboxFailure, reclaimExpiredOutboxLeases | writers commit out of sequence, SKIP LOCKED, crashes | order of the first claims, every event settles |
| Notify listener (`notify-listener.js`) | client, timers, flags | start, _connect, handlers, _scheduleReconnect, stop | one break is reported three ways | one connection, and always one again |
| Login (`authController.js`) | failed_login_attempts, locked_until | login | counter read before a slow comparison | a lock needs that many failures |
| Sessions (`utils/jwt.js`, `middleware/index.js`) | revocation marks in Redis and PostgreSQL, password_changed_at, cached is_active | authenticate, isRevoked, revokeToken, revokeAllUserTokens, changePassword | Redis comes and goes, whole seconds, stale cache | what is revoked is rejected, is_active is stale for its TTL at most |
| Backpressure (`middleware/backpressure.js`) | activeRequests | backpressureMiddleware, finish, close | three ways a request ends | a slot is given back once |
| Server lifecycle (`server.js`) | phase, open connections | start, gracefulShutdown | phases that lose against their timers go on | shutdown ends, pool closes last |
| Redis client (`config/redis.js`) | circuit, attempts | createClient, reconnectStrategy, recordAttempt | counter reset in three places | reconnects are bounded |
| Queue reliability (`utils/queueReliabilityState.js`) | flags and heartbeats | mark*, computeStatus | set here, read there | ready means that it works |
| Credentials (`authController.js`) | refresh tokens, reset codes, password_changed_at, is_active | register, login, refreshToken, logout, revokeSession, forgotPassword, resetPassword, changePassword | a token is rotated before the row is read; a transaction carries an old NOW() | no token from before a change is good after it |
| Rate limit buckets (`schema-v3.sql`, `atomic-engine.js`) | tokens, last_refill_at, throttles | ensureRateLimitBucket, acquireRateLimit | calls that wait for the row lock bring an old NOW() | no more granted than capacity and refill |
| HTTP rate limiter (`middleware/rateLimit.js`, `config/rateLimitRedis.js`) | store, windows and Redis client of each process | load, connect, retryStrategy, hit | the store is chosen once, before Redis is connected | one budget for the cluster (refuted) |
| Conflict limiter (`middleware/Idempotencyconflictlimiter.js`) | counter, its TTL, block flag | conflictLimiter, trackConflict | INCR and EXPIRE are two commands | every window ends |
| Database pool (`config/db.js`) | connections, waiting calls, open transactions | query, adminQuery, transaction, end | retries, lost COMMIT answers, failed ROLLBACK | clean clients, writes once, calls return |
| Circuit breaker (`utils/circuitBreakerUtil.js`) | state, two counters, nextAttempt | execute, results, reset | late results of earlier states | an API that is well again is called again |
| Load shedding of v3 (`middleware/backpressure.js`) | two counters, cached verdict on the pool | both middlewares, refresh | counted out when the handler first awaits | both limits hold (refuted) |
| Migrations (`apply-all-migrations.js`, `migrations/`) | committed files, schema_migrations, exit codes | getAppliedMigrations, applyMigration, main | the files record themselves, errors do not stop the loop, deploys overlap | exit code 0 means that nothing is missing |
| Queue monitoring, money, stateless middleware, health, logging, scripts | none that depends on an order of steps | | | not modelled (section 7) |

Interaction: a **worker** (BaseWorker) asks its **controller** whether it may poll and its provider's **token bucket**
whether it may call, claims rows of its **shards** from the **lease queue**, and runs `processItem`, which guards calls
to providers by the **journal**. All leases, fences and buckets live in PostgreSQL; the only messages between processes
are NOTIFY wakeups, which are advisory. A **region manager** decides whether its region is primary. In v9 a request
passes the **rate limiter**, **backpressure**, `authenticate` (**sessions**) and the **idempotency** middleware, whose
conflicts feed the **conflict limiter**, and reaches a controller, which uses the **database pool**; Razorpay's webhooks
are stored, enqueued and applied to the same **booking** and **payment** rows that the controllers write.
**Credentials** and **sessions** meet in password_changed_at. A deploy runs the **migrations** before the server starts.

## 2. Modules

| Module | Models | Correspondence |
|---|---|---|
| `ShardRouter` | shard-router.js | the two pure functions, on a hash that is a constant |
| `LeaseQueue` | one queue table and its workers | a row is the functions `status`, `leased_by`, `lease`, ...; an `_executeItem` call is a record in `execs`; each SQL statement is one action with the code's WHERE clause as `Fenced`, `Claimable` or `Expired` |
| `JobLease` | what the table promises | abstract fenced lock: Grant, Finish, RecordFailure, Revoke, Vanish |
| `LeaseQueueProofs` | | proofs about LeaseQueue |
| `SideEffectJournal` | one operation_key | an attempt's place in the acquire / call / complete chain is `pc`; the provider deduplicates by replay token |
| `RegionLeader` | acquire_region_leader and RegionManager | a tick is a chain of statements in `pc`; several ticks of one region may be in flight |
| `AdaptiveController` | adaptive-controller.js for one queue | each method is one operator on the controller's variables (they are synchronous) |
| `BaseWorker` | poll loop, drain, stop, heartbeat; extends AdaptiveController | a poll is `idle`, `rate`, `check` or `claim`, one place per awaited statement |
| `Idempotency` | runIdempotency | a request's `pc` has one place per awaited command |
| `IdempotencyProofs` | | proofs about Idempotency |
| `BookingPayment` | one booking with its payment and trip | one action per statement or transaction; the CHECK and the triggers are guards |
| `BookingPaymentProofs` | | proofs about BookingPayment |
| `Outbox` | the events of one aggregate | a claimed event is a record in `deliveries`; a claim and its COMMIT are two steps, the rows in between are locked |
| `NotifyListener` | the LISTEN client | fields of the class keep their names; `out`, `wired` and `heard` are what the pool, the client and the server know of a connection |
| `Login` | the failed-login counter of one user | `login[l]` keeps the row that request read before bcrypt |
| `Session` | revocation of one user's access tokens | time in half seconds, `iat` in whole ones; a request walks through the checks of authenticate |
| `ActiveCache` | the cached is_active flag | a SET that is not awaited is a member of `sets` until it arrives |
| `Credentials` | accounts, refresh tokens, reset codes | a token is named by the tick in which it was issued; `at` is the NOW() of a transaction that began earlier |
| `TokenBucket` | atomic_token_deduct and its callers | one action per outcome of the function; `at` is the NOW() of a call that may wait for the row |
| `TokenBucketProofs` | | proofs about TokenBucket |
| `RateLimiter` | one limiter as each process applies it | `client`, `tries` are ioredis'; the MemoryStore is `hits` and `inWindow` per process |
| `ConflictLimiter` | counter and block of one address | one place per Redis command in `request` |
| `DbPool` | query, adminQuery, transaction and end over an external pg-pool | one place per awaited statement; `inTx` is what the server knows, `committed` a ghost |
| `CircuitBreaker` | circuitBreakerUtil.js | execute decides at once how its call will end, and records it later |
| `LoadShedder` | middleware/backpressure.js of v3 | `stack` is the request whose JavaScript runs; the counters are given back when it leaves the stack |
| `Migrations` | apply-all-migrations.js run by several deploys | a file commits, commits and then fails, or fails; which files record themselves is a constant |
| `Backpressure` | the request counter | a request's place between middleware, handler, flush and hang-up |
| `ServerLifecycle` | start and shutdown; extends Backpressure | `phase` is the phase of the code; a phase that loses against its timer goes on in the background |
| `RedisClient` | reconnect loop and circuit of one client | `tries` are ioredis' retries, `attemptsSinceOpen` the code's |
| `QueueReliability` | the registry behind /health/ready; extends RedisClient | one action per mutator |
| `MCProcess`, `MCRuntime`, `MCService`, `MCGuards` | | components that share no state, checked in one run: the module extends one component and instantiates the others, `part` names the one a behaviour follows, and the others stay where they start. The states add up instead of multiplying; every property of a component is checked in all states of that component |
| `GuardsProofs` | | proofs about the parts of MCGuards: SideEffectJournal, ConflictLimiter, RateLimiter, Credentials, Migrations |
| `ServiceProofs` | | proofs about the parts of MCService: Backpressure and ServerLifecycle, RedisClient and QueueReliability, Login, Session, ActiveCache, LoadShedder |
| `ProcessProofs` | | proofs about the parts of MCProcess: BaseWorker with AdaptiveController, RegionLeader |
| `RuntimeProofs` | | proofs about the parts of MCRuntime: DbPool, CircuitBreaker, NotifyListener, Outbox |
| `MCLeaseQueue`, `MCBookingPayment`, `MCRegionLeader` | | model values, symmetry and constant functions for TLC |

`JobLease` is the abstract specification; `LeaseQueue!ImplementsJobLease` instantiates it with lease_version as the
epoch and the executions in flight as the holders. `BaseWorker` composes with `AdaptiveController` in one state
space; it treats a claimed row as a busy slot, whose life is the subject of `LeaseQueue`, and the bucket as an answer yes
or no, whose arithmetic is that of `TokenBucket`. `ServerLifecycle` composes with `Backpressure`: the requests that hold
slots are those the shutdown waits for. `QueueReliability` composes with `RedisClient`, whose events set its flags.

Operators introduced by a comment `Fault:` are variants of the code with a typical mistake. No specification uses
them: they are the mutations that show that each property can fail.

### What is abstracted
* Time: a lease is live or expired, a retry due or in the future, an open circuit cooled or not, a Redis key there
  or gone. Nothing else in the modelled code depends on the amount of time.
* Data: payloads, responses (2xx or not), amounts, names and log lines.
* Counters that are only compared with a limit are kept up to that limit.
* Each SQL statement, and each transaction whose rows are locked, is atomic; so is every stretch of JavaScript
  between two awaits.
* `LeaseQueue`: the region filter and the priority order of the claim are left out: a batch is any set of claimable
  rows. A bounded number of faults (stall, crash, failing statement) keeps the instances finite; the proofs hold
  for every bound.
* `BookingPayment`: `processPaymentTransaction`, `RefundService`, the webhook worker and Razorpay are external and
  modelled from their call sites. Terminal states `failed` and `expired`, which no code under `src/` writes, are
  left out. `createBooking` is an external transaction, so Init is a booking that was just created. Four facts that
  the repository does not settle are chosen in Init: whether the triggers of migration 130 are installed, whether
  some migration admits `cancellation_pending`, whether the database accepts a statement with an unused parameter,
  and whether NUMERIC columns arrive as numbers. The safety properties hold in all sixteen worlds; the code as
  it stands with the migrations as they stand is one of them, in which little succeeds (see section 6).
* `Outbox`: the relay is external and claims, publishes and records; the trigger on `outbox_events`, which refuses
  every insert (section 6), is left out.
* `ServerLifecycle`: one request per connection; a handler takes a pool client at most once.
* `Session`, `ActiveCache`: ticks of half a second, or of a part of the TTL; a SET or a statement in flight takes less
  than a tick.
* `Credentials`: the token store in Redis and the mailer are external, from their call sites; a rotation is one step of
  the store. One token is issued per tick. A client whose rotated token's answer is lost is refused when it tries again
  with the old one: the model has that request end as refused.
* `TokenBucket`: token amounts are whole numbers (the column is NUMERIC), time is in seconds.
* `RateLimiter`: one address; express-rate-limit's MemoryStore and ioredis are external.
* `DbPool`: pg-pool is external: it hands out connections in order and drops dead ones; a transaction's callback is one
  statement that succeeds, fails for good or fails in a way the code retries.
* `LoadShedder`: the age of the cached verdict is counted up to its TTL.
* `Migrations`: a file is its number; what it does to the schema is left out.
* `QueueReliability`: the scheduler, the workers and the backlog report from outside.
* `RedisClient`: the delay between reconnects is any number of ticks up to `MaxDelay`.

## 3. Runs

| Run | Asks | Distinct states | Result |
|---|---|---|---|
| `lease` | two rows, two workers on the same shards, batches of two, one fault: `NoDoubleClaim`, `RetryBudget`, `ImplementsJobLease`, `EveryJobSettles` | 123 954 | holds |
| `process` | two overlapping polls of a worker: `LoopAlive`, `StopReturns`; two regions with overlapping ticks and one fault: `SinglePrimary`, `EpochFencesHolders`, `FailsOver` | 134 893 | holds |
| `region_splitbrain` | `OnePrimaryAlways`, first boot included | | violated |
| `worker_probes` | `ProbesDecide`: a half-open circuit comes to a decision | | violated |
| `payments` | three cancellations against all orders of events: `OneRefund`, `PlacesReleasedOnce`, `TablesAgree`, `PaymentMovesForward` | 104 979 | holds |
| `payments_refund` | `PaidCancelIsRefunded` | | violated |
| `idempotency_race` | `ExecutedOnce` with nothing failing | | violated |
| `runtime` | outbox: `FirstClaimsInOrder`, `EveryEventSettles`; LISTEN connection: `OneConnection`, `Reconnects`; database pool: `ClientsComeBackClean`, `RetryIsSafe`, `CallsReturn`; circuit breaker: `CircuitRecovers` | 102 555 | holds |
| `service` | idempotency: `ReplaysAreHonest`, `OneAtATime`; server: `SlotsCounted`, `PoolOutlivesClients`, `ShutdownEnds`; queue client and health: `StormBounded`, `ReadyIsTrue`; logins: `LockIsEarned`; tokens: `RevokedIsRejected`; is_active: `ActiveFlagIsFresh`; load shedding: its types | 839 238 | holds |
| `guards` | token bucket: `GrantsBounded`; journal: `ExactlyOnce`; conflicts: `EveryWindowEnds`; credentials: `RefreshAfterChange`; migrations: `ExitZeroIsComplete` | 207 873 | holds |
| `ratelimit_cluster` | `OneBudget`: the processes of the cluster share a limit | | violated |
| `shedder_limit` | `LoadBounded`: no more requests in their handlers than the limits allow | | violated |

The type invariants of the parts are checked once per composed run (`ProcessTypeOK`, `RuntimeTypeOK`, `ServiceTypeOK`,
`GuardsTypeOK`).

### Bounds, and why they are enough
* `lease`: two workers and two rows show every pair of executions of one row and a batch with more than one row. An
  attempt budget of two has a retry and a last attempt. One fault lets a lease be lost and taken over; chains of several
  are covered by the proofs, which hold for every number of faults and state all three safety properties.
* Three attempts, requests or cancellations: the third one meets what two others left behind.
* `process`: concurrency 1..2 and thresholds of 2 are the smallest at which halving, capping, slow start and both ways of
  counting towards the threshold differ; three ticks over two regions: two of one region overlap while the other acts.
* `runtime`: with two events one can overtake the other, and one fault loses a lease or a record; three faults break a
  LISTEN connection again while it is being replaced. Two calls on a pool of one connection: one waits for what the other
  gives back; three tries are the retries of the code. Three callers reach a failure threshold of three with one result
  late, and pass a success threshold of two.
* `service`: three requests meet a limit of ten with 0, 5 or 8 slots lost before, so that each tier is refused and
  admitted. Two attempts open the circuit and the cooldown outlasts two delays. With a limit of two, four logins lock,
  fail after the lock and overwrite it. One request and one revocation cover every order of the two over a second
  and a half, where a second has both its halves. The TTL of two ticks lets a SET arrive after the change it missed.
* `guards`: two workers and a bucket of two tokens over five seconds empty it, overdraw it by an old NOW() and refill it,
  with a pause that ends. Three conflicts with a limit of two: one below, one at and one above it. Three requests about an
  account over three ticks: a refresh, a password change and one that overlaps both. Two deploys of four files, of which one
  does not record itself, one repeats another and one has a tail behind its COMMIT.
* Bounds that are only there for TLC: `MaxFaults` (and its copies for the outbox and the listener), `MaxNow`,
  `CredentialMaxNow`, `MaxRevocations`, `MaxDelay`. The other constants are parameters of the code.

### Fairness
* Node timers fire and awaited statements answer or throw: weak fairness of each handler step (`WorkerFairness`,
  `RegionFairness`, `OutboxFairness`, `ListenerFairness`, `PoolFairness`).
* `lease` assumes that crashed workers are started again (the process manager): nobody else polls their shards.
* Regions: `InsertFirst` is tried again by every tick and has strong fairness, so it does not fail for ever; the lease of a
  stopped region runs out.
* Outbox: writers commit, relays go on claiming and their database answers, leases of relays that are gone expire. Listener:
  the pool answers and pg emits the events of a broken connection.
* Pool: pg-pool serves its queue or gives up on a caller after its timeout, and a statement is answered or its connection lost.
* Circuit breaker: the API goes on being called, and calls end. `CircuitRecovers` asks nothing while the API fails now and then.
* Server: `server.close` calls back once no connection is left, and the timers of the shutdown fire. Queues, Redis and the
  pool are not assumed to answer.
* Safety runs and parts (`guards`, `payments`, the other parts of `service`) assume no fairness, and nowhere is any assumed
  of faults, wakeups, drains, stops or crashes.

## 4. Proofs

`LeaseQueueProofs` holds for any number of rows and workers, any retry budget, batch size and number of faults,
from `LeaseAssumption` and `ShardAssumption` alone. The inductive invariant `IInv` adds two facts to the checked invariants:
* `ExecBehindRow`: an execution's version never exceeds its row's, and is strictly smaller when the row is back in the
  queue. Without it the next claim could issue a version that an old execution still carries.
* `ReadIsCurrent`: the attempt number an execution read is current as long as its fence holds. This is what makes
  the read-then-write of commitFailure safe.

`TypeCorrect` proves the types, `Invariance` the inductive invariant, `ClaimsAreExclusive` and `RetriesAreBounded` follow from
it; `FinishedRowsAreFinal` and `AttemptsCounted` (an attempt is counted by one, and only by the holder; proved, not
checked by a run) are action properties proved from it; `QueueImplementsLease` proves that every
step of the queue is a step of `JobLease` or a stutter.

`BookingPaymentProofs` holds for any number of requests to cancel, in all sixteen worlds of Init, from no assumption.
`RefundsAreSingle` rests on `ClaimIsExclusive`: while the booking is pending or confirmed nobody is about to ask for a
refund and none was asked for; the claim leaves those statuses for good; afterwards at most one request is about to ask
and once it has, none is. `PlacesGoBackOnce` is inductive by itself. `TriggersKeepAgreement` needs the observation that
under the triggers no payment is ever refunded (`NoRefundedPayment`): a captured payment pins its booking to paid, and
the payment may only become refunded after its booking. `PaymentsMoveForward` holds step by step.

`TokenBucketProofs` holds for any number of workers, any capacity, rate, throttle limit and pause, from
`BucketAssumption`. `GrantsBounded` counts deductions against the clock, which no state variable of the bucket mentions, so the
invariant `IInv` relates three things: `Conserved` (what was granted and what is left never exceeds the capacity and the refill
up to last_refill_at), `Covered` (a balance that an old NOW() pushed below zero is made good by the refill since then) and
`Unborn` (nothing is granted from a row that does not exist). `RefillConserves` shows that a refill over an interval, forwards or
backwards, keeps the first two; `Step` has one case per action, and `BoundFollows` draws the bound from `Conserved` and `Covered`
together. The arithmetic of a product of two variables is given to the prover by `Distributes` and `Monotone`.

The four modules below prove the parts of a composed run one by one and then the run's own specification. A component states
what it needs of its constants in an operator (`LimiterAssumption`, `PoolAssumption`, `ClientAssumption`, ...); the composing
modules gather them in `GuardsConstants`, `ServiceConstants`, `ProcessConstants` and `RuntimeConstants`, which TLC evaluates in
the runs. `GuardsHold`, `ServiceHolds`, `ProcessHolds` and `RuntimeHolds` say that whichever part a behaviour follows, the type
invariant of the run and the invariants of every part hold.

`GuardsProofs`:
* `EffectsAreExact`, for any number of overlapping attempts at one operation: `ExactlyOnce` rests on `OneToken`: as long as no entry
  is removed, nobody acts before there is an entry, and everyone who is about to call the provider carries its token.
* `WindowsEnd`, for any number of requests: a counter without a TTL has a request that is about to set one, unless an EXPIRE was lost.
* `WindowsBounded`, for any processes, limit and retry budget: what a process has let through is counted (`Counted`).
* `ChangesAreFinal`, for any number of requests and ticks: `RefreshAfterChange` rests on `LiveAreFresh`: every refresh token that can
  be exchanged was created after the last password change that was answered with success.
* `ZeroMeansComplete`, for any number of files, whichever record themselves, repeat others or have a tail, and any number of deploys:
  `ExitZeroIsComplete` rests on `NothingSkipped`: a deploy that has met no failure still has before it whatever is missing.

`ServiceProofs`:
* `CounterIsExact`: the counter is the number of lost slots and of the admitted requests whose client still waits. A request ends in
  three ways, and the proof is that each of them takes one away from both sides or from neither.
* `PoolEndsLast` rests on `Attended`: a request whose client waits has its connection open, and the pool is not ended before the
  phase that waits for those connections is over.
* `NoStorm` and `ReadinessIsTrue` rest on `AttemptsKnown` and `RegistryKnows`: how many attempts the circuit has seen at each place
  of the reconnect loop, and what the flags of the registry still owe to the connection. The circuit bounds a storm only if its
  cooldown outlasts a delay and a connect (`MaxDelay + ConnectTimeout < Cooldown` in `ClientAssumption`, which the code's values meet).
* `LocksAreEarned`, for any number of overlapping logins and any limit: what a login read never runs ahead of the failures so far.
* `RevocationHolds`, for any number of requests and revocations: a revocation on record stays there, and a request that has passed
  the check in PostgreSQL with one on record has seen a query fail.
* `FlagIsFresh`, for any TTL: what is left of a cached copy and the time since the change it missed never exceed the TTL together.
* `CountersStayLow`: the counters of the v3 load shedding count the request on the stack and nothing else, the reason why the
  limits are never reached (`shedder_limit`).

`ProcessProofs`:
* `PollingGoesOn`, for any number of overlapping polls, any batch size and any thresholds: a running worker that does not drain has
  a poll scheduled or in flight. `WorkerInv` adds the types of the loop and of its controller, whose methods every step calls.
* `PrimaryHoldsLease` and `EpochsFence`, for any number of regions, of overlapping ticks and of faults: `SinglePrimary` rests on
  `AnswersHold`: in calm times an answer that a tick has got and not yet used is still true, as long as its process lives.
  `EpochFencesHolders` rests on `NobodysLease`: without a lock row there is no live lease and no epoch, so that the first INSERT
  takes epoch 1.

`RuntimeProofs`:
* `ClientsAreClean` and `RetriesAreSafe`, for any number of calls, connections and retries. The invariant says of every connection what
  the place of the call that has it allows (`Held`), that a call has one connection (`HeldOnce`), and where a call may be once its
  writes have taken effect (`Once`): never where the code repeats it. `Frame` reduces a step of a call with its connection to that
  call and that connection. `PoolBounded` bounds the attempts of a call; the order of the pool's queue plays no part.
* `CountersBounded`: however late results arrive, the counters of the circuit breaker stay within their thresholds.
* `OneConnectionHolds`, for any number of clients and faults, rests on `ClientOwned`: whichever of the three reports of a broken
  connection comes first, a client that is in use or asked for is the one in `this.client`, or the one the connect in progress waits for.
* `ClaimsGoInOrder`, `OutcomesAreSingle` and `SettledIsFinal`, for any number of events and relays and any batch. `InOrder`, the
  inductive form of `FirstClaimsInOrder`, counts the rows of a claim that is not committed yet as taken. `ClaimsApart` and
  `VersionsKept` say that a lease_version of an event is in one relay's hands; that no two deliveries of an event pass the fence of
  commitOutboxSuccess and commitOutboxFailure, and that a settled event is never touched again, follow from them.

`IdempotencyProofs` holds for any finite number of requests with one key, from `IdempotencyAssumption`. `OneAtATime` rests on
`LockedWhileRunning` (while Redis is steady, whoever runs is the one that set the lock), `ReplaysAreHonest` on `StoredIsExecuted` (what
is stored, or about to be, was executed) and on `SentIsStored` (the copy in the database is there before the response is sent, and
who comes later finds it). `TypesHold` adds that a request's handler succeeds once at most, so that executions are counted by requests.

Proved for every value of the constants, but checked by no run as properties of their own: the types of the lease queue, the payments
and the token bucket (`TypeCorrect`), of the idempotency keys (`TypesHold`), of the rate limiters (`WindowsBounded`), of the load
shedding (`CountersStayLow`) and of the circuit breaker (`CountersBounded`), all part of the type invariants of the runs;
`FinishedRowsAreFinal` and `AttemptsCounted` of the lease queue, `OutcomesAreSingle` and `SettledIsFinal` of the outbox.

Every safety property and type invariant of the passing runs is proved. Only model-checked are the liveness properties, since
fairness and ENABLED are out of the prover's reach: `EveryJobSettles`, `StopReturns`, `FailsOver`, `EveryEventSettles`, `Reconnects`,
`CallsReturn`, `CircuitRecovers` and `ShutdownEnds`. The violated properties are refuted by TLC's counterexamples.

## 5. Plan

1. Done: every component with steps whose order matters; the proofs of every safety property and type invariant of the passing runs.
2. Proofs worth adding: what the outbox promises as an abstract specification like `JobLease`, and its refinement; action
   properties of the sessions (a revocation is never lost from the database) and of the bookings (a final status stays).
3. If the services and workers of v9 join the repository, their external actions in `BookingPayment`, `Credentials` and `Outbox`
   should be replaced by translations.

## 6. Where code and documents disagree

Shown by a run:
* `region_splitbrain`: on the first boot the loser of the INSERT is told that it is the primary.
* `idempotency_race`: the stored response is looked up before the lock and not again under it; a duplicate executes.
* `payments_refund`: a paid booking can be cancelled without a refund.
* `worker_probes`: polls that claim nothing use up the probes of a half-open circuit, which then never decides.
* `ratelimit_cluster`: the limiters never use Redis: each process of the cluster grants the whole budget.
* `shedder_limit`: the load shedding of v3 counts a request out at its handler's first await, so its limits are never reached.

Found while modelling, and part of the models (see `findings` in PROJECT.json):
* Worker runtime: nobody polls the shards of a worker that is down, although shard-router.js:18 promises failover; the heartbeat forgets a drain requested by an operator;
  closing the circuit during a drain raises the concurrency; one token of a bucket admits a whole batch;
  stop may return before a claim in flight; journal entries can leave `completed`; a stalled region overwrites its
  registry row.
* Outbox: its trigger reads columns that `outbox_events` does not have, so that every insert fails; the order per
  aggregate does not survive a retry, a locked row or a late commit; recovery does not count deliveries.
* Notify listener: stop leaves `isConnected` true, and leaves behind a client that was being connected.
* Payments: `applyPaymentEvent` writes the two tables in the order that migration 130 refuses; `cancellation_pending` is in
  no CHECK; the bookings update of `applyRefundEvent` has an unused parameter; `createOrder` compares a NUMERIC string
  with a number; events stored but not enqueued are never enqueued; a captured event after a failed one confirms a
  booking whose payment stays failed. A request whose idempotency lock command failed leaves nothing to replay.
* Authentication: overlapping logins lose failures and lift locks; a token issued later in the second of a revocation
  counts as revoked; sessions are reported as revoked when neither store recorded it.
* Service: a hang-up between end and flush loses a slot for good;
  a shutdown that times out exits with code 0; the open Redis circuit ends the client for good, and a connect
  does not close it; nothing under src/ reports heartbeats or backlog to the queue health.
* Rate limits: a fail-closed limiter whose client gave up answers 503 until a restart; the conflict window is fixed, and a lost
  EXPIRE makes it endless.
* Database: SET LOCAL before BEGIN, or outside a transaction, has no effect.
* Migrations: eight files do not record themselves; files with CONCURRENTLY behind their COMMIT are recorded and then fail; one
  file records itself with a column that does not exist; after an error the next file meets the aborted transaction.

## 7. Not modelled

* Queue monitoring and metrics: reads counts of BullMQ and sets gauges.
* Money arithmetic: conversions of doubles, without a state; a matter of tests.
* Validation, CSRF, proxy and error middleware: stateless filters.
* Health, metrics and logging: read-only; the answer of /health/ready is part of `QueueReliability`.
* Scripts, chaos tool, dashboards: developer tools outside the running system.
* In part: the affinity cache of the shard router, which no code reads; `createBooking`, `processPaymentTransaction` and the other
  services whose source is not in the repository; the contents of the migration files.
