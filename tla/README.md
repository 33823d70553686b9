# TLA+ models of the adaptive gateway

The adaptive gateway is an asynchronous Python reverse proxy (FastAPI, Redis,
PostgreSQL) that classifies the quality of a client's link, adapts JSON responses
to it, serves a stale-while-revalidate cache and keeps an offline queue of writes
the upstream did not answer. This directory holds TLA+ models of its stateful parts,
the TLC configurations that check them on small instances, and TLAPS proofs of
what matters most for every instance.

## 1. Inventory

The gateway runs as several processes (Uvicorn workers, containers); each is
one asyncio loop, so code between two `await`s is atomic inside a process, and
nothing is atomic across processes except single Redis commands, Lua
scripts, MULTI/EXEC transactions and PostgreSQL transactions. Source paths are
relative to `src/gateway/`.

| component | state | operations | interaction | what is hard | what makes it correct |
|---|---|---|---|---|---|
| offline queue, `offline_queue/sync_worker.py` | Redis stream and its consumer group, hashes of attempts and due times, one lease per entry, table `failed_requests`, claim cursor | `enqueue_write`; `run`, `_tick`, `_handle`, `_deliver`, `_ack`, `_dead_letter`, `stop` | enqueued by the proxy's write path, replays to the upstream, dead letters to PostgreSQL; route rules decide eligibility | crashes between commands, lost replies, claims by other workers, leases that expire, retries of what was done | an accepted write is confirmed or dead-lettered; replays of one write exclude each other; budget and backoff hold; the queue drains |
| response cache, `cache/redis_client.py`, `routes/proxy.py` | one envelope per key (`stored_at`, `fresh_for`), physical TTL, revalidation locks, background tasks | `cache_get`, `cache_set`, `_handle_get`, `_refresh_cache`, admin flush | lock helpers shared with the queue; flushed by the admin API | concurrent misses, a refresh that outlives its lock, an old answer stored after a new one, a flush racing a refresh | one refresh per key at a time; bounded staleness; a failed refresh keeps the old copy |
| passive classifier, `middleware/rtt_state.py`, `middleware/network_detector.py` | `netq:{client}`: EWMA, tier, candidate and count | `_explicit_signal`, `_load_state`, `_update_state`, `advance` | quality read by optimizer and proxy | optimistic transactions of several workers, retries that run out, expiry | no lost update; no attempt spent without a cause; a tier changes only after N consecutive samples; hysteresis |
| rate limiter and client identity, `middleware/rate_limit.py`, `utils/client_identity.py` | a counter with TTL per identity | `check_rate_limit`, `enforce_rate_limit`, `client_ip` | outermost but for the body limit; login and registration | window boundary, hops a client sends itself, Redis outage policy | at most the limit per client and window, twice across a boundary; a refusal ends |
| body limit, `middleware/body_limit.py` | the buffered body of a request | `__call__`, `replay` | before every other middleware | pieces of any size, slow clients | the limit holds for every chunking |
| authentication, `middleware/auth.py`, `auth/`, `routes/auth.py`, `manage.py` | users, refresh tokens, API keys | register, login, refresh, logout; key creation, revocation and check; `create-admin` | PostgreSQL rows and row locks | two rotations of one token, reuse racing a rotation, revocation racing a check | a token is exchanged once; reuse revokes the family; void credentials are refused |
| request log writer, `utils/request_logger.py` | bounded queue, writer task, drop counter | `enqueue`, `run`, `_collect_batch`, `_flush`, `stop`, `_drain_remaining` | fed by the detector with what the proxy recorded, writes to PostgreSQL | overflow, database errors, drain at shutdown | every record is written once or counted as dropped, in order |
| lifespan, `main.py` | tasks and clients of a process | start, stop | stops worker, log writer and refreshes, closes the clients | order of shutdown, crashes | nothing uses a closed client; a shutdown is clean and ends |
| configuration, `config.py`, `routes/admin.py` | route rules and upstreams of each process | load, reload | read by every request, the queue and the cache | an invalid file, a reload during a request | a reload is all or nothing; a request is served under one document |
| response optimizer, `middleware/response_optimizer.py` | none | `_strip_fields`, `_make_skeleton`, coding negotiation, headers | after the proxy, with the rule the proxy read | nested structures, several policies, negotiation | only optional parts are removed; changes are marked; the coding is permitted |
| HTTP helpers, `utils/proxy_http.py` | none | `build_target`, `discover_upstream`, `bounded_request`, `destination_service` | proxy and queue | | limits and validators of decoded bodies |
| benchmarks and study, `benchmarks/` | manifests and result files | scheduling, trials, analysis | drives the gateway from outside | interruption of a study | every condition is run as planned |
| SDKs, dashboard, metrics, migrations, deployment | none of their own | | | | |

`PROJECT.json` lists these parts with their status and, under `hazards`, the places
in the code that a test would hardly reach.

## 2. Plan

Done, in order of importance:

1. `OfflineQueue` with the abstract `DeliveryContract` (section 3).
2. `ResponseCache`: stale-while-revalidate with the revalidation lock (section 4).
3. `RttState` and `RttClassifier` with the abstract `SharedEstimate` (section 5).
4. `Accounts`: registration, login, rotation of refresh tokens, reuse detection (section 6).
5. `RateLimiter` inside `Admission`: what a request passes before its route (section 7).
6. `RequestLogWriter` inside `Lifespan`: a process from start to shutdown (section 8).
7. `RouteRules` and `ResponseOptimizer` inside `Adaptation`: a GET from its rule to the
   shape of its response (section 9).

Small components are checked through the module that composes them. Every invariant and
action property of a passing run is also a theorem (section 10). Left: a composition of
one request through classifier, cache, write path and log; the trial schedule and the
manifest life cycle of `benchmarks/run_study.py`, which is outside the gateway proper.

## 3. Offline queue

### Model

`OfflineQueue` has one action per `await` of the code, since each is a point at which
other processes run, a command can fail and a process can die.

| state | code |
|---|---|
| `stream`, `lastId`, `lastRead`, `pel`, `idle` | the Redis stream, the group's last-delivered id and pending entries list with idle times |
| `holder`, `ttl` | `lock:replay:{id}` and its expiry; `Orphan` is a token no process knows any more |
| `attempts`, `due` | `ATTEMPTS_HASH`, `DUE_HASH` (as time left) |
| `dead` | entries with a committed `failed_requests` row |
| `pc`, `phase`, `batch`, `cur`, `tries`, `cursor` | control, loop variables, `attempts` and `_claim_cursor` of each SyncWorker |
| `timer` | time left of the steps that the lease must outlive |
| `queueable` | `get_route_rule(service).queue_writes` in that process |
| `promised`, `confirmed`, `sends` | history: clients answered 202, 2xx seen, number of replays |

`EnqueueWrite` is the Lua script of `enqueue_write` with the answer of
`_handle_write`; `ReadNew` and `AutoClaim` are the two halves of `_tick`;
`AcquireLease` and `ReleaseLease` the frame of `_handle`; `CheckDue`, `CheckBudget`,
`SetAttempts`, `SetDue`, `Reply` are `_deliver`; `DeadLetter` is `_dead_letter`;
`XAck`, `XDel`, `HdelAttempts`, `HdelDue` are `_ack`. A command may fail before it
takes effect (`StoreError`) or after (`Answered`: the reply is lost); both raise,
release the lease and abandon the tick. `Crash` restarts a process without running
`finally`; `Stop` runs it. `ReloadConfig` toggles `queue_writes` in one process.

Data is abstracted: entries are numbers in stream order; a body, URL or header is
only "malformed", "eligible" or "refused by PostgreSQL". Whether an entry is older than
`queue_max_age_seconds` is chosen when the code looks, and stays true. Time is
relative: counters that `Tick` moves. `Tick` cannot pass the deadline of an upstream
call (`asyncio.timeout`) or `PrepTime`, the time the Redis commands between lease and
send may take (each has `redis_socket_timeout_seconds`). Nothing bounds a database
commit. Whether other Redis commands are bounded is the constant `RedisPrompt`.

One command blocks on purpose: XREADGROUP waits `poll_interval` (2 s) for a new entry, on a connection
with a socket timeout of `redis_socket_timeout_seconds` (1 s by default). When the wait is longer than the
timeout, redis-py raises before Redis answers "no entries", and `run` abandons the tick before the
claim. That is the constant `ReadTimesOut`, true of the default settings: `ReadNew` without new entries then
leaves the worker where it was, and the claim is reached only in a tick that read something. Such a
step changes no state, so every safety property that holds without it holds with it; progress does
not, as `queue_idle` shows.

`DeliveryContract` is what clients are promised: a write is accepted, settled
(confirmed or dead-lettered) and only then forgotten.

### Runs

| run | instance | shows |
|---|---|---|
| `queue_faults` | 2 workers, 1 entry, 1 retry, 2 failures, lease 3, preparation 1, upstream 1, fair | `NoSilentLoss`; `ExclusiveSend`; `BudgetWhilePending`; `BackoffRespected`; `SendsBounded`: a worker with a stale batch may overrun the budget, by at most one replay per further worker (and does, by one); `ImplementsFairContract`: a promised write is settled although two commands, commits or processes fail, provided that a read ends before the socket timeout |
| `queue_single` | 1 worker, 3 entries (second malformed, third refused by PostgreSQL), depth limit 2, 1 failure, 1 reload | `ImplementsContract`; `PendingInStream`: XACK before XDEL, so a claim has fields wherever `_ack` is interrupted |
| `queue_idle` | 1 worker, 1 entry, 1 retry, no failure, `ReadTimesOut`, fair | violation of `PromisesSettle` for a retry on an idle stream |
| `queue_depth_leak` | 1 worker, 1 failure, fair | violation of `QueueDrains` |
| `queue_poison` | 1 worker, entry 1 refused by PostgreSQL, fair | violation of `PromisesSettle` for entry 2 |

The three violations are disagreements between the code and what its comments,
docs or metric descriptions say; `PROJECT.json` quotes them under `findings`. `PromisesSettle` and
`QueueDrains` fail there only because of the one failure, the one entry or the one setting that the instance
contains.

Bounds. Two workers are enough for every race of the code: its only mutual
effects are through one entry's lease, hashes and pending state; a batch becomes stale between the
read or the claim and the lease, with one entry as with several. Three entries make
batches with a rest, so that an entry waits behind another; with `ClaimCount = 1`
the claim cursor stops inside the pending list. One retry gives a first
replay, a last one and an exhausted entry. `MaxFaults` bounds failures, `MaxWrites`
entries and `MaxReloads` reloads; all three only limit histories. Idle
times saturate at the claim threshold, which is all the code compares them with.
Deadlock checking is on in every run.

Fairness. `FairSpec` assumes that each worker keeps taking steps
(`run()` loops for ever, catches every exception, and each await ends) and that time
passes. Settling also takes `~ReadTimesOut`, which is not fairness but a setting: a socket timeout above
`poll_interval`. `FairSpec` assumes nothing about the upstream: a fair worker may see nothing but
retryable answers. Failures are bounded, so they eventually stop.

## 4. Response cache

### Model

`ResponseCache` is one cache key, since keys share nothing. A `Request` is a GET in
`_handle_get`, a `Task` a `_refresh_cache` spawned by the winner of the lock; both may
be in any gateway process.

| state | code |
|---|---|
| `physical`, `age`, `fresh` | the key's TTL in Redis, the time since `stored_at`, `fresh_for`; `physical = 0` is "no key" |
| `born` | time since the upstream produced the body (history) |
| `holder`, `ttl` | `lock:revalidate:{key}`; `Orphan` is a token no task knows |
| `pc`, `timer`, `shared` | control, time left of a bounded step, `cacheable` of a request |
| `body`, `made` | age of the answer at hand and of its envelope |
| `reply` | the `X-Cache-Status` or 503 given to the client |

`Begin`, `Lookup`, `TryLock` are `_handle_get` up to its branches; `Produce`,
`Receive`, `Fail`, `Store` the upstream call and `cache_set`, shared by misses and
refreshes; `StartRefresh`, `Release` the frame of `_refresh_cache`; `Flush` the
admin route; `Cancel` and `Vanish` are shutdown and death. Cancelling a task that has not
begun to run skips its `finally` block, which is why `Vanish` includes it. The
contents of a response, headers and the choice of the key are left out.

### Runs

| run | instance | shows |
|---|---|---|
| `cache_refresh` | 1 request at a time, 2 refreshes, 2 failures, lock 4 > spawn 1 + call 1 + store 1, fair | `SingleFlight`: one refresh at a time; `HitIsRecent`: a HIT was produced less than `fresh_for` plus the upstream timeout before, even when an old answer overwrites a new one or a flush; `CopyLifetime`: a copy outlives its freshness by the grace; `LockOwned`: a failed or cancelled refresh still releases; `LockFreed`: the TTL frees what nobody releases |

Bounds. Two refreshes are enough to have one with an expired lock beside its
successor; `FreshFor = {1, 2}` lets an older answer with a longer freshness overwrite a
newer one. The number of tasks is a bound: a request that finds the lock free waits
for an idle task. One request at
a time is enough beside two refreshes: a miss after a flush overlaps a refresh as it would
another miss. `FairSpec` assumes
that tasks and requests go on (every await has a deadline) and that time passes.

## 5. Passive classifier

### Model

`RttState` has the pure functions: `Advance` (with `CandidateTier`, `Ewma`, `Streak`) and
`ExplicitSignal`. Times are natural numbers and an average is rounded down to the unit; the
thresholds are whole units, so rounding never moves a given average across one, but a
long computation in floating point may differ by a unit. `SharedEstimate` is what the key
`netq:{client}` should be: one estimate, advanced by one sample at a time, which expires or
is overwritten.

`RttClassifier` is `dispatch` for the requests of one client: `Begin` (hints),
`LoadState`, `Respond` (`call_next`), then `_update_state` as `Watch`, `Get`, `Exec` with
`Retry`, `LoseConnection`, `UpdateFails`. A connection or timeout error while the key is watched is raised by the
pipeline of redis-py as WatchError, so `_update_state` goes on to its next attempt; if only the reply of EXEC
was lost, the sample has been added and is added again (`LoseConnection`). An error before the key is
watched, and an error reply, end the update (`UpdateFails`). `dirty` is the state of the watched transaction in Redis; expiry
and foreign writes (`Expire`, `Overwrite`) invalidate it too. `Garbled` values are those
`_decode_state` rejects, `Infinite` ones those whose `pending_count` overflows, which fails the request. `rivals`,
`lost` and `recent` are history: changes of the key during an update, connections it lost, and the last averages. The
infrastructure paths (`_SKIP_PATHS`) have no state and are left out.

### Runs

| run | instance | shows |
|---|---|---|
| `rtt_classifier` | 2 requests, 2 samples per transition, averages in every band, 2 attempts, 2 failures | `ImplementsShared`: no lost update, a repeated sample is one more update of the state it finds; `SkippedForCause`: an attempt fails only by a change of the key or a lost connection; `NoFlapping`: a tier changes only when the last averages all lie beyond the threshold (the lowered one on the way down); `Responsive`: and then at once |

Bounds. Two requests and expiry give every conflict of a transaction; two attempts
give a retry and a last attempt (the code has four). `MaxFaults` bounds Redis failures; two of them
use up both attempts of an update that nothing else disturbs.
Samples 0 and 4 with a smoothing factor of 1/2 reach every average from 0 to 4, thus each band
of the thresholds 2 and 4 with hysteresis 1. Requests are symmetric.

## 6. Accounts and refresh tokens

### Model

`Accounts` is PostgreSQL's view of `routes/auth.py`: a `Session` is a request with its database
session, and every statement is a step of a READ COMMITTED transaction. `SELECT ... FOR UPDATE`
and `UPDATE` wait for row locks (`lock`), commit and rollback free them (`Close`). Rows are
written when their transaction commits.

| state | code |
|---|---|
| `role`, `active` | `users`, by email: no row, user or administrator; `is_active` |
| `owner`, `state` | `refresh_tokens`: `user_id`, `revoked` |
| `pc`, `tok`, `who`, `todo` | the statement a request has reached, its token's row, its account, the rows its UPDATE has still to lock |
| `heirs`, `late`, `family`, `condemned` | history: tokens issued in exchange for a token; issues in a row to a disabled account; the family when a reuse was detected; tokens that committed revocations cover |

`StartRegister`, `InsertUser` are `register`; `StartAdmin`, `InsertAdmin` are `create_admin_user`
and the `create-admin` command, which do not catch the error of the unique index. `StartLogin` reads
`is_active` before the password is verified in a thread, and `FinishLogin` acts on it. `SelectToken`,
`CheckUser`, `Rotate` are the good path of `refresh`; `StartFamily`, `LockFamily`, `CommitFamily` the
UPDATE of a detected reuse, which locks the rows it saw one by one; `LockLogout`, `CommitLogout` are
`logout`. `DeadlockVictim` is PostgreSQL breaking a cycle of waiting transactions. `Abort` is a
disconnected client, a lost connection or a wrong password. Hashes are the tokens themselves.

### Runs

`accounts`: 2 sessions, 1 account, 3 tokens, fair. `RotatedOnce`; `NoExchangeAfterRevocation`;
`FamilyRevoked`: the tokens an account had when a reuse was detected are revoked once that
request has committed; `DisabledChainEnds`: an account disabled between the read and the commit
gets one more token, and that token buys no other; `AccountsKept`: of two registrations, or a registration
and `create-admin`, that both found the email free, the later changes nothing; `SessionsEnd`.

`accounts_family`: the same instance, violation of `ReuseRevokesAll`. What a reuse should revoke is
"all of a user's refresh tokens" (`ARCHITECTURE.md:166`), so also a token issued in exchange for one of the family. But
READ COMMITTED shows the UPDATE only the rows committed when it starts: a rotation that holds the lock of
a token of the family commits while the UPDATE waits, its new row is not looked at, and the chain goes on.
No serial order of the two requests allows that: the rotation first, and the reuse would see the new
row; the reuse first, and the rotation would be refused. `FamilyRevoked` is the part that holds.

Bounds. Two sessions give every conflict over a row, the deadlock of two reuses included; three tokens
are a login, its rotation and one more token of the family. Accounts share nothing but the index on
the email, so one is enough. Fairness is strong, per session: PostgreSQL grants row locks in
the order in which they were asked for, so a waiting statement is not passed over for ever.

## 7. Admission

### Model

`Admission` is the chain of `main.py` up to the route: `Arrive`, `Receive`, `Silent` are
`BodyLimitMiddleware`, `Check` is `RateLimitMiddleware`, `PresentJwt`, `LoadUser`, `PresentKey`,
`CheckOwner` are `AuthMiddleware`, and `CreateApiKey`, `RevokeApiKey` the routes behind
`require_admin`. The key and its owner are two queries, so two steps.

`RateLimiter` has the counters: `hits` and `left` are the value and the time to live of
`ratelimit:global:{ip}`; `check_rate_limit` is one Lua script and so one step (`Incr`). `ClientIp` is
the walk of `client_ip` from the right end of X-Forwarded-For. `Seen(c)` says how a request of the
client at `c` may arrive: directly or over one or two trusted proxies, each of which appends the
address it was called from to whatever the client sent itself. `passed` and `recent` are history,
counted for the client that really sent the request and not for the identity the code computes;
`recent` has the ages of the last twice the limit plus one requests let through, up to the window.
Counters saturate one above the limit. `Production` holds the values of `is_production` that an instance
considers.

### Run

`admission`: 2 requests of 1 client, another address it may claim, 1 trusted proxy, chains of up to
2 hops walked, limit 1, window 3, body limit 1 with pieces of 1 and 2, 1 failure, fair.
`LimitPerClient`; `SlidingBound`: twice the limit in any span of a window's length;
`NoVoidCredential`: a key revoked, or an account disabled, before the middleware looked is never acted
upon; `LimitLifts`; `RequestsEnd`; `TypeOK`, which says that no buffer exceeds the limit.

Two things the properties leave out on purpose. A request that fails in Redis outside production
passes uncounted. A chain longer than 32 hops over a trusted proxy is counted for the
proxy, whose counter all its clients share (`Sender` is empty there).

Bounds. The limiter compares a counter with the limit once, so limit 1 has a first, an allowed and a
refused request. With `MaxHops = 2` and one hop of the client's own, a chain over two proxies is too
long and one over a single proxy is not. `MaxSent`, `MaxFaults` and `Chunk` are bounds of the instance.
Fairness: the event loop runs each request, each of whose awaits has a timeout, and time passes.

## 8. Request log and lifespan

### Model

`RequestLogWriter` is the bounded queue and its task: `queue`, the `batch` the task has taken, the
`rest` that `_drain_remaining` has taken, and per record the rows in `request_logs` and the times it was
counted as dropped. A failed commit may have taken effect (`Unknown`); the code counts the batch as
dropped and does not repeat it.

`Lifespan` puts it into a process. `Order` is the `finally` block of `lifespan`, where `log_writer.stop()`
is three steps; `Startup`, `StopWorker`, `StopWriter`, `DrainWriter`, `FlushWriter`, `StopTasks`, `Close`
follow it. Requests arrive and leave with or without a record, and spawn refreshes that outlive them.
`open` are the clients with connections: `get_redis` and the engine connect again when they are used
after having been closed, which nothing would close a second time. `Crash` loses what is in memory, but a
transaction in flight may have been committed. Uvicorn ends the lifespan only after the last response.

### Run

`shutdown`: queue of 3, batches of 2, 5 records, 2 requests, 2 refreshes, 2 faults, fair.
`Accounted`: a record is in memory in one place, or written, counted or lost with its process, and
neither written nor counted twice; `InOrder`; `OpenWhileUsed`; `CleanShutdown`; `RecordsSettle`;
`ShutdownEnds`.

Bounds. Five records overflow a queue of three while a batch of two is held. Two faults give a
failed insert and a crash. Fairness: the event loop runs every task, and every await ends. `Shutdown`
is not fair, since a server may run for ever.

## 9. Adaptation

### Model

`RouteRules` is the configuration of one process: `disk` is what `gateway.yaml` holds, `rules` and
`upstreams` what is active. A rule is its `optional_fields` and `cacheable`; a document also says
which of its sections fail validation. `LoadRouteRules` runs without an await.

`ResponseOptimizer` is `dispatch` as operators on the parts of a response that its branches look at:
`Accepted`, `TransformJson`, `Gzipped`, `Rewrite`, `Optimize`. Whether gzip makes a body smaller is left open. What
happens to a document is a parameter there (`Stripped`, `Skeletal`) and defined in `JsonBody` by recursion
over JSON values (atoms, lists, dicts): `StripFields`, `MakeSkeleton`, and the reference `Nodes`, a value as
the set of its paths. `Adaptation.cfg` gives the parameters these values.

`Adaptation` is a GET between the two: `Begin` and `Discover` find the upstream and read the rule
(`Route`), `Lookup` and `Fetch` are `_handle_get`, `Shape` is the optimizer. The key of a cached
response contains the target and the forwarded headers, the client's address and quality among
them. So the requests are those of one client at one quality for one path, one after the other, and
the cache is a function of the upstream's address. An upstream may send an `X-Adaptive-Mode` or
`X-Response-Completeness` of its own, or a 406; the history `shaped` says which responses the optimizer
made. Concurrent requests, freshness and locks are the
subject of `ResponseCache`; here a copy may vanish at any time.

### Run

`adaptation` (`MCAdaptation`): 2 services, one of them only discoverable or configured by a file, 3
documents of which one is invalid, every mode and quality, 7 kinds of upstream answers and 5
Accept-Encoding headers. `OneDocument`: the active configuration is that of one valid document;
`OneConfiguration`: so are the address and the rule a request works with; `OnlyOptionalRemoved`: the client
gets exactly the nodes of the upstream's document that the policy keeps, by the rule in force when it was
routed, from the cache too; `ChangesMarked`: a changed body has no validator, is not cacheable and says
that it is reduced, and an upstream's own markers are replaced (they pass only on responses that the
optimizer passes as well); `CodingPermitted`. The assumption `TransformsExact` of `MCAdaptation`, which
TLC evaluates before the run, checks the two transformations alone against `Nodes`, on some 120 nested
documents and every list of up to two of six plain and dotted fields.

Bounds. The documents nest lists in dicts and dicts in lists, one item longer than a skeleton's lists;
the fields are plain and dotted, lead through lists, and one is a prefix of another. The files override
a rule, an address or the default. No liveness: the steps are those of section 4.

## 10. What is proved

### Offline queue

`OfflineQueueProofs` proves, for every number of workers and entries, every bound,
backoff schedule and retry budget allowed by `QueueConstants`:

* `TypeCorrect`: `TypeOK` and the inductive invariant `QueueInv`.
* `NothingLost`, `PendingHasFields`, `QueueImplementsContract`: no accepted write
  is lost, a pending entry is in the stream, and the queue refines `DeliveryContract`.
* Under `LeaseMargin` (the lease outlives preparation and upstream call; true of the
  default settings; `validate_boundaries` only asks for a claim threshold above the
  upstream timeout, and with a smaller margin TLC finds two workers replaying one entry): `LeaseExcludes`,
  `BackoffHolds`, `BudgetHolds`.

None of these depends on `ReadTimesOut`.

The argument. `NoSilentLoss` is not inductive: that XACK may drop an entry from
the pending list needs `AckOrder` (a worker in `_ack` has a settled entry at hand),
that reading moves entries and loses none needs `LogOrder` (stream order) and that
`Oldest` takes a prefix (`OldestPrefix`), and that nothing else settles needs `InHand`
(what a worker has at hand was read). `Accounted` adds them up. `ExclusiveSend`
needs `LeaseInv`, which relates the time left of the lease to the time left of
the worker's steps; `DueInv` and `BudgetInv` then follow because the owner of a
lease is alone with its entry's hashes. Frame lemmas (`LogChanges`, `LockChanges`, ...)
say which actions touch which part of the state, so that every step lemma treats
only those.

`ReplaysBounded` (`SendsBounded`, for a finite number of workers) counts the `Rivals` of an entry,
the workers that have it in a batch or at hand and not yet sent. While the entry is pending
`BudgetInv` bounds its replays. When it has been acknowledged nobody can claim it any more, so the
set only shrinks, and each replay takes its worker out of it: `RivalsInv` says that replays and rivals
together stay below the bound. The worker that acknowledged is no rival, because what it handles
has left its batch (`OneHand`).

Only model-checked: the liveness properties and the fair contract, which are outside
the prover's reach.

### Response cache

`ResponseCacheProofs` proves, for any number of requests and refreshes and all times allowed by
`CacheConstants`: `CacheTypes` (`TypeOK`), `CopyLives` (`CopyLifetime`), `HitsAreRecent`
(`HitIsRecent`), `LockStaysOwned` (`LockOwned`) and, assuming `LockMargin`, `OneRefresh` (`SingleFlight`).
`HitIsRecent` needs `FetchInv`, which bounds the age of an answer at hand by the
elapsed part of its deadline, and `CopyInv`, which carries that bound into the stored copy.
`SingleFlight` needs `FlightInv`: the holder's remaining steps fit into the lock's
remaining time, so a task outside `release` still holds the lock.
`LockFreed` is only model-checked.

### Passive classifier

`RttClassifierProofs` proves, for any number of requests, any samples and all settings
allowed by `validate_boundaries` (`RttConstants`): `ClassifierTypes`, `NoLostUpdate` (the
refinement of `SharedEstimate`), `SkipsArePaid`, `TierDwells` (`NoFlapping`) and `TierFollows` (`Responsive`). The refinement
needs `UpdateInv`: a transaction that is not dirty holds the stored state; the write whose reply is lost is
such a step too. `SkippedForCause` needs the counts of `Bounded` and that only a watching request is dirty
(`CauseStep`): a failed attempt was dirty, so that `rivals` had grown, or adds one to `lost`, and `rivals`
saturates no lower than the number of attempts. `NoFlapping` needs `StreakInv`: `pending_count` is backed by as
many averages at the head of the window, each beyond the threshold for the pending
tier; `AdvanceBacked` shows that `advance` keeps it so. `Responsive` needs the converse, `CountedInv`: no run of
averages for any tier is longer than the state counts. `AdvanceExact` rests on two facts about `_candidate_tier`:
an average argues for its candidate and no other tier (`ArguesOnce`), and the candidate is stable, so after a
transition the newest average argues for nothing more (`CandidateSettles`).

### Accounts

`AccountsProofs` proves, for any number of sessions, accounts and tokens: `AccountTypes`, `OneExchange`
(`RotatedOnce`), `FamilyStaysRevoked` (`FamilyRevoked`), `ChainEnds` (`DisabledChainEnds`), `NoLateExchange`
(`NoExchangeAfterRevocation`) and `RegistrationSafe` (no step changes an account that exists). The invariant
`AccountsInv` adds to the types `RowInv`, which says that an exchanged or condemned token is revoked and
that a late one belongs to a disabled account, and `SessionInv`: from its SELECT on a refresh owns the lock
of its row, so the row stays as it was read, and the family's UPDATE has locked, or will lock, every
token the account had. `SessionsEnd` is only model-checked.

### Admission

`AdmissionProofs` proves, for any addresses, trusted proxies, chains, limits and failures: `AdmissionTypes`,
`LimitHolds` (`LimitPerClient`), `TwoWindowsAtMost` (`SlidingBound`) and `VoidIsRefused` (`NoVoidCredential`). The core is a lemma about `ClientIp`: on
whichever way a request of `c` comes, if its chain is walked it ends at `c`. `CountInv` then says that
the counter of a client counts all its requests, and `StaleInv` that a void credential under way is one
whose account is disabled, which the next read sees. For `SlidingBound`, `SpanInv` relates the ages of past
requests to the time left of the counter: those before the last `passed` ones came before the open window,
and those before the last `passed` plus the limit are older than a window. `LimitLifts` and `RequestsEnd`
are only model-checked.

### Request log and lifespan

`LifespanProofs` proves, for any sizes and any number of records, refreshes and faults: `LifespanTypes`,
`RecordsAccounted`, `RowsInOrder`, `NothingClosedInUse` and `ShutdownIsClean`. `OrderInv` says that batch, rest
and queue hold records in ascending order and that only batch and queue may hold some together; `RecordInv`
that what is in memory is what was made and neither settled nor lost; `AppInv` what is still in use, and
therefore open, at each step of the `finally` block. `RecordsSettle` and `ShutdownEnds` are only model-checked.

### Configuration and adaptation

`RouteRulesProofs` proves `ReloadIsAtomic`: `OneDocument` is an invariant of `ConfigSpec`, for any documents.

`AdaptationProofs` builds on it and proves, for any services, files, upstream responses, headers, modes and
for any two transformations of documents: `AdaptationTypes`, `RoutedByOneDocument` (`OneConfiguration`),
`EveryChangeMarked` (`ChangesMarked`) and `CodingNegotiated` (`CodingPermitted`). `CacheInv` says that a
cached response is what an upstream sent, decoded; `RequestInv` that the optimizer gets such a document and the
fields of the rule the request was routed by; `ShapedInv` that the document sent is that one, transformed
by the policy once. `OptimizeShapes` has what `dispatch` promises of a single response.

`ExactlyOptionalRemoved` (`OnlyOptionalRemoved`) has one hypothesis, `RemoveExactly(Document, FieldList)`: the
transformations remove exactly the optional nodes of the documents and fields that occur. What
`_strip_fields` and `_make_skeleton` compute for every JSON value would take induction over data, which is out of
the prover's reach; TLC evaluates the hypothesis, and more, as `TransformsExact`. The theorem carries it
through routing, cache, reloads and policies.

The type invariants of the queue, the cache, the classifier, the accounts, the lifespan and the adaptation
are proved and not repeated in a run.

## 11. Known deviations

Besides the findings of sections 3 and 6 (entries left in the stream, a refused dead letter, retries that wait
for new traffic at the default settings, tokens that survive a detected reuse), reading the code for the models showed these differences from
what its comments and docs say. They are in the models, and no run is about them.

* A worker whose batch outlives `queue_claim_idle_seconds` may replay an entry that another worker has
  acknowledged, because `_ack` erased the attempts (`sync_worker.py:303`); `ARCHITECTURE.md:148` speaks of retries
  "within the budget". `SendsBounded` says by how much.
* `README.md:65`, `ARCHITECTURE.md:62` and `docs/LIMITATIONS.md:20` name contention as what makes `_update_state` skip a
  sample. Connections lost while watching use up attempts as well, and a lost EXEC reply counts a sample
  twice (`network_detector.py:180`). `SkippedForCause` has both causes.
* `response_optimizer.py:11` says of POOR that "if a cached/stale body was already served, leave it (and gzip)". The
  code spares such a body the skeleton but strips its optional fields as for DEGRADED
  (as its comment at line 144 says); `OnlyOptionalRemoved` is about what the code does.
* `bounded_request` drops Content-Encoding because "HTTPX decodes content codings" (`proxy_http.py:103`). HTTPX
  decodes brotli and zstd only with packages that are not among the requirements: such a body,
  which an upstream asked for identity should not send, reaches the client undecoded and unlabelled. In the model a
  coding is one that HTTPX decodes.
* A stored `pending_count` of Infinity raises OverflowError out of `_decode_state`
  (`network_detector.py:151`), whose docstring promises not to fail client traffic.
* A failed upstream call on a MISS is answered 503 without a second look at the cache
  (`proxy.py:346`); the module docstring speaks of any cached copy.
* Answers at `proxy.py` 249, 261, 269, 395-399 and 411-413 leave no log row, and a 406 of the
  optimizer is logged with the status of the route; `models/db.py:123` says one row per proxied request.
* `check_rate_limit` says that it fails open (`rate_limit.py:33`); in production it answers 503.
* `RefreshToken.replaced_by` (`models/db.py:95`) is said to be set on rotation; nothing sets it.

## 12. Not modelled

The internals of Redis, PostgreSQL, Uvicorn and HTTPX (they appear as atomic commands, transactions and
calls with a deadline); Redis losing data it acknowledged; the clock skew between gateway hosts (`due`
and `timestamp` are wall-clock times compared across processes); the parsing of URLs, headers, hosts and
tokens, where the models choose among the outcomes; CORS, health, metrics and the routes that only
read, on which no control depends; the migrations and the request schemas, which are declarations; the
benchmarks (the statistics are floating point, the scheduling is a script around the gateway), the SDKs,
the dashboard and the deployment files.
