# Verification of the platform's stateful core

TLA+ models of the components of the platform whose behaviour depends on the
order in which callbacks, requests and failures happen, with model-checking runs
(TLC) and machine-checked proofs (TLAPS). Paths below are relative to
`src/platform/`.

| module | models | proofs |
|---|---|---|
| `RateLimiter` | `packages_mjs/api-rate-limiter-main`: limiter, queue, fixed window, store | `RateLimiter_proof` |
| `EventPublisher` | `fastify_apps/task-graph/backend`: buffered audit log, its callers, shutdown | `EventPublisher_proof`, `EventPublisher_refinement` |
| `AuditLog` | what the publisher promises, as an abstract specification | `AuditLog_proof` |
| `TaskExecution` | `fastify_apps/task-graph/backend`: operations on a task's status | `TaskExecution_proof` |
| `CircuitBreaker` | `packages_mjs/fetch_undici`: the breaker's fields and methods | (in the next) |
| `RetryingClient` | `packages_mjs/fetch_undici`: concurrent retry loops around one breaker | `RetryingClient_proof` |
| `ResponseCache` | `packages_mjs/fetch_undici`: cache manager, memory storage, wrappers | `ResponseCache_proof` |
| `SingleFlight` | what `getOrFetch` promises identical calls, as an abstract specification | `FlightsKept`, in `ResponseCache_proof` |
| `FileStore` | `packages_mjs/json_file_storage`: one file per key, no locks | `FileStore_proof` |

Each component has an `MC...` module that gives values to its constants and a
`.cfg` file for every run. `PROJECT.json` lists the runs, the source lines every
definition stands for, the hazards and the findings.

## 1. Inventory

The repository is a monorepo of Fastify and FastAPI servers, shared packages in
JavaScript and Python, SDKs for remote APIs, front ends and data. What carries
state of its own, and can get it wrong:

| component | state | operations | who it interacts with | hard behaviour | what makes it correct |
|---|---|---|---|---|---|
| api-rate-limiter (`packages_mjs/api-rate-limiter-main`) | two queues, `processing`, `waitingUntil`, error count, the store's window, pending timers | `schedule`, `clearQueue`, `_processQueue`, `_scheduleRetry`, execution with requeue | store, status callback, event loop, the calls it runs | overlapping timers and runs, a store that fails, retries into a full queue, rounding of the TTL | no request forgotten or run from two places, never stops with work left, quota, priority order |
| EventPublisher (`fastify_apps/task-graph/backend`) | `eventBuffer`, INSERTs under way, flush timer | `publishEvent`, `flush`, timer, `cleanup` | TaskService, PostgreSQL, the shutdown of the server | overlapping flushes, batches that come back, a last flush that fails | events not lost, not doubled, in order, in the log when the request answers |
| TaskService (same) | task rows: status, `retryCount`, `maxRetries`, metadata; events | create, update, status, start, complete, fail, skip, retry, delete | database, EventPublisher | read, check and write are separate statements | transitions along the table, one execution at a time, retry budget |
| circuit breaker and retry loop (`packages_mjs/fetch_undici`) | breaker: state, two counts, time of the last failure; client: last delay; per request: attempt, delay | `allowRequest`, `recordSuccess`, `recordFailure`, `reset`, `request` | HTTP client, its concurrent callers | half-open state under concurrent requests, late answers, a delay that all requests share | opens and closes on what the current period counted, stays open long enough and not for ever |
| response cache (`packages_mjs/fetch_undici`) | entries, `_pending` fetches, cleanup timer | `get`, `set`, `getOrFetch`, `invalidate...`, eviction, wrappers' `request` | storage, origin, callers | lookup, fetch, body and store are separate turns; a fetch that fails while others wait | one fetch per key, nobody waits in vain, fresh hits, capacity |
| json_file_storage (`packages_mjs`) | one file per key | `save`, `load`, `exists`, `delete`, `clear`, `cleanupExpired` | file system | truncate and write in place, read then unlink, crash | whole files at rest, live entries kept, sweeps complete |
| dependencies, steps, workflows, checkpoints (`fastify_apps/task-graph/backend`) | rows per task | insert and delete edges, move steps | TaskService | cycles, order of steps | acyclic, steps in order |
| fetch_http_cache_response (`polyglot`) | token, refresh promise, response cache | `getToken`, `invalidate`, stale-while-revalidate | HTTP client | one refresh for many waiters, revalidation against invalidation | single flight, no stale value after an invalidation |
| server_provider_cache (`polyglot`) | key/value store with TTL | `get`, `set`, `getOrSet`, `del` | factories | no single flight | no value from before a delete |
| json_redis_storage (`packages_mjs`) | Redis keys | save, load, delete | Redis | none beyond single commands | |
| platform-core (`fastify`, `fastapi`) | lifecycle of a server | bootstrap, hooks, shutdown | every plugin | failures of hooks, grace period | shutdown ends, hooks run in order |
| configuration, connections, SDKs, retrieval, CRUD back ends, front ends, CLIs, data | none that several actors share, or thin wrappers over a library | | | | |

The first six are modelled. `PROJECT.json` (`components`) lists every part with
its status and the reason when it is left out; `hazards` lists what is hard to
test, at its line, also for parts that are not modelled.

## 2. How the parts interact

`TaskService` writes a row, calls `publishEvent` for each event of the operation
and then `flush`. `EventPublisher` buffers events for every request of the server
and inserts them in batches, on four occasions: the buffer is full, a request asks
for it, the interval timer fires, the server closes. `TaskExecution` and
`EventPublisher` share that interface: the requests of `EventPublisher` are the
operations of `TaskExecution` after their row has been written, and `Script` gives
the groups of events that `EventsOf` lists. The two are not composed: the status
machine never reads the log, and the log depends on rows only through the foreign
key, which `EventPublisher` has as `alive`. `AuditLog` is the interface seen from
the other side: what a caller of `publishEvent` may rely on, without buffers.

`AsyncClient` of fetch_undici runs one retry loop per request; all loops of a client
share its `CircuitBreaker` and its last delay. `RetryingClient` extends
`CircuitBreaker` and says who calls its methods, and when. The response cache wraps
a client; to it a request with all its retries is one fetch that ends in an answer
or fails, which is how `ResponseCache` has it. `SingleFlight` is what a caller of
`getOrFetch` may rely on when others ask for the same key, without storage and queues.
The rate limiter and the file
storage are libraries with no state shared with the others.

## 3. RateLimiter

**State.** `queue` and `priorityQueue` are `RequestQueue`'s arrays. `pc` is where
the one active `_processQueue` awaits (`"idle"` is `!processing`): the status
callback, the store's count, its TTL, the recording of usage, or the batch. `waiting`
is `waitingUntil - now`. `windowAge` and `count` are the store. `immediates`,
`timers[d]` and `resetting` are the event loop: `setImmediate` callbacks, retry
timers due in `d` ticks, timer callbacks that await `store.reset`. `promise`,
`retries` and `attempts` belong to the callers' requests. `meter` is a history
variable: a fixed-window meter at the remote API.

**Time** is kept as ages and remaining delays. `Tick` ages the window and brings
the timers nearer; both stop at their bound, so the state space is finite without
an artificial limit on time. The TTL is rounded up to whole seconds as in
`stores.ts:49`, with `TicksPerSecond` ticks to a second.

**Actions.** One per turn of the event loop. A run of `_processQueue` is a chain of
actions, one per `await`; `UseCapacity` is what happens between the answer of
`getCapacity` and the next `await`. `CallSucceeds`, `CallFails` and
`CallRateLimited` are the three ways a request's `fn` ends. `MacrotaskMayRun` says
that over `MemoryStore`, whose promises settle in microtasks, no timer, immediate
or I/O callback runs between two of its answers; with `AsyncStore` they do, and
store operations may throw.

**External.** The event loop and the clock; the status callback may answer anything
in `StatusLimits` and 0, or nothing; `fn` may succeed, fail, or hit a rate limit.

| run | bounds | shows |
|---|---|---|
| `RateLimiterMemory` | 3 requests (none, low, high priority), 2 calls per 3 ticks, a second of 2 ticks, 1 retry, fair event loop | types, `NoRequestStranded`, `QuotaUpToResets`, `EverySettled` |
| `RateLimiterAsync` | 1 call per 2 ticks, or a status callback with missing, zero and positive answers and `maxRequests` learnt from it; queue of 2, store failures, `clearQueue` | `NoStall`, `OnePlace`, `UsageWithinQuota`, `SettledOnce`, `PriorityRespected` |
| `RateLimiterRequeue` (violation) | queue of 1 | `NoRequestStranded` fails: a retry that finds the queue full is dropped, its promise never settles |

Three requests and one retry are enough for the cases that matter: a batch of two,
a request of each priority, a retry that meets a request queued meanwhile, a full
queue, two retry timers pending at once. The interval is longer than a second and
not a multiple of one in `RateLimiterMemory`, so that the TTL is really rounded.
Deadlock checking is on: time always passes.

`opts` is chosen in `Init` and never changes, so one run covers limiters of both
kinds.

`QuotaUpToResets` is what can be promised. The timer of `_scheduleRetry` resets the
store whenever it fires, also when another run has opened a new window by then (the
TTL is rounded up and several timers may be pending), so more than `maxRequests`
calls may go out within one interval: a window at the remote API overlaps at
most two windows of the limiter, and each reset of a live window lets one more quota
through.

**Fairness.** Weak fairness on every callback that stays ready (the event loop runs
it), on the answer of the store or of the status callback, on the end of each call,
and on `Tick`. Nothing forces anybody to call `schedule` or `clearQueue`, and store
failures are not fair.

## 4. EventPublisher

**State.** `buffer` is `eventBuffer`. `flights` holds the `bulkCreate` calls under
way, each with who awaits it (a request, the interval timer, the cleanup) and its rows.
`pc[c]` and `next[c]` say where a request is. `server` goes from `"open"` through
`"closing"` and `"draining"` to `"closed"`, or is `"killed"`. `logged` are the rows
of the log, `alive` the tasks whose row exists. `published` is a history variable.

**Actions.** `PublishGroup` pushes the events of one `Promise.all` in one turn,
with the flush that a full buffer starts in the middle of it. `FinalFlush`,
`TimerFlush` and `Cleanup` take the buffer as `flush` does; `Inserted`, `Refused`
and `Fault` are the answers of the database, and `PutBack` is `flush`'s catch block
with its consequences: a request that awaits the flush answers 500, `onClose` goes
on, and the unhandled rejection of the timer's flush makes close-with-grace close
the server, or exit at once if it is closing already. `GraceRunsOut` is the 30
seconds of `platform-core/fastify/src/bootstrap.mjs`.

**Turns.** Between the pushes of an operation, and between the last of them and its
`flush`, the code awaits nothing but promises that are settled already, unless a push
has filled the buffer and its flush is awaited (`event-publisher.service.mjs:444-451`,
`task.service.mjs:421-437`). So only microtasks run there: `Runnable` is a request in
that state, and every timer, answer, new request and shutdown waits until there is none
(`Quiet`). What can come in between is what the insert of a full buffer lets in.

**External.** PostgreSQL (an INSERT is atomic; it fails when a row refers to a task
that is gone; it may fail without cause, with or without having been committed);
close-with-grace; Fastify's `onClose`, which runs after requests have been answered.

| run | bounds | shows |
|---|---|---|
| `EventPublisherFaults` | 3 requests, buffer of 2, 2 faults, lost acknowledgements, a deleted task, shutdown, grace period running out, fair | types, `NoEventForgotten`, `OrderKept`, `ShutsDown`, `KeepsPromise` |
| `EventPublisherLive` | 4 requests, buffer of 2, 1 fault, shutdown without a grace period, fair | `NoEventTwice`, `NothingLostAtExit`, `EventuallyLogged` |
| `EventPublisherPersisted` (violation) | 3 requests, buffer of 2, 1 fault | `PersistedWhenAnswered` fails: an empty buffer is taken for persisted events |
| `EventPublisherPoison` (violation) | 3 requests, buffer of 3, a deleted task, no fault | `EventuallyLogged` fails: its event keeps every later batch out of the log |

The scripts are those of `failTask` (two groups of one event), `startTask` and, in the
second run, `completeTask` (one group of two) and of `createTask` (one event), over two
tasks; the buffer sizes make one group cross the limit in the middle, and let two
requests share a batch. `MaxFailures` bounds the faults of the database. One is the
most that `NothingLostAtExit` allows: with two TLC finds a batch that comes back after
its request answered 500 and is lost by the flush of `onClose`, which is not repeated.
`OrderKept` stops at the third failure and wants a buffer of more than one event. Before
the first failure no request has events in two places; the first brings a batch
back, so that a request may have some of its events in one batch under way and some
in another; two more bring these back, the later one last and so to the front. The run
stops at two faults, a deleted task beside them, since `OrderKept` says nothing
after; the theorem `OrderHeld` has no such bound.
`CHECK_DEADLOCK` is off: requests end and a closed server stops.

What `EventPublisherPersisted` shows takes a flush that has failed. Its two events are
back in the buffer; the next request pushes its first event, which finds the buffer
full, and awaits the insert of the batch. Its second event stays in the buffer, where the
interval timer takes it. When the first insert is answered the request flushes, finds
nothing, and replies, while the insert of its second event has not been answered. The
theorem `ReplyVouches` says that before the first failure nothing of the kind
happens.

**Refinement.** `AuditLog` is the log as its callers see it: events are accepted and
wait, rows are appended, at most one for an event that waits; when acknowledgements
get lost an event may keep waiting after its row is written; the process ends, and
what waits is forgotten. `EventPublisher` implements it (`KeepsPromise`) with
`waiting` mapped to the events in the buffer and in batches under way, `log` to
`logged`, and `up` to a server that is neither closed nor killed. Flushes, batches
that come back and the steps of the shutdown are stuttering steps.

**Fairness.** A request under way runs on, the interval timer keeps firing, the
database answers each statement somebody awaits, and a server that closes goes on
closing. Requests need not begin and faults need not happen.

## 5. TaskExecution

**State.** `rows` are the task rows (status, `retryCount`, `maxRetries` and
`metadata.executionId`), `exists` the tasks not destroyed, `call[r]` what a request
asked for with the row it read, `audit` the events published. Histories: `failed`
counts failures since the last reset; `clashed` holds the tasks and fields (the
status, the count, the log) that two requests were about to write at once; `byHand` the
tasks created RETRYING, PATCHed to it or given another `maxRetries`; `silent` those
whose status was last written without an event; `named` the execution ids that callers
have given.

**Actions.** `Check` is `findByPk` and everything up to the UPDATE; `Write` is the
statement, `WriteFails` its failure; `Publish` the events, one answer later, and
`PublishFails` a request that fails after its UPDATE, in a count of steps or in a
flush, with some, all or none of its events published. `Updated` models
`instance.update` of Sequelize: it writes the fields whose value differs from the
instance's own copy, so a field somebody else changed meanwhile survives unless this
operation changes it too; the metadata are one JSON field and are written as they
were read, with the caller's own spread over them.

**Inputs.** The caller of start may give an `executionId` (`ExecutionId`), and every
caller may send metadata (`NewExecution`): with an `executionId` of their own, which
replaces the one in the row, without one, or none at all. `Known` are the ids a caller
can have seen or made up. A PATCH may leave the status as it is.

| run | bounds | shows |
|---|---|---|
| `TaskExecution` | 3 requests of any operation, 2 at once, 1 task, `maxRetries` 0 or 1, one id that callers give | types, `FailuresCounted`, `StartedOnceBeforeEnd`, `RetryingWithinBudget`, `LogTellsStatus`, `TransitionsLegal` |

Operations touch one task, so one task is enough; requests differ only by name, and
the run uses that symmetry. Tasks begin as TODO or FAILED, so that three requests reach
every status but BLOCKED, which only a PATCH writes and the run leaves to the theorems;
they can fail, retry and start, or start and fail, with another operation in between.
`MaxActive` bounds the requests between read and answer.
`MaxNamed` bounds the ids that callers give: one, which may be that of an execution in
the log, started a second time or written into the row by a PATCH; ids that callers make
up (`Chosen`) are left to the theorems, which have no such bounds.

`RetryingWithinBudget` holds however requests overlap. The others name what breaks
them. Each request checks the row it read, so two that write the same field may both
start a task (the second execution replaces the first; the error for this case,
`errors/index.mjs:160`, is thrown nowhere), leave the transition table, or count two
failures as one. `clashed` is that, field by field, and no more: a PATCH of
`maxRetries` that overlaps a failure is no excuse. An execution starts once, and before
it ends, unless its id was given by a caller: a restart under the id of an
execution that failed logs EXECUTION_STARTED after that execution's EXECUTION_FAILED,
which the code accepts. The log tells the status of a task except where the code writes
no event: a PATCH, a retry, or a request that failed after its UPDATE.
`CHECK_DEADLOCK` is off: each request is made once.

## 6. CircuitBreaker and RetryingClient

**State.** `state`, `failureCount` and `successCount` are the breaker's fields;
`sinceFailure` is `Date.now() - _lastFailureTime`, kept at the timeout, which is
all `allowRequest` compares. Per request, `pc` says where its loop awaits (an
answer, or the delay), `attempt` and `wait` are the loop's counter and what is left
of the delay. `lastDelay` is `_lastDelay`. Histories: `errorRun` (errors in a row),
`wins` and `losses` (what a period has really seen), `sinceOpen`, `hinted`.

**Actions.** The breaker's methods are actions that the client conjoins with its own
steps: `Request` asks `AllowRequest` once, `Succeeds`, `Refused`, `RetryStatus` and
`AttemptFails` are the ways an attempt ends, `Retry` is the end of the delay.
`Delays` is `calculateDelay` with its four jitters; the decorrelated one draws
between the base delay and three times the last one, on whichever side.
`RetryConfigured` is whether the client was given retry options.

**External.** The network: any attempt may end in any way at any time. The clock.

| run | bounds | shows |
|---|---|---|
| `RetryingClient` | 4 requests, 2 of them repeatable, 1 retry, thresholds 2, timeout 2, decorrelated jitter, `reset()`, fair | types, `TripsOnErrors`, `OpenLasts`, `TransitionsEarned`, `BackoffAtLeastBase`, `OpenEnds` |
| `RetryingClientBare` (violation) | the same client without retry options | `TripsOnErrors` fails: the breaker is never asked nor told |

Four requests are enough for two admitted before the circuit opens to answer while
a third probes it, and for a fourth to find it open; thresholds of two tell a count
that is kept from one that is reset. Two ticks of timeout tell the opening from the
last failure. The other jitters and larger constants are the theorems' part.
`CHECK_DEADLOCK` is off: requests that have no repetition left end.

**Fairness.** An attempt ends (undici has header and body timeouts), a delay that is
over is noticed, time passes. `OpenEnds` needs it: every late failure restarts the
timeout, and the circuit becomes free only since an open circuit admits nobody and
the retries of the requests already admitted run out.

## 7. ResponseCache

**State.** `cache` is the storage's map, an entry being named by the request whose
answer it repeats, with `created`, `expires` and the lifetime it was given. `pending` is
`_pending`. `due` is the microtask queue restricted to the continuations of this code,
in order. Per request: `pc`, how it uses the cache (`kind`: `getOrFetch`, a wrapper, a wrapper
with `forceRefresh`), its key, and whose answer it returns or waits for. Histories:
the version of the origin's data an answer carries and when it came, the newest
version returned per key, and `mixed`, the keys a wrapper fetched while another
fetch was under way. A fetch is under way (`InFlight`) until its answer has been
stored and its request returns it: see `NothingGoesBack` in section 10 for why.

**Actions.** One per turn. `Look` is the lookup; its continuation is `Return`, `Fetch`
or `Join`. `Answer` settles the fetch: those who joined become due, and `set()` takes
the time and begins to read the body; `Store` is the end of the body and the
storage's `set` with eviction; `Finish` is `finally`. `AnswerFails` is an error or
an answer that is not ok, `LookFails` and `StoreFails` the failures of a remote
storage, of which a store may have been applied although its acknowledgement was lost.
The storages differ in three places. `Found`: the memory storage does not answer with an
expired entry; a remote one answers with whatever it holds, since `CacheManager` never
compares `expiresAt` with the time (`cache-manager.ts:99-109`, `210-213`) and the
interface promises no expiry. `Put`: only the memory storage has a capacity. `Runs`:
the memory storage answers in microtasks, in order and before the next event
(`Quiet`); a remote one in any order.

| run | bounds | shows |
|---|---|---|
| `ResponseCache` | 3 requests, 2 keys, one of them the empty string, memory storage of 1 entry or remote storage, lifetimes 0 and 1, clock to 1, origin changes once | types, `OneFetchPerKey`, `CapacityHeld`, `NoNeedlessFetch`, `HitsAreFresh`, `NeverBack`, `KeepsFlights` |

Three requests let one fetch, one join and one find the answer while the first is
still storing it; two keys and one entry force an eviction between these, or, when the
oldest entry has the empty key, show that there is none; a lifetime of 0 and one tick
let an entry expire while a body is being read, and two lifetimes let one call's entry
outlast another's. Versions tell an older answer from a newer one, which takes one
change. Requests are symmetric, the keys are not. Every request is made at most once,
but `Remove` and `Cleanup` remain possible, so deadlock checking is on.

`CapacityHeld` is an action property, because the capacity is not: `memory.ts:188` tests
the key to evict for truth, so an oldest entry whose key is the empty string (a custom
key, or a generator's) stays, and the storage grows. With `maxEntries` 0, which the
constructor accepts, it holds one entry. The property says that it grows past its
capacity in no other way.

`HitsAreFresh` speaks of the memory storage. Over another one nothing is promised by
this code: the `RedisStorage` of `examples-cache.mdx:367-375` rounds its TTL up to
whole seconds and serves an entry until then. The same page (lines 317-335) promises
stale-while-revalidate: stale answers within a grace period and a refresh in the
background. No code does that. `getStale` (`cache-manager.ts:114`) has no caller, the
option `staleWhileRevalidate` is only stored and read back, and the memory storage, which
forgets an entry when it finds it expired, could not serve one. `HitsAreFresh` states
what the code does, not what that page says.

`NoNeedlessFetch` and `NeverBack` hold over the memory storage only: they rest on
the order of microtasks. A caller that missed the cache before an answer was stored
finds `_pending` still set, since the continuation that clears it comes later.
`NeverBack` also excludes keys in `mixed`: two wrappers that fetch the same key store
their answers in the order these arrive. An invalidation during a fetch does not keep
that fetch's answer out of the cache; nothing promises that it would.

**Refinement.** In `SingleFlight` a caller holds its key from the start of its fetch
until that fails or its answer has been stored (`fetcher`), who asks for a held key
waits for that very fetch (`awaits`), nobody begins to wait once it has settled, and
all who wait are told at once. `ResponseCache` implements it (`KeepsFlights`) with
`fetcher` mapped to `pending` and `awaits` to the requests that joined a fetch. The
lookups, the storage, the wrappers' fetches, invalidations and the clock are
stuttering steps, and so is a caller that finds the settled promise in `_pending`: it
need not wait. `NobodyStranded` is part of what the refinement says, and the invariant
its proof rests on.

## 8. FileStore

**State.** `file[k]` is what the key's file holds: nothing (`Absent`), an entry, no
bytes (`Empty`) or something that is no JSON (`Torn`). Per call: where it awaits,
the key and the entry it has in hand, whether the file it has open is still
linked, and for sweeps what they do, when they began and the files still to
visit. Histories: `damaged`, the keys whose file was left by saves that overlapped,
failed or were cut short, and `touched[p]`, the keys written since the sweep of `p`
began.

**Actions.** One per file operation: `writeFile` is `Open`, which truncates, and
`Write`, which fills the file from its start, or `SaveFails`; an expired entry is read
(`Load`, `CleanOne`) and unlinked later (`Expire`); `Sweep`, `List`, `ClearOne` or
`CleanOne`, and `Swept` are `clear` and `cleanupExpired`. A file that is unlinked
while a save has it open takes what is written with it. `Crash` ends all calls between
any two operations and keeps the files.

| run | bounds | shows |
|---|---|---|
| `FileStore` | 2 calls at a time, any number one after the other, 2 keys, values of 2 lengths, lifetimes none and 1, clock to 2 | types, `AtRestWhole`, `SweepsThorough`, `LiveEntriesStay` |

Two calls are a writer and whatever disturbs it; the lengths let a short entry be
written over a longer one and leave its tail; lifetime 1 and a clock to 2
let an entry expire, be read, and be replaced. A lifetime of 0 stands for none,
as `storage.ts:317` takes it. Deadlock checking is on.

The comment `Remove expired entries.` at `storage.ts:547` is true of what
`cleanupExpired` reads; `LiveEntriesStay` says what it may remove: an entry that
replaced the expired one it has read. A save may also return although its file was
unlinked while it was writing.

## 9. Findings

Each violation run is a disagreement between the code and a test, comment or page of
the repository, quoted in `PROJECT.json` (`findings`): a retry that is dropped by a
full queue (`limiter.ts:236`), an answer before the events are persisted
(`event-publisher.service.mjs:457`), a batch that blocks the log
(`event-publisher.service.mjs:481`), and a circuit breaker that never opens without
retry options (`client.ts:222`). Sections 3, 5 and 7 describe more gaps that the
properties are stated around: calls beyond the quota after the reset of a retry
timer (`limiter.ts:205`), a task started twice (`task.service.mjs:408`) or under the id
of an ended execution (line 404), an entry that is not evicted (`memory.ts:188`),
and stale-while-revalidate, which `examples-cache.mdx:317` documents and nothing
implements.

## 10. What is proved

The proof modules hold for every value of the constants that satisfies the named
`ASSUME`s of the module: any number of requests, calls, keys and tasks, any quota,
interval, threshold, lifetime, buffer size and number of faults.

`RateLimiter_proof`
- `TypeCorrect`: `Spec => []TypeOK`. The interesting part is that every delay fits:
  `DelayOfTTL` (a TTL rounded up to seconds is below `Interval + TicksPerSecond`)
  and `DelayOfBackoff`; and that inserting into and cutting the queues gives queues
  (`InsertType`, `Dequeue`).
- `NeverStalls`: `Spec => []NoStall`. `NoStall` is not inductive: `_processQueue`
  gives up when `waitingUntil` has not passed and trusts a timer to call it again.
  The invariant adds `WaitHasTimer` (a wait of `d` has a timer due in `d`; a tick
  moves both together) and `CallsInRun` (calls run inside an active run, so a
  requeued retry is picked up when the batch settles).
- `QuotaRespected`: `Spec => []UsageWithinQuota`. Added: `CapacityHolds` (what the
  run read is still free when it dequeues, for only the active run records usage and
  otherwise windows only age or are reset), `BatchFits` (what it dequeued
  still fits when it is recorded) and `ModeKept` (the limit moves only in the
  dynamic mode, which records no usage).
- `PlacesApart`, `SettlesOnce` and `DequeuesInTurn`: `Spec` implies `[]OnePlace`,
  `SettledOnce` and `PriorityRespected`. One invariant, `PlaceInv`: nobody is in two
  places, the priority queue is sorted, and who has a place still waits
  (`WaitersPending`). The lemmas about sequences say that an insertion by priority
  keeps the order (`InsertSorted`) and that cutting a batch off both queues
  repeats nobody and takes nobody out of turn (`CutOnce`, `DequeueInTurn`).
- `NobodyStranded`: with the memory store, no `clearQueue` and a queue with room for
  all requests, `Spec => []NoRequestStranded`. The premises are where the code does lose
  somebody: a failed store call, a cleared queue, and the full queue of the finding.
  `RoomForOne` is the pigeonhole: whoever is requeued is not in the queue, so
  the queue is not full.
- `MeteredQuota`: if no options are dynamic, `Spec => []QuotaUpToResets`. The invariant
  `MeterInv` compares the meter of the remote API with the limiter's window: by
  whether the live window began before the meter's, inside it, or is gone, it says
  how much of the two quotas can have been used.

`EventPublisher_proof`
- `TypeCorrect`, by cases on the answers of the database.
- `NothingForgotten`: `Spec => []NoEventForgotten`. The lemmas `PushKeeps`,
  `GroupKeeps`, `FlushKeeps`, `LandingKeeps` and `PutBackKeeps` say of each step
  that the events of buffer, batches and log together are kept; `Dead` is needed
  because a killed process, for which nothing is promised, must not come back.
- `OneFaultSurvived`: with at most one fault and no deleted task,
  `Spec => []NothingLostAtExit`. The argument is `OneFault`: without a fault the
  buffer holds only events of requests that will still flush it (`FlushPending`), so
  the flush of `onClose` finds events only when the one fault has already happened
  (`CleanupAfterFault`), and then succeeds; after `onClose` the buffer stays
  empty (`AfterCleanup`), since a batch of a request that is still under way
  belongs to a request that has not answered or comes after the fault
  (`RequestWaits`). Two faults are too many (section 4), so the bound in the
  theorem is tight.

`EventPublisher_refinement`
- `NothingTwice`: `Spec => []NoEventTwice`. Added: `Unpublished`, the groups a
  request has still to publish are in no buffer, batch or row (the scripts have
  no event in common, `GroupsApart`).
- `PromiseKept`: `Spec => KeepsPromise`, every step of the publisher is a step of
  `AuditLog` or a stuttering step. It rests on `NothingTwice` (an inserted batch
  appends each event once: `BatchAppends`) and on `Ending` (after `onClose` nobody
  publishes, so the process ends with nothing under way that could still be written).
- `OrderHeld`: `Spec => []OrderKept`: until the third failure, with a buffer of
  more than one event and while no task is deleted, the events of a request stand in the
  buffer and in every batch in the order in which it publishes them. `CalmInv` is why
  it takes so long: before the first failure a request that runs finds at most its
  own first events in the buffer, and only the request that has pushed them will take
  them, so nobody has events in two places. The first batch that comes back finds an
  empty buffer, or events of another request (`FirstFailure`). `OrderInv` adds to the
  property that until the second failure every
  batch followed by the buffer is in order (`Straight`): a failure uses that up, so the
  third one breaks the order. `GroupFollows` says that a group comes after everything of its
  request that is in the buffer or under way, and `PushStraight` that pushing it, with
  the full buffer flushed in between, keeps the order.
- `ReplyVouches`: `Spec => []AnsweredLogged`: before the first failure, deletion or kill,
  a request that was answered ok has its events in the log. This is how much of
  the comment quoted by the finding of `EventPublisherPersisted` is true. The
  invariant is `FlushedSent`: the flush of a request takes what is left of its
  events, and from then on nothing puts them back. `BehindPublished` says that a
  request flushes after all its groups are published, and `NothingOutstanding` that
  none of them is in the hands of somebody else.

`AuditLog_proof`
- `OneRow`: an event has at most one row, unless acknowledgements may be lost.

`TaskExecution_proof`
- `TypeCorrect`: `Spec => []TypeOK`.
- `RetryBudget`: `Spec => []RetryingWithinBudget` for any number of racing requests.
  The invariant adds what the row held by a request between its read and its write
  says about the budget (`CheckedInBudget`): the operation was accepted for the row
  it read, so the target differs from the status read and is written, and
  `maxRetries` moves only by hand.
- `CountsFailures` and `MovesLegally`: `Spec` implies `[]FailuresCounted` and
  `TransitionsLegal`, which except a field that two requests were about to write at once.
  The invariant `SerialInv` says what that gives: at most one request is about to write
  the field (`Sole`), and the row still has the value of the field that this request
  read and checked (`Current`), whatever was written to the other fields.
- `StartsOnceBeforeItEnds`: `Spec => []StartedOnceBeforeEnd`. An id that no caller has
  named belongs to the request that made it (`OwnIds`), which starts it once; the
  invariant `OrderInv` says that an execution named by a row, or by a request that has
  read the row, has been started in the log or is about to be (`RowsHeld`, `CallsHeld`),
  so that whoever ends it writes to the log after it (`CallsDone`, `BoundsDone`).
- `LogTellsTheStatus`: `Spec => []LogTellsStatus`. `Told` says it for every task on which
  nobody is between UPDATE and events, and of a task on which somebody is, that his
  events will tell the status he wrote; `LogAlone`, that nobody else logs meanwhile.

`RetryingClient_proof`
- `TypeCorrect`: `Spec => []TypeOK`. Neither count exceeds its threshold because
  `failureCount` only moves in a closed circuit and `successCount` in a half-open one,
  below it (`ClosedBelow`, `ProbesBelow`); `RetriesLeft` bounds the attempts.
- `ErrorsTrip` (with retry options), `CircuitEarned` and `OpenHolds`: `Spec` implies
  `[]TripsOnErrors`, `TransitionsEarned` and `OpenLasts`. One invariant, `CountsReal`,
  compares what the breaker counts with the histories: its counts are never ahead of
  what happened, nor its clock behind.
- `BackoffFromBase`: `Spec => BackoffAtLeastBase`, from `SharedDelay`: the delay the
  requests share is at least the base until a `Retry-After` is taken.

`ResponseCache_proof`
- `TypeCorrect`: `Spec => []TypeOK`, with `KnowsAnswer`.
- `Deduplicates` and `WaitersAreServed`: `Spec => []OneFetchPerKey` and
  `Spec => []NobodyStranded`, which are inductive together, over either storage.
- `FlightsKept`: `Spec => KeepsFlights`, from the same invariant: every step of the
  cache is a step of `SingleFlight` or a stuttering step, over either storage.
- `NothingFetchedTwice`: `Spec => NoNeedlessFetch`, over the memory storage. `LineInv`
  says that everybody in the microtask queue waits for a turn, and nobody for two.
  `MissedBefore`: who has missed a key for which there is a live entry now comes, in
  the queue, before the request that stored it. If that was a `getOrFetch`, its
  continuation, which clears `_pending`, is still to come, so the former joins it.
- `NothingGoesBack`: `Spec => NeverBack`, over the memory storage. `NewestLast` orders,
  for a key outside `mixed`, the versions that may still reach a caller: those of the
  turns in the queue ascend from the newest returned so far, none of them is newer than
  the entry, and nothing is newer than the one fetch that is under way (`Ordered`).
  `Sources` says that whoever returns an answer returns one that has come, and that none
  comes from the future. The first attempt failed for a good reason. With
  four requests, one more than the run has, an answer being stored may meet a second
  wrapper's fetch after a lookup has missed: the model took a fetch to be over when its
  body had been read, and TLC then showed an older version returned after a newer one.
  `mixed` now includes that overlap, which is one of a wrapper; the run was repeated
  with four requests and one key.
- `SharedNeverGoesBack`: if every caller of a key uses `getOrFetch`, no caller of
  that key gets an older version than somebody before it, over the memory storage. It is
  `NothingGoesBack` without a history variable in its premise: `OverlapInv` says that a
  key is in `mixed` only if a wrapper has asked for it.
- `FreshHits`: `Spec => HitsAreFresh`, over the memory storage, from `EntriesAnswered`:
  an entry repeats an answer stored under its key and expires its lifetime after that
  answer came.
- `GrowsToCapacity`: `Spec => CapacityHeld`. `PutFull` and `PutRoom` say what `set` does
  to the number of entries with and without an eviction, `Growth` that nothing else
  adds one.
- `CapacityNeverExceeded`: if no key is empty, `Spec => []WithinCapacity`: the memory
  storage never holds more than `maxEntries`, or one entry if that is 0. The premise is
  the condition under which the code keeps its capacity.

`FileStore_proof`
- `TypeCorrect`: `Spec => []TypeOK`, with `Purposes`: what a call has in hand
  fits where it is.
- `FilesWhole`: `Spec => []AtRestWhole`. Added: `Alone`, the only writer of a file
  that nobody has disturbed finds it empty.
- `LiveEntriesKept`: `Spec => LiveEntriesStay`, from `Purposes`: the entry a call
  has condemned had expired, and stays so.
- `SweepsComplete`: `Spec => []SweepsThorough`. Added: `SweepInv`, a file that is not
  among those still to visit was written since the sweep began or is as the sweep
  wants it, through reads, unlinks and the writes of others.

The inductive invariants were checked by TLC on small instances before they
were proved, those of `OrderHeld` and `ReplyVouches` also with two faults, lost
acknowledgements, deletions and a shutdown.

**Only model-checked.** Liveness (`EverySettled`, `EventuallyLogged`, `ShutsDown`,
`OpenEnds`): the prover reasons neither about fairness nor about `ENABLED`. Every
other property of the passing runs is a theorem.

## 11. Mutants

Operators whose name ends in `_...` directly before a definition (`PutBack_Not` before
`PutBack`) are the definition with a plausible bug: a dropped guard, a missing
reset, a wrong order. Nothing uses them; replacing the definition's body by the
mutant makes TLC find the property named with it in `PROJECT.json` violated, which
shows that the property depends on that code.

## 12. What the models leave out

- RateLimiter: of `RedisStore` the counter and expiry set in separate calls, and the
  other processes; events and their listeners (an `error` listener is assumed); the
  resolution of options (`maxRetries: 0` means 3). Timers never fire early; the
  error count stops at 5, where the code stops using it.
- EventPublisher: `publishImmediate`, which no task operation calls, the query
  methods, what the rows contain.
- TaskExecution: `createTask` (its row is an initial state), titles, list and get
  operations, other fields of the row. Of the metadata only `executionId` is kept, and
  whether anything in them changes.
- RetryingClient: a disabled breaker, interceptors, what is sent and received. The
  `SDK` class repeats the loop with retries always configured. `BreakerTimeout` and
  delays are whole ticks.
- ResponseCache: how keys are computed, whether a method is cached, reading of
  bodies (callers that joined a fetch get the response whose body `set()` reads),
  `getStale`, which has no caller. A remote storage may lose or expire any entry at any
  time (`Remove`); its own rules for doing so are not modelled.
- FileStore: file names and hashes, statistics and error records, what `load` and
  `listKeys` return, an `unlink` that fails although the file is there.
- The components marked `not_modelled` in `PROJECT.json`, with the reason for each.

## 13. Plan

Order of work, the first five done: rate limiter, publisher with its abstract log,
status machine, breaker and retry loop, response cache and file storage. Left:

1. `TaskCreation`: `createTask` with its title query, the unique idempotency key and
   the 500 after a committed row; composed with `TaskExecution`.
2. `TokenRefresh` of fetch_http_cache_response: one promise for many waiters, each of
   whom clears it; and its stale-while-revalidate cache against invalidation.
3. `RedisStore` as a second store of the limiter, with several processes.
4. `TaskGraph`: dependencies and steps; readiness and cycles as functions checked
   against a reference definition.
5. The composition of `TaskExecution` with the publisher, and its proof: which rows of
   the log a reader may trust after a task has changed.
