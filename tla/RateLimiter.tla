---------------------------- MODULE RateLimiter ----------------------------
(***************************************************************************)
(* One API_Rate_Limiter of packages_mjs/api-rate-limiter-main: the request *)
(* queue, the fixed-window strategy, its store, and the event-loop         *)
(* callbacks (setImmediate, setTimeout, promise continuations) that drive  *)
(* _processQueue.                                                          *)
(*                                                                         *)
(* Time is kept as ages and remaining delays, in ticks, so it never runs   *)
(* out: an age stops at Interval, where every reader of the store treats   *)
(* the window as absent, and a delay stops at 0.                           *)
(***************************************************************************)
EXTENDS Integers, Sequences, FiniteSets

CONSTANTS
    Reqs,            \* the schedule() calls, each made at most once
    Prio,            \* priority of the calls that give one: DOMAIN Prio \subseteq Reqs
    Options,         \* [dynamic, maxRequests] the limiter may be constructed with:
                     \* getRateLimitStatus was given or not, and opts.maxRequests,
                     \* 0 when undefined (read by ?? 0 and by !)
    Interval,        \* opts.intervalMs
    TicksPerSecond,  \* resolution of getTTL, which rounds up to whole seconds
    MaxQueueSize,
    MaxRetries,
    RetryDelay,      \* opts.retryDelayMs
    BackoffCap,      \* the 30000 of the error backoff
    StatusLimits,    \* limits the status callback may report
    StatusResets,    \* delays _calculateResetMs may compute from the reset it reports
    AsyncStore,      \* the store answers in a later macrotask and may fail
    ClearAllowed     \* somebody may call clearQueue()

ASSUME LimiterAssumption ==
    /\ DOMAIN Prio \subseteq Reqs
    /\ \A r \in DOMAIN Prio : Prio[r] \in Int
    /\ Options \subseteq [dynamic : BOOLEAN, maxRequests : Nat]
    /\ Interval \in Nat \ {0}
    /\ TicksPerSecond \in Nat \ {0}
    /\ MaxQueueSize \in Nat \ {0}
    /\ MaxRetries \in Nat \ {0}
    /\ RetryDelay \in Nat \ {0}
    /\ BackoffCap \in Nat \ {0}
    /\ StatusLimits \subseteq Nat \ {0}
    /\ StatusResets \subseteq Nat \ {0}
    /\ {AsyncStore, ClearAllowed} \subseteq BOOLEAN

CONSTANT MaxDelay    \* no smaller than any delay a timer is given
ASSUME DelayAssumption ==
    /\ MaxDelay \in Nat
    /\ MaxDelay >= Interval + TicksPerSecond
    /\ MaxDelay >= BackoffCap
    /\ \A d \in StatusResets : d <= MaxDelay

VARIABLES
    opts,            \* the options given to the constructor, never written again
    \* RequestQueue
    queue,           \* requests without a priority, oldest first
    priorityQueue,   \* requests with one, highest first, ties oldest first
    \* the limiter's own state
    pc,              \* where the one active _processQueue awaits; "idle" = !processing
    waiting,         \* waitingUntil - now; 0 when null or past
    errors,          \* state.errors, kept at 5 above 5 (Math.min(errors, 5))
    limit,           \* strategy.maxRequests
    remaining,       \* capacity.remaining of the active _processQueue
    batch,           \* requests dequeued, their usage not recorded yet
    running,         \* requests whose fn() has been called and has not settled
    \* the store
    windowAge,       \* now - windowStart; Interval when expired or absent
    count,           \* counters.get(key)
    \* the event loop
    immediates,      \* pending setImmediate(_processQueue) callbacks
    timers,          \* timers[d]: _scheduleRetry timers due in d ticks
    resetting,       \* timer callbacks awaiting store.reset
    \* the callers
    promise,         \* what the promise schedule() returned has become
    retries,         \* request.retries
    attempts,        \* history: calls of the request's fn
    meter            \* history: a fixed-window meter at the remote API

queueVars   == <<queue, priorityQueue>>
runVars     == <<pc, remaining, batch, running>>
storeVars   == <<windowAge, count>>
loopVars    == <<immediates, timers, resetting>>
callerVars  == <<promise, retries, attempts>>
vars == <<opts, queue, priorityQueue, pc, waiting, errors, limit, remaining, batch,
          running, windowAge, count, immediates, timers, resetting,
          promise, retries, attempts, meter>>

Elems(s) == {s[i] : i \in DOMAIN s}
Least(a, b) == IF a <= b THEN a ELSE b
Queued == Elems(queue) \cup Elems(priorityQueue)
Size == Len(queue) + Len(priorityQueue)

-----------------------------------------------------------------------------
(* The store: MemoryStore, or an adapter that keeps its window the same way *)

WindowLive == windowAge < Interval
Used == IF WindowLive THEN count ELSE 0

\* getTTL: what is left of the window, rounded up to whole seconds.
CeilToSecond(d) == ((d + TicksPerSecond - 1) \div TicksPerSecond) * TicksPerSecond
TTL == IF WindowLive THEN CeilToSecond(Interval - windowAge) ELSE 0

StoreIncrBy(n) ==
    IF WindowLive
    THEN count' = count + n /\ UNCHANGED windowAge
    ELSE count' = n /\ windowAge' = 0

StoreReset == count' = 0 /\ windowAge' = Interval

-----------------------------------------------------------------------------
(* The request queue *)

\* Mutant: the push without the sort.
InsertByPriority_Unsorted(s, r) == Append(s, r)

\* The stable descending sort after a push: r goes behind every request whose
\* priority is at least its own.
InsertByPriority(s, r) ==
    LET ahead == Cardinality({i \in DOMAIN s : Prio[s[i]] >= Prio[r]})
    IN  SubSeq(s, 1, ahead) \o <<r>> \o SubSeq(s, ahead + 1, Len(s))

Enqueue(r) ==
    IF r \in DOMAIN Prio
    THEN priorityQueue' = InsertByPriority(priorityQueue, r) /\ UNCHANGED queue
    ELSE queue' = Append(queue, r) /\ UNCHANGED priorityQueue

\* dequeue(n): the first n requests, priority requests first.
FromPriority(n) == Least(n, Len(priorityQueue))

\* Mutant: the normal queue is not charged for what the priority queue gave.
FromNormal_Uncharged(n) == Least(n, Len(queue))

FromNormal(n) == Least(n - FromPriority(n), Len(queue))
Taken(n) == SubSeq(priorityQueue, 1, FromPriority(n)) \o SubSeq(queue, 1, FromNormal(n))

\* Mutant: dequeue empties the queues whatever the count.
LeaveQueue_All(n) == priorityQueue' = <<>> /\ queue' = <<>>

\* Mutant: priority requests are read and not shifted out.
LeaveQueue_KeepsPriority(n) ==
    /\ queue' = SubSeq(queue, FromNormal(n) + 1, Len(queue))
    /\ UNCHANGED priorityQueue

LeaveQueue(n) ==
    /\ priorityQueue' = SubSeq(priorityQueue, FromPriority(n) + 1, Len(priorityQueue))
    /\ queue' = SubSeq(queue, FromNormal(n) + 1, Len(queue))

-----------------------------------------------------------------------------
(* Retry timers *)

\* min(retryDelayMs * 2^min(errors, 5), 30000) for the error count e >= 1.
Backoff(e) == Least(RetryDelay * <<2, 4, 8, 16, 32>>[e], BackoffCap)

ScheduleRetry(d) ==
    /\ waiting' = d
    /\ timers' = [timers EXCEPT ![d] = @ + 1]

-----------------------------------------------------------------------------
Init ==
    /\ opts \in Options
    /\ queue = <<>> /\ priorityQueue = <<>>
    /\ pc = "idle" /\ waiting = 0 /\ errors = 0
    /\ limit = opts.maxRequests /\ remaining = 0
    /\ batch = <<>> /\ running = {}
    /\ windowAge = Interval /\ count = 0
    /\ immediates = 0 /\ resetting = 0
    /\ timers = [d \in 0..MaxDelay |-> 0]
    /\ promise = [r \in Reqs |-> "none"]
    /\ retries = [r \in Reqs |-> 0]
    /\ attempts = [r \in Reqs |-> 0]
    /\ meter = [age |-> Interval, calls |-> 0, resets |-> 0]

\* schedule(): enqueue or reject, and ask for a run in the check phase.
Schedule(r) ==
    /\ promise[r] = "none"
    /\ IF Size >= MaxQueueSize
       THEN /\ promise' = [promise EXCEPT ![r] = "rejected"]
            /\ UNCHANGED <<queueVars, immediates>>
       ELSE /\ Enqueue(r)
            /\ promise' = [promise EXCEPT ![r] = "pending"]
            /\ immediates' = immediates + 1
    /\ UNCHANGED <<opts, runVars, waiting, errors, limit, storeVars, timers,
                   resetting,
                   retries, attempts, meter>>

ClearQueue ==
    /\ ClearAllowed
    /\ Queued # {}
    /\ queue' = <<>> /\ priorityQueue' = <<>>
    /\ UNCHANGED <<opts, runVars, waiting, errors, limit, storeVars, loopVars,
                   callerVars, meter>>

\* MemoryStore's promises settle in microtasks: no timer, immediate or fn()
\* completion runs between two of its answers.
MacrotaskMayRun ==
    AsyncStore \/ (pc \notin {"count", "ttl", "record"} /\ resetting = 0)

\* A setImmediate callback enters _processQueue; it gives up while another run
\* is active and while waitingUntil has not passed.
ProcessQueue ==
    /\ MacrotaskMayRun
    /\ immediates > 0
    /\ immediates' = immediates - 1
    /\ pc' = IF pc = "idle" /\ waiting = 0
             THEN (IF opts.dynamic THEN "status" ELSE "count")
             ELSE pc
    /\ UNCHANGED <<opts, queueVars, waiting, errors, limit, remaining, batch,
                   running,
                   storeVars, timers, resetting, callerVars, meter>>

\* fn() is called for every request of the batch b in one turn.
Start(b) ==
    LET live == meter.age < Interval
    IN  /\ running' = Elems(b)
        /\ attempts' = [r \in Reqs |-> IF r \in Elems(b) THEN attempts[r] + 1
                                                         ELSE attempts[r]]
        /\ meter' = [age    |-> IF live THEN meter.age ELSE 0,
                     calls  |-> IF live THEN meter.calls + Len(b) ELSE Len(b),
                     resets |-> IF live THEN meter.resets ELSE 0]

\* What _processQueue does once it knows the capacity.
UseCapacity(available, resetIn) ==
    \/ /\ available <= 0
       /\ ScheduleRetry(resetIn)
       /\ pc' = "idle"
       /\ UNCHANGED <<queueVars, batch, running, attempts, meter>>
    \/ /\ available > 0
       /\ Size = 0
       /\ pc' = "idle"
       /\ UNCHANGED <<queueVars, batch, running, attempts, meter, waiting, timers>>
    \/ /\ available > 0
       /\ Size > 0
       /\ LeaveQueue(available)
       /\ UNCHANGED <<waiting, timers>>
       /\ IF opts.dynamic
          THEN Start(Taken(available)) /\ pc' = "execute" /\ UNCHANGED batch
          ELSE /\ batch' = Taken(available) /\ pc' = "record"
               /\ UNCHANGED <<running, attempts, meter>>

\* getDynamicStatus answers; a missing field of the answer reads as 0.
StatusReturned(available, reported, resetIn) ==
    /\ pc = "status"
    /\ limit' = IF opts.maxRequests = 0 /\ reported # 0 THEN reported ELSE limit
    /\ UseCapacity(available, resetIn)
    /\ UNCHANGED <<opts, errors, remaining, storeVars, immediates, resetting,
                   promise, retries>>

\* getDynamicStatus fails or returns null: fall back on the strategy.
StatusMissing ==
    /\ pc = "status"
    /\ pc' = "count"
    /\ UNCHANGED <<opts, queueVars, waiting, errors, limit, remaining, batch,
                   running,
                   storeVars, loopVars, callerVars, meter>>

CountReturned ==
    /\ pc = "count"
    /\ remaining' = IF limit > Used THEN limit - Used ELSE 0
    /\ pc' = "ttl"
    /\ UNCHANGED <<opts, queueVars, waiting, errors, limit, batch, running,
                   storeVars, loopVars, callerVars, meter>>

TTLReturned ==
    /\ pc = "ttl"
    /\ UseCapacity(remaining, IF TTL > 0 THEN TTL ELSE Interval)
    /\ UNCHANGED <<opts, errors, limit, remaining, storeVars, immediates, resetting,
                   promise, retries>>

\* Mutant: the batch starts without recordUsage.
UsageRecorded_Not ==
    /\ pc = "record"
    /\ Start(batch)
    /\ batch' = <<>>
    /\ pc' = "execute"
    /\ UNCHANGED <<opts, queueVars, waiting, errors, limit, remaining, storeVars,
                   loopVars,
                   promise, retries>>

UsageRecorded ==
    /\ pc = "record"
    /\ StoreIncrBy(Len(batch))
    /\ Start(batch)
    /\ batch' = <<>>
    /\ pc' = "execute"
    /\ UNCHANGED <<opts, queueVars, waiting, errors, limit, remaining, loopVars,
                   promise, retries>>

\* A store operation of the active run throws: back off. The batch, if one was
\* already dequeued, is forgotten. (An 'error' listener is installed; without
\* one the emit itself throws and the process gets an unhandled rejection.)
StoreFails ==
    /\ AsyncStore
    /\ pc \in {"count", "ttl", "record"}
    /\ errors' = Least(errors + 1, 5)
    /\ ScheduleRetry(Backoff(errors'))
    /\ batch' = <<>>
    /\ pc' = "idle"
    /\ UNCHANGED <<opts, queueVars, limit, remaining, running, storeVars,
                   immediates,
                   resetting, callerVars, meter>>

-----------------------------------------------------------------------------
(* The calls *)

CallSucceeds(r) ==
    /\ MacrotaskMayRun
    /\ r \in running
    /\ running' = running \ {r}
    /\ promise' = [promise EXCEPT ![r] = "resolved"]
    /\ UNCHANGED <<opts, queueVars, pc, waiting, errors, limit, remaining, batch,
                   storeVars,
                   loopVars, retries, attempts, meter>>

CallFails(r) ==
    /\ MacrotaskMayRun
    /\ r \in running
    /\ running' = running \ {r}
    /\ promise' = [promise EXCEPT ![r] = "rejected"]
    /\ UNCHANGED <<opts, queueVars, pc, waiting, errors, limit, remaining, batch,
                   storeVars,
                   loopVars, retries, attempts, meter>>

\* Mutant: one retry too many.
CallRateLimited_OneMore(r) ==
    /\ MacrotaskMayRun
    /\ r \in running
    /\ running' = running \ {r}
    /\ IF retries[r] <= MaxRetries
       THEN /\ retries' = [retries EXCEPT ![r] = @ + 1]
            /\ IF Size < MaxQueueSize THEN Enqueue(r) ELSE UNCHANGED queueVars
            /\ UNCHANGED promise
       ELSE /\ promise' = [promise EXCEPT ![r] = "rejected"]
            /\ UNCHANGED <<queueVars, retries>>
    /\ UNCHANGED <<opts, pc, waiting, errors, limit, remaining, batch, storeVars,
                   loopVars, attempts, meter>>

\* Mutant: the caller is told of the rate limit although the request is retried.
CallRateLimited_Rejects(r) ==
    /\ MacrotaskMayRun
    /\ r \in running
    /\ running' = running \ {r}
    /\ promise' = [promise EXCEPT ![r] = "rejected"]
    /\ IF retries[r] < MaxRetries
       THEN /\ retries' = [retries EXCEPT ![r] = @ + 1]
            /\ IF Size < MaxQueueSize THEN Enqueue(r) ELSE UNCHANGED queueVars
       ELSE UNCHANGED <<queueVars, retries>>
    /\ UNCHANGED <<opts, pc, waiting, errors, limit, remaining, batch, storeVars,
                   loopVars, attempts, meter>>

\* 429, 403 or RateLimitError. The enqueue of a retry throws when the queue is
\* full, inside the catch block: the execution rejects, allSettled absorbs it,
\* and nobody settles the request's promise.
CallRateLimited(r) ==
    /\ MacrotaskMayRun
    /\ r \in running
    /\ running' = running \ {r}
    /\ IF retries[r] < MaxRetries
       THEN /\ retries' = [retries EXCEPT ![r] = @ + 1]
            /\ IF Size < MaxQueueSize THEN Enqueue(r) ELSE UNCHANGED queueVars
            /\ UNCHANGED promise
       ELSE /\ promise' = [promise EXCEPT ![r] = "rejected"]
            /\ UNCHANGED <<queueVars, retries>>
    /\ UNCHANGED <<opts, pc, waiting, errors, limit, remaining, batch, storeVars,
                   loopVars, attempts, meter>>

\* Mutant: no further run is asked for.
BatchSettled_NoRun ==
    /\ pc = "execute"
    /\ running = {}
    /\ pc' = "idle"
    /\ UNCHANGED <<opts, queueVars, waiting, errors, limit, remaining, batch,
                   running,
                   storeVars, loopVars, callerVars, meter>>

\* Promise.allSettled resolves; finally clears processing.
BatchSettled ==
    /\ pc = "execute"
    /\ running = {}
    /\ pc' = "idle"
    /\ immediates' = IF Size > 0 THEN immediates + 1 ELSE immediates
    /\ UNCHANGED <<opts, queueVars, waiting, errors, limit, remaining, batch,
                   running,
                   storeVars, timers, resetting, callerVars, meter>>

-----------------------------------------------------------------------------
(* Timers and time *)

TimerFires ==
    /\ MacrotaskMayRun
    /\ timers[0] > 0
    /\ timers' = [timers EXCEPT ![0] = @ - 1]
    /\ IF opts.dynamic
       THEN errors' = 0 /\ immediates' = immediates + 1 /\ UNCHANGED resetting
       ELSE resetting' = resetting + 1 /\ UNCHANGED <<errors, immediates>>
    /\ UNCHANGED <<opts, queueVars, runVars, waiting, limit, storeVars, callerVars,
                   meter>>

\* store.reset answers: the window is erased, live or not.
ResetDone ==
    /\ resetting > 0
    /\ resetting' = resetting - 1
    /\ StoreReset
    /\ errors' = 0
    /\ immediates' = immediates + 1
    /\ meter' = IF WindowLive /\ count > 0 /\ meter.age < Interval
                THEN [meter EXCEPT !.resets = @ + 1] ELSE meter
    /\ UNCHANGED <<opts, queueVars, runVars, waiting, limit, timers, callerVars>>

\* Mutant: the setImmediate is inside the try block.
ResetFails_NoRun ==
    /\ AsyncStore
    /\ resetting > 0
    /\ resetting' = resetting - 1
    /\ UNCHANGED <<opts, queueVars, runVars, waiting, errors, limit, storeVars,
                   timers,
                   immediates, callerVars, meter>>

ResetFails ==
    /\ AsyncStore
    /\ resetting > 0
    /\ resetting' = resetting - 1
    /\ immediates' = immediates + 1
    /\ UNCHANGED <<opts, queueVars, runVars, waiting, errors, limit, storeVars,
                   timers,
                   callerVars, meter>>

Tick ==
    /\ waiting' = IF waiting > 0 THEN waiting - 1 ELSE 0
    /\ timers' = [d \in 0..MaxDelay |->
                    (IF d = 0 THEN timers[0] ELSE 0) +
                    (IF d < MaxDelay THEN timers[d + 1] ELSE 0)]
    /\ windowAge' = Least(windowAge + 1, Interval)
    /\ meter' = [meter EXCEPT !.age = Least(@ + 1, Interval)]
    /\ UNCHANGED <<opts, queueVars, runVars, errors, limit, count, immediates,
                   resetting,
                   callerVars>>

Answer ==
    \/ \E available, reported \in {0} \cup StatusLimits,
          resetIn \in StatusResets \cup {Interval} :
            StatusReturned(available, reported, resetIn)
    \/ StatusMissing
    \/ CountReturned
    \/ TTLReturned
    \/ UsageRecorded

Settle(r) == CallSucceeds(r) \/ CallFails(r) \/ CallRateLimited(r)

Next ==
    \/ \E r \in Reqs : Schedule(r) \/ Settle(r)
    \/ ClearQueue
    \/ ProcessQueue
    \/ Answer
    \/ StoreFails
    \/ BatchSettled
    \/ TimerFires
    \/ ResetDone
    \/ ResetFails
    \/ Tick

Spec == Init /\ [][Next]_vars

(***************************************************************************)
(* The event loop runs every callback that stays ready, a store answers    *)
(* what it is asked, an API call ends, and time passes. Nothing obliges    *)
(* anybody to schedule or to clear.                                        *)
(***************************************************************************)
Fairness ==
    /\ WF_vars(ProcessQueue)
    /\ WF_vars(Answer)
    /\ \A r \in Reqs : WF_vars(Settle(r))
    /\ WF_vars(BatchSettled)
    /\ WF_vars(TimerFires)
    /\ WF_vars(ResetDone)
    /\ WF_vars(Tick)

LiveSpec == Spec /\ Fairness

-----------------------------------------------------------------------------
(* Properties *)

TypeOK ==
    /\ opts \in Options
    /\ queue \in Seq(Reqs \ DOMAIN Prio)
    /\ priorityQueue \in Seq(DOMAIN Prio)
    /\ pc \in {"idle", "status", "count", "ttl", "record", "execute"}
    /\ waiting \in 0..MaxDelay
    /\ errors \in 0..5
    /\ limit \in Nat
    /\ remaining \in Nat
    /\ batch \in Seq(Reqs)
    /\ running \in SUBSET Reqs
    /\ windowAge \in 0..Interval
    /\ count \in Nat
    /\ immediates \in Nat
    /\ timers \in [0..MaxDelay -> Nat]
    /\ resetting \in Nat
    /\ promise \in [Reqs -> {"none", "pending", "resolved", "rejected"}]
    /\ retries \in [Reqs -> 0..MaxRetries]
    /\ attempts \in [Reqs -> Nat]
    /\ meter \in [age : 0..Interval, calls : Nat, resets : Nat]

\* A request that waits in the queue will be looked at again: a run is active,
\* a run is due, a timer is set, or a timer's reset is under way. Every early
\* return of _processQueue relies on one of these being somebody else's.
NoStall ==
    Queued # {} => \/ pc # "idle"
                   \/ immediates > 0
                   \/ resetting > 0
                   \/ \E d \in 0..MaxDelay : timers[d] > 0

\* A caller whose promise is pending is in the queue, in the dequeued batch or
\* running: nothing _processQueue does forgets a request.
NoRequestStranded ==
    \A r \in Reqs : promise[r] = "pending" =>
                        r \in Queued \cup Elems(batch) \cup running

\* A request is in one place at a time, so that its fn() is never started twice
\* for one schedule() and one place in the queue.
Once(s) == \A i, j \in DOMAIN s : s[i] = s[j] => i = j
OnePlace ==
    /\ Once(queue) /\ Once(priorityQueue) /\ Once(batch)
    /\ Queued \cap (Elems(batch) \cup running) = {}
    /\ Elems(batch) \cap running = {}

\* What the store counts in its live window never exceeds the quota, although
\* the capacity is read, and the usage recorded, in different turns.
UsageWithinQuota == Used <= limit

\* What the remote API sees in one of ITS windows: the quota of the two limiter
\* windows that can overlap it, and one more for each time a retry timer erased
\* a live window (the reset of _scheduleRetry is unconditional).
QuotaUpToResets == meter.calls <= limit * (2 + meter.resets)

\* A settled promise stays as it is and its fn() is never called again.
SettledOnce ==
    [][\A r \in Reqs : promise[r] \in {"resolved", "rejected"} =>
            promise'[r] = promise[r] /\ attempts'[r] = attempts[r]]_vars

Rank(r) == IF r \in DOMAIN Prio THEN <<1, Prio[r]>> ELSE <<0, 0>>
Outranks(r, s) == \/ Rank(r)[1] > Rank(s)[1]
                  \/ Rank(r)[1] = Rank(s)[1] /\ Rank(r)[2] > Rank(s)[2]

\* No request leaves the queue for a batch while one that outranks it stays,
\* whatever was queued or requeued in between.
Dequeued == (Elems(batch') \ Elems(batch)) \cup (running' \ (running \cup Elems(batch)))
PriorityRespected ==
    [][\A r \in Dequeued, s \in Queued' : ~Outranks(s, r)]_vars

\* Every scheduled call is answered in the end.
EverySettled ==
    \A r \in Reqs : promise[r] = "pending" ~> promise[r] \in {"resolved", "rejected"}

=============================================================================
