--------------------------- MODULE RetryingClient ---------------------------
(***************************************************************************)
(* The retry loop of AsyncClient (packages_mjs/fetch_undici): concurrent   *)
(* requests of one client, each asking the shared circuit breaker once,    *)
(* then sending its attempts and recording what becomes of them. Requests  *)
(* interleave wherever the loop awaits: an answer, or the delay before the *)
(* next attempt.                                                           *)
(***************************************************************************)
EXTENDS CircuitBreaker

CONSTANTS
    Requests,
    Repeatable,         \* requests shouldRetryMethod allows to send again
    MaxRetries,
    RetryDelay,         \* the base delay, in ticks
    RetryBackoff,
    MaxRetryDelay,
    Jitter,             \* "none", "full", "equal", "decorrelated"
    RetryAfters,        \* Retry-After headers the origin may send, in ticks; {} when
                        \* respectRetryAfter is off
    RetryOnException,
    RetryConfigured,    \* the client was given options.retry
    ResetAllowed        \* somebody may call client.circuitBreaker.reset()

ASSUME ClientAssumption ==
    /\ Repeatable \subseteq Requests
    /\ {MaxRetries, RetryDelay, RetryBackoff, MaxRetryDelay} \subseteq Nat
    /\ \A n \in 0..MaxRetries : RetryBackoff ^ n \in Nat \ {0}
    /\ Jitter \in {"none", "full", "equal", "decorrelated"}
    /\ RetryAfters \subseteq Nat
    /\ {RetryOnException, RetryConfigured, ResetAllowed} \subseteq BOOLEAN

VARIABLES
    pc,                 \* "idle", "flying", "waiting", "done"
    attempt,            \* the loop's attempt
    wait,               \* what is left of the delay of a waiting request
    outcome,            \* how the promise of request() has settled
    lastDelay,          \* _lastDelay, one for all requests of the client
    errorRun,           \* history: network errors in a row, kept at FailureThreshold
    wins,               \* history: ok answers since the circuit became half-open or a
                        \* failure was recorded, kept at SuccessThreshold
    losses,             \* history: failures recorded since the last ok answer or reset,
                        \* kept at FailureThreshold
    sinceOpen,          \* history: ticks since the circuit opened, kept at BreakerTimeout
    hinted              \* history: some delay was taken from a Retry-After header

loopVars    == <<pc, attempt, wait, outcome, lastDelay>>
historyVars == <<errorRun, wins, losses, sinceOpen, hinted>>
vars == <<breakerVars, loopVars, historyVars>>

Least(a, b) == IF a <= b THEN a ELSE b

-----------------------------------------------------------------------------
(* Delays *)

Capped(n) == Least(RetryDelay * RetryBackoff ^ n, MaxRetryDelay)

\* Mutant: the decorrelated delay starts at nothing.
Delays_FromZero(n) ==
    {d \in 0..MaxRetryDelay :
        \/ Jitter = "none" /\ d = Capped(n)
        \/ Jitter = "full" /\ d <= Capped(n)
        \/ Jitter = "equal" /\ 2 * d >= Capped(n) /\ d <= Capped(n)
        \/ Jitter = "decorrelated" /\ d <= 3 * lastDelay}

\* calculateDelay: what it may return after the nth attempt. A decorrelated delay
\* lies between the base delay and three times the last one, on whichever side.
Delays(n) ==
    {d \in 0..MaxRetryDelay :
        \/ Jitter = "none" /\ d = Capped(n)
        \/ Jitter = "full" /\ d <= Capped(n)
        \/ Jitter = "equal" /\ 2 * d >= Capped(n) /\ d <= Capped(n)
        \/ /\ Jitter = "decorrelated"
           /\ \E e \in (RetryDelay..3 * lastDelay) \cup (3 * lastDelay..RetryDelay) :
                d = Least(e, MaxRetryDelay)}

-----------------------------------------------------------------------------
Init ==
    /\ BreakerInit
    /\ pc = [r \in Requests |-> "idle"]
    /\ attempt = [r \in Requests |-> 0]
    /\ wait = [r \in Requests |-> 0]
    /\ outcome = [r \in Requests |-> "none"]
    /\ lastDelay = RetryDelay
    /\ errorRun = 0
    /\ wins = 0
    /\ losses = 0
    /\ sinceOpen = BreakerTimeout
    /\ hinted = FALSE

Settle(r, result) ==
    /\ pc' = [pc EXCEPT ![r] = "done"]
    /\ outcome' = [outcome EXCEPT ![r] = result]
    /\ UNCHANGED <<attempt, wait, lastDelay>>

\* request(): without options.retry the breaker is not consulted.
Request(r) ==
    /\ pc[r] = "idle"
    /\ \/ /\ ~RetryConfigured
          /\ pc' = [pc EXCEPT ![r] = "flying"]
          /\ UNCHANGED <<breakerVars, lastDelay, outcome, wins>>
       \/ /\ RetryConfigured
          /\ MayPass
          /\ AllowRequest
          /\ lastDelay' = RetryDelay
          /\ pc' = [pc EXCEPT ![r] = "flying"]
          /\ wins' = IF state = "open" THEN 0 ELSE wins
          /\ UNCHANGED outcome
       \/ /\ RetryConfigured
          /\ ~MayPass
          /\ pc' = [pc EXCEPT ![r] = "done"]
          /\ outcome' = [outcome EXCEPT ![r] = "open"]
          /\ UNCHANGED <<breakerVars, lastDelay, wins>>
    /\ UNCHANGED <<attempt, wait, errorRun, losses, sinceOpen, hinted>>

\* What is remembered of a failure that the breaker is told of.
NoteFailure ==
    /\ wins' = 0
    /\ losses' = Least(losses + 1, FailureThreshold)
    /\ sinceOpen' = IF state # "open" /\ state' = "open" THEN 0 ELSE sinceOpen

\* An answer that is ok.
Succeeds(r) ==
    /\ pc[r] = "flying"
    /\ IF RetryConfigured
       THEN RecordSuccess /\ wins' = Least(wins + 1, SuccessThreshold) /\ losses' = 0
       ELSE UNCHANGED <<breakerVars, wins, losses>>
    /\ Settle(r, "response")
    /\ errorRun' = 0
    /\ UNCHANGED <<sinceOpen, hinted>>

\* An answer that is neither ok nor to be retried: another status, the last attempt
\* or a method that must not be repeated. The breaker hears nothing of it.
Refused(r) ==
    /\ pc[r] = "flying"
    /\ Settle(r, "response")
    /\ errorRun' = 0
    /\ UNCHANGED <<breakerVars, wins, losses, sinceOpen, hinted>>

\* Before the next attempt: wait d ticks.
Await(r, d) ==
    /\ lastDelay' = d
    /\ wait' = [wait EXCEPT ![r] = d]
    /\ pc' = [pc EXCEPT ![r] = "waiting"]
    /\ UNCHANGED <<attempt, outcome>>

MayRetry(r) == RetryConfigured /\ r \in Repeatable /\ attempt[r] < MaxRetries

\* An answer in retryOnStatus; a Retry-After takes the place of the computed delay.
RetryStatus(r) ==
    /\ pc[r] = "flying"
    /\ MayRetry(r)
    /\ RecordFailure
    /\ NoteFailure
    /\ \/ \E d \in Delays(attempt[r]) : Await(r, d) /\ UNCHANGED hinted
       \/ \E a \in RetryAfters : Await(r, Least(a, MaxRetryDelay)) /\ hinted' = TRUE
    /\ errorRun' = 0

\* Mutant: an error that will be retried is not recorded.
AttemptFails_Unrecorded(r, retryable) ==
    /\ pc[r] = "flying"
    /\ errorRun' = Least(errorRun + 1, FailureThreshold)
    /\ IF retryable /\ RetryOnException /\ MayRetry(r)
       THEN /\ \E d \in Delays(attempt[r]) : Await(r, d)
            /\ UNCHANGED <<breakerVars, wins, losses, sinceOpen>>
       ELSE /\ Settle(r, "error")
            /\ IF RetryConfigured THEN RecordFailure /\ NoteFailure
                                  ELSE UNCHANGED <<breakerVars, wins, losses, sinceOpen>>
    /\ UNCHANGED hinted

\* The attempt throws, with an error that isRetryableError knows or not.
AttemptFails(r, retryable) ==
    /\ pc[r] = "flying"
    /\ errorRun' = Least(errorRun + 1, FailureThreshold)
    /\ IF RetryConfigured THEN RecordFailure /\ NoteFailure
                          ELSE UNCHANGED <<breakerVars, wins, losses, sinceOpen>>
    /\ IF retryable /\ RetryOnException /\ MayRetry(r)
       THEN \E d \in Delays(attempt[r]) : Await(r, d)
       ELSE Settle(r, "error")
    /\ UNCHANGED hinted

\* Mutant: the loop's attempt is not advanced.
Retry_NotCounted(r) ==
    /\ pc[r] = "waiting"
    /\ wait[r] = 0
    /\ pc' = [pc EXCEPT ![r] = "flying"]
    /\ UNCHANGED <<breakerVars, attempt, wait, outcome, lastDelay, historyVars>>

\* The delay is over: the next attempt, without asking the breaker again.
Retry(r) ==
    /\ pc[r] = "waiting"
    /\ wait[r] = 0
    /\ pc' = [pc EXCEPT ![r] = "flying"]
    /\ attempt' = [attempt EXCEPT ![r] = @ + 1]
    /\ UNCHANGED <<breakerVars, wait, outcome, lastDelay, historyVars>>

ResetBreaker ==
    /\ ResetAllowed
    /\ ResetCircuit
    /\ errorRun' = 0
    /\ wins' = 0
    /\ losses' = 0
    /\ UNCHANGED <<loopVars, sinceOpen, hinted>>

Tick ==
    /\ sinceFailure' = Least(sinceFailure + 1, BreakerTimeout)
    /\ sinceOpen' = Least(sinceOpen + 1, BreakerTimeout)
    /\ wait' = [r \in Requests |-> IF wait[r] > 0 THEN wait[r] - 1 ELSE 0]
    /\ UNCHANGED <<state, failureCount, successCount, pc, attempt, outcome, lastDelay,
                   errorRun, wins, losses, hinted>>

Answer(r) ==
    \/ Succeeds(r)
    \/ Refused(r)
    \/ RetryStatus(r)
    \/ \E retryable \in BOOLEAN : AttemptFails(r, retryable)

Next ==
    \/ \E r \in Requests : Request(r) \/ Answer(r) \/ Retry(r)
    \/ ResetBreaker
    \/ Tick

Spec == Init /\ [][Next]_vars

(***************************************************************************)
(* An attempt ends in an answer or an error (undici has header and body    *)
(* timeouts), a delay that is over is noticed and time passes.             *)
(***************************************************************************)
Fairness ==
    /\ \A r \in Requests : WF_vars(Answer(r)) /\ WF_vars(Retry(r))
    /\ WF_vars(Tick)

LiveSpec == Spec /\ Fairness

-----------------------------------------------------------------------------
(* Properties *)

TypeOK ==
    /\ BreakerTypeOK
    /\ pc \in [Requests -> {"idle", "flying", "waiting", "done"}]
    /\ attempt \in [Requests -> 0..MaxRetries]
    /\ wait \in [Requests -> 0..MaxRetryDelay]
    /\ outcome \in [Requests -> {"none", "response", "error", "open"}]
    /\ lastDelay \in 0..(RetryDelay + MaxRetryDelay)
    /\ errorRun \in 0..FailureThreshold
    /\ wins \in 0..SuccessThreshold
    /\ losses \in 0..FailureThreshold
    /\ sinceOpen \in 0..BreakerTimeout
    /\ hinted \in BOOLEAN

\* "Open after 5 failures": the circuit is not closed when the last FailureThreshold
\* attempts, of whichever requests, ended in errors.
TripsOnErrors == errorRun >= FailureThreshold => state # "closed"

\* An open circuit does not let a request through before its timeout, counted from
\* the moment it opened; answers that arrive late can only make it longer.
OpenLasts ==
    [][state = "open" /\ state' = "half_open" => sinceOpen >= BreakerTimeout]_vars

\* The circuit opens only after FailureThreshold failures without an ok answer
\* between them, or the first failure of a half-open period, and a half-open circuit
\* closes only after SuccessThreshold ok answers without a failure between them,
\* unless it is reset: what earlier periods counted is forgotten.
TransitionsEarned ==
    [][/\ state = "closed" /\ state' = "open" => losses' >= FailureThreshold
       /\ state = "half_open" /\ state' = "closed" =>
            wins' >= SuccessThreshold \/ ResetBreaker]_vars

\* Whatever the requests of a client do to the delay they share, a decorrelated (or
\* unjittered) delay is at least the base delay, as long as no Retry-After is taken.
BackoffAtLeastBase ==
    [][\A r \in Requests :
        /\ pc[r] = "flying"
        /\ pc'[r] = "waiting"
        /\ ~hinted'
        /\ Jitter \in {"none", "decorrelated"}
        => wait'[r] >= Least(RetryDelay, MaxRetryDelay)]_vars

\* An open circuit will admit a request again (or is reset): the late failures that
\* restart its timeout come to an end because an open circuit admits no new request.
OpenEnds == state = "open" ~> (state # "open" \/ sinceFailure >= BreakerTimeout)

=============================================================================
