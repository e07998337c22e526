------------------------ MODULE RetryingClient_proof ------------------------
(***************************************************************************)
(* Proofs about RetryingClient, for any number of concurrent requests, any *)
(* thresholds, delays and number of retries: typing, when the circuit      *)
(* opens and closes, and the delays between attempts.                      *)
(***************************************************************************)
EXTENDS RetryingClient, TLAPS

LEMMA ConstantTypes ==
    /\ FailureThreshold \in Nat \ {0} /\ SuccessThreshold \in Nat \ {0}
    /\ BreakerTimeout \in Nat /\ MaxRetries \in Nat /\ RetryDelay \in Nat
    /\ MaxRetryDelay \in Nat /\ RetryAfters \subseteq Nat
BY BreakerAssumption, ClientAssumption

-----------------------------------------------------------------------------
(* Types *)

\* RecordFailure keeps the breaker's fields in their ranges: the count only moves
\* while the circuit is closed, and then it has not reached the threshold.
ClosedBelow == state = "closed" => failureCount < FailureThreshold
ProbesBelow == state = "half_open" => successCount < SuccessThreshold

\* Only a request that has an attempt left waits for it.
RetriesLeft == \A r \in Requests : pc[r] = "waiting" => attempt[r] < MaxRetries

LEMMA FailureType ==
    ASSUME BreakerTypeOK, ClosedBelow, RecordFailure
    PROVE  BreakerTypeOK' /\ ClosedBelow'
BY ConstantTypes DEF BreakerTypeOK, ClosedBelow, RecordFailure, TransitionTo

LEMMA SuccessType ==
    ASSUME BreakerTypeOK, ClosedBelow, ProbesBelow, RecordSuccess
    PROVE  BreakerTypeOK' /\ ClosedBelow' /\ ProbesBelow'
BY ConstantTypes DEF BreakerTypeOK, ClosedBelow, ProbesBelow, RecordSuccess, TransitionTo

LEMMA AllowType ==
    ASSUME BreakerTypeOK, ClosedBelow, ProbesBelow, AllowRequest
    PROVE  BreakerTypeOK' /\ ClosedBelow' /\ ProbesBelow'
BY ConstantTypes DEF BreakerTypeOK, ClosedBelow, ProbesBelow, AllowRequest, TransitionTo

LEMMA FailureProbes ==
    ASSUME BreakerTypeOK, RecordFailure
    PROVE  ProbesBelow'
BY DEF BreakerTypeOK, ProbesBelow, RecordFailure, TransitionTo

TypeInv == TypeOK /\ ClosedBelow /\ ProbesBelow /\ RetriesLeft

LEMMA TypeInit == Init => TypeInv
<1> SUFFICES ASSUME Init PROVE TypeInv
  OBVIOUS
<1>1. BreakerTypeOK /\ ClosedBelow /\ ProbesBelow
  BY ConstantTypes DEF Init, BreakerInit, BreakerTypeOK, ClosedBelow, ProbesBelow
<1>2. /\ attempt \in [Requests -> 0..MaxRetries]
      /\ wait \in [Requests -> 0..MaxRetryDelay]
      /\ lastDelay \in 0..(RetryDelay + MaxRetryDelay)
  BY ConstantTypes DEF Init
<1>3. RetriesLeft
  BY DEF Init, RetriesLeft
<1>4. hinted \in BOOLEAN
  BY Zenon DEF Init
<1>5. /\ pc \in [Requests -> {"idle", "flying", "waiting", "done"}]
      /\ outcome \in [Requests -> {"none", "response", "error", "open"}]
  BY DEF Init
<1>6. /\ errorRun \in 0..FailureThreshold
      /\ wins \in 0..SuccessThreshold
      /\ losses \in 0..FailureThreshold
      /\ sinceOpen \in 0..BreakerTimeout
  BY ConstantTypes DEF Init
<1> QED
  BY <1>1, <1>2, <1>3, <1>4, <1>5, <1>6 DEF TypeInv, TypeOK

LEMMA AwaitType ==
    ASSUME TypeOK, RetriesLeft, NEW r \in Requests, attempt[r] < MaxRetries,
           NEW d \in 0..MaxRetryDelay, Await(r, d)
    PROVE  /\ RetriesLeft'
           /\ pc' \in [Requests -> {"idle", "flying", "waiting", "done"}]
           /\ attempt' \in [Requests -> 0..MaxRetries]
           /\ wait' \in [Requests -> 0..MaxRetryDelay]
           /\ outcome' \in [Requests -> {"none", "response", "error", "open"}]
           /\ lastDelay' \in 0..(RetryDelay + MaxRetryDelay)
BY ConstantTypes DEF TypeOK, Await, RetriesLeft

LEMMA SettleType ==
    ASSUME TypeOK, RetriesLeft, NEW r \in Requests, NEW o \in {"response", "error"},
           Settle(r, o)
    PROVE  /\ RetriesLeft'
           /\ pc' \in [Requests -> {"idle", "flying", "waiting", "done"}]
           /\ attempt' \in [Requests -> 0..MaxRetries]
           /\ wait' \in [Requests -> 0..MaxRetryDelay]
           /\ outcome' \in [Requests -> {"none", "response", "error", "open"}]
           /\ lastDelay' \in 0..(RetryDelay + MaxRetryDelay)
BY DEF TypeOK, Settle, RetriesLeft

\* What NoteFailure remembers, and what other steps do to the history, stays in range.
LEMMA NoteType ==
    ASSUME TypeOK, NoteFailure
    PROVE  /\ wins' \in 0..SuccessThreshold
           /\ losses' \in 0..FailureThreshold
           /\ sinceOpen' \in 0..BreakerTimeout
BY ConstantTypes DEF TypeOK, NoteFailure, Least

LEMMA RequestTypes ==
    ASSUME TypeInv, NEW r \in Requests, Request(r)
    PROVE  TypeInv'
<1>1. /\ pc' \in [Requests -> {"idle", "flying", "waiting", "done"}]
      /\ outcome' \in [Requests -> {"none", "response", "error", "open"}]
      /\ UNCHANGED <<attempt, wait, errorRun, losses, sinceOpen, hinted>>
      /\ wins' \in 0..SuccessThreshold
      /\ lastDelay' \in 0..(RetryDelay + MaxRetryDelay)
      /\ RetriesLeft'
  BY ConstantTypes DEF TypeInv, TypeOK, Request, RetriesLeft
<1>2. BreakerTypeOK' /\ ClosedBelow' /\ ProbesBelow'
  <2>1. AllowRequest \/ UNCHANGED breakerVars
    BY DEF Request
  <2>2. BreakerTypeOK /\ ClosedBelow /\ ProbesBelow
    BY DEF TypeInv, TypeOK
  <2>3. CASE UNCHANGED breakerVars
    BY <2>2, <2>3 DEF breakerVars, BreakerTypeOK, ClosedBelow, ProbesBelow
  <2> QED
    BY <2>1, <2>2, <2>3, AllowType
<1> QED
  BY <1>1, <1>2 DEF TypeInv, TypeOK

LEMMA AnswerTypes ==
    ASSUME TypeInv, NEW r \in Requests, Answer(r)
    PROVE  TypeInv'
<1>0. TypeOK /\ BreakerTypeOK /\ ClosedBelow /\ ProbesBelow /\ RetriesLeft
  BY DEF TypeInv, TypeOK
<1>1. CASE Succeeds(r)
  <2>1. BreakerTypeOK' /\ ClosedBelow' /\ ProbesBelow'
    <3>1. RecordSuccess \/ UNCHANGED breakerVars
      BY <1>1 DEF Succeeds
    <3>2. CASE UNCHANGED breakerVars
      BY <1>0, <3>2 DEF breakerVars, BreakerTypeOK, ClosedBelow, ProbesBelow
    <3> QED
      BY <1>0, <3>1, <3>2, SuccessType
  <2>2. /\ wins' \in 0..SuccessThreshold /\ losses' \in 0..FailureThreshold
        /\ errorRun' = 0 /\ UNCHANGED <<sinceOpen, hinted>> /\ Settle(r, "response")
    BY <1>0, <1>1, ConstantTypes DEF Succeeds, TypeOK, Least
  <2> QED
    BY <1>0, <2>1, <2>2, SettleType, ConstantTypes DEF TypeInv, TypeOK
<1>2. CASE Refused(r)
  <2>1. BreakerTypeOK' /\ ClosedBelow' /\ ProbesBelow'
    BY <1>0, <1>2 DEF Refused, breakerVars, BreakerTypeOK, ClosedBelow, ProbesBelow
  <2>2. /\ errorRun' = 0 /\ UNCHANGED <<wins, losses, sinceOpen, hinted>>
        /\ Settle(r, "response")
    BY <1>2 DEF Refused
  <2> QED
    BY <1>0, <2>1, <2>2, SettleType, ConstantTypes DEF TypeInv, TypeOK
<1>3. CASE RetryStatus(r)
  <2>1. RecordFailure /\ NoteFailure /\ errorRun' = 0
    BY <1>3 DEF RetryStatus
  <2>2. /\ attempt[r] < MaxRetries
        /\ \E d \in 0..MaxRetryDelay : Await(r, d)
    <3>1. \A a \in RetryAfters : Least(a, MaxRetryDelay) \in 0..MaxRetryDelay
      BY ConstantTypes DEF Least
    <3> QED
      BY <1>3, <3>1 DEF RetryStatus, MayRetry, Delays
  <2>3. hinted' \in BOOLEAN
    BY <1>0, <1>3 DEF RetryStatus, TypeOK
  <2>4. BreakerTypeOK' /\ ClosedBelow' /\ ProbesBelow'
    BY <1>0, <2>1, FailureType, FailureProbes
  <2> QED
    BY <1>0, <2>1, <2>2, <2>3, <2>4, AwaitType, NoteType, ConstantTypes DEF TypeInv, TypeOK
<1>4. ASSUME NEW retryable \in BOOLEAN, AttemptFails(r, retryable)
      PROVE  TypeInv'
  <2>1. /\ errorRun' \in 0..FailureThreshold
        /\ hinted' = hinted
    BY <1>0, <1>4, ConstantTypes DEF AttemptFails, TypeOK, Least
  <2>2. \/ attempt[r] < MaxRetries /\ \E d \in 0..MaxRetryDelay : Await(r, d)
        \/ Settle(r, "error")
    BY <1>4 DEF AttemptFails, MayRetry, Delays
  <2>3. \/ RecordFailure /\ NoteFailure
        \/ UNCHANGED <<breakerVars, wins, losses, sinceOpen>>
    BY <1>4 DEF AttemptFails
  <2>4. /\ BreakerTypeOK' /\ ClosedBelow' /\ ProbesBelow'
        /\ wins' \in 0..SuccessThreshold
        /\ losses' \in 0..FailureThreshold
        /\ sinceOpen' \in 0..BreakerTimeout
    <3>1. CASE UNCHANGED <<breakerVars, wins, losses, sinceOpen>>
      BY <1>0, <3>1 DEF breakerVars, TypeOK, BreakerTypeOK, ClosedBelow, ProbesBelow
    <3> QED
      BY <1>0, <2>3, <3>1, FailureType, FailureProbes, NoteType
  <2> QED
    BY <1>0, <2>1, <2>2, <2>4, AwaitType, SettleType DEF TypeInv, TypeOK
<1> QED
  BY <1>1, <1>2, <1>3, <1>4 DEF Answer

LEMMA TypeStep == TypeInv /\ [Next]_vars => TypeInv'
<1> SUFFICES ASSUME TypeInv, [Next]_vars PROVE TypeInv'
  OBVIOUS
<1>1. ASSUME NEW r \in Requests, Request(r) PROVE TypeInv'
  BY <1>1, RequestTypes
<1>2. ASSUME NEW r \in Requests, Answer(r) PROVE TypeInv'
  BY <1>2, AnswerTypes
<1>3. ASSUME NEW r \in Requests, Retry(r) PROVE TypeInv'
  <2>1. attempt[r] < MaxRetries /\ attempt[r] \in 0..MaxRetries
    BY <1>3 DEF Retry, TypeInv, TypeOK, RetriesLeft
  <2>2. attempt' \in [Requests -> 0..MaxRetries] /\ RetriesLeft'
    BY <1>3, <2>1, ConstantTypes DEF Retry, TypeInv, TypeOK, RetriesLeft
  <2> QED
    BY <1>3, <2>2 DEF Retry, TypeInv, TypeOK, BreakerTypeOK, ClosedBelow, ProbesBelow,
       breakerVars, historyVars
<1>4. CASE ResetBreaker
  BY <1>4, ConstantTypes DEF ResetBreaker, ResetCircuit, TypeInv, TypeOK, BreakerTypeOK,
     ClosedBelow, ProbesBelow, RetriesLeft, loopVars
<1>5. CASE Tick
  BY <1>5, ConstantTypes DEF Tick, Least, TypeInv, TypeOK, BreakerTypeOK, ClosedBelow,
     ProbesBelow, RetriesLeft
<1>6. CASE UNCHANGED vars
  BY <1>6 DEF vars, loopVars, historyVars, breakerVars, TypeInv, TypeOK, BreakerTypeOK,
     ClosedBelow, ProbesBelow, RetriesLeft
<1> QED
  BY <1>1, <1>2, <1>3, <1>4, <1>5, <1>6 DEF Next

\* Every reachable state of the client and its breaker is well typed: no request is
\* sent more than MaxRetries + 1 times, no delay exceeds MaxRetryDelay, and the
\* breaker's counts stay within their thresholds.
THEOREM TypeCorrect == Spec => []TypeOK
<1>1. TypeInv => TypeOK
  BY DEF TypeInv
<1> QED
  BY <1>1, TypeInit, TypeStep, PTL DEF Spec

-----------------------------------------------------------------------------
(* When the circuit opens and closes *)

\* What the breaker counts against what really happened: its counts are never ahead
\* of the history that the properties speak of, nor its clock behind.
CountsReal ==
    /\ state = "closed" => failureCount <= losses
    /\ state = "closed" /\ RetryConfigured => errorRun <= failureCount
    /\ state = "half_open" => successCount <= wins
    /\ state = "open" => sinceFailure <= sinceOpen

LEMMA CountsInit == Init => CountsReal
BY DEF Init, BreakerInit, CountsReal

LEMMA CountsFailure ==
    ASSUME TypeInv, CountsReal, RecordFailure, NoteFailure,
           errorRun' = 0 \/ errorRun' = Least(errorRun + 1, FailureThreshold)
    PROVE  /\ CountsReal'
           /\ state = "closed" /\ state' = "open" => losses' >= FailureThreshold
           /\ state = "half_open" => state' = "open"
           /\ state = "open" => state' = "open"
BY ConstantTypes DEF TypeInv, TypeOK, BreakerTypeOK, ClosedBelow, CountsReal,
   RecordFailure, NoteFailure, TransitionTo, Least

LEMMA CountsSuccess ==
    ASSUME TypeInv, CountsReal, NEW r \in Requests, Succeeds(r)
    PROVE  /\ CountsReal'
           /\ state \in {"closed", "open"} => state' = state
           /\ state' # "open" \/ state = "open"
           /\ state = "half_open" /\ state' = "closed" => wins' >= SuccessThreshold
<1>1. CASE RetryConfigured
  BY <1>1, ConstantTypes DEF TypeInv, TypeOK, BreakerTypeOK, ProbesBelow, CountsReal,
     Succeeds, RecordSuccess, TransitionTo, Least
<1>2. CASE ~RetryConfigured
  BY <1>2 DEF TypeInv, TypeOK, BreakerTypeOK, CountsReal, Succeeds, breakerVars
<1> QED
  BY <1>1, <1>2

\* What one step may do to the circuit.
Earned ==
    /\ state = "closed" /\ state' = "open" => losses' >= FailureThreshold
    /\ state = "half_open" /\ state' = "closed" => wins' >= SuccessThreshold \/ ResetBreaker
Lasts == state = "open" /\ state' = "half_open" => sinceOpen >= BreakerTimeout

LEMMA CountsStep == TypeInv /\ CountsReal /\ [Next]_vars => CountsReal' /\ Earned /\ Lasts
<1> SUFFICES ASSUME TypeInv, CountsReal, [Next]_vars PROVE CountsReal' /\ Earned /\ Lasts
  OBVIOUS
<1> USE DEF Earned, Lasts
<1>1. ASSUME NEW r \in Requests, Request(r) PROVE CountsReal' /\ Earned /\ Lasts
  <2>1. CASE UNCHANGED <<breakerVars, wins>>
    BY <1>1, <2>1 DEF Request, CountsReal, breakerVars
  <2>2. CASE MayPass /\ AllowRequest /\ wins' = IF state = "open" THEN 0 ELSE wins
    BY <1>1, <2>2, ConstantTypes DEF Request, MayPass, AllowRequest, TransitionTo, CountsReal,
       TypeInv, TypeOK, BreakerTypeOK
  <2> QED
    BY <1>1, <2>1, <2>2 DEF Request
<1>2. ASSUME NEW r \in Requests, Succeeds(r) PROVE CountsReal' /\ Earned /\ Lasts
  BY <1>2, CountsSuccess DEF TypeInv, TypeOK, BreakerTypeOK
<1>3. ASSUME NEW r \in Requests, Refused(r) PROVE CountsReal' /\ Earned /\ Lasts
  BY <1>3 DEF Refused, CountsReal, breakerVars, TypeInv, TypeOK, BreakerTypeOK
<1>4. ASSUME NEW r \in Requests, RetryStatus(r) PROVE CountsReal' /\ Earned /\ Lasts
  BY <1>4, CountsFailure DEF RetryStatus, TypeInv, TypeOK, BreakerTypeOK
<1>5. ASSUME NEW r \in Requests, NEW retryable \in BOOLEAN, AttemptFails(r, retryable)
      PROVE  CountsReal' /\ Earned /\ Lasts
  <2>1. CASE RetryConfigured
    BY <1>5, <2>1, CountsFailure DEF AttemptFails, TypeInv, TypeOK, BreakerTypeOK
  <2>2. CASE ~RetryConfigured
    BY <1>5, <2>2 DEF AttemptFails, CountsReal, breakerVars
  <2> QED
    BY <2>1, <2>2
<1>6. ASSUME NEW r \in Requests, Retry(r) PROVE CountsReal' /\ Earned /\ Lasts
  BY <1>6 DEF Retry, CountsReal, breakerVars, historyVars
<1>7. CASE ResetBreaker
  BY <1>7 DEF ResetBreaker, ResetCircuit, CountsReal
<1>8. CASE Tick
  BY <1>8, ConstantTypes DEF Tick, CountsReal, Least, TypeInv, TypeOK, BreakerTypeOK
<1>9. CASE UNCHANGED vars
  BY <1>9 DEF vars, historyVars, breakerVars, CountsReal
<1> QED
  BY <1>1, <1>2, <1>3, <1>4, <1>5, <1>6, <1>7, <1>8, <1>9 DEF Next, Answer

\* With options.retry, FailureThreshold errors in a row leave the circuit open,
\* whichever requests they were attempts of and however these overlap.
THEOREM ErrorsTrip ==
    ASSUME RetryConfigured
    PROVE  Spec => []TripsOnErrors
<1>1. TypeInv /\ CountsReal => TripsOnErrors
  BY RetryConfigured, ConstantTypes
     DEF TypeInv, TypeOK, BreakerTypeOK, ClosedBelow, CountsReal, TripsOnErrors
<1>2. TypeInv /\ CountsReal /\ [Next]_vars => TypeInv' /\ CountsReal'
  BY TypeStep, CountsStep
<1> QED
  BY <1>1, <1>2, TypeInit, CountsInit, PTL DEF Spec

\* The circuit only opens and only closes on what its thresholds ask for.
THEOREM CircuitEarned == Spec => TransitionsEarned
<1>1. TypeInv /\ CountsReal /\ [Next]_vars => TypeInv' /\ CountsReal' /\ [Earned]_vars
  BY TypeStep, CountsStep
<1> QED
  BY <1>1, TypeInit, CountsInit, PTL DEF Spec, TransitionsEarned, Earned

\* An open circuit stays open for at least its timeout.
THEOREM OpenHolds == Spec => OpenLasts
<1>1. TypeInv /\ CountsReal /\ [Next]_vars => TypeInv' /\ CountsReal' /\ [Lasts]_vars
  BY TypeStep, CountsStep
<1> QED
  BY <1>1, TypeInit, CountsInit, PTL DEF Spec, OpenLasts, Lasts

-----------------------------------------------------------------------------
(* Delays *)

Base == Least(RetryDelay, MaxRetryDelay)
Bounded == Jitter \in {"none", "decorrelated"}

\* The delay the requests share never falls below the base delay. A decorrelated
\* delay needs this: three times the last one bounds it from the other side.
SharedDelay == ~hinted /\ Bounded => lastDelay >= Base

LEMMA DelayInit == Init => SharedDelay
BY ConstantTypes DEF Init, SharedDelay, Base, Least

LEMMA DelaysAboveBase ==
    ASSUME TypeOK, SharedDelay, ~hinted, Bounded,
           NEW n \in 0..MaxRetries, NEW d \in Delays(n)
    PROVE  d >= Base
<1>1. /\ RetryDelay \in Nat /\ MaxRetryDelay \in Nat /\ lastDelay \in Nat /\ d \in Nat
      /\ lastDelay >= Base
  BY ConstantTypes DEF TypeOK, SharedDelay, Delays
<1>2. CASE Jitter = "none"
  <2>1. RetryBackoff ^ n \in Nat \ {0}
    BY ClientAssumption
  <2> DEFINE p == RetryBackoff ^ n
             q == RetryDelay * p
  <2>2. p \in Nat \ {0}
    BY <2>1
  <2>3. d = Least(q, MaxRetryDelay)
    BY <1>2 DEF Delays, Capped
  <2> HIDE DEF p
  <2>4. q \in Nat /\ q >= RetryDelay
    BY <1>1, <2>2, Z3
  <2> HIDE DEF q
  <2> QED
    BY <1>1, <2>3, <2>4 DEF Base, Least
<1>3. CASE Jitter = "decorrelated"
  <2>1. PICK e \in (RetryDelay..3 * lastDelay) \cup (3 * lastDelay..RetryDelay) :
          d = Least(e, MaxRetryDelay)
    BY <1>3 DEF Delays
  <2> QED
    BY <1>1, <2>1 DEF Base, Least
<1> QED
  BY <1>2, <1>3 DEF Bounded

\* A step that starts a wait, and the delay it leaves behind.
LEMMA DelayStep ==
    ASSUME TypeInv, SharedDelay, [Next]_vars
    PROVE  /\ SharedDelay'
           /\ \A r \in Requests :
                pc[r] = "flying" /\ pc'[r] = "waiting" /\ ~hinted' /\ Bounded =>
                    wait'[r] >= Base
<1>0. /\ pc \in [Requests -> {"idle", "flying", "waiting", "done"}]
      /\ wait \in [Requests -> 0..MaxRetryDelay]
      /\ attempt \in [Requests -> 0..MaxRetries]
      /\ RetryDelay \in Nat /\ MaxRetryDelay \in Nat
  BY ConstantTypes DEF TypeInv, TypeOK
<1> DEFINE Kept == /\ UNCHANGED <<lastDelay, hinted>>
                   /\ \A r \in Requests : pc'[r] = "waiting" => pc[r] = "waiting"
<1>1. CASE Kept
  BY <1>1 DEF SharedDelay
<1>2. ASSUME NEW r \in Requests, Request(r)
      PROVE  /\ SharedDelay'
             /\ \A q \in Requests : pc'[q] = "waiting" => pc[q] = "waiting"
  BY <1>0, <1>2 DEF Request, SharedDelay, Base, Least
<1>3. ASSUME NEW r \in Requests, NEW d \in 0..MaxRetryDelay, Await(r, d),
             hinted' \/ (hinted' = hinted /\ d \in Delays(attempt[r]))
      PROVE  /\ SharedDelay'
             /\ \A q \in Requests :
                  pc[q] = "flying" /\ pc'[q] = "waiting" /\ ~hinted' /\ Bounded =>
                      wait'[q] >= Base
  <2>1. ~hinted' /\ Bounded => d >= Base
    BY <1>0, <1>3, DelaysAboveBase DEF TypeInv
  <2>2. /\ lastDelay' = d /\ wait'[r] = d
        /\ \A q \in Requests : q # r => pc'[q] = pc[q]
    BY <1>0, <1>3 DEF Await
  <2> QED
    BY <2>1, <2>2 DEF SharedDelay
<1>4. ASSUME NEW r \in Requests, RetryStatus(r)
      PROVE  \E d \in 0..MaxRetryDelay :
                Await(r, d) /\ (hinted' \/ (hinted' = hinted /\ d \in Delays(attempt[r])))
  <2>1. \A a \in RetryAfters : Least(a, MaxRetryDelay) \in 0..MaxRetryDelay
    BY ConstantTypes DEF Least
  <2>2. Delays(attempt[r]) \subseteq 0..MaxRetryDelay
    BY DEF Delays
  <2>3. CASE \E d \in Delays(attempt[r]) : Await(r, d) /\ UNCHANGED hinted
    <3>1. PICK d \in Delays(attempt[r]) : Await(r, d) /\ UNCHANGED hinted
      BY <2>3
    <3>2. d \in 0..MaxRetryDelay /\ hinted' = hinted
      BY <2>2, <3>1
    <3> QED
      BY <3>1, <3>2, Zenon
  <2>4. CASE \E a \in RetryAfters : Await(r, Least(a, MaxRetryDelay)) /\ hinted' = TRUE
    <3>1. PICK a \in RetryAfters : Await(r, Least(a, MaxRetryDelay)) /\ hinted' = TRUE
      BY <2>4
    <3>2. hinted'
      BY <3>1, Zenon
    <3>3. Least(a, MaxRetryDelay) \in 0..MaxRetryDelay
      BY <2>1
    <3> QED
      BY <3>1, <3>2, <3>3, Zenon
  <2> QED
    BY <1>4, <2>3, <2>4 DEF RetryStatus
<1>5. ASSUME NEW r \in Requests, Succeeds(r) \/ Refused(r) PROVE Kept
  BY <1>0, <1>5 DEF Succeeds, Refused, Settle
<1>6. ASSUME NEW r \in Requests, NEW retryable \in BOOLEAN, AttemptFails(r, retryable)
      PROVE  \/ Kept
             \/ \E d \in 0..MaxRetryDelay :
                    Await(r, d) /\ hinted' = hinted /\ d \in Delays(attempt[r])
  <2>1. Delays(attempt[r]) \subseteq 0..MaxRetryDelay
    BY DEF Delays
  <2> QED
    BY <1>0, <1>6, <2>1 DEF AttemptFails, Settle
<1>7. ASSUME NEW r \in Requests, Retry(r) PROVE Kept
  BY <1>0, <1>7 DEF Retry, historyVars
<1>8. ASSUME ResetBreaker \/ Tick \/ UNCHANGED vars PROVE Kept
  BY <1>8 DEF ResetBreaker, Tick, vars, loopVars, historyVars, Kept
<1> HIDE DEF Kept
<1>9. ASSUME NEW r \in Requests, Answer(r) PROVE
          \/ Kept
          \/ \E d \in 0..MaxRetryDelay :
                Await(r, d) /\ (hinted' \/ (hinted' = hinted /\ d \in Delays(attempt[r])))
  BY <1>4, <1>5, <1>6, <1>9 DEF Answer
<1>10. CASE \E r \in Requests : Request(r)
  BY <1>2, <1>10
<1>11. CASE \E r \in Requests : Answer(r)
  <2>1. PICK r \in Requests : Answer(r)
    BY <1>11
  <2>2. CASE \E d \in 0..MaxRetryDelay :
               Await(r, d) /\ (hinted' \/ (hinted' = hinted /\ d \in Delays(attempt[r])))
    <3>1. PICK d \in 0..MaxRetryDelay :
               Await(r, d) /\ (hinted' \/ (hinted' = hinted /\ d \in Delays(attempt[r])))
      BY <2>2
    <3> QED
      BY <1>3, <3>1
  <2> QED
    BY <1>1, <1>9, <2>1, <2>2
<1>12. CASE \E r \in Requests : Retry(r)
  BY <1>1, <1>7, <1>12
<1> QED
  BY <1>1, <1>8, <1>10, <1>11, <1>12 DEF Next

\* However the delays of concurrent requests mix in the field they share, none is
\* shorter than the base delay before the origin has asked for one.
THEOREM BackoffFromBase == Spec => BackoffAtLeastBase
<1> DEFINE Waits == \A r \in Requests :
                /\ pc[r] = "flying"
                /\ pc'[r] = "waiting"
                /\ ~hinted'
                /\ Jitter \in {"none", "decorrelated"}
                => wait'[r] >= Least(RetryDelay, MaxRetryDelay)
<1>1. TypeInv /\ SharedDelay /\ [Next]_vars => TypeInv' /\ SharedDelay' /\ [Waits]_vars
  BY TypeStep, DelayStep DEF Bounded, Base
<1> QED
  BY <1>1, TypeInit, DelayInit, PTL DEF Spec, BackoffAtLeastBase

=============================================================================
