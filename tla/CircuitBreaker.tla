--------------------------- MODULE CircuitBreaker ---------------------------
(***************************************************************************)
(* The CircuitBreaker of packages_mjs/fetch_undici: its fields, and one    *)
(* action per method. The methods are synchronous; who calls them, and     *)
(* when, is up to the module that extends this one.                        *)
(***************************************************************************)
EXTENDS Integers

CONSTANTS
    FailureThreshold,
    SuccessThreshold,
    BreakerTimeout      \* config.timeout, in ticks

ASSUME BreakerAssumption ==
    /\ FailureThreshold \in Nat \ {0}
    /\ SuccessThreshold \in Nat \ {0}
    /\ BreakerTimeout \in Nat

VARIABLES
    state,              \* "closed", "open", "half_open"
    failureCount,
    successCount,
    sinceFailure        \* Date.now() - _lastFailureTime, kept at BreakerTimeout

breakerVars == <<state, failureCount, successCount, sinceFailure>>

BreakerInit ==
    /\ state = "closed"
    /\ failureCount = 0
    /\ successCount = 0
    /\ sinceFailure = BreakerTimeout

\* Mutant: closing the circuit leaves the failures of the last time in place.
TransitionTo_KeepsCount(s) ==
    /\ state' = s
    /\ UNCHANGED failureCount
    /\ successCount' = IF s = "open" THEN successCount ELSE 0

\* Mutant: the successes of an earlier recovery still count.
TransitionTo_KeepsSuccesses(s) ==
    /\ state' = s
    /\ failureCount' = IF s = "closed" THEN 0 ELSE failureCount
    /\ successCount' = IF s = "closed" THEN 0 ELSE successCount

TransitionTo(s) ==
    /\ state' = s
    /\ failureCount' = IF s = "closed" THEN 0 ELSE failureCount
    /\ successCount' = IF s = "open" THEN successCount ELSE 0

\* allowRequest() returns true; an open circuit becomes half-open by it.
MayPass == state = "open" => sinceFailure >= BreakerTimeout
AllowRequest ==
    /\ IF state = "open" THEN TransitionTo("half_open")
                         ELSE UNCHANGED <<state, failureCount, successCount>>
    /\ UNCHANGED sinceFailure

RecordSuccess ==
    /\ \/ /\ state = "half_open"
          /\ IF successCount + 1 >= SuccessThreshold
             THEN TransitionTo("closed")
             ELSE successCount' = successCount + 1 /\ UNCHANGED <<state, failureCount>>
       \/ /\ state = "closed"
          /\ failureCount' = 0
          /\ UNCHANGED <<state, successCount>>
       \/ /\ state = "open"
          /\ UNCHANGED <<state, failureCount, successCount>>
    /\ UNCHANGED sinceFailure

\* Mutant: the time of the failure is only taken while the circuit is closed.
RecordFailure_OldTime ==
    /\ sinceFailure' = IF state = "closed" THEN 0 ELSE sinceFailure
    /\ \/ state = "half_open" /\ TransitionTo("open")
       \/ /\ state = "closed"
          /\ failureCount' = failureCount + 1
          /\ state' = IF failureCount' >= FailureThreshold THEN "open" ELSE "closed"
          /\ UNCHANGED successCount
       \/ state = "open" /\ UNCHANGED <<state, failureCount, successCount>>

\* A failure always restarts the timeout, that of an open circuit too.
RecordFailure ==
    /\ sinceFailure' = 0
    /\ \/ state = "half_open" /\ TransitionTo("open")
       \/ /\ state = "closed"
          /\ failureCount' = failureCount + 1
          /\ state' = IF failureCount' >= FailureThreshold THEN "open" ELSE "closed"
          /\ UNCHANGED successCount
       \/ state = "open" /\ UNCHANGED <<state, failureCount, successCount>>

\* reset()
ResetCircuit ==
    /\ state' = "closed"
    /\ failureCount' = 0
    /\ successCount' = 0
    /\ sinceFailure' = BreakerTimeout

BreakerTypeOK ==
    /\ state \in {"closed", "open", "half_open"}
    /\ failureCount \in 0..FailureThreshold
    /\ successCount \in 0..SuccessThreshold
    /\ sinceFailure \in 0..BreakerTimeout

=============================================================================
