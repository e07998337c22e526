SPECIFICATION LiveSpec
CONSTANTS
    q1 = q1
    q2 = q2
    q3 = q3
    q4 = q4
    Requests = {q1, q2, q3, q4}
    Repeatable = {q1, q2}
    FailureThreshold = 2
    SuccessThreshold = 2
    BreakerTimeout = 2
    MaxRetries = 1
    RetryDelay = 1
    RetryBackoff = 2
    MaxRetryDelay = 2
    Jitter = "decorrelated"
    RetryAfters = {0}
    RetryOnException = TRUE
    RetryConfigured = TRUE
    ResetAllowed = TRUE
INVARIANTS
    TypeOK
    TripsOnErrors
PROPERTIES
    OpenLasts
    TransitionsEarned
    BackoffAtLeastBase
    OpenEnds
CHECK_DEADLOCK FALSE
