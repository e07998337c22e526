SPECIFICATION LiveSpec
CONSTANTS
    Reqs = {r1, r2, r3}
    r1 = r1
    r2 = r2
    r3 = r3
    Prio <- MixedPrio
    Options <- FixedTwo
    Interval = 3
    TicksPerSecond = 2
    MaxQueueSize = 3
    MaxRetries = 1
    RetryDelay = 1
    BackoffCap = 3
    StatusLimits = {1}
    StatusResets = {2}
    AsyncStore = FALSE
    ClearAllowed = FALSE
    MaxDelay = 5
INVARIANTS
    TypeOK
    NoRequestStranded
    QuotaUpToResets
PROPERTIES
    EverySettled
