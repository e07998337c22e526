SPECIFICATION Spec
CONSTANTS
    Reqs = {r1, r2, r3}
    r1 = r1
    r2 = r2
    r3 = r3
    Prio <- MixedPrio
    Options <- FixedOne
    Interval = 2
    TicksPerSecond = 1
    MaxQueueSize = 1
    MaxRetries = 1
    RetryDelay = 1
    BackoffCap = 3
    StatusLimits = {1}
    StatusResets = {2}
    AsyncStore = FALSE
    ClearAllowed = FALSE
    MaxDelay = 4
INVARIANTS
    NoRequestStranded
