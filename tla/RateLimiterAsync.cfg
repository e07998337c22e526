SPECIFICATION Spec
CONSTANTS
    Reqs = {r1, r2, r3}
    r1 = r1
    r2 = r2
    r3 = r3
    Prio <- MixedPrio
    Options <- AnyMode
    Interval = 2
    TicksPerSecond = 1
    MaxQueueSize = 2
    MaxRetries = 1
    RetryDelay = 1
    BackoffCap = 3
    StatusLimits = {2}
    StatusResets = {2}
    AsyncStore = TRUE
    ClearAllowed = TRUE
    MaxDelay = 4
INVARIANTS
    NoStall
    OnePlace
    UsageWithinQuota
PROPERTIES
    SettledOnce
    PriorityRespected
