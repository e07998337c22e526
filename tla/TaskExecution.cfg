SPECIFICATION Spec
CONSTANTS
    Requests = {q1, q2, q3}
    q1 = q1
    q2 = q2
    q3 = q3
    t1 = t1
    Tasks = {t1}
    Ops <- AllOps
    Created = {"TODO", "FAILED"}
    Targets = {"PENDING", "RETRYING"}
    Chosen = {}
    RetryLimits = {0, 1}
    MaxActive = 2
    MaxNamed = 1
SYMMETRY RequestSymmetry
INVARIANTS
    TypeOK
    FailuresCounted
    StartedOnceBeforeEnd
    RetryingWithinBudget
    LogTellsStatus
PROPERTIES
    TransitionsLegal
CHECK_DEADLOCK FALSE
