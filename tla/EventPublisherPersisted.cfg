SPECIFICATION Spec
CONSTANTS
    Clients = {c1, c2, c3}
    c1 = c1
    c2 = c2
    c3 = c3
    c4 = c4
    t1 = t1
    t2 = t2
    Script <- MCScript
    TaskOf <- MCTaskOf
    BufferSize = 2
    MaxFailures = 1
    LostAcks = FALSE
    MayShutDown = FALSE
    GraceExpires = FALSE
    MayDelete = {}
INVARIANTS
    PersistedWhenAnswered
CHECK_DEADLOCK FALSE
