SPECIFICATION LiveSpec
CONSTANTS
    Clients = {c1, c2, c3}
    c1 = c1
    c2 = c2
    c3 = c3
    c4 = c4
    t1 = t1
    t2 = t2
    Script <- MCScript
    TaskOf <- MCTaskOf
    BufferSize = 2
    MaxFailures = 2
    LostAcks = TRUE
    MayShutDown = TRUE
    GraceExpires = TRUE
    MayDelete = {t1}
INVARIANTS
    TypeOK
    NoEventForgotten
    OrderKept
PROPERTIES
    ShutsDown
    KeepsPromise
CHECK_DEADLOCK FALSE
