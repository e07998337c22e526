SPECIFICATION LiveSpec
CONSTANTS
    Clients = {c1, c2, c3, c4}
    c1 = c1
    c2 = c2
    c3 = c3
    c4 = c4
    t1 = t1
    t2 = t2
    Script <- MCScript
    TaskOf <- MCTaskOf
    BufferSize = 2
    MaxFailures = 1
    LostAcks = FALSE
    MayShutDown = TRUE
    GraceExpires = FALSE
    MayDelete = {}
INVARIANTS
    NoEventTwice
    NothingLostAtExit
PROPERTIES
    EventuallyLogged
CHECK_DEADLOCK FALSE
