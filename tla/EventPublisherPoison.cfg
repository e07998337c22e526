SPECIFICATION LiveSpec
CONSTANTS
    Clients = {c1, c2, c3}
    c1 = c1
    c2 = c2
    c3 = c3
    c4 = c4
    t1 = t1
    t2 = t2
    Script <- MCScript
    TaskOf <- MCTaskOf
    BufferSize = 3
    MaxFailures = 0
    LostAcks = FALSE
    MayShutDown = FALSE
    GraceExpires = FALSE
    MayDelete = {t1}
PROPERTIES
    EventuallyLogged
CHECK_DEADLOCK FALSE
