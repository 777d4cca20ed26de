CONSTANTS
    Task = {t1, t2, t3}
    PriorityCount = 1
    Quota = 1
    PriorityOf <- OnePriority
    c1 = c1
    c2 = c2
    Client = {c1, c2}
    Worker = {w1, w2}
    NoTask = NoTask
    Shapes <- Loops
    t1 = t1
    t2 = t2
    t3 = t3
    Operations <- LoopAndLaunch
    OwnerOperations = {"terminate", "restart"}
    Orderly = TRUE
SPECIFICATION FairSpec
INVARIANTS
    TerminateDrains
PROPERTIES
    TerminateReturns
CHECK_DEADLOCK FALSE
