CONSTANTS
    Task = {t1, t2, t3}
    PriorityCount = 1
    Quota = 1
    PriorityOf <- OnePriority
    c1 = c1
    c2 = c2
    Client = {c1, c2}
    Worker = {w1}
    NoTask = NoTask
    Shapes <- Diamond
    t1 = t1
    t2 = t2
    t3 = t3
    Operations <- LaunchAndCancel
    OwnerOperations = {}
    Orderly = TRUE
SPECIFICATION Spec
INVARIANTS
    CanceledPrerequisiteCancels
CHECK_DEADLOCK FALSE
