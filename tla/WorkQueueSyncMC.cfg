CONSTANTS
    Task <- MCTask
    PriorityCount = 2
    Quota = 2
    PriorityOf <- MCPriorityOf
    Pusher = {p1, p2}
    Popper = {w1, w2}
    NoThread = NoThread
SPECIFICATION SyncSpec
INVARIANTS
    NobodySleepsThroughStop
PROPERTIES
    EveryPushIsPopped
CHECK_DEADLOCK FALSE
