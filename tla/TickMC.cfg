CONSTANTS
    a = a
    b = b
    c = c
    d = d
    g = g
    Function = {a, b, c, d}
    Group = {g}
    TypeOf <- OneGroup
    Interval <- EveryOther
    Links <- Branches
    Worker = {w1, w2, w3}
    Grain = 1
    MaxFrames = 2
    None = None
SPECIFICATION FairSpec
INVARIANTS
    TreesConsistent
    ParentFirst
    FrameVisitsTrees
    QueuedFunctionsLive
PROPERTIES
    FrameCompletes
CHECK_DEADLOCK FALSE
