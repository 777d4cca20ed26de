CONSTANTS
    g = g
    c = c
    l1 = l1
    l2 = l2
    l3 = l3
    b = b
    tex = tex
    r = r
    s = s
    t = t
    e = e
    Queues <- QueueOrder
    List = {l1, l2, l3}
    QueueOf <- QueueOfList
    Buffer = {b}
    Texture = {tex}
    StagingBuffer = {r}
    StagingTexture = {s}
    Timer = {t}
    Event = {e}
    UsedOn <- UsedOnQueue
    Starts <- SomeStarts
    Sizes = {1, 9}
    Alignment = 2
    TextureAlignment = 4
    ChunkAlignment = 8
    ChunkSize = 6
    ScratchLimit = 8
    None = None

SPECIFICATION FairSpec

INVARIANTS
    RegionsIntact
    PendingKept
    ReadbackFinished

PROPERTIES
    IdleCollectsAll
    EveryWaitEnds

CHECK_DEADLOCK FALSE
