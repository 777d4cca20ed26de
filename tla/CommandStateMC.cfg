CONSTANTS
    g1 = g1
    g2 = g2
    m1 = m1
    c1 = c1
    f1 = f1
    f2 = f2
    s1 = s1
    s2 = s2
    s3 = s3
    t1 = t1
    t2 = t2
    b1 = b1
    b2 = b2
    red = red
    blue = blue
    None = None
    Pipeline <- MCPipeline
    KindOf <- MCKindOf
    Signature <- MCSignature
    NeedsBlendFactor = {g2, m1}
    Color = {red, blue}
    FrameBuffer = {f1, f2}
    HasRateImage = {f1}
    Set = {s1, s2, s3}
    Table = {t1}
    VolatileOf <- MCVolatileOf
    Buffer = {b1, b2}
    State <- MCState
    MaxWrites <- MCMaxWrites
    MaxGrowths = 1
VIEW View
SPECIFICATION Spec
INVARIANTS
    DrawSeesState
    DrawSeesBindings
    DrawSeesVolatile
