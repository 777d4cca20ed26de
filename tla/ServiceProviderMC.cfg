CONSTANTS
    a = a
    b = b
    c = c
    Id <- Services
    Instance = {i1, i2, i3, i4, i5}
    Room = 4
    Wirings <- SomeWirings
    None = None

SPECIFICATION FairSpec

INVARIANTS
    SingletonUnique
    GetServiceDecides
PROPERTIES
    CleanAllReturns
    CleanAllLeavesHeld
