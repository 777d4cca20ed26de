CONSTANTS
    MaxRunLength = 3
    DataHeaderSize = 2
    MaxAlignment = 8
    t1 = t1
    t2 = t2
    Threads = {t1, t2}
    Names = {"base"}
    Scopes <- MCScopes
    Priorities = {0, 1}
SPECIFICATION Spec
SYMMETRY Symmetry
VIEW LiveView
INVARIANTS
    BuiltPacksMount
    FindAnswersTruly
    AssetsAsAdded
    ReadsWhatWasAdded
