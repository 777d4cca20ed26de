CONSTANTS
    Table = {t1, t2}
    BindingSet = {s1}
    InitialSize = 3
    PowersOfTwo = {1, 2, 4, 8}
    MaxCapacity = 3
    None = None
SYMMETRY Symmetry
VIEW View
SPECIFICATION Spec
INVARIANTS
    DescriptorsOwned
    ContentsKept
