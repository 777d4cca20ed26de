CONSTANTS
    Thread = {t1, t2}
    Slot = {a, b}
    Object = {o1, o2}
    None = None
    AttachAliases = 1
SPECIFICATION Spec
SYMMETRY Symmetry
INVARIANTS
    HeldStaysAlive
    ControlOutlivesWeak
    NothingLeaks
CHECK_DEADLOCK FALSE
