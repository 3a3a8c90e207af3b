CONSTANTS
    Threads = {t1, t2}
    MaxFutures = 2
    Index = {i1, i2, i3}
    TRAP = TRAP
    NONE = NONE
SYMMETRY Symmetry
SPECIFICATION AsyncSpec
CHECK_DEADLOCK FALSE
INVARIANT
    GlobalsAreOwn
