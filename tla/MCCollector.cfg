CONSTANTS
    NumPartitions = 3
    PARTITION_SIZE = 2
    NumFields = 1
    SLICE_INCREMENT = 1
    EvacuationReserve = 1
    Roots = {r1}
    TransientRoots = {r1}
    MaxRegisters = 2
    NULL_POINTER = NULL_POINTER
    MaxOperations = 7
    Threads = {t1, t2}
    MaxFutures = 2
    Index = {i1, i2}
    TRAP = TRAP
    NONE = NONE
    MAX_GATHERED = 2
    FALLBACK = 2
    Delays = {0, 1, 2}
    MaxTimers = 4
    MaxTime = 3
    SetUntil = 3
    MaxFailures = 3
    MaxHelpers = 2
    NULL = NULL
SPECIFICATION CollectorSpec
CHECK_DEADLOCK FALSE
INVARIANTS
    NoDangling
    SnapshotAtTheBeginning
    MarkedAfterMarking
    WeakRefIsLiveAgrees
    GarbageNotMarked
    TableHoldsOutstanding
    NoneStranded
    TrapNotCaught
    RefundOfAwaited
    NoTimerLost
    CancelIsFinal
    Armed
PROPERTY ImplementsHeap
