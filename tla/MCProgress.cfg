CONSTANTS
    NumPartitions = 3
    PARTITION_SIZE = 2
    NumFields = 2
    SLICE_INCREMENT = 1
    EvacuationReserve = 1
    Roots = {r1}
    TransientRoots = {r1}
    MaxRegisters = 2
    NULL_POINTER = NULL_POINTER
    MaxOperations = 5
    MAX_GATHERED = 1
    FALLBACK = 2
    Delays = {1}
    MaxTimers = 2
    MaxTime = 2
    SetUntil = 1
    MaxFailures = 1
    MaxHelpers = 2
    NULL = NULL
    Sequences = {s1, s2}
    CopyUnits = 2
    MaxCalls = 1
    MaxChanges = 2
    MaxUpgrades = 2
    Threads = {t1}
    MaxFutures = 2
    Index = {i1, i2}
    TRAP = TRAP
    NONE = NONE
SPECIFICATION PartFairSpec
CHECK_DEADLOCK FALSE
INVARIANTS
    StateSurvives
PROPERTIES
    RunCompletes
    OneShotRuns
    CallsAnswered
    ThreadsEnd
