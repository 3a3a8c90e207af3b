CONSTANTS
    MAX_GATHERED = 2
    FALLBACK = 2
    Delays = {0, 1}
    MaxTimers = 2
    MaxTime = 3
    SetUntil = 3
    MaxFailures = 2
    MaxHelpers = 2
    NULL = NULL
SPECIFICATION Spec
CHECK_DEADLOCK FALSE
INVARIANT CancelReachesFailedDispatch
