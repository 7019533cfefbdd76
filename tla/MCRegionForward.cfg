SPECIFICATION ForwardSpec
CONSTANTS
    Task = {t1, t2}
    RETRY_MAX = 1
    CIRCUIT_THRESHOLD = 2
    CIRCUIT_OPEN_SECS = 2
    MaxCalls = 2
INVARIANTS
    ForwardTypeOK
    AppliedAtMostOnce
    OkMeansStored
    OpenOnlyAfterThreshold
PROPERTY CircuitCloses
CHECK_DEADLOCK FALSE
