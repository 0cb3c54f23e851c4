CONSTANTS
    k = k
    Key = {k}
    MaxValue = 2
    MAX_QUEUE = 1
    MAX_QUARANTINE = 6
    MAX_PUSH_BATCH = 2
    MAX_ATTEMPTS = 2
    Writes <- mcCounts
    Statuses = {0, 401, 500}
    Poison <- mcPoison
    MaxOps = 2
    MaxFailures = 2
    MaxRestarts = 1
    LateArrivals = TRUE
    UserRetries = TRUE
    LocalMayFail = FALSE
    CopyMayFail = TRUE
SPECIFICATION Spec
INVARIANTS
    CountedOnce
    NothingDropped
CHECK_DEADLOCK FALSE
