CONSTANTS
    k = k
    Key = {k}
    MaxValue = 2
    MAX_QUEUE = 3
    MAX_QUARANTINE = 3
    MAX_PUSH_BATCH = 2
    MAX_ATTEMPTS = 2
    Writes <- mcValues
    Statuses = {0, 400, 500}
    Poison <- mcPoison
    MaxOps = 3
    MaxFailures = 2
    MaxRestarts = 1
    LateArrivals = FALSE
    UserRetries = FALSE
    LocalMayFail = FALSE
    CopyMayFail = FALSE
SPECIFICATION FairSpec
INVARIANTS
    ProgressKept
    NewestWins
PROPERTY
    Drains
CHECK_DEADLOCK FALSE
