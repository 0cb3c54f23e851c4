CONSTANTS
    x1 = x1  x2 = x2  y1 = y1  y2 = y2
    Table = {{x1, x2}, {y1}}
    Seed = {x1}
    OwnerRow = x1
    Owned = {}
    OwnWrites = {x1}
    OtherWrites = {{x1}, {x2}, {y1}, {x1, x2}, {x1, y1}, {x2, y1}, {x1, x2, y1}}
    PAGE_SIZE = 1
    MaxRev = 3
    MaxRestores = 0
    MaxRestarts = 1
    MaxFailures = 1
    Audits = FALSE
    CacheMayFail = TRUE
SPECIFICATION Spec
INVARIANTS
    NothingBehindCursor
    SurvivesRestart
    AckedStaysVisible
CHECK_DEADLOCK FALSE
