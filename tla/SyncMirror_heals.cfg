CONSTANTS
    x1 = x1  x2 = x2  y1 = y1  y2 = y2
    Table = {{x1}, {y1, y2}}
    Seed = {x1}
    OwnerRow = x1
    Owned = {y1}
    OwnWrites = {}
    OtherWrites = {{y2}, {y1, y2}}
    PAGE_SIZE = 1
    MaxRev = 1
    MaxRestores = 1
    MaxRestarts = 0
    MaxFailures = 1
    Audits = TRUE
    CacheMayFail = FALSE
SPECIFICATION FairSpec
PROPERTY
    Heals
CHECK_DEADLOCK FALSE
