CONSTANTS
    d1 = d1  d2 = d2  u1 = u1  u2 = u2  c1 = c1
    User = {u1, u2}
    Device = {d1, d2}
    Code = {c1}
    Slot = {1, 2}
    None = None
    Plans <- mcPlans
    Founder = u1
    Owner = d1
    Grace = 2
    Allowance = 4
    Patience = 1
    MaxAccounts = 2
    MaxOpen = 1
    MaxCredentials = 2
    MaxTime = 7
    Late = FALSE
    Crossing = FALSE
    Broken = FALSE
SPECIFICATION FairSpec
INVARIANTS
    CanOpenAll
    UndoInTime
PROPERTIES
    DeletedIsGone
    ApprovedGetsIn
CHECK_DEADLOCK FALSE
