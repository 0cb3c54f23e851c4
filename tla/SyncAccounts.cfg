CONSTANTS
    a = a  b = b
    Account = {a, b}
    None = None
    Login = {"l1","l2"}
    MaxOps = 2
    MaxLogins = 2
    MaxLogouts = 1
    MaxRenewals = 1
    MaxKills = 1
    LocalMayFail = FALSE
    IdbMayFail = FALSE
    Hasty = FALSE
    Overlapping = TRUE
    Unattended = TRUE
SPECIFICATION Spec
INVARIANTS
    NeverAsAnother
    SavedIsKept
    SessionIsWanted
SYMMETRY mcSymmetry
CHECK_DEADLOCK FALSE
