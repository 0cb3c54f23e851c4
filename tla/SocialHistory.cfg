CONSTANTS
    w1 = w1  w2 = w2  f1 = f1  f2 = f2
    NoRow = NoRow
    Work = {w1}
    Device = {f1}
    Grace = 1
    MaxTime = 3
    MaxViews = 2
    MaxOps = 4
    Late = 1
    Overtaken = FALSE
    OpensLate = FALSE
    ReturnsUnseen = FALSE
SPECIFICATION FairSpec
INVARIANTS
    SecretsKept
    MirrorMatches
    ShownIsOwned
PROPERTY
    FriendsCatchUp
CHECK_DEADLOCK FALSE
