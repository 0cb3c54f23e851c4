CONSTANTS
    k1 = k1  k2 = k2
    Key = {k1, k2}
    MaxValue = 1
    MaxWrites = 4
SYMMETRY mcSymmetry
SPECIFICATION QueueSpec
INVARIANT
    CompactionKeepsEffect
CHECK_DEADLOCK FALSE
