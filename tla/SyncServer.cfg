CONSTANTS
    s = s  o1 = o1  o2 = o2  bad = bad  x1 = x1  x2 = x2
    r1 = r1  r2 = r2  r3 = r3  d1 = d1  d2 = d2
    OpId = {s, o1, o2, bad}
    Row = {x1, x2}
    RowOf <- mcRowOf
    FieldMerge = {s}
    Invalid = {bad}
    Request = {r1, r2, r3}
    OpsOf <- mcOpsOf
    Device = {d1}
    MAX_TRIES = 8
    MaxDeaths = 1
SPECIFICATION FairSpec
INVARIANTS
    ExactlyOnce
    AnswerIsTrue
    NothingBehindCursor
PROPERTIES
    IsOneLog
    Answers
CHECK_DEADLOCK FALSE
