CONSTANTS
    p1 = p1  p2 = p2  q1 = q1  u1 = u1  c1 = c1  c2 = c2  learned = learned
    User = {u1}
    Page = {p1, p2, q1}
    Chapter = {c1, c2}
    None = None
    ChapterOf <- mcChapterOf
    IndexOf <- mcIndexOf
    Learned = learned
    Plans <- mcPlans
    Reserve = 3
    Budget = 4
    PageLimit = 1
    ChapterLimit = 1
    ClaimTTL = 0
    MaxRequests = 3
    MaxTime = 1
    MaxTroubles = 1
    Overtaken = FALSE
    Slow = FALSE
    AnswerLost = FALSE
    Unheard = FALSE
SPECIFICATION FairSpec
INVARIANTS
    BudgetHeld
    BillCovered
    QuotaHeld
    OnePayer
    EarliestWins
PROPERTIES
    NeverWorse
    Answered
CHECK_DEADLOCK FALSE
