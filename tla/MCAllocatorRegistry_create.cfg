SPECIFICATION Spec
CONSTANTS
    Threads = {t1, t2}
    Names = {n1}
    Allocs = {a1, a2}
    kMaxInstanceId = 4
    NULL = NULL
SYMMETRY Symmetry
INVARIANT LostRaceReturns
CHECK_DEADLOCK FALSE
