SPECIFICATION Spec
CONSTANTS
    Threads = {t1, t2}
    Names = {n1, n2}
    Allocs = {a1, a2}
    kMaxInstanceId = 4
    NULL = NULL
SYMMETRY Symmetry
INVARIANTS TypeOK RegistryConsistent OwnInstanceId NoOrphan LockOrder OnlySelfDeadlock
PROPERTIES OneSingleton IsNameTable
CHECK_DEADLOCK FALSE
