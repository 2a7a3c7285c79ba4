SPECIFICATION Spec
CONSTANTS
    Threads = {t1, t2}
    Owner = t1
    Blocks = {b1, b2}
    Sizes = {5, 6}
    kModulus = 8
    kHeader = 2
    MaxCount = 2
    MaxShared = 1
    NULL = NULL
SYMMETRY Symmetry
INVARIANTS TypeOK BlockFits StatsBalanced GlobalBalanced SnapshotExact
