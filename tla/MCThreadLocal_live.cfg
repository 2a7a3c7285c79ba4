SPECIFICATION FairSpec
CONSTANTS
    kSize = 2
    kBitsPerElement = 2
    Threads = {t1, t2}
    Objects = {o1}
    Blocks = {b1, b2}
    NULL = NULL
    WILD = WILD
    AnyThreadDestroys = TRUE
PROPERTY MutexReleased
