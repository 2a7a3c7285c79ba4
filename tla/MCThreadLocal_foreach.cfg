SPECIFICATION Spec
CONSTANTS
    kSize = 2
    kBitsPerElement = 2
    Threads = {t1, t2}
    Objects = {o1, o2}
    Blocks = {b1, b2}
    NULL = NULL
    WILD = WILD
    AnyThreadDestroys = TRUE
SYMMETRY Symmetry
PROPERTY ForeachVisitsLive
