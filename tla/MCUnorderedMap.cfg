SPECIFICATION Spec
CONSTANTS
    k1 = k1
    k2 = k2
    k3 = k3
    Keys = {k1, k2, k3}
    Values = {v0, v1}
    DefaultValue = v0
    Nodes = {n1, n2}
    CACHE_SIZE = 2
    hashFunc <- MCHash
    JUNK = JUNK
    NULL = NULL
    kMissModulus = 2
SYMMETRY Symmetry
INVARIANTS TypeOK RecentKeyHits
PROPERTIES OnlyForeignDeceives CallsRight
