SPECIFICATION Spec
CONSTANTS
    kSize = 9
    kBitsPerElement = 3
INVARIANT TypeOK
PROPERTY IsIndexSet
