SPECIFICATION Spec
CONSTANTS
    N = 2
    Byte = {b1, b2}
    NSeeds = 1
    KEEP_UNIQUE_CRASH = 2
    MaxTests = 3
SYMMETRY ByteSymmetry
INVARIANTS
    VirginIsUnseen
CHECK_DEADLOCK FALSE
