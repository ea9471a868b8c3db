SPECIFICATION Spec
CONSTANTS
    N = 1
    Byte = {b1, b2}
    NSeeds = 1
    KEEP_UNIQUE_CRASH = 2
    MaxTests = 4
SYMMETRY ByteSymmetry
INVARIANTS
    VirginIsUnseen CorpusCovers CrashCovers
CHECK_DEADLOCK FALSE
