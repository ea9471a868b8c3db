SPECIFICATION FairSpec
CONSTANTS
    N = 2
    LEN = 3
    EFF_MAP_SCALE2 = 0
    EFF_MAX_PERC = 70
    HavocCycles = 1
    HAVOC_MAX_MULT = 2
    SPLICE_CYCLES = 1
    Symbex = TRUE
    MaxSymbex = 1
    MaxHits = 2
CHECK_DEADLOCK FALSE
INVARIANTS EffMapLive NoEffectLost FindsAttributed
PROPERTY FuzzOneEnds
