CONSTANTS
    Bytes = {0, 1, 31, 127, 128, 224, 255}
    Inputs <- MC_Inputs
    ARITH_MAX = 35
    interesting_8 <- MC_interesting_8
    interesting_16 <- MC_interesting_16
SPECIFICATION Spec
CHECK_DEADLOCK FALSE
INVARIANTS
    SkippedElsewhere NoDupes
