CONSTANTS
    N = 2
    NeedFilter = FALSE
    BootSettled = TRUE
    ForeignFault = TRUE
CHECK_DEADLOCK FALSE
SPECIFICATION FairSpec
PROPERTY BarrierEnds
