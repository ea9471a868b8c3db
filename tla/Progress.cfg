CONSTANTS
    N = 2
    NeedFilter = FALSE
    BootSettled = TRUE
    ForeignFault = FALSE
SPECIFICATION FairSpec
PROPERTIES
    EveryTestJudged
    BarrierEnds
    StopEnds
