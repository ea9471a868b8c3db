CONSTANTS
    N = 2
    NeedFilter = TRUE
    BootSettled = TRUE
    ForeignFault = TRUE
CHECK_DEADLOCK FALSE
SPECIFICATION Spec
INVARIANTS
    Exclusive
    OneReport
    AfterWaitClean
    ClassifiedOnce
PROPERTIES
    JudgedAsReported
    ImplementsService
    ImplementsDispatch
