SPECIFICATION Spec
CONSTANTS
    N = 3
    Pids = {1, 2, 3, 4, 5, 7}
    FirstCtrl = 8
    Low = 2
    NOFILE = 15
    Gap = TRUE
CHECK_DEADLOCK FALSE
INVARIANTS OwnPipe OwnOrders
