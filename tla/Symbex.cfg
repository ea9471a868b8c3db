CONSTANTS
    Qemu = {q1, q2}
    Addr = {a1}
    Cons = {e1, e3}
    Known = {e3}
    MaxGen = 2
    MaxHits = 2
    Flushes = 1
SPECIFICATION FairSpec
CHECK_DEADLOCK FALSE
INVARIANTS
    FreshRun NoneLost RunOnce SolvedOnce
PROPERTIES
    AllRun
