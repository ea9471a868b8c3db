CONSTANTS
    c1 = c1  c2 = c2  l1 = l1
    ta = ta  tb = tb  td = td  te = te  tg = tg
    NoTest = NoTest
    WorkId = {w1, w2, w3}
    Cond <- MC_Cond
    Test <- MC_Test
    Lib <- MC_Lib
    Val <- MC_Val
    Path <- MC_Path
    Size <- MC_Size
    Configs <- MC_Configs
    Crash = {tg}
    Chunk = 2
    MaxStates = 3
    SampleFreq = 0
    DrillFreq = 1
    FilterFaults = FALSE
SPECIFICATION FairSpec
INVARIANTS
    AssertionsHold NoLeak SigComplete FilterExact
PROPERTIES
    ImplementsWorker OrderAnswered
