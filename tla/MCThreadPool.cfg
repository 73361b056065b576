SPECIFICATION FairPoolSpec
CONSTANTS
    Cpus = {c1}
    Contexts = {0, 1}
    Elems = {e1, e2}
    SpareMags = {s1}
    MAG_DEPTH = 1
    CountMod = 65536
    KzallocMayFail = FALSE
    NULL = NULL
    Runners = {r1, r2}
    RunnerContexts = {0, 1}
    pool_size = 1
    CreateMayFail = TRUE
VIEW LiveView
CHECK_DEADLOCK FALSE
INVARIANTS NoPoolErrors JobStaysWithOneThread
PROPERTIES RefillTopsUp  
