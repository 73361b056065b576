SPECIFICATION Spec
CONSTANTS
    Cpus = {c1, c2}
    Contexts = {0}
    Elems = {e1, e2, e3, e4, e5, e6}
    SpareMags = {s1, s2, s3}
    MAG_DEPTH = 2
    CountMod = 2
    KzallocMayFail = TRUE
    NULL = NULL
SYMMETRY Symm
VIEW LiveView
CHECK_DEADLOCK FALSE
INVARIANTS AssertsHold FirstHasElems ElemsAccounted MagsUnique DepotCounts
PROPERTIES ImplementsBatchCache
