SPECIFICATION PreSpec
CONSTANTS
    h1 = h1
    h2 = h2
    Ls = {l1}
    Rs = {p1, p2}
    Pre = {p1, p2}
    Cmds = {c1}
    Conns = {n1, n2}
    Hops = {h1, h2}
    hop <- HopOf
    Cpus = {1}
    PER_CORE_POOL_MIN = 2
    PER_CORE_POOL_MAX = 1
    key <- KeyOf
    qp2cpu <- CpuOfKey
    RB_KEY_LENGTH = 2
    Preempt = FALSE
    NULL = NULL
    ERR = ERR
SYMMETRY Symm
VIEW View
CHECK_DEADLOCK FALSE
INVARIANTS PooledOnce FallbackFindsItself OnlyPreConnsDangle CopyingIsProtected 
