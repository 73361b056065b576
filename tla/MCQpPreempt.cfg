SPECIFICATION Spec
CONSTANTS
    l1 = l1
    l2 = l2
    r1 = r1
    r2 = r2
    r3 = r3
    l3 = l3
    Ls = {l1, l3}
    Rs = {r1, r2}
    Keys <- PlainKeys
    key <- KeyOf
    qp2cpu <- OneCpu
    RB_KEY_LENGTH = 2
    Preempt = TRUE
    NULL = NULL
    ERR = ERR
SYMMETRY Symm
CHECK_DEADLOCK FALSE
INVARIANTS KeyIsolation
