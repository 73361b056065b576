SPECIFICATION Spec
CONSTANTS
    l1 = l1
    l2 = l2
    l3 = l3
    r1 = r1
    r2 = r2
    r3 = r3
    Ls = {l1, l3}
    Rs = {r1, r3}
    Keys <- NulKeys
    key <- KeyOf
    qp2cpu <- OneCpu
    RB_KEY_LENGTH = 2
    Preempt = FALSE
    NULL = NULL
    ERR = ERR
CHECK_DEADLOCK FALSE
INVARIANT OnlyDoubleSynsMeet
