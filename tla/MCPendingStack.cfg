SPECIFICATION Spec
CONSTANTS
    Conns = {c1}
CHECK_DEADLOCK FALSE
INVARIANTS FirstHalfReturnsLast
