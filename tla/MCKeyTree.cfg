SPECIFICATION Spec
CONSTANTS
    KeyBits = 4
    KeySets <- AllKeySets
    Nodes <- AllKeys
    Readers = {r1}
    NULL = NULL
CHECK_DEADLOCK FALSE
INVARIANTS LinkedKeysAreFound 
PROPERTIES LookupMissesOnlyMovedRoots
