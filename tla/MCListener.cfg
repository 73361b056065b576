SPECIFICATION Spec
CONSTANTS
    s3 = s3
    Servers = {s1, s2, s3}
    Dels = {d1}
    Syns = {y1}
    Accs = {k1}
    tid <- TidOf
    NULL = NULL
CHECK_DEADLOCK FALSE
INVARIANTS  QuietCommandsAreSafe
PROPERTIES DeletedServerEnds
