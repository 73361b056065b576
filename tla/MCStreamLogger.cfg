SPECIFICATION Spec
CONSTANTS
    w1 = w1
    w2 = w2
    w3 = w3
    r1 = r1
    r2 = r2
    Writers = {w1, w2, w3}
    Readers = {r1, r2}
    size <- SizeOf
    room <- RoomOf
    StatSize = 1
    BUFF_SIZE = 2
    MaxRunning = 2
    Modes <- AllModes
CHECK_DEADLOCK FALSE
INVARIANTS SerialReadsAreWhole 
PROPERTIES CollectingEnds
