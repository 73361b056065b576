SPECIFICATION Spec
CONSTANTS
    udp = udp
    tcp = tcp
    server = server
    server_z = server_z
    w1 = w1
    w2 = w2
    Pollers = {udp, tcp}
    Servers = {server, server_z}
    ZServer = server_z
    Stops <- ExitOrder
    Conns = {c1, c2}
    Writes = {w1, w2}
    target <- TargetOf
CHECK_DEADLOCK FALSE
INVARIANTS UnloadOrder
PROPERTIES StoppedThreadsEnd
