\* epoll may refuse to watch a connection, which then stays counted.
SPECIFICATION Spec
CONSTANTS
    Conns = {c1, c2}
    Fds = {f1}
    Workers = {w1, w2}
    Main = Main
    NoConn = NoConn
    NoJob = NoJob
    Requests <- ThreeRequests
    MAX_FD = 2
    ListenET = TRUE
    ConnET = TRUE
    TimeoutOn = TRUE
SYMMETRY Symmetry
INVARIANT
    UserCountIsOpen
CHECK_DEADLOCK FALSE
