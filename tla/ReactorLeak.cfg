SPECIFICATION Spec
CONSTANTS
    Conns = {c1}
    Fds = {f1}
    Workers = {w1}
    Main = Main
    NoConn = NoConn
    NoJob = NoJob
    Requests <- ThreeRequests
    MAX_FD = 1
    ListenET = TRUE
    ConnET = TRUE
    TimeoutOn = TRUE
INVARIANT
    NoOrphan
CHECK_DEADLOCK FALSE
