SPECIFICATION Spec
CONSTANTS
    Conns = {c1, c2}
    Fds = {f1}
    Workers = {w1, w2}
    Main = Main
    NoConn = NoConn
    NoJob = NoJob
    Requests <- ThreeRequests
    MAX_FD = 1
    ListenET = TRUE
    ConnET = TRUE
    TimeoutOn = TRUE
INVARIANT
    NoAbort
CHECK_DEADLOCK FALSE
