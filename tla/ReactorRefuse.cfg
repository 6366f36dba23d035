SPECIFICATION FairSpec
CONSTANTS
    Conns = {c1, c2, c3}
    Fds = {f1, f2}
    Workers = {w1}
    Main = Main
    NoConn = NoConn
    NoJob = NoJob
    Requests <- ThreeRequests
    MAX_FD = 1
    ListenET = TRUE
    ConnET = TRUE
    TimeoutOn = TRUE
PROPERTIES
    AllAccepted
CHECK_DEADLOCK FALSE
