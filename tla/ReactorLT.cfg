\* No timers.
SPECIFICATION FairSpec
CONSTANTS
    Conns = {c1, c2}
    Fds = {f1, f2}
    Workers = {w1, w2}
    Main = Main
    NoConn = NoConn
    NoJob = NoJob
    Requests <- OtherRequests
    MAX_FD = 1
    ListenET = FALSE
    ConnET = FALSE
    TimeoutOn = FALSE
PROPERTIES
    ImplementsConnLife
    GoneIsDropped
CHECK_DEADLOCK FALSE
