SPECIFICATION Spec
CONSTANTS
    Conns = {c1, c2, c3}
    Fds = {f1, f2}
    Workers = {w1, w2}
    Main = Main
    NoConn = NoConn
    NoJob = NoJob
    Requests <- ThreeRequests
    MAX_FD = 2
    ListenET = TRUE
    ConnET = TRUE
    TimeoutOn = TRUE
SYMMETRY Symmetry
CONSTRAINT UntilOvertaken
INVARIANTS
    OneHandler
    NoStaleDescriptor
    AbortNeedsReuse
    UserCountExact
    TimersMatch
    FreeFdIsClean
    OrphansAreShort
CHECK_DEADLOCK FALSE
