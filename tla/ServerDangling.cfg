\* A handler that is still running when the server is taken apart.
SPECIFICATION Spec
CONSTANTS
    Workers = {w1, w2}
    Connections = {1}
    Ports <- Served
    MaxTasks = 2
    MaxSignals = 1
INVARIANT AliveWhenUsed
CHECK_DEADLOCK FALSE
