\* Two workers, up to two tasks in the queue, with and without a database, ports
\* on every boundary, and Ctrl-C at any moment, twice.
SPECIFICATION FairSpec
CONSTANTS
    Workers = {w1, w2}
    Connections = {0, 1}
    Ports <- SomePorts
    MaxTasks = 2
    MaxSignals = 2
INVARIANT TimerOutlivesWorkers
PROPERTY StopEnds
CHECK_DEADLOCK FALSE
