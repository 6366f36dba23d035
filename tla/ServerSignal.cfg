\* One interrupt, at any moment.
SPECIFICATION FairSpec
CONSTANTS
    Workers = {w1, w2}
    Connections = {1}
    Ports <- Served
    MaxTasks = 2
    MaxSignals = 1
PROPERTY SignalHeard
CHECK_DEADLOCK FALSE
