\* Ports on every boundary. With -continue TLC shows that both are violated.
SPECIFICATION Spec
CONSTANTS
    Workers = {w1, w2}
    Connections = {1}
    Ports <- SomePorts
    MaxTasks = 2
    MaxSignals = 0
INVARIANTS
    PortServed
    ClosesOwnSocket
CHECK_DEADLOCK FALSE
