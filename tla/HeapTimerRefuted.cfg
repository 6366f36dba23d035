\* With -continue TLC shows that both are violated.
SPECIFICATION Spec
CONSTANTS
    Fds = {f1, f2}
    Timeouts = {0, 1}
    MaxTime = 1
PROPERTIES
    TickTakesOnlyDue
    WorkRunsCallback
