\* Six timers: a deleted node's place may have to be filled from another
\* subtree and the node move up.
SPECIFICATION Spec
CONSTANTS
    Fds = {f1, f2, f3, f4, f5, f6}
    Timeouts = {0, 1, 2}
    MaxTime = 2
INVARIANTS
    HeapOrdered
    MapExact
PROPERTIES
    ImplementsTimerMap
    WaitsForEarliest
SYMMETRY Symmetry
