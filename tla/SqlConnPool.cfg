\* Three threads, two connections, one name; the server may be destroyed at any
\* moment. A thread that asks for a connection afterwards waits for ever, so
\* the system may stop.
SPECIFICATION Spec
CONSTANTS
    Workers = {w1, w2, w3}
    Created = {c1, c2}
    NoSql = NoSql
    Names = {n1}
    MaxAnswers = 2
    MayClose = TRUE
INVARIANTS
    EachOnce
    NoLostWakeup
    RegisteredOnce
SYMMETRY Symmetry
CHECK_DEADLOCK FALSE
