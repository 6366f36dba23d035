\* Three threads share two places: both of the others may wait for space while
\* the main thread shuts the log down.
SPECIFICATION FairSpec
CONSTANTS
    Loggers = {main, w1, w2}
    Main = main
    capacity = 2
    FlushSize = 2
    MaxMsgs <- OneAndTwo
INVARIANTS
    InOrder
    NothingLost
    NoLostWakeup
PROPERTIES
    QueuedIsWritten
    LogReturns
    ShutdownReturns
