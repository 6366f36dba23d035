SPECIFICATION FairSpec
CONSTANTS
    Workers = {w1, w2, w3}
    Main = Main
    Nobody = Nobody
    NumTasks = 4
INVARIANTS
    NoLostWakeup
PROPERTIES
    ImplementsTaskQueue
    JoinReturns
