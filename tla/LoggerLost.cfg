SPECIFICATION Spec
CONSTANTS
    Loggers = {main, w1}
    Main = main
    capacity = 2
    FlushSize = 2
    MaxMsgs <- OneAndTwo
INVARIANT AllWrittenAtShutdown
