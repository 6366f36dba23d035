\* Both trigger modes, every kind of request, one or two in a read, every way
\* to cut a response into pieces; the files change at any time.
SPECIFICATION FairSpec
CONSTANTS
    Requests <- AllRequests
    FilesAt <- AllFiles
    ErrorPages <- SomePage
    HEAD = 2
    BODY = 1
    Arrivals <- OneOrTwo
    MaxBuffer = 2
    SCRATCH = 9
    Modes = {FALSE, TRUE}
INVARIANTS
    Accounting
    LengthTrue
    MappingHeld
PROPERTIES
    KeepAliveSent
    FileReadsAgain
CHECK_DEADLOCK FALSE
