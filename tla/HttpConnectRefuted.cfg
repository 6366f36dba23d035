\* With -continue TLC shows that the invariant and one temporal property are
\* violated; the others in place of ShortSent are, too.
SPECIFICATION FairSpec
CONSTANTS
    Requests <- AllRequests
    FilesAt <- TwoSizes
    ErrorPages <- OnePage
    HEAD = 2
    BODY = 1
    Arrivals <- One
    MaxBuffer = 1
    SCRATCH = 9
    Modes = {FALSE, TRUE}
INVARIANT
    DoneMeansSent
PROPERTY
    ShortSent
\*  ReadsAgain
\*  BadRequestAnswered
CHECK_DEADLOCK FALSE
