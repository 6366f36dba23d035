\* Init could open no connection.
SPECIFICATION FairSpec
CONSTANTS
    Workers = {w1}
    Created = {}
    NoSql = NoSql
    Names = {n1}
    MaxAnswers = 2
    MayClose = FALSE
PROPERTY VerifyReturns
CHECK_DEADLOCK FALSE
