SPECIFICATION Spec
CONSTANTS
    Workers = {w1, w2}
    Created = {c1}
    NoSql = NoSql
    Names = {n1}
    MaxAnswers = 2
    MayClose = FALSE
INVARIANT OneUser
