\* A client that waits for each answer; two requests, and posts of one form each.
\* With -continue TLC shows that all three are violated.
SPECIFICATION FairSpec
CONSTANTS
    Sessions <- FormAndTwoSessions
    Pipelined = FALSE
INVARIANTS
    FormsRead
    AllFormsDecoded
PROPERTY AllAnswered
CHECK_DEADLOCK FALSE
