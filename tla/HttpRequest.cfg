\* Streams of two and three requests, cut anywhere, sent one after the other or
\* all at once, and single posts with a form or an object in them. The connection
\* ends when the client has nothing left to send.
SPECIFICATION FairSpec
CONSTANTS
    Sessions <- AllSessions
    Pipelined = TRUE
INVARIANTS
    WholeUnderstood
    AnsweredInOrder
    FormDecoded
    JsonDecoded
PROPERTIES
    WholeAnswered
CHECK_DEADLOCK FALSE
