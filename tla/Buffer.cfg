\* A vector of two bytes that grows to eight, the largest int
\* of the model.
SPECIFICATION Spec
CONSTANTS
    Byte = {1, 2}
    NUL = 1
    INITIAL_CAPACITY = 2
    SCRATCH = 2
    INT_MAX = 8
    Inputs <- UpToThree
INVARIANT TypeOK
PROPERTY ImplementsByteQueue
CHECK_DEADLOCK FALSE
