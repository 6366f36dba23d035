SPECIFICATION Spec
CONSTANTS
    Byte = {1, 2}
    NUL = 1
    INITIAL_CAPACITY = 2
    SCRATCH = 2
    INT_MAX = 8
    Inputs <- UpToThree
PROPERTY GrowsOnlyWhenFull
CHECK_DEADLOCK FALSE
