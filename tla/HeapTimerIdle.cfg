SPECIFICATION ServerSpec
CONSTANTS
    Fds = {f1}
    Timeouts = {1}
    MaxTime = 2
PROPERTY DueIsHandled
