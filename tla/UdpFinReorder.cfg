SPECIFICATION Spec
CONSTANTS
    MaxData = 3
    FinTries = 10
    AckTries = 10
    AckWait = 4
    Lifetime = 1
    MaxLosses = 0
    MaxCopies = 0
INVARIANT NothingLostNoneReported
