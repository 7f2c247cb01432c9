SPECIFICATION FairSpec
CONSTANTS
    MaxData = 3
    FinTries = 10
    AckTries = 10
    AckWait = 4
    Lifetime = 1
    MaxLosses = 2
    MaxCopies = 1
INVARIANTS ResultArrives NoGhostServer LossesAddUp
PROPERTY EveryoneEnds
