SPECIFICATION BarrierFairSpec
CONSTANTS
    Clients = {c1, c2, c3, c4}
    MaxTime = 3
INVARIANTS NobodyStartsEarly OneStartTime CountRestored
PROPERTY AllStart
