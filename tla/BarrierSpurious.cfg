SPECIFICATION SpuriousSpec
CONSTANTS
    Clients = {c1, c2, c3}
    MaxTime = 2
INVARIANT NobodyStartsEarly
CHECK_DEADLOCK FALSE
