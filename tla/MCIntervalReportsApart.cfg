SPECIFICATION Spec
CONSTANTS
    s1 = s1
    s2 = s2
    s3 = s3
    Streams = {s1, s2}
    Weight <- MCWeight
    Modes = {"client", "server"}
    Intervals <- MCIntervals
    StartTimes <- MCStartTimes
    rMillion = 4
    NUM_MULTI_SLOTS = 2
    MaxTime = 8
    MaxPackets = 2
INVARIANTS
    WholeThoughLagging
    WholeThoughLate
    WholeThoughShort
    WholeThoughRaced
