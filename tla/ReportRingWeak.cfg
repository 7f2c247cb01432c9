SPECIFICATION WeakSpec
CONSTANTS
    N = 4
    MaxPackets = 10
INVARIANT PublishedSlotsHoldTheirPackets
