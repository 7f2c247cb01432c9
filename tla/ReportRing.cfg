SPECIFICATION FairSpec
CONSTANTS
    N = 4
    MaxPackets = 10
INVARIANTS NoOverwrite PublishedSlotsHoldTheirPackets StatisticsComplete NoUseAfterFree
PROPERTIES StreamSpec EveryPacketHandled ReportFreed
