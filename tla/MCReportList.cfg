SPECIFICATION FairSpec
CONSTANTS
    client = client
    other = other
    Agents <- MCAgents
    Wants <- MCWants
    Capacity = 2
    MaxPackets = 3
INVARIANTS ChainIsSound PrintedInOrder
PROPERTIES EverythingPrinted ReporterBecomesIgnorable
