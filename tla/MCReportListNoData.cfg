SPECIFICATION FairSpec
CONSTANTS
    client = client
    other = other
    Agents <- MCAgents
    Wants <- MCNoData
    Capacity = 2
    MaxPackets = 3
PROPERTY ReporterBecomesIgnorable
