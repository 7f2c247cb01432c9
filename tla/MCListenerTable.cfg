SPECIFICATION FairSpec
CONSTANTS
    a1 = a1
    a2 = a2
    b1 = b1
    None = None
    Streams = {a1, a2, b1}
    Host <- MCHost
    Asks <- MCAsks
    Short = {a2}
    Modes <- MCModes
    MaxData = 1
    MaxFins = 1
INVARIANTS
    TableMatchesServers
    OneHostAtATime
    SpeakerAsAsked
PROPERTY
    EveryoneServed
