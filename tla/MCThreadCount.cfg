SPECIFICATION FairSpec
CONSTANTS
    reporter = reporter
    listener = listener
    c1 = c1
    c2 = c2
    s1 = s1
    s2 = s2
    None = None
    Main = Main
    Threads <- MCThreads
    Reporter = reporter
    Processes <- MCProcesses
    Faulty = {s2}
    MaxInterrupts = 1
INVARIANTS CountAccurate AllJoined TransfersReported ListenerServed
PROPERTY JoinReturns
