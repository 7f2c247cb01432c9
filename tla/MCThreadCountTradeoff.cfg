SPECIFICATION Spec
CONSTANTS
    reporter = reporter
    listener = listener
    c1 = c1
    c2 = c2
    s1 = s1
    s2 = s2
    None = None
    Main = Main
    Threads <- MCThreads
    Reporter = reporter
    Processes <- MCTradeoffs
    Faulty = {}
    MaxInterrupts = 0
INVARIANTS ListenerServed AllJoined
