SPECIFICATION Spec
CONSTANTS
    a1 = a1
    a2 = a2
    b1 = b1
    b2 = b2
    g1 = g1
    reserved = reserved
    Tests <- MCTests
    Octet <- MCOctet
    Here = {a1, a2}
    There = {b1, b2}
    HereDefault = a1
    ThereDefault = b1
    Wildcard = Wildcard
    None = None
    Sizes = {2, 3}
    Default = 3
    ListenFirst = FALSE
INVARIANTS TestBackArrives
