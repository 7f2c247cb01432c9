SPECIFICATION Spec
CONSTANTS
    one = one
    two = two
    Streams = {one, two}
    Formats = {"A", "a", "g"}
    Amounts <- MCAmounts
    Segments = {0, 536, 1460, 1461}
    NUM_MULTI_SLOTS = 2
    MaxLines = 2
SYMMETRY Symmetry
INVARIANTS NamedThoughShort
