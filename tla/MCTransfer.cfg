SPECIFICATION Spec
CONSTANTS
    Tests <- MCTests
    kMillion = 1000000
    mBufLen = 2
    Header = 1
    ClientHdr = 2
    Word = 64
    Busy = {1, 150000}
    MaxBusy = 150000
    Waits = {0, 1000000}
    MaxWrites = 5
INVARIANTS
    PacedAsAsked
    TotalsAgree
