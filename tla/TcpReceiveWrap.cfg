CONSTANTS
    Modulus = 32
    First = 28
    StreamLen = 4
    Wnd = 5
    Mss = 2
    WndUpdate = 3
SPECIFICATION FairSpec
INVARIANTS Intact
