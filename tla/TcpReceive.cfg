CONSTANTS
    Modulus = 64
    First = 0
    StreamLen = 9
    Wnd = 6
    Mss = 2
    WndUpdate = 3
SPECIFICATION FairSpec
INVARIANTS Intact OoseqOrdered WindowRestored
PROPERTIES EdgeNeverShrinks ImplementsStream StreamAcked
