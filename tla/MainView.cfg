CONSTANTS
    s1 = s1
    s2 = s2
    Slots = {s1, s2}
    MaxObservers = 1
    MaxNotes = 1
    MaxBlocks = 1
    CanFail = FALSE
    CanDelete = FALSE
    LoadingTime = 1
    MaxPairs = 2
SPECIFICATION ViewFairSpec
INVARIANTS LinkShownHasTunnel DisabledButtonReturns
PROPERTIES LoadingEnds ConnectedLinkIsShown
