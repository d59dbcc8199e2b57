CONSTANTS
    s1 = s1
    s2 = s2
    Slots = {s1, s2}
    MaxObservers = 2
    MaxNotes = 3
    MaxBlocks = 2
    CanFail = TRUE
    CanDelete = TRUE
SPECIFICATION FairSpec
INVARIANTS NoLostStatusChange
PROPERTIES LastDisconnectHolds StatusConverges
