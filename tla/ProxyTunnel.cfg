CONSTANTS
    UpLen = 2
    DownLen = 3
    WriteLimit = 3
SPECIFICATION FairSpec
INVARIANTS OneTurnEach UploadIntact ClosedReleased
PROPERTIES ElegantClose UploadForwarded TunnelEnds
CHECK_DEADLOCK FALSE
