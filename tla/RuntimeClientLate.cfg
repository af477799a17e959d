\* A window that opens a thread that was run before.
SPECIFICATION FairSpec
CONSTANTS
    MaxRevision = 5
    MaxTroubles = 0
    MaxChannel = 1
PROPERTY ResyncEnds
CHECK_DEADLOCK FALSE
