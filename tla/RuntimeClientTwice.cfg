\* A thread that is closed and opened again: is there only one resync at a time?
SPECIFICATION ClientSpec
CONSTANTS
    MaxRevision = 5
    MaxTroubles = 1
    MaxChannel = 1
INVARIANT OneResync
CHECK_DEADLOCK FALSE
