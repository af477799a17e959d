\* A window that opens a thread at any time; a load, a request that fails, another window
\* that takes the thread over for a while, or the thread closed and opened again.
SPECIFICATION FairSpec
CONSTANTS
    MaxRevision = 5
    MaxTroubles = 1
    MaxChannel = 1
INVARIANTS InStep RunningByEvents
PROPERTY CatchesUp
CHECK_DEADLOCK FALSE
