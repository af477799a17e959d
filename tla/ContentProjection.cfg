SPECIFICATION FairSpec
CONSTANTS
    LastRun = 2
    MaxConcurrency = 2
    MaxAttempts = 2
    Budgets <- Situations
INVARIANT ProjectorSound
PROPERTIES WorkIsDriven WorkEnds
CHECK_DEADLOCK FALSE
