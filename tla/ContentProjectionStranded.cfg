SPECIFICATION Spec
CONSTANTS
    LastRun = 2
    MaxConcurrency = 2
    MaxAttempts = 2
    Budgets <- OnlyRefusing
INVARIANTS NothingStranded
CHECK_DEADLOCK FALSE
