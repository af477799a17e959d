SPECIFICATION Spec
CONSTANTS
    LastRun = 2
    MaxConcurrency = 2
    MaxAttempts = 2
    Budgets <- OnlyOnce
INVARIANTS MarksAreKept
CHECK_DEADLOCK FALSE
