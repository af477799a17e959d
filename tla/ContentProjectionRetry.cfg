SPECIFICATION Spec
CONSTANTS
    LastRun = 2
    MaxConcurrency = 2
    MaxAttempts = 3
    Budgets <- OnlyDeferred
INVARIANTS RetryIsAhead
CHECK_DEADLOCK FALSE
