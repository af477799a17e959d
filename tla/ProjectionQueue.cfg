\* Three jobs, two callers of flush, two jobs at a time; no symmetry, for the liveness.
SPECIFICATION QueueFairSpec
CONSTANTS
    Keys = {k1, k2, k3}
    Flushers = {f1, f2}
    MaxConcurrency = 2
INVARIANT QueueSound
PROPERTY AskedIsDone
