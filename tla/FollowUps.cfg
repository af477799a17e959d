\* A call that steers while operations follow each other, two windows that empty the
\* queue, and a call and a window that want the same message.
SPECIFICATION FairSpec
CONSTANTS
    m1 = m1
    m2 = m2
    c1 = c1
    w1 = w1
    w2 = w2
    Msgs = {m1, m2}
    Callers = {c1}
    Windows = {w1, w2}
    Nobody = Nobody
    MaxRuns = 2
    MaxRounds = 1
    Starts <- Situations
INVARIANTS SteersAreTaken QueuedIsKept
PROPERTY SteersEnd
CHECK_DEADLOCK FALSE
