\* Two windows of two runs with a session each, and a call for each of them: 460,000
\* states.
SPECIFICATION Spec
CONSTANTS
    o1 = o1
    o2 = o2
    a = a
    b = b
    r1 = r1
    r2 = r2
    t1 = t1
    t2 = t2
    Calls = {o1, o2, a, b}
    Starts <- ClosingWindows
    RunOf <- TwoRuns
    Toggles = {t1, t2}
INVARIANT OnePairOfHands
CHECK_DEADLOCK FALSE
