\* A tool asks for an approval.
SPECIFICATION Spec
CONSTANTS
    m1 = m1
    m2 = m2
    c1 = c1
    w1 = w1
    w2 = w2
    Msgs = {m1}
    Callers = {c1}
    Windows = {}
    Nobody = Nobody
    MaxRuns = 2
    MaxRounds = 1
    Starts <- AllAtOnce
INVARIANT SurvivesTheApproval
CHECK_DEADLOCK FALSE
