\* Two calls on one window, one call and two switches, or two calls on two windows.
SPECIFICATION FairSpec
CONSTANTS
    o1 = o1
    o2 = o2
    a = a
    b = b
    r1 = r1
    r2 = r2
    t1 = t1
    t2 = t2
    Calls = {o1, o2, a, b}
    Starts <- Situations
    RunOf <- OneRun
    Toggles = {t1, t2}
INVARIANT OnePairOfHands
PROPERTIES ActsOnWhatWasSeen NothingSentAfterTheStop SwitchedAsLastAsked CallsReturn
CHECK_DEADLOCK FALSE
