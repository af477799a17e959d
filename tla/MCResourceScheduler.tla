------------------------ MODULE MCResourceScheduler ------------------------
(* Instances of ResourceScheduler: who has observed what at the start, and   *)
(* what is still to come.                                                    *)
EXTENDS ResourceScheduler

CONSTANTS o1, o2, a, b, r1, r2, t1, t2

OneRun == [c \in Calls |-> "run1"]
TwoRuns == [c \in Calls |-> IF c \in {o1, a} THEN "run1" ELSE "run2"]

\* Two calls take turns on a window, with anything closed.
Turns == [windows |-> {r1}, observed |-> o1 :> r1,
          over |-> {o2, t1, t2}, closes |-> TRUE]
\* One call, while computer use is switched twice.
Switches == [windows |-> {r1}, observed |-> o1 :> r1,
          over |-> {o2, b}, closes |-> TRUE]
\* A call for each of two windows.
Windows == [windows |-> {r1, r2}, observed |-> o1 :> r1 @@ o2 :> r2,
            over |-> {t1, t2}, closes |-> FALSE]

Situations == {Turns, Switches, Windows}
ClosingWindows == {[Windows EXCEPT !.closes = TRUE]}
=============================================================================
