---------------------------- MODULE MCThreadGate ----------------------------
(***************************************************************************)
(* Instances of ThreadGate for TLC.                                         *)
(***************************************************************************)
EXTENDS ThreadGate, TLC

CONSTANTS t1, t2, run1, run2, set1, set2, del1, del2

\* One thread with every kind of request twice.
OneThread == [r \in Requests |-> t1]
\* The second thread has a run and a deletion of its own.
TwoThreads == [r \in Requests |-> IF r \in {run2, del2} THEN t2 ELSE t1]
Kinds ==
  [r \in Requests |-> CASE r \in {run1, run2} -> "run"
                        [] r \in {set1, set2} -> "mutation"
                        [] OTHER -> "deletion"]
=============================================================================
