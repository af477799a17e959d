-------------------------- MODULE MCRunPersistence --------------------------
(***************************************************************************)
(* Instances of RunPersistence for TLC.                                     *)
(***************************************************************************)
EXTENDS RunPersistence

CONSTANTS t1, r1, r2, q1, q2, q3

\* One thread with two runs; the first may ask twice.
OneThread == [r \in Runs |-> t1]
Asks == [q \in Requests |-> IF q = q3 THEN r2 ELSE r1]
=============================================================================
