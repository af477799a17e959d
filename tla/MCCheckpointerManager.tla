----------------------- MODULE MCCheckpointerManager -----------------------
(***************************************************************************)
(* An instance of CheckpointerManager for TLC.                              *)
(***************************************************************************)
EXTENDS CheckpointerManager, TLC

CONSTANTS t1, g1, g2, c1, a1

\* All calls are for one thread.
OneThread == [c \in Getters \union Closers |-> t1]
=============================================================================
