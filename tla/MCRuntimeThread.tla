-------------------------- MODULE MCRuntimeThread --------------------------
(* Small instances of RuntimeThread for TLC.                                *)
EXTENDS RuntimeThread, TLC

CONSTANTS t1, b, c, k1, k2, r1, r2

\* A resume and a compaction.
ThreadDef == (b :> t1) @@ (c :> t1)
RunDef    == (b :> r1) @@ (c :> r2)
KindDef   == (b :> "resume") @@ (c :> "compact")

=============================================================================
