------------------------- MODULE MCProjectionQueue -------------------------
(***************************************************************************)
(* The projection queue for TLC.                                           *)
(***************************************************************************)
EXTENDS ProjectionQueue, TLC

Exchangeable == Permutations(Keys) \cup Permutations(Flushers)
=============================================================================
