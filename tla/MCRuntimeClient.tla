-------------------------- MODULE MCRuntimeClient --------------------------
(* The bounds are plain numbers, given in the .cfg files. *)
EXTENDS RuntimeClient
=============================================================================
