------------------------- MODULE MCRuntimeStateFile -------------------------
(* Instances of RuntimeStateFile for TLC. *)
EXTENDS RuntimeStateFile
=============================================================================
