--------------------------- MODULE MCInputSession ---------------------------
(* Instances of InputSession for TLC. *)
EXTENDS InputSession, TLC
CONSTANTS rtp, s1, s2
\* The requests are interchangeable.
SessionSymmetry == Permutations(Requests)
=============================================================================
