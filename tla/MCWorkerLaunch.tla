--------------------------- MODULE MCWorkerLaunch ---------------------------
(* Instances of WorkerLaunch for TLC. *)
EXTENDS WorkerLaunch, TLC
\* The requests and the pids are interchangeable.
LaunchSymmetry == Permutations(Requests) \cup Permutations(Pids)
=============================================================================
