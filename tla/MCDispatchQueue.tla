-------------------------- MODULE MCDispatchQueue --------------------------
(* Instances of DispatchQueue for TLC.  The abstract event log quantifies  *)
(* over the tasks; here ids and windows are bounded by the offers.         *)
EXTENDS DispatchQueue
=============================================================================
