---------------------------- MODULE MCBreakRange ----------------------------
(* Instances of BreakRange for TLC.                                         *)
EXTENDS BreakRange, TLC

\* The events are interchangeable.
RangeSymmetry == Permutations(Events)
=============================================================================
