------------------------------ MODULE EventLog ------------------------------
(***************************************************************************)
(* What the worker's outbound dispatch promises, whatever the threads do:  *)
(* the events it accepted are worked off one at a time, each once, in the  *)
(* order in which they were accepted, and nothing else is.  An event that  *)
(* was refused never appears.                                              *)
(***************************************************************************)
EXTENDS Naturals, Sequences

CONSTANT Events

VARIABLES
  accepted,  \* the events accepted so far, in order
  handled    \* the events worked off so far, in order

logVars == <<accepted, handled>>

LogInit == accepted = <<>> /\ handled = <<>>

Accept ==
  /\ \E e \in Events : accepted' = Append(accepted, e)
  /\ UNCHANGED handled

Handle ==
  /\ Len(handled) < Len(accepted)
  /\ handled' = Append(handled, accepted[Len(handled) + 1])
  /\ UNCHANGED accepted

LogNext == Accept \/ Handle

LogSpec == LogInit /\ [][LogNext]_logVars

=============================================================================
