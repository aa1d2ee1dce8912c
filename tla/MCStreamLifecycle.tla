------------------------- MODULE MCStreamLifecycle -------------------------
(* Instances of StreamLifecycle for TLC. *)
EXTENDS StreamLifecycle

CONSTANTS aac, srt

\* AAC stands for the streams the destructor kills, SRT is the one it does not.
MCOrder     == <<aac, srt>>
MCExitOrder == <<aac>>

OneOrder    == <<aac>>
=============================================================================
