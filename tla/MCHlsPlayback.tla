---------------------------- MODULE MCHlsPlayback ----------------------------
(* Instances of HlsPlayback for TLC: a window of one, long enough for the   *)
(* monitor to remove files, and a window of two, where playlists overlap.   *)
EXTENDS HlsPlayback, TLC

Segments == (1 :> 4) @@ (2 :> 4)
=============================================================================
