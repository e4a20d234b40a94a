------------------------ MODULE MCReciprocalMirror ------------------------
(* A peer that issues, replaces, deletes and unlinks, under two runs.       *)
EXTENDS ReciprocalMirror
=============================================================================
