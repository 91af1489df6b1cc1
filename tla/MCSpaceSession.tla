--------------------------- MODULE MCSpaceSession --------------------------
(* The session on a small instance; the runs choose the bounds. *)
EXTENDS SpaceSession
=============================================================================
