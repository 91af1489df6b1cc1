--------------------------- MODULE MCWebRequests ---------------------------
(* The web client with two workers, for model checking. *)
EXTENDS WebRequests, TLC

WorkerSymmetry == Permutations(Workers)
=============================================================================
