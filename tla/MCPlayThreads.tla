--------------------------- MODULE MCPlayThreads ---------------------------
(* The threads of "gilles play" for TLC; the bounds are given in the       *)
(* configurations.                                                         *)
EXTENDS PlayThreads
=============================================================================
