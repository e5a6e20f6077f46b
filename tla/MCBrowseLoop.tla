---------------------------- MODULE MCBrowseLoop ----------------------------
(* The browse loop for TLC; the bounds are given in the configuration.     *)
EXTENDS BrowseLoop
=============================================================================
