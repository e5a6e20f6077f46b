----------------------------- MODULE MCStartup -----------------------------
(* Start-up for TLC: every set of keys.                                    *)
EXTENDS Startup

MCKeySets == SUBSET Keys
=============================================================================
