----------------------------- MODULE MCRecorder -----------------------------
(* The recorder for TLC: the names the game can give, and those that are   *)
(* in the database before the first run.                                   *)
EXTENDS Recorder

SameNames == [t \in Named |-> {"one"}]
TwoTracks == [SameNames EXCEPT !.track = {"one", "other"}]

NoNames == <<>>
OneName == <<"one">>
=============================================================================
