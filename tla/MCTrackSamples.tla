--------------------------- MODULE MCTrackSamples ---------------------------
(* The sample buffers for TLC; the bounds are given in the configuration.  *)
EXTENDS TrackSamples
=============================================================================
