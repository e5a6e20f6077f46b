-------------------------- MODULE MCTelemetryDump --------------------------
(* The telemetry dump for TLC: laps of one and three points, with the      *)
(* places where a missing sample, a straight wheel or a neutral gear can   *)
(* matter.                                                                 *)
EXTENDS TelemetryDump

D == "driven"
N == "neutral"
S == "straight"
H == "hole"

MCShapes == {<<D>>, <<S>>, <<D, N, N>>, <<N, H, D>>}
=============================================================================
