-------------------------- MODULE MCTelemetryQueue --------------------------
(* Instances of TelemetryQueue for TLC.                                     *)
EXTENDS TelemetryQueue

CONSTANTS k1, k2
=============================================================================
