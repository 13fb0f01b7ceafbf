------------------------------ MODULE MCTelemetry -------------------------------
(* Texts of two lines of unequal length, a ring that holds one and a half.  *)
EXTENDS Telemetry

MCLineLen == <<2, 3>>
================================================================================
