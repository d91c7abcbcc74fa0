--------------------------- MODULE MCMeasurement ----------------------------
(* Measurement with two channels, one of them the signal's.                *)
EXTENDS Measurement
=============================================================================
