-------------------- MODULE MCPeriodicExportingMetricReader --------------------
(* Instances of PeriodicExportingMetricReader for TLC. *)
EXTENDS PeriodicExportingMetricReader, TLC
===============================================================================
