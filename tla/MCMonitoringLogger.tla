------------------------- MODULE MCMonitoringLogger -------------------------
(* A small instance of MonitoringLogger: a custom metric and a default one, *)
(* both updated directly, watched and, the latter, sampled by operations.   *)
EXTENDS MonitoringLogger

CONSTANT Queue

MCMetricInputs == {Queue, "operation_duration_ms"}

MCLevelInputs == {ERROR}
=============================================================================
