------------------------------ MODULE MCMetric -------------------------------
(* Three runs of one function and a clock of four ticks.                     *)
EXTENDS Metric

MCRuns == {"a", "b", "c"}
==============================================================================
