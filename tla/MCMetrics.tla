------------------------------- MODULE MCMetrics -------------------------------
(* Caches of two and three seconds, for those of five and thirty.               *)
EXTENDS Metrics

MCTTL == [g \in Gauges |-> IF g = "ready" THEN 2 ELSE 3]
===============================================================================
