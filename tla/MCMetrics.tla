------------------------------ MODULE MCMetrics ------------------------------
(* A small instance of Metrics for TLC: two exporters and enough records    *)
(* for a copy to be torn across the fate of one of them.                    *)
EXTENDS Metrics
=============================================================================
