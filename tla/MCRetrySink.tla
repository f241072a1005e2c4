---------------------------- MODULE MCRetrySink ----------------------------
(* A small instance of RetrySink for TLC: up to two retries of up to three  *)
(* records, with durations narrow enough to overflow.                       *)
EXTENDS RetrySink
=============================================================================
