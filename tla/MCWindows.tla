------------------------------ MODULE MCWindows ------------------------------
(* A small instance of both windows for TLC: two goroutines add to the       *)
(* sliding one, and either makes more batches than the channel holds.        *)
EXTENDS Windows
=============================================================================
