------------------------------ MODULE MCS3Sink ------------------------------
(* A small instance of S3Sink for TLC: more records than the channel holds. *)
EXTENDS S3Sink
=============================================================================
