----------------------------- MODULE MCPipeline -----------------------------
(* Small instances of Pipeline for TLC: two records against up to two       *)
(* transformers and two validators, every component optional, one rerun.    *)
EXTENDS Pipeline
=============================================================================
