----------------------------- MODULE MCFileTail -----------------------------
(* A small instance of FileTail for TLC: lines that fit the scanner and     *)
(* lines that are too long, files that grow before, between and after reads.*)
EXTENDS FileTail
=============================================================================
