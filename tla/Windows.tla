------------------------------- MODULE Windows -------------------------------
(***************************************************************************)
(* Both windows of window/sliding.go side by side: kind says which of them *)
(* is used.                                                                *)
(***************************************************************************)
EXTENDS SlidingWindow, Integers

CONSTANT Count

ASSUME CountAssumption == Count \in Int

VARIABLES kind, batch, counted, call, passed, received

counting == <<batch, counted, call, passed, received>>

CW == INSTANCE CountWindow
          WITH records <- batch, added <- counted, sent <- passed, taken <- received,
               MaxRecords <- 2 * MaxRecords

WindowsInit == kind \in {"sliding", "count"} /\ Init /\ CW!Init

WindowsNext ==
    \/ kind = "sliding" /\ Next /\ UNCHANGED <<kind, counting>>
    \/ kind = "count" /\ CW!Next /\ UNCHANGED <<kind, vars>>

WindowsSpec == WindowsInit /\ [][WindowsNext]_<<kind, vars, counting>> /\ Fairness

(* CountWindow's property, of its instance: every record added is in exactly *)
(* one batch, or among the fewer than Count that the window keeps.          *)
BatchesExact == CW!BatchesExact
=============================================================================
