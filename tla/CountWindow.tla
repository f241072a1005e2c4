----------------------------- MODULE CountWindow -----------------------------
(***************************************************************************)
(* window/sliding.go: CountWindow hands over a batch when it has count     *)
(* records.  It has no goroutine and no lock: AddRecord itself waits for   *)
(* room in the channel, so one goroutine adds, and unless another one      *)
(* receives it may wait for ever.  Records are numbered as they are added. *)
(***************************************************************************)
EXTENDS Integers, Sequences

CONSTANTS
    Count,      \* NewCountWindow's argument, which nothing checks
    Capacity,   \* the channel's capacity, 10 in the code
    MaxRecords  \* bound: records added

VARIABLES
    records,    \* w.records
    added,      \* history: how many records AddRecord was called with
    call,       \* "idle", or "full": AddRecord has a batch to send
    sent,       \* history: the batches put on resultChan
    taken       \* how many of them were received

vars == <<records, added, call, sent, taken>>

Init == records = <<>> /\ added = 0 /\ call = "idle" /\ sent = <<>> /\ taken = 0

(* Mutant: a batch is complete when a record more has come. *)
Overfull(n) == n > Count

Complete(n) == n >= Count

(* A Count of zero or less makes every record a batch. *)
AddRecord ==
    /\ call = "idle" /\ added < MaxRecords
    /\ added' = added + 1
    /\ records' = Append(records, added + 1)
    /\ call' = IF Complete(Len(records')) THEN "full" ELSE "idle"
    /\ UNCHANGED <<sent, taken>>

Send ==
    /\ call = "full" /\ Len(sent) - taken < Capacity
    /\ sent' = Append(sent, records)
    /\ records' = <<>> /\ call' = "idle"
    /\ UNCHANGED <<added, taken>>

Receive == taken < Len(sent) /\ taken' = taken + 1 /\ UNCHANGED <<records, added, call, sent>>

Next == AddRecord \/ Send \/ Receive

Spec == Init /\ [][Next]_vars

-----------------------------------------------------------------------------
Size == IF Count > 0 THEN Count ELSE 1

(* Every record added is in exactly one batch, all of Count records and in  *)
(* the order they were added, or among the fewer than Count that the window *)
(* keeps, to which no call ever hands over a last short batch.              *)
BatchesExact ==
    /\ \A k \in DOMAIN sent : sent[k] = [i \in 1..Size |-> (k - 1) * Size + i]
    /\ records = [i \in 1..added - Size * Len(sent) |-> Size * Len(sent) + i]
    /\ Len(records) <= Size /\ (call = "idle" => Len(records) < Size)

-----------------------------------------------------------------------------
(* Type invariant. *)
TypeOK ==
    /\ records \in Seq(Nat) /\ added \in Nat /\ sent \in Seq(Seq(Nat))
    /\ call \in {"idle", "full"}

(* What BatchesExact needs to be inductive: AddRecord sends exactly when    *)
(* the window holds Size records.                                           *)
IInv ==
    /\ TypeOK /\ BatchesExact
    /\ added = Size * Len(sent) + Len(records)
    /\ call = "full" => Len(records) = Size
=============================================================================
