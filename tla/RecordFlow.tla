----------------------------- MODULE RecordFlow -----------------------------
(***************************************************************************)
(* What a Pipeline promises about the records of one run, without saying   *)
(* how: records are taken from the source one at a time; each is settled   *)
(* (delivered to the sink or refused) before the next one is taken; a run  *)
(* that ends clean has settled every record it took; and once the run has  *)
(* its verdict nothing more happens to any record.                         *)
(*                                                                         *)
(* This is the contract of intake.go (Source, Sink, Quarantine, Stats) as  *)
(* Pipeline.Run carries it out.  Pipeline.tla implements this module.      *)
(***************************************************************************)
EXTENDS Naturals, Sequences

VARIABLES
    offered,    \* how many records were taken from the source
    delivered,  \* ids of the records the sink accepted, in order
    refused,    \* ids of the records a transformer or validator rejected
    verdict     \* how the run stands

vars == <<offered, delivered, refused, verdict>>

Verdicts == {"idle", "open", "clean", "aborted", "misused"}

Settled == Len(delivered) + Len(refused)

Init == /\ offered = 0
        /\ delivered = <<>>
        /\ refused = <<>>
        /\ verdict = "idle"

Begin == /\ verdict = "idle"
         /\ verdict' = "open"
         /\ UNCHANGED <<offered, delivered, refused>>

(* A pipeline that lacks a source or a sink never starts. *)
Misuse == /\ verdict = "idle"
          /\ verdict' = "misused"
          /\ UNCHANGED <<offered, delivered, refused>>

Offer == /\ verdict = "open"
         /\ offered = Settled
         /\ offered' = offered + 1
         /\ UNCHANGED <<delivered, refused, verdict>>

Deliver == /\ verdict = "open"
           /\ Settled < offered
           /\ delivered' = Append(delivered, offered)
           /\ UNCHANGED <<offered, refused, verdict>>

Refuse == /\ verdict = "open"
          /\ Settled < offered
          /\ refused' = Append(refused, offered)
          /\ UNCHANGED <<offered, delivered, verdict>>

Finish == /\ verdict = "open"
          /\ \/ Settled = offered /\ verdict' = "clean"
             \/ verdict' = "aborted"
          /\ UNCHANGED <<offered, delivered, refused>>

Next == Begin \/ Misuse \/ Offer \/ Deliver \/ Refuse \/ Finish

Spec == Init /\ [][Next]_vars
=============================================================================
