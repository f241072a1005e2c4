------------------------------- MODULE S3Sink -------------------------------
(***************************************************************************)
(* sink/cloud/s3.go: S3Sink hands the records the pipeline writes to a     *)
(* background goroutine through a bounded channel; the goroutine collects  *)
(* them in a buffer and uploads the buffer with one PUT once the channel   *)
(* is closed.  Both sides also watch the context of the run.               *)
(*                                                                         *)
(* The writer is the pipeline's goroutine: Open, Write for each record,    *)
(* then Close once, also when nothing was opened (pipeline.go:133-147) and *)
(* after a Write that failed (pipeline.go:191-194).  Records are numbered  *)
(* in the order they are written.                                          *)
(***************************************************************************)
EXTENDS Naturals, Sequences

CONSTANTS
    Capacity,   \* the channel's capacity, 1000 in the code
    NumRecords  \* bound: records the pipeline writes

ASSUME ConstantsAssumption == Capacity \in Nat \ {0} /\ NumRecords \in Nat

VARIABLES
    writer,    \* where the pipeline's goroutine is in its calls of the sink
    uploader,  \* where uploadLoop is
    ctx,       \* "live" or "cancelled": the context of Open and Write
    closed,    \* "no" or "yes": close(s.records) happened
    records,   \* the channel s.records
    buffer,    \* rows in s.buffer
    header,    \* the record s.headers was taken from, 0 for nil
    sent,      \* how many records Write accepted
    endpoint,  \* "valid" or "malformed": the URL bucket and key make
    puts,      \* the bodies of the PUT requests, in order
    object     \* the request whose body the bucket holds, 0 for none

upload == <<endpoint, puts, object>>
vars   == <<writer, uploader, ctx, closed, records, buffer, header, sent, upload>>

Init ==
    /\ writer = "new" /\ uploader = "none"
    /\ ctx = "live" /\ closed = "no"
    /\ records = <<>> /\ buffer = <<>> /\ header = 0 /\ sent = 0
    /\ endpoint \in {"valid", "malformed"}
    /\ puts = <<>> /\ object = 0

-----------------------------------------------------------------------------
(* The pipeline's goroutine.                                               *)

Open ==
    /\ writer = "new"
    /\ writer' = "ready"
    /\ uploader' = "running"
    /\ UNCHANGED <<ctx, closed, records, buffer, header, sent, upload>>

(* The run looks at ctx (pipeline.go:157), reads a record and calls Write. *)
CallWrite ==
    /\ writer = "ready" /\ sent < NumRecords /\ ctx = "live"
    /\ writer' = "writing"
    /\ UNCHANGED <<uploader, ctx, closed, records, buffer, header, sent, upload>>

Room == Len(records) < Capacity

(* case s.records <- r *)
Send ==
    /\ writer = "writing" /\ Room
    /\ records' = Append(records, sent + 1)
    /\ sent' = sent + 1
    /\ writer' = "ready"
    /\ UNCHANGED <<uploader, ctx, closed, buffer, header, upload>>

(* Mutant: Write waits for room in the channel and for nothing else. *)
WriteDeaf == FALSE

WriteSeesCancel == ctx = "cancelled"

(* case <-ctx.Done(): the error ends the run, so Close is what follows. *)
GiveUp ==
    /\ writer = "writing" /\ WriteSeesCancel
    /\ writer' = "failed"
    /\ UNCHANGED <<uploader, ctx, closed, records, buffer, header, sent, upload>>

AfterCloseCall == "waiting"

(* Close: close(s.records), then s.wg.Wait(). *)
CallClose ==
    /\ writer \in {"new", "ready", "failed"}
    /\ closed' = "yes"
    /\ writer' = AfterCloseCall
    /\ UNCHANGED <<uploader, ctx, records, buffer, header, sent, upload>>

CloseReturns ==
    /\ writer = "waiting" /\ uploader \in {"none", "exited"}
    /\ writer' = "closed"
    /\ UNCHANGED <<uploader, ctx, closed, records, buffer, header, sent, upload>>

-----------------------------------------------------------------------------
(* uploadLoop.  A select with several cases ready takes any of them.       *)

(* Mutant: the first record gives the headers and no row, as the first      *)
(* Write of the SQLite sink does (sqlite.go:46).                           *)
HeaderOnly == IF header = 0 THEN buffer ELSE Append(buffer, records[1])

WriteRecord == Append(buffer, records[1])

(* case r := <-s.records *)
Take ==
    /\ uploader = "running" /\ records # <<>>
    /\ buffer' = WriteRecord
    /\ header' = IF header = 0 THEN records[1] ELSE header
    /\ records' = Tail(records)
    /\ UNCHANGED <<writer, uploader, ctx, closed, sent, upload>>

(* Mutant: the cancelled loop uploads what it has. *)
StopUploads ==
    uploader' = "uploading" /\ puts' = Append(puts, buffer) /\ buffer' = <<>>

StopSilently == uploader' = "exited" /\ UNCHANGED <<puts, buffer>>

(* case <-ctx.Done(): return, without a flush. *)
SeeCancel ==
    /\ uploader = "running" /\ ctx = "cancelled"
    /\ StopSilently
    /\ UNCHANGED <<writer, ctx, closed, records, header, sent, endpoint, object>>

(* !ok: the channel is closed and drained.  flushToS3 builds its request,   *)
(* whose body drains s.buffer, or gives up on a URL that does not parse.    *)
StartFlush ==
    /\ uploader = "running" /\ closed = "yes" /\ records = <<>>
    /\ \/ /\ endpoint = "valid"
          /\ uploader' = "uploading"
          /\ puts' = Append(puts, buffer) /\ buffer' = <<>>
       \/ /\ endpoint = "malformed"
          /\ StopSilently
    /\ UNCHANGED <<writer, ctx, closed, records, header, sent, endpoint, object>>

(* Mutant: the goroutine never calls s.wg.Done(). *)
UploaderStuck == "uploading"

UploaderDone == "exited"

(* The request ends: the object is there, or it is not; uploadLoop ignores *)
(* the error and flushToS3 the status, so nobody learns which.             *)
FinishFlush ==
    /\ uploader = "uploading"
    /\ object' \in {object, Len(puts)}
    /\ uploader' = UploaderDone
    /\ UNCHANGED <<writer, ctx, closed, records, buffer, header, sent, endpoint, puts>>

-----------------------------------------------------------------------------
Cancel ==
    /\ ctx = "live"
    /\ ctx' = "cancelled"
    /\ UNCHANGED <<writer, uploader, closed, records, buffer, header, sent, upload>>

WriterStep == Send \/ GiveUp \/ CloseReturns
UploaderStep == Take \/ SeeCancel \/ StartFlush \/ FinishFlush

Next == Open \/ CallWrite \/ CallClose \/ WriterStep \/ UploaderStep \/ Cancel

Spec == Init /\ [][Next]_vars

(* Both goroutines run; the request returns in the end, which the code     *)
(* leaves to the network (http.Client{} has no timeout).                   *)
FairSpec == Spec /\ WF_vars(WriterStep) /\ WF_vars(UploaderStep)

-----------------------------------------------------------------------------
(* Type invariant: also the channel never holds more than its capacity. *)
TypeOK ==
    /\ writer \in {"new", "ready", "writing", "failed", "waiting", "closed"}
    /\ uploader \in {"none", "running", "uploading", "exited"}
    /\ ctx \in {"live", "cancelled"} /\ closed \in {"no", "yes"}
    /\ records \in Seq(Nat) /\ Len(records) <= Capacity
    /\ buffer \in Seq(Nat)
    /\ sent \in Nat /\ header \in Nat
    /\ endpoint \in {"valid", "malformed"}
    /\ puts \in Seq(Seq(Nat)) /\ object \in 0..Len(puts)

(* The rows the uploader collected, before and after the request took them. *)
Collected == IF puts = <<>> THEN buffer ELSE puts[1]

(* What Write accepted was collected or is in the channel, once, in order,  *)
(* under the header of the first record, whatever the two goroutines do and *)
(* whenever the context is cancelled.                                       *)
Conserved ==
    /\ sent = Len(Collected) + Len(records)
    /\ \A i \in DOMAIN Collected : Collected[i] = i
    /\ \A i \in DOMAIN records : records[i] = Len(Collected) + i
    /\ header = IF Collected = <<>> THEN 0 ELSE 1

(* The bucket never holds part of a run: the one request the sink sends     *)
(* carries every record Write ever accepted, a cancelled run included.      *)
WholeObject ==
    /\ Len(puts) <= 1
    /\ \A k \in DOMAIN puts : Len(puts[k]) = sent
    /\ object # 0 => closed = "yes" /\ records = <<>>

(* Close returns only when the goroutine it started has ended, so nothing   *)
(* touches the buffer afterwards (s.wg.Wait()).                             *)
ClosedIsQuiet ==
    writer = "closed" => closed = "yes" /\ uploader \in {"none", "exited"}

(* A Write always returns: either the channel drains or the context is      *)
(* cancelled, and a goroutine that left the loop does not block it.         *)
WriteReturns == (writer = "writing") ~> (writer # "writing")

(* Close always returns. *)
CloseEnds == (writer = "waiting") ~> (writer = "closed")

(* "Close flushes remaining records and stops the uploader" (s3.go:78):     *)
(* what the sink accepted was at least sent to the bucket.                  *)
CloseFlushes ==
    writer = "closed" /\ endpoint = "valid" /\ sent > 0
        => puts # <<>> /\ Len(puts[1]) = sent

-----------------------------------------------------------------------------
(* What the properties above need to be inductive: how far the two         *)
(* goroutines can be from each other.  Nothing is written once the channel *)
(* is closed, and nothing is collected once the request is built.          *)
ProtocolInv ==
    /\ closed = "yes" <=> writer \in {"waiting", "closed"}
    /\ writer = "new" => uploader = "none"
    /\ uploader = "none" => writer \in {"new", "waiting", "closed"} /\ records = <<>> /\ puts = <<>>
    /\ uploader = "uploading" => puts # <<>>
    /\ puts # <<>> => /\ uploader \in {"uploading", "exited"}
                      /\ closed = "yes" /\ records = <<>> /\ Len(puts) = 1

IInv == TypeOK /\ ProtocolInv /\ Conserved
=============================================================================
