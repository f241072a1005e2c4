------------------------------ MODULE FileTail ------------------------------
(***************************************************************************)
(* source/streaming/tail.go: FileTailSource turns the lines of a file into *)
(* records while another process appends to the file.                      *)
(*                                                                         *)
(* Three parties: the process that appends (external), the pipeline's      *)
(* goroutine inside Open, Read and Close, and whoever cancels the context. *)
(* The line splitting is that of bufio.Scanner with ScanLines (external),  *)
(* modelled as Read uses it: a buffer of at most MaxLine units ahead of    *)
(* the lines returned, and an end of file or error that, once met, stays.  *)
(* A unit of the file is a piece of a line or a newline.                   *)
(***************************************************************************)
EXTENDS Naturals, Sequences

CONSTANTS
    MaxLine,   \* the scanner's maximal token, 1 MB in the code
    MaxUnits   \* bound: the length the file grows to

ASSUME ConstantsAssumption == MaxLine \in Nat \ {0} /\ MaxUnits \in Nat

VARIABLES
    file,    \* the units in the file
    atOpen,  \* history: how many there were when Open opened it
    pos,     \* the file descriptor's offset
    start,   \* where the scanner's unread data begins
    latch,   \* the scanner's error: "none", "eof", "error", "tooLong"
    pc,      \* where the pipeline's goroutine is
    ctx,     \* "live" or "cancelled"
    lines    \* history: records returned, as [from, to] in the file

scanner == <<pos, start, latch>>
vars    == <<file, atOpen, scanner, pc, ctx, lines>>

Units == {"text", "newline"}

Init ==
    /\ file \in UNION {[1..n -> Units] : n \in 0..MaxUnits}
    /\ atOpen = 0
    /\ pos = 0 /\ start = 0 /\ latch = "none"
    /\ pc = "new" /\ ctx = "live"
    /\ lines = <<>>

-----------------------------------------------------------------------------
(* Mutant: Open seeks to the end, as its comment says (tail.go:52). *)
SeekToEnd == Len(file)

FirstOffset == 0

Open ==
    /\ pc = "new"
    /\ \/ /\ pc' = "idle"
          /\ atOpen' = Len(file)
          /\ pos' = FirstOffset /\ start' = FirstOffset
       \/ pc' = "failed" /\ UNCHANGED <<atOpen, pos, start>>
    /\ UNCHANGED <<file, latch, ctx, lines>>

(* The run reads again while its context is live (pipeline.go:156-162). *)
CallRead ==
    /\ pc = "idle" /\ ctx = "live"
    /\ pc' = "select"
    /\ UNCHANGED <<file, atOpen, scanner, ctx, lines>>

(* Mutant: Read never looks at ctx. *)
NeverDone == FALSE

Done == ctx = "cancelled"

(* The select with its default case; ctx.Err() ends the run. *)
Select ==
    /\ pc = "select"
    /\ pc' = IF Done THEN "failed" ELSE "scan"
    /\ UNCHANGED <<file, atOpen, scanner, ctx, lines>>

-----------------------------------------------------------------------------
(* s.scanner.Scan().                                                       *)

Newlines == {i \in start + 1..pos : file[i] = "newline"}

(* Mutant: the last newline read ends the line. *)
LastNewline == CHOOSE i \in Newlines : \A j \in Newlines : j <= i

NextNewline == CHOOSE i \in Newlines : \A j \in Newlines : i <= j

(* Mutant: what is left is a line whenever the file has no more. *)
NothingMoreNow == pos = Len(file)

AtEOF == latch # "none"

Return(to) ==
    /\ lines' = Append(lines, [from |-> start + 1, to |-> to])
    /\ start' = to
    /\ pc' = "idle"

ReturnLine ==
    /\ pc = "scan" /\ Newlines # {}
    /\ Return(NextNewline)
    /\ UNCHANGED <<file, atOpen, pos, latch, ctx>>

(* The unfinished last line counts as a line at the end of the file. *)
ReturnRest ==
    /\ pc = "scan" /\ Newlines = {}
    /\ AtEOF /\ start < pos
    /\ Return(pos)
    /\ UNCHANGED <<file, atOpen, pos, latch, ctx>>

(* Scan is false: Read returns the error, or waits and retries. *)
ScanFails ==
    /\ pc = "scan" /\ latch # "none" /\ start = pos
    /\ pc' = IF latch = "eof" THEN "sleep" ELSE "failed"
    /\ UNCHANGED <<file, atOpen, scanner, ctx, lines>>

BufferEnd == start + MaxLine

NeedsData == pc = "scan" /\ latch = "none" /\ Newlines = {}

(* One read of the file, which may return less than there is. *)
Fetch ==
    /\ NeedsData /\ pos < BufferEnd
    /\ \/ /\ pos' \in {i \in pos + 1..Len(file) : i <= BufferEnd}
          /\ UNCHANGED latch
       \/ pos = Len(file) /\ latch' = "eof" /\ UNCHANGED pos
       \/ latch' = "error" /\ UNCHANGED pos
    /\ UNCHANGED <<file, atOpen, start, pc, ctx, lines>>

TooLong ==
    /\ NeedsData /\ pos = BufferEnd
    /\ latch' = "tooLong"
    /\ pc' = "failed"
    /\ UNCHANGED <<file, atOpen, pos, start, ctx, lines>>

(* time.Sleep(s.delay) is over. *)
Wake ==
    /\ pc = "sleep"
    /\ pc' = "select"
    /\ UNCHANGED <<file, atOpen, scanner, ctx, lines>>

Close ==
    /\ pc \in {"new", "idle", "failed"}
    /\ pc' = "closed"
    /\ UNCHANGED <<file, atOpen, scanner, ctx, lines>>

-----------------------------------------------------------------------------
(* Around the source.                                                      *)

Grow ==
    /\ Len(file) < MaxUnits
    /\ \E u \in Units : file' = Append(file, u)
    /\ UNCHANGED <<atOpen, scanner, pc, ctx, lines>>

Cancel ==
    /\ ctx = "live"
    /\ ctx' = "cancelled"
    /\ UNCHANGED <<file, atOpen, scanner, pc, lines>>

ReadStep ==
    \/ CallRead \/ Select \/ ReturnLine \/ ReturnRest \/ ScanFails
    \/ Fetch \/ TooLong \/ Wake

Next == Open \/ ReadStep \/ Close \/ Grow \/ Cancel

Spec == Init /\ [][Next]_vars

(* The run keeps reading, file reads and sleeps end; nobody is obliged to  *)
(* open, close, cancel or append.                                          *)
FairSpec == Spec /\ WF_vars(ReadStep)

-----------------------------------------------------------------------------
Reading == pc \in {"select", "scan", "sleep"}

(* Type invariant: also the scanner stays within the file and its buffer. *)
TypeOK ==
    /\ file \in Seq(Units) /\ atOpen \in 0..Len(file)
    /\ start \in 0..pos /\ pos \in 0..Len(file) /\ pos <= start + MaxLine
    /\ latch \in {"none", "eof", "error", "tooLong"}
    /\ pc \in {"new", "idle", "select", "scan", "sleep", "failed", "closed"}
    /\ ctx \in {"live", "cancelled"}
    /\ lines \in Seq([from: Nat, to: Nat])

Returned == IF lines = <<>> THEN 0 ELSE lines[Len(lines)].to

(* The records are the file, line by line from its first byte: in order, no *)
(* gap, no overlap, no newline inside a record, however the appends fall    *)
(* between the reads.                                                       *)
Gapless ==
    /\ Returned = start
    /\ \A k \in DOMAIN lines :
          /\ lines[k].from = IF k = 1 THEN 1 ELSE lines[k - 1].to + 1
          /\ lines[k].from <= lines[k].to
          /\ \A i \in lines[k].from..lines[k].to - 1 : file[i] # "newline"

(* A line the appending process had not finished is returned only as the    *)
(* very last record, after the scanner met the end of the file or an error: *)
(* its other half never arrives as a record of its own.                     *)
TornIsLast ==
    \A k \in DOMAIN lines :
        file[lines[k].to] # "newline" =>
            k = Len(lines) /\ latch # "none" /\ start = pos

(* Read returns soon after the context is cancelled, also while it waits    *)
(* for the file to grow.                                                    *)
CancelEndsRead == (Reading /\ ctx = "cancelled") ~> ~Reading

(* Whatever was in the file when it was opened is returned, unless the run  *)
(* is cancelled, fails or is closed first.                                  *)
CatchesUp ==
    (pc = "idle") ~> \/ Returned >= atOpen
                     \/ ctx = "cancelled" \/ pc \in {"failed", "closed"}

(* "reads new lines appended to a file, similar to `tail -f`" (tail.go:14): *)
(* a line that is complete in the file is returned in the end, unless the   *)
(* run is cancelled, fails or is closed first.                              *)
FollowsFile ==
    \A n \in 1..MaxUnits :
        (pc = "sleep" /\ n \in DOMAIN file /\ file[n] = "newline")
            ~> \/ Returned >= n
               \/ ctx = "cancelled" \/ pc \in {"failed", "closed"}
-----------------------------------------------------------------------------
(* What Gapless and TornIsLast need to be inductive: a record that was      *)
(* returned lies before the scanner's unread data, where the file only      *)
(* grows, never changes, and before Open there is none.                     *)
Behind ==
    /\ \A k \in DOMAIN lines : 1 <= lines[k].from /\ lines[k].to <= start
    /\ pc = "new" => lines = <<>>

IInv == TypeOK /\ Gapless /\ Behind /\ TornIsLast
=============================================================================
