------------------------------ MODULE Pipeline ------------------------------
(***************************************************************************)
(* intake.Pipeline (pipeline.go): the builder calls, Run with its deferred *)
(* Close calls, and the way one record travels from the source through the *)
(* transformers and validators to the sink or the quarantine.              *)
(*                                                                         *)
(* Run is one goroutine; pc is where it stands between two calls into user *)
(* code (Open, Read, Apply, Validate, Write, Close).  Around it the caller *)
(* may cancel the context at any moment, and each call may succeed, return *)
(* an error or panic.                                                      *)
(*                                                                         *)
(* Data: a record is known by its place in the stream.  What its fields    *)
(* hold matters only through which transformer and which validators object *)
(* to it, so input[i] records that, and the state of a record's fields is  *)
(* its version, the number of transformers applied to it.                  *)
(***************************************************************************)
EXTENDS Naturals, Sequences, FiniteSets

CONSTANTS
    NumRecords,     \* bound: records the source yields before it must end
    MaxTransforms,  \* bound: transformers a caller attaches
    MaxValidators,  \* bound: validators a caller attaches
    MaxReruns,      \* bound: calls of Run after the first
    Styles          \* how Apply hands back its result: "fresh", "inPlace"

ASSUME ConstantsAssumption ==
    /\ NumRecords \in Nat
    /\ MaxTransforms \in Nat
    /\ MaxValidators \in Nat
    /\ MaxReruns \in Nat
    /\ Styles \subseteq {"fresh", "inPlace"}

VARIABLES
    wired,        \* components the builder attached
    transforms,   \* len(p.transforms)
    validators,   \* len(p.validators)
    Read, Written, Invalid, Failed,  \* p.stats
    pc,           \* where Run stands, "idle" outside of Run
    err,          \* what the first Run returns, "none" until that is settled
    reruns,       \* how often Run was called again
    ctx,          \* "live" or "cancelled"
    cancelledAt,  \* history: records read when it was cancelled
    rec,          \* record in hand: read and not settled, 0 if none
    raw,          \* version of the map Read returned (Run's rec)
    out,          \* version of the map the stages work on (Run's out)
    outIs,        \* "rec" while out is the very map rec is, else "fresh"
    step,         \* next transformer or validator to call
    errs,         \* validators that rejected the record so far
    life,         \* life cycle of each component
    input,        \* records the source yielded
    accepted,     \* records whose Sink.Write returned nil
    stored,       \* how many of them Sink.Close made durable
    refused,      \* InvalidRecords built, in order
    quarantined   \* how many of them Quarantine.Write acknowledged

stats    == <<Read, Written, Invalid, Failed>>
building == <<wired, transforms, validators>>
caller   == <<reruns, ctx, cancelledAt>>
stages   == <<raw, out, outIs, step, errs>>
sinkSide == <<accepted, stored>>
badSide  == <<refused, quarantined>>
given    == <<building, caller>>          \* what Run's goroutine never writes
hand     == <<rec, stages>>
flow     == <<input, sinkSide, badSide>>
vars     == <<given, stats, pc, err, hand, life, flow>>

Components == {"source", "sink", "quarantine"}

StatsZero  == Read = 0 /\ Written = 0 /\ Invalid = 0 /\ Failed = 0
StatsReset == Read' = 0 /\ Written' = 0 /\ Invalid' = 0 /\ Failed' = 0

(* A record's contents: the first transformer that rejects it (0: none)   *)
(* and the validators that object to it once it is transformed.           *)
Content == [bad: 0..transforms, flags: SUBSET (1..validators)]

Init ==
    /\ wired = {} /\ transforms = 0 /\ validators = 0
    /\ reruns = 0 /\ ctx = "live" /\ cancelledAt = 0
    /\ StatsZero
    /\ pc = "idle" /\ err = "none"
    /\ rec = 0 /\ raw = 0 /\ out = 0 /\ outIs = "rec" /\ step = 1 /\ errs = <<>>
    /\ life = [c \in Components |-> "new"]
    /\ input = <<>>
    /\ accepted = <<>> /\ stored = 0
    /\ refused = <<>> /\ quarantined = 0

-----------------------------------------------------------------------------
(* The builder: From, To, OnInvalid, Transform, Validate.  A call after    *)
(* the first Run is left out: no later Run reads what it sets.             *)

(* p.run: Run was called. *)
run == pc # "idle" \/ err # "none"

Building == ~run

Attach(c) ==
    /\ Building /\ c \notin wired
    /\ wired' = wired \cup {c}
    /\ UNCHANGED <<transforms, validators, caller, stats, pc, err, hand, life,
                   flow>>

AddTransform ==
    /\ Building /\ transforms < MaxTransforms
    /\ transforms' = transforms + 1
    /\ UNCHANGED <<wired, validators, caller, stats, pc, err, hand, life, flow>>

AddValidator ==
    /\ Building /\ validators < MaxValidators
    /\ validators' = validators + 1
    /\ UNCHANGED <<wired, transforms, caller, stats, pc, err, hand, life, flow>>

-----------------------------------------------------------------------------
(* Entering and leaving Run.                                               *)

(* Mutant: the quarantine's Close is not deferred. *)
UnwindForgetsQuarantine == "closeSink"

(* The deferred Close calls run in the order quarantine, sink, source. *)
Unwind == IF "quarantine" \in wired THEN "closeQuarantine" ELSE "closeSink"

(* Mutant: a fatal return that leaves p.stats.Failed alone. *)
FailUncounted(code) ==
    /\ err' = code
    /\ pc' = Unwind
    /\ UNCHANGED stats

(* return with a fatal error: p.stats.Failed++, then the deferred calls. *)
Fail(code) ==
    /\ Failed' = Failed + 1 /\ UNCHANGED <<Read, Written, Invalid>>
    /\ err' = code
    /\ pc' = Unwind

(* A panic in user code unwinds through the same deferred calls; no      *)
(* counter moves.                                                        *)
Panics ==
    /\ err' = "panic"
    /\ pc' = Unwind
    /\ UNCHANGED stats

(* Mutant: p.stats is reset before p.run is looked at. *)
ResetStats == StatsReset

KeepStats == UNCHANGED stats

(* A second Run returns pipeline_already_run and touches nothing. *)
RunAgain ==
    /\ pc = "idle" /\ run /\ reruns < MaxReruns
    /\ reruns' = reruns + 1
    /\ KeepStats
    /\ UNCHANGED <<building, ctx, cancelledAt, pc, err, hand, life, flow>>

(* No source or no sink: p.run is already set, Failed does not move and no *)
(* Close is deferred.                                                      *)
RunMisconfigured ==
    /\ ~run
    /\ StatsReset
    /\ \/ "source" \notin wired /\ err' = "missing_source"
       \/ "source" \in wired /\ "sink" \notin wired /\ err' = "missing_sink"
    /\ UNCHANGED <<given, pc, hand, life, flow>>

RunStart ==
    /\ ~run
    /\ {"source", "sink"} \subseteq wired
    /\ StatsReset
    /\ pc' = "openSource"
    /\ UNCHANGED <<given, err, hand, life, flow>>

Open(c, here, there, code) ==
    /\ pc = here
    /\ \/ /\ life' = [life EXCEPT ![c] = "opened"]
          /\ pc' = there
          /\ UNCHANGED <<stats, err>>
       \/ /\ life' = [life EXCEPT ![c] = "broken"]
          /\ Fail(code) \/ Panics
    /\ UNCHANGED <<given, hand, flow>>

OpenSource == Open("source", "openSource", "openSink", "source_open_failed")

OpenSink ==
    Open("sink", "openSink",
         IF "quarantine" \in wired THEN "openQuarantine" ELSE "top",
         "sink_open_failed")

OpenQuarantine ==
    Open("quarantine", "openQuarantine", "top", "quarantine_open_failed")

-----------------------------------------------------------------------------
(* The record loop.                                                        *)

(* Mutant: the loop never looks at ctx. *)
NeverCancelled == FALSE

ContextErr == ctx = "cancelled"

CheckContext ==
    /\ pc = "top"
    /\ \/ ContextErr /\ Fail("context_cancelled")
       \/ ~ContextErr /\ pc' = "read" /\ UNCHANGED <<stats, err>>
    /\ UNCHANGED <<given, hand, life, flow>>

ReadRecord ==
    /\ pc = "read" /\ Len(input) < NumRecords
    /\ \E d \in Content : input' = Append(input, d)
    /\ Read' = Read + 1 /\ UNCHANGED <<Written, Invalid, Failed>>
    /\ rec' = Len(input) + 1
    /\ raw' = 0 /\ out' = 0 /\ outIs' = "rec"
    /\ step' = 1 /\ errs' = <<>>
    /\ pc' = "transform"
    /\ UNCHANGED <<given, err, life, sinkSide, badSide>>

(* Mutant: io.EOF is taken for a record to skip. *)
EOFSkipped == pc' = "top" /\ UNCHANGED err

EOFEndsRun == pc' = Unwind /\ err' = "ok"

ReadEOF ==
    /\ pc = "read"
    /\ EOFEndsRun
    /\ UNCHANGED <<given, stats, hand, life, flow>>

ReadError ==
    /\ pc = "read"
    /\ Fail("source_read_failed")
    /\ UNCHANGED <<given, hand, life, flow>>

(* Mutant: the `continue` after handleInvalid is missing. *)
RejectFallsThrough == "sinkWrite"

AfterReject == IF "quarantine" \in wired THEN "quarantineWrite" ELSE "top"

(* p.stats.Invalid++ and handleInvalid up to the quarantine's Write. *)
Reject(stage, version, errors) ==
    /\ Invalid' = Invalid + 1 /\ UNCHANGED <<Read, Written, Failed>>
    /\ refused' = Append(refused, [id |-> rec, version |-> version,
                                   stage |-> stage, errors |-> errors])
    /\ rec' = 0
    /\ pc' = AfterReject

TransformsLeft  == step <= transforms
ValidatorsLeft  == step <= validators

(* One transformer of applyTransforms.  On an error Run hands its own rec  *)
(* to the quarantine, not the record the chain had reached; the two are    *)
(* one map as long as every transformer so far worked in place.            *)
ApplyTransform(style) ==
    /\ pc = "transform" /\ TransformsLeft
    /\ raw' = IF style = "inPlace" /\ outIs = "rec" THEN raw + 1 ELSE raw
    /\ \/ /\ input[rec].bad = step
          /\ Reject("transform", raw', <<step>>)
          /\ UNCHANGED <<out, outIs, step>>
       \/ /\ input[rec].bad # step
          /\ out' = out + 1
          /\ outIs' = IF style = "inPlace" THEN outIs ELSE "fresh"
          /\ step' = step + 1
          /\ UNCHANGED <<stats, refused, rec, pc>>
    /\ UNCHANGED <<given, err, errs, life, input, sinkSide, quarantined>>

TransformsDone ==
    /\ pc = "transform" /\ ~TransformsLeft
    /\ pc' = "validate"
    /\ step' = 1
    /\ UNCHANGED <<given, stats, err, rec, raw, out, outIs, errs, life, flow>>

(* Mutant: the first validator that rejects the record ends the chain. *)
FirstObjectionEnds == IF step \in input[rec].flags THEN validators + 1 ELSE step + 1

NextValidator == step + 1

(* One validator of applyValidators: every validator is asked, whatever the *)
(* ones before it said.                                                     *)
ApplyValidator ==
    /\ pc = "validate" /\ ValidatorsLeft
    /\ errs' = IF step \in input[rec].flags THEN Append(errs, step) ELSE errs
    /\ step' = NextValidator
    /\ UNCHANGED <<given, stats, pc, err, rec, raw, out, outIs, life, flow>>

ValidatorsDone ==
    /\ pc = "validate" /\ ~ValidatorsLeft
    /\ \/ errs # <<>> /\ Reject("validation", out, errs)
       \/ errs = <<>> /\ pc' = "sinkWrite" /\ UNCHANGED <<stats, refused, rec>>
    /\ UNCHANGED <<given, err, stages, life, input, sinkSide, quarantined>>

(* Mutant: a quarantine that fails to write is ignored. *)
QuarantineFailureIgnored == pc' = "top" /\ UNCHANGED <<stats, err>>

QuarantineFails == Fail("quarantine_write_failed")

QuarantineWrite ==
    /\ pc = "quarantineWrite"
    /\ \/ quarantined' = quarantined + 1 /\ pc' = "top" /\ UNCHANGED <<stats, err>>
       \/ QuarantineFails /\ UNCHANGED quarantined
    /\ UNCHANGED <<given, hand, life, input, sinkSide, refused>>

(* Mutant: Written counts the attempt. *)
SinkFailureCounted ==
    /\ Written' = Written + 1 /\ Failed' = Failed + 1 /\ UNCHANGED <<Read, Invalid>>
    /\ err' = "sink_write_failed" /\ pc' = Unwind

SinkFails == Fail("sink_write_failed")

SinkWrite ==
    /\ pc = "sinkWrite"
    /\ \/ /\ accepted' = Append(accepted, [id |-> rec, version |-> out])
          /\ Written' = Written + 1 /\ UNCHANGED <<Read, Invalid, Failed>>
          /\ rec' = 0 /\ pc' = "top" /\ UNCHANGED err
       \/ SinkFails /\ UNCHANGED <<accepted, rec>>
    /\ UNCHANGED <<given, stages, life, input, stored, badSide>>

(* A panic in Read, Apply, Validate or either Write. *)
CallPanics ==
    /\ \/ pc \in {"read", "quarantineWrite", "sinkWrite"}
       \/ pc = "transform" /\ TransformsLeft
       \/ pc = "validate" /\ ValidatorsLeft
    /\ Panics
    /\ UNCHANGED <<given, hand, life, flow>>

-----------------------------------------------------------------------------
(* The deferred Close calls; the error each returns is discarded.          *)

CloseQuarantine ==
    /\ pc = "closeQuarantine"
    /\ life' = [life EXCEPT !["quarantine"] = "closed"]
    /\ pc' = "closeSink"
    /\ UNCHANGED <<given, stats, err, hand, flow>>

(* Close flushes what the sink buffered: all of it, or after an error no   *)
(* more than a part of it.                                                 *)
CloseSink ==
    /\ pc = "closeSink"
    /\ life' = [life EXCEPT !["sink"] = "closed"]
    /\ stored' \in 0..Len(accepted)
    /\ pc' = "closeSource"
    /\ UNCHANGED <<given, stats, err, hand, input, accepted, badSide>>

CloseSource ==
    /\ pc = "closeSource"
    /\ life' = [life EXCEPT !["source"] = "closed"]
    /\ pc' = "idle"
    /\ UNCHANGED <<given, stats, err, hand, flow>>

-----------------------------------------------------------------------------

Cancel ==
    /\ ctx = "live"
    /\ ctx' = "cancelled"
    /\ cancelledAt' = Len(input)
    /\ UNCHANGED <<building, reruns, stats, pc, err, hand, life, flow>>

Opening == OpenSource \/ OpenSink \/ OpenQuarantine
Looping ==
    \/ CheckContext \/ ReadRecord \/ ReadEOF \/ ReadError
    \/ \E style \in Styles : ApplyTransform(style)
    \/ TransformsDone \/ ApplyValidator \/ ValidatorsDone
    \/ QuarantineWrite \/ SinkWrite \/ CallPanics
Closing == CloseQuarantine \/ CloseSink \/ CloseSource

(* The steps of the goroutine inside Run. *)
RunStep == Opening \/ Looping \/ Closing

Next ==
    \/ \E c \in Components : Attach(c)
    \/ AddTransform \/ AddValidator
    \/ RunAgain \/ RunMisconfigured \/ RunStart
    \/ RunStep
    \/ Cancel

Spec == Init /\ [][Next]_vars

(* Every call into user code returns (or panics) in the end; nobody is     *)
(* obliged to call Run or to cancel.                                       *)
FairSpec == Spec /\ WF_vars(RunStep)

-----------------------------------------------------------------------------
Outcomes == {"ok", "panic", "source_open_failed", "sink_open_failed",
             "quarantine_open_failed", "context_cancelled",
             "source_read_failed", "sink_write_failed",
             "quarantine_write_failed"}
Misuses == {"missing_source", "missing_sink"}

LoopPoints == {"top", "read", "transform", "validate", "quarantineWrite",
               "sinkWrite"}
OpenPoints  == {"openSource", "openSink", "openQuarantine"}
ClosePoints == {"closeQuarantine", "closeSink", "closeSource"}
PCs == {"idle"} \cup OpenPoints \cup LoopPoints \cup ClosePoints

Contents       == [bad: Nat, flags: SUBSET (1..MaxValidators)]
Deliveries     == [id: Nat, version: Nat]
InvalidRecords == [id: Nat, version: Nat, stage: {"transform", "validation"},
                   errors: Seq(Nat)]

(* Type invariant: the state stays within what Run's variables can hold. *)
ControlTypes ==
    /\ wired \subseteq Components
    /\ transforms \in 0..MaxTransforms /\ validators \in 0..MaxValidators
    /\ ctx \in {"live", "cancelled"}
    /\ pc \in PCs
    /\ err \in Outcomes \cup Misuses \cup {"none"}
    /\ pc \in ClosePoints => err \in Outcomes
    /\ reruns \in Nat
    /\ life \in [Components -> {"new", "opened", "broken", "closed"}]

StageTypes ==
    /\ raw \in Nat /\ out \in Nat /\ outIs \in {"rec", "fresh"}
    /\ step \in Nat /\ errs \in Seq(Nat)
    /\ pc = "transform" => step \in 1..(transforms + 1)
    /\ pc = "validate" => step \in 1..(validators + 1)

CountTypes ==
    /\ Read \in Nat /\ Written \in Nat /\ Invalid \in Nat /\ Failed \in Nat
    /\ cancelledAt \in Nat /\ stored \in Nat /\ quarantined \in Nat

DataTypes ==
    /\ input \in Seq(Contents)
    /\ rec \in 0..Len(input)
    /\ accepted \in Seq(Deliveries)
    /\ refused \in Seq(InvalidRecords)

TypeOK == ControlTypes /\ StageTypes /\ CountTypes /\ DataTypes

-----------------------------------------------------------------------------
(* The errors Run counts as fatal. *)
Fatal == Outcomes \ {"ok", "panic"}

(* s lists its elements in increasing order. *)
Ascending(s) == \A i, j \in DOMAIN s : i < j => s[i] < s[j]

(* What the stages attached to the pipeline object to. *)
TransformObjects(id)  == input[id].bad # 0
ValidatorsObject(id)  == input[id].flags

(* Accounting: the counters of Stats (intake.go:150-166) balance at every   *)
(* moment.  Read is Written plus Invalid plus the one record in hand; a     *)
(* record in hand when Run ends was lost to a sink error or a panic, so a   *)
(* run that returns nil has accounted for every record the source yielded.  *)
Accounting ==
    /\ Written = Len(accepted) /\ Invalid = Len(refused)
    /\ Read = Len(input)
    /\ rec = 0 => Read = Written + Invalid
    /\ rec # 0 => Read = Written + Invalid + 1
    /\ pc = "idle" /\ rec # 0 => err \in {"sink_write_failed", "panic"}

(* Failed counts exactly the fatal errors Run returns: it is 1 when the     *)
(* run ends with a source, sink, quarantine or context error and 0 after a  *)
(* clean end, a configuration error or a panic (Stats.Failed).              *)
FailedIffFatal == Failed = IF err \in Fatal THEN 1 ELSE 0

(* No rejected record is dropped silently: with a quarantine attached every *)
(* InvalidRecord has reached it, save the one being written and the one     *)
(* whose write failed or panicked and so ended the run.                     *)
QuarantineComplete ==
    /\ "quarantine" \notin wired => quarantined = 0
    /\ "quarantine" \in wired =>
          \/ quarantined = Len(refused)
          \/ /\ quarantined + 1 = Len(refused)
             /\ \/ pc = "quarantineWrite"
                \/ err \in {"quarantine_write_failed", "panic"}

WellDelivered(a) ==
    /\ ~TransformObjects(a.id)
    /\ ValidatorsObject(a.id) = {}
    /\ a.version = transforms

WellRefused(r) ==
    \/ /\ r.stage = "transform" /\ TransformObjects(r.id)
       /\ r.errors = <<input[r.id].bad>>
       /\ "inPlace" \notin Styles => r.version = 0
    \/ /\ r.stage = "validation" /\ ~TransformObjects(r.id)
       /\ r.version = transforms
       /\ r.errors # <<>>
       /\ {r.errors[i] : i \in DOMAIN r.errors} = ValidatorsObject(r.id)
       /\ Ascending(r.errors)

(* Routing: the sink gets a record iff no transformer and no validator      *)
(* objects to it, transformed by all of them; the quarantine is told of a   *)
(* rejected record by the first transformer that objects, with the record   *)
(* as it was read, or else by every validator that objects, in the order    *)
(* they were added, with the transformed record (intake.go:69-110,135-141). *)
Routed ==
    /\ \A k \in DOMAIN accepted : WellDelivered(accepted[k])
    /\ \A k \in DOMAIN refused : WellRefused(refused[k])

(* Life cycle: no record moves before every attached component is open; a   *)
(* run that passed its configuration checks closes every attached           *)
(* component, opened or not, whatever ended it; and they close downstream   *)
(* first.                                                                   *)
Lifecycle ==
    /\ pc \in LoopPoints => \A c \in wired : life[c] = "opened"
    /\ pc = "idle" => \A c \in Components : life[c] \in {"new", "closed"}
    /\ pc = "idle" /\ err \in Outcomes => \A c \in wired : life[c] = "closed"
    /\ life["source"] = "closed" => life["sink"] = "closed"
    /\ life["sink"] = "closed" /\ "quarantine" \in wired => life["quarantine"] = "closed"

(* Cancellation: at most the Read already under way yields a record after   *)
(* the context is cancelled (pipeline.go:157).                              *)
CancelStops == ctx = "cancelled" => Len(input) <= cancelledAt + 1

(* Counters never go back over the life of a Pipeline (intake.go:150-151),  *)
(* a refused second Run included.                                           *)
StatsMonotonic ==
    [][/\ Read' >= Read /\ Written' >= Written
       /\ Invalid' >= Invalid /\ Failed' >= Failed]_vars

(* Run returns, provided the user code it calls returns: a stream that ends *)
(* ends the run, and nothing in the loop or the teardown waits for ever.    *)
RunReturns == (pc # "idle") ~> (pc = "idle")

(* Pipeline implements the abstract record flow. *)
Verdict ==
    CASE pc # "idle"                  -> "open"
      [] pc = "idle" /\ err = "none"  -> "idle"
      [] pc = "idle" /\ err = "ok"    -> "clean"
      [] pc = "idle" /\ err \in Misuses -> "misused"
      [] OTHER                        -> "aborted"

Ids(s) == [k \in DOMAIN s |-> s[k].id]

Flow == INSTANCE RecordFlow WITH
    offered   <- Len(input),
    delivered <- Ids(accepted),
    refused   <- Ids(refused),
    verdict   <- Verdict

(* Each record is settled once, in the order of the source, before the next *)
(* one is read; a nil return means all are settled; nothing happens to a    *)
(* record after Run returned.                                               *)
ImplementsRecordFlow == Flow!Spec

(* What the documentation says and the code does not do: see README.        *)

(* "ErrKindSink indicates a sink-level failure (open, write, close)"        *)
(* (errors.go:15): a run that reports no error left no accepted record      *)
(* behind in a sink whose Close failed to flush it.                         *)
CloseFailureReported ==
    pc = "idle" /\ err = "ok" => stored = Written

(* "The pipeline routes the original (untransformed) record to the          *)
(* Quarantine" (intake.go:76-78), for the transformers record.go:9-12       *)
(* allows ("it may return the same one for in-place transforms").           *)
OriginalQuarantined ==
    \A k \in DOMAIN refused :
        refused[k].stage = "transform" => refused[k].version = 0

-----------------------------------------------------------------------------
(* What the properties above need to be inductive: how each depends on     *)
(* where Run stands.                                                       *)

CallsUserCode == OpenPoints \cup LoopPoints

ControlInv ==
    /\ run /\ err \notin Misuses => {"source", "sink"} \subseteq wired
    /\ pc # "idle" => err \notin Misuses
    /\ pc \in {"openQuarantine", "quarantineWrite", "closeQuarantine"}
          => "quarantine" \in wired
    /\ pc \in CallsUserCode => err = "none"

AccountingInv ==
    /\ Accounting
    /\ ~run => Len(input) = 0
    /\ pc \in {"transform", "validate", "sinkWrite"} => rec # 0 /\ rec = Len(input)
    /\ err = "none" /\ pc \notin {"transform", "validate", "sinkWrite"} => rec = 0
    /\ pc \in ClosePoints /\ rec # 0 => err \in {"sink_write_failed", "panic"}

QuarantineInv ==
    /\ QuarantineComplete
    /\ ~run => quarantined = 0 /\ Len(refused) = 0
    /\ "quarantine" \in wired /\ err = "none" /\ pc # "quarantineWrite"
          => quarantined = Len(refused)
    /\ pc = "quarantineWrite" => quarantined + 1 = Len(refused)

NoneClosed == \A c \in Components : life[c] # "closed"

LifecycleInv ==
    /\ Lifecycle
    /\ ~run \/ pc = "openSource" \/ err \in Misuses => \A c \in Components : life[c] = "new"
    /\ pc = "openSink" => life["source"] = "opened"
    /\ pc = "openQuarantine" => life["source"] = "opened" /\ life["sink"] = "opened"
    /\ pc \in CallsUserCode \cup {"closeQuarantine"} => NoneClosed
    /\ pc = "closeSink" => life["source"] # "closed" /\ life["sink"] # "closed"
    /\ pc = "closeSink" /\ "quarantine" \in wired => life["quarantine"] = "closed"
    /\ pc = "closeSource" => life["source"] # "closed" /\ life["sink"] = "closed"
    /\ "quarantine" \notin wired => life["quarantine"] = "new"

CancelInv ==
    /\ CancelStops
    /\ ctx = "cancelled" /\ pc = "read" => Len(input) = cancelledAt

HistoryInv ==
    /\ \A i \in DOMAIN input : input[i] \in Content
    /\ \A k \in DOMAIN accepted : accepted[k].id \in DOMAIN input
    /\ \A k \in DOMAIN refused : refused[k].id \in DOMAIN input

StageInv ==
    /\ pc = "transform" =>
          /\ out = step - 1 /\ errs = <<>>
          /\ input[rec].bad = 0 \/ input[rec].bad >= step
          /\ "inPlace" \notin Styles => raw = 0
    /\ pc \in {"validate", "sinkWrite"} => out = transforms /\ input[rec].bad = 0
    /\ pc = "validate" =>
          /\ Ascending(errs)
          /\ {errs[i] : i \in DOMAIN errs} = input[rec].flags \cap 1..(step - 1)
    /\ pc = "sinkWrite" => input[rec].flags = {}

RoutedInv == Routed /\ HistoryInv /\ StageInv
=============================================================================
