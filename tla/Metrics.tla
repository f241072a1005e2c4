------------------------------- MODULE Metrics -------------------------------
(***************************************************************************)
(* metrics/prometheus.go: MetricsCollector's goroutine asks a pipeline for *)
(* its Stats at every tick and hands the copy to its exporters, one after  *)
(* the other, while Run goes on counting in another goroutine and anybody  *)
(* may ask an exporter for its page.                                       *)
(*                                                                         *)
(* Pipeline.Stats copies four counters without a lock, a word at a time    *)
(* and in an order the compiler chooses: CopyCounter copies one of them.   *)
(* Collect and Stop are called at most once.  What serves HTTP, and the    *)
(* flag of HealthCheck, is left out; Page is what ServeHTTP would write.   *)
(***************************************************************************)
EXTENDS Naturals

CONSTANTS
    NumExporters,  \* exporters given to NewMetricsCollector
    MaxRecords,    \* bound: records the pipeline reads
    Modulus        \* 2^64 in the code: the counters are unsigned

ASSUME CountersAssumption ==
    NumExporters \in Nat /\ MaxRecords \in Nat /\ Modulus \in Nat \ 0..MaxRecords

Counters  == {"Read", "Written", "Invalid", "Failed"}
Exporters == 1..NumExporters
Zero      == [c \in Counters |-> 0]

VARIABLES
    stats,      \* p.stats, as Run counts
    run,        \* where Run is: "loop", "holding", "rejecting" or "ended"
    tick,       \* "no" or "yes": a tick waits in ticker.C
    stop,       \* "no" or "yes": the channel stop is closed
    collector,  \* "none", "select", "copying", "updating" or "exited"
    stale,      \* the counters fn has not copied yet
    copy,       \* the collector's stats
    exporter,   \* the exporter to update next
    exported    \* what each exporter holds

pipeline    == <<stats, run>>
round       == <<collector, stale, copy, exporter>>
metricsVars == <<pipeline, tick, stop, round, exported>>

MetricsInit ==
    /\ stats = Zero /\ run = "loop"
    /\ tick = "no" /\ stop = "no"
    /\ collector = "none" /\ stale = {} /\ copy = Zero /\ exporter = 1
    /\ exported = [e \in Exporters |-> Zero]

-----------------------------------------------------------------------------
(* Run, as far as its counters go.                                         *)

Count(c, from, to) ==
    /\ run \in from /\ run' = to
    /\ stats' = [stats EXCEPT ![c] = @ + 1]
    /\ UNCHANGED <<tick, stop, round, exported>>

CountRead    == stats["Read"] < MaxRecords /\ Count("Read", {"loop"}, "holding")
CountInvalid == Count("Invalid", {"holding"}, "rejecting")
CountWritten == Count("Written", {"holding"}, "loop")
CountFailed  == Count("Failed", {"loop", "holding", "rejecting"}, "ended")

(* The quarantine took the record, or the source is at its end. *)
GoOn ==
    /\ \/ run = "rejecting" /\ run' = "loop"
       \/ run = "loop" /\ run' = "ended"
    /\ UNCHANGED <<stats, tick, stop, round, exported>>

-----------------------------------------------------------------------------
(* The collector's goroutine.                                              *)

Collect ==
    /\ collector = "none"
    /\ collector' = "select"
    /\ UNCHANGED <<pipeline, tick, stop, stale, copy, exporter, exported>>

(* The ticker runs from NewMetricsCollector on, and Stop leaves it running. *)
Tick ==
    /\ tick = "no" /\ tick' = "yes"
    /\ UNCHANGED <<pipeline, stop, round, exported>>

(* Mutant: the pipeline is asked once, before the loop. *)
AskOnce == IF copy = Zero THEN Counters ELSE {}

AskAll == Counters

TakeTick ==
    /\ collector = "select" /\ tick = "yes"
    /\ tick' = "no" /\ stale' = AskAll /\ exporter' = 1
    /\ collector' = "copying"
    /\ UNCHANGED <<pipeline, stop, copy, exported>>

CopyCounter(c) ==
    /\ collector = "copying" /\ c \in stale
    /\ copy' = [copy EXCEPT ![c] = stats[c]]
    /\ stale' = stale \ {c}
    /\ UNCHANGED <<pipeline, tick, stop, collector, exporter, exported>>

Copied ==
    /\ collector = "copying" /\ stale = {}
    /\ collector' = "updating"
    /\ UNCHANGED <<pipeline, tick, stop, stale, copy, exporter, exported>>

(* Mutant: what was exported before is added to, not replaced. *)
Difference(e) == [c \in Counters |-> copy[c] - exported[e][c]]

Update(e) == copy

(* UpdateStats of the next exporter, under its lock. *)
UpdateStats ==
    /\ collector = "updating" /\ exporter \in Exporters
    /\ exported' = [exported EXCEPT ![exporter] = Update(exporter)]
    /\ exporter' = exporter + 1
    /\ UNCHANGED <<pipeline, tick, stop, collector, stale, copy>>

RoundDone ==
    /\ collector = "updating" /\ exporter \notin Exporters
    /\ collector' = "select"
    /\ UNCHANGED <<pipeline, tick, stop, stale, copy, exporter, exported>>

Stop ==
    /\ stop = "no" /\ stop' = "yes"
    /\ UNCHANGED <<pipeline, tick, round, exported>>

(* Mutant: the loop does not listen to stop. *)
DeafToStop == FALSE

Stopped == stop = "yes"

SeeStop ==
    /\ collector = "select" /\ Stopped
    /\ collector' = "exited"
    /\ UNCHANGED <<pipeline, tick, stop, stale, copy, exporter, exported>>

-----------------------------------------------------------------------------

RunStep == CountRead \/ CountInvalid \/ CountWritten \/ CountFailed \/ GoOn

Round ==
    \/ TakeTick \/ Copied \/ UpdateStats \/ RoundDone
    \/ \E c \in Counters : CopyCounter(c)

MetricsNext == RunStep \/ Collect \/ Tick \/ Round \/ Stop \/ SeeStop

MetricsSpec == MetricsInit /\ [][MetricsNext]_metricsVars

(* The ticker ticks, the collector's goroutine is scheduled, and its select *)
(* takes each case that stays ready in the end.                             *)
MetricsFairSpec ==
    /\ MetricsSpec
    /\ WF_metricsVars(Tick) /\ WF_metricsVars(Round)
    /\ SF_metricsVars(TakeTick) /\ SF_metricsVars(SeeStop)

-----------------------------------------------------------------------------
(* ServeHTTP: the five series of an exporter's page. *)
Page(e) ==
    [read      |-> exported[e]["Read"],
     validated |-> (exported[e]["Read"] + Modulus - exported[e]["Invalid"]) % Modulus,
     written   |-> exported[e]["Written"],
     invalid   |-> exported[e]["Invalid"],
     failed    |-> exported[e]["Failed"]]

(* The page declares its series as counters ("# TYPE ... counter",          *)
(* prometheus.go:43).  Four of the five are: whatever the copies tear, no   *)
(* exporter ever shows a smaller number than before, nor a larger one than  *)
(* the pipeline counted.                                                    *)
SeriesAreCounters ==
    [][\A e \in Exporters :
          /\ \A s \in {"read", "written", "invalid", "failed"} : Page(e)'[s] >= Page(e)[s]
          /\ \A c \in Counters : exported'[e][c] <= stats'[c]]_metricsVars

(* The fifth, validated, is the difference of two counters that were not    *)
(* copied together and that move one after the other: it goes back.         *)
ValidatedIsCounter ==
    [][\A e \in Exporters : Page(e).validated' >= Page(e).validated]_metricsVars

(* Once Run has ended, every exporter comes to show its final counters,     *)
(* unless the collector is stopped: no copy torn across the end stays.      *)
FinalStatsExported ==
    (run = "ended" /\ collector # "none")
        ~> (stop = "yes" \/ \A e \in Exporters : exported[e] = stats)

(* "Stop stops the collector" (prometheus.go:129): its goroutine ends, also *)
(* when every flush of the ticker finds it busy.                            *)
StopEndsCollector ==
    (stop = "yes" /\ collector # "none") ~> (collector = "exited")
-----------------------------------------------------------------------------
(* Type invariant. *)
MetricsTypeOK ==
    /\ stats \in [Counters -> Nat] /\ copy \in [Counters -> Nat]
    /\ exported \in [Exporters -> [Counters -> Nat]] /\ exporter \in Nat
    /\ stale \subseteq Counters
    /\ run \in {"loop", "holding", "rejecting", "ended"}
    /\ collector \in {"none", "select", "copying", "updating", "exited"}
    /\ tick \in {"no", "yes"} /\ stop \in {"no", "yes"}

(* What SeriesAreCounters needs: however old the words of a copy are, they  *)
(* lie between what was exported last and what the pipeline has counted.    *)
ExportInv ==
    /\ MetricsTypeOK
    /\ \A c \in Counters :
          /\ copy[c] <= stats[c]
          /\ \A e \in Exporters : exported[e][c] <= copy[c]
=============================================================================
