---------------------------- MODULE SlidingWindow ----------------------------
(***************************************************************************)
(* window/sliding.go: SlidingWindow collects the records that any number   *)
(* of goroutines add, and a goroutine started by Start hands what has come *)
(* together to a consumer at every tick, over a bounded channel.           *)
(*                                                                         *)
(* The adders and the flusher share w.records under w.mu; the flusher      *)
(* keeps the lock while it waits for room in the channel.  The consumer    *)
(* may stop receiving at any time (external).  Records are numbered in the *)
(* order they enter w.records.                                             *)
(*                                                                         *)
(* There is no duration among the constants, because the code keeps the    *)
(* one it is given (w.duration, sliding.go:14 and 25) and never reads it.  *)
(* What sliding.go:12 calls a "sliding time window" is emptied at every     *)
(* tick: its batches hold what was added since the tick before, and never  *)
(* overlap.  Conserved says so, and what the comment says does not hold.   *)
(***************************************************************************)
EXTENDS Naturals, Sequences, FiniteSets

CONSTANTS
    Adders,     \* goroutines that call AddRecord
    Capacity,   \* the channel's capacity, 10 in the code
    MaxRecords  \* bound: records added

ASSUME ConstantsAssumption ==
    IsFiniteSet(Adders) /\ Capacity \in Nat \ {0} /\ MaxRecords \in Nat

VARIABLES
    adding,    \* the adders inside AddRecord
    records,   \* w.records
    added,     \* history: how many records entered w.records
    flusher,   \* where the goroutine of Start is
    tick,      \* "no" or "yes": a tick waits in ticker.C
    halt,      \* "no" or "yes": Stop was called or the context cancelled
    sent,      \* history: the batches put on resultChan
    taken,     \* how many of them the consumer received
    consumer   \* "listening" or "gone"

window  == <<adding, records, added>>
channel == <<sent, taken>>
vars    == <<window, flusher, tick, halt, channel, consumer>>

Init ==
    /\ adding = {} /\ records = <<>> /\ added = 0
    /\ flusher = "none" /\ tick = "no" /\ halt = "no"
    /\ sent = <<>> /\ taken = 0
    /\ consumer = "listening"

-----------------------------------------------------------------------------
(* AddRecord.                                                              *)

CallAdd(a) ==
    /\ a \notin adding /\ added + Cardinality(adding) < MaxRecords
    /\ adding' = adding \cup {a}
    /\ UNCHANGED <<records, added, flusher, tick, halt, channel, consumer>>

(* Mutant: AddRecord does not take the lock. *)
NoLock == TRUE

LockFree == flusher \notin {"sending", "clearing"}

(* Lock, append, Unlock: nothing else happens while an adder has the lock. *)
Add(a) ==
    /\ a \in adding /\ LockFree
    /\ added' = added + 1
    /\ records' = Append(records, added + 1)
    /\ adding' = adding \ {a}
    /\ UNCHANGED <<flusher, tick, halt, channel, consumer>>

-----------------------------------------------------------------------------
(* The goroutine of Start.                                                 *)

Start ==
    /\ flusher = "none"
    /\ flusher' = "select"
    /\ UNCHANGED <<window, tick, halt, channel, consumer>>

(* The ticker drops the ticks nobody waits for; it ends with the goroutine. *)
Tick ==
    /\ flusher \notin {"none", "exited"} /\ tick = "no"
    /\ tick' = "yes"
    /\ UNCHANGED <<window, flusher, halt, channel, consumer>>

TakeTick ==
    /\ flusher = "select" /\ tick = "yes"
    /\ tick' = "no"
    /\ flusher' = "locking"
    /\ UNCHANGED <<window, halt, channel, consumer>>

(* Mutant: the goroutine listens to its ticker only. *)
DeafToHalt == FALSE

Halted == halt = "yes"

SeeHalt ==
    /\ flusher = "select" /\ Halted
    /\ flusher' = "exited"
    /\ UNCHANGED <<window, tick, halt, channel, consumer>>

(* Mutant: flushWindow does not unlock. *)
StillLocked == "clearing"

Unlocked == "select"

AfterLock == IF records = <<>> THEN Unlocked ELSE "sending"

(* flushWindow: Lock, and Unlock at once when there is nothing to send. *)
Lock ==
    /\ flusher = "locking"
    /\ flusher' = AfterLock
    /\ UNCHANGED <<window, tick, halt, channel, consumer>>

Room == Len(sent) - taken < Capacity

Send ==
    /\ flusher = "sending" /\ Room
    /\ sent' = Append(sent, records)
    /\ flusher' = "clearing"
    /\ UNCHANGED <<window, tick, halt, taken, consumer>>

(* Mutant: the batch stays in the window. *)
KeepRecords == records

NoRecords == <<>>

(* w.records = nil, then the deferred Unlock. *)
Clear ==
    /\ flusher = "clearing"
    /\ records' = NoRecords
    /\ flusher' = Unlocked
    /\ UNCHANGED <<adding, added, tick, halt, channel, consumer>>

-----------------------------------------------------------------------------
(* Around the window.                                                      *)

Receive ==
    /\ consumer = "listening" /\ taken < Len(sent)
    /\ taken' = taken + 1
    /\ UNCHANGED <<window, flusher, tick, halt, sent, consumer>>

Leave ==
    /\ consumer = "listening"
    /\ consumer' = "gone"
    /\ UNCHANGED <<window, flusher, tick, halt, channel>>

(* Stop, once, or the cancellation of the context of Start. *)
Halt ==
    /\ halt = "no"
    /\ halt' = "yes"
    /\ UNCHANGED <<window, flusher, tick, channel, consumer>>

Flush == TakeTick \/ Lock \/ Send \/ Clear

Next ==
    \/ \E a \in Adders : CallAdd(a) \/ Add(a)
    \/ Start \/ Tick \/ SeeHalt \/ Flush
    \/ Receive \/ Leave \/ Halt

Spec == Init /\ [][Next]_vars

(* Go's mutex starves nobody, its select takes each ready case in the end, *)
(* the ticker ticks and a listening consumer receives.                     *)
Fairness ==
    /\ \A a \in Adders : SF_vars(Add(a))
    /\ SF_vars(SeeHalt) /\ SF_vars(TakeTick) /\ WF_vars(Flush)
    /\ WF_vars(Tick) /\ WF_vars(Receive)

FairSpec == Spec /\ Fairness

-----------------------------------------------------------------------------
(* Type invariant: also the channel never holds more than its capacity. *)
TypeOK ==
    /\ adding \subseteq Adders
    /\ records \in Seq(Nat) /\ added \in Nat
    /\ flusher \in {"none", "select", "locking", "sending", "clearing", "exited"}
    /\ tick \in {"no", "yes"} /\ halt \in {"no", "yes"}
    /\ sent \in Seq(Seq(Nat)) /\ taken \in 0..Len(sent)
    /\ Len(sent) - taken <= Capacity
    /\ consumer \in {"listening", "gone"}

(* s holds consecutive records. *)
Consecutive(s) == \A i \in DOMAIN s : s[i] = s[1] + (i - 1)

LastSent == IF sent = <<>> THEN 0 ELSE sent[Len(sent)][Len(sent[Len(sent)])]

(* What is in the window and not yet in a batch. *)
Unsent == IF flusher = "clearing" THEN <<>> ELSE records

(* Every record added is in exactly one batch or still in the window, in    *)
(* the order they were added and none twice, whatever the adders, the       *)
(* flusher and the consumer do; and no batch is empty.  (That is what       *)
(* flushWindow does, sliding.go:68-76.  A window of a duration longer than  *)
(* its interval, as sliding.go:12 has it, would emit a record again.)       *)
Conserved ==
    /\ \A k \in DOMAIN sent :
          /\ sent[k] # <<>> /\ Consecutive(sent[k])
          /\ sent[k][1] = IF k = 1 THEN 1 ELSE sent[k - 1][Len(sent[k - 1])] + 1
    /\ Consecutive(Unsent)
    /\ Unsent # <<>> => Unsent[1] = LastSent + 1
    /\ added = LastSent + Len(Unsent)

(* AddRecord returns, however long the flusher holds the lock, as long as   *)
(* somebody receives: the lock is held during the send.                     *)
AddReturns ==
    \A a \in Adders : (a \in adding) ~> (a \notin adding \/ consumer = "gone")

(* A record added to a running window reaches the consumer, unless the      *)
(* window is stopped or nobody receives.                                    *)
EveryRecordArrives ==
    \A n \in 1..MaxRecords :
        (added >= n /\ flusher # "none")
            ~> \/ taken > 0 /\ sent[taken][Len(sent[taken])] >= n
               \/ halt = "yes" \/ consumer = "gone"

(* "Stop stops the window" (sliding.go:63), cancellation too, as long as    *)
(* somebody receives: a flusher blocked in its send does not see either.    *)
HaltEnds ==
    (halt = "yes" /\ flusher # "none")
        ~> (flusher = "exited" \/ consumer = "gone")

-----------------------------------------------------------------------------
(* What Conserved needs to be inductive: the flusher sends no empty batch, *)
(* because nobody but itself takes records out of the window.              *)
IInv == TypeOK /\ Conserved /\ (flusher = "sending" => records # <<>>)
=============================================================================
