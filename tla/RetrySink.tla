------------------------------ MODULE RetrySink ------------------------------
(***************************************************************************)
(* retry/policy.go: RetrySink passes each Write to an inner sink through   *)
(* Policy.Do, which repeats it after a failure and waits longer each time. *)
(* The inner sink here is SQLiteSink.                                      *)
(*                                                                         *)
(* The caller is the pipeline: it looks at its context before each record  *)
(* (pipeline.go:157), ends the run at the first Write that fails, and      *)
(* closes the sink once.  Durations are signed integers of fixed width.    *)
(***************************************************************************)
EXTENDS SQLiteSink, Integers

CONSTANTS
    MaxRetries,   \* bound: p.maxRetries
    NumRecords,   \* bound: records the pipeline writes
    Modulus       \* 2^64 in the code: the number of durations

ASSUME ConstantsAssumption ==
    /\ MaxRetries \in Nat /\ NumRecords \in Nat
    /\ Modulus \in Nat \ 0..3 /\ Modulus % 2 = 0

VARIABLES
    maxRetries,  \* p.maxRetries
    backoff,     \* p.backoff
    pc,          \* where the pipeline's goroutine is
    ctx,         \* "live" or "cancelled"
    cur,         \* the record being written; before the first, 0
    i,           \* the loop variable of Do
    failures,    \* history: inner Writes that failed
    acked        \* how many Writes returned nil

policy == <<maxRetries, backoff>>
vars   == <<sink, policy, pc, ctx, cur, i, failures, acked>>

(* The value of a duration that wraps around. *)
Wrap(d) ==
    LET low == d % Modulus
    IN  IF low < Modulus \div 2 THEN low ELSE low - Modulus

Init ==
    /\ SinkInit
    /\ maxRetries \in -1..MaxRetries
    /\ backoff = 1
    /\ pc = "new" /\ ctx = "live"
    /\ cur = 0 /\ i = 0 /\ failures = 0 /\ acked = 0

-----------------------------------------------------------------------------
(* Open pings the database. *)
Open ==
    /\ pc = "new"
    /\ pc' \in {"ready", "failed"}
    /\ UNCHANGED <<sink, policy, ctx, cur, i, failures, acked>>

(* Write enters Do.  Without a single attempt allowed it returns nil. *)
CallWrite ==
    /\ pc = "ready" /\ ctx = "live" /\ cur < NumRecords
    /\ cur' = cur + 1
    /\ i' = 0
    /\ IF maxRetries >= 0
       THEN pc' = "attempt" /\ UNCHANGED acked
       ELSE acked' = acked + 1 /\ UNCHANGED pc
    /\ UNCHANGED <<sink, policy, ctx, failures>>

(* Mutant: the back-off starts over after a success. *)
ResetBackoff == backoff' = 1

KeepBackoff == UNCHANGED backoff

Succeed ==
    /\ pc = "attempt"
    /\ Write(cur, "nil")
    /\ acked' = acked + 1
    /\ KeepBackoff
    /\ pc' = "ready"
    /\ UNCHANGED <<maxRetries, ctx, cur, i, failures>>

(* Mutant: one attempt too many. *)
OneMoreAttempt == i <= maxRetries

AttemptsLeft == i < maxRetries

(* err := fn() failed: the wait doubles, also after the last attempt, whose *)
(* error ends the Write.                                                    *)
Retry ==
    /\ pc = "attempt"
    /\ Write(cur, "error")
    /\ failures' = failures + 1
    /\ backoff' = Wrap(2 * backoff)
    /\ IF AttemptsLeft
       THEN pc' = "wait" /\ i' = i + 1
       ELSE pc' = "failed" /\ UNCHANGED i
    /\ UNCHANGED <<maxRetries, ctx, cur, acked>>

(* Mutant: the select is entered again after the timer fired. *)
WaitsAgain == "wait"

AfterWait == "attempt"

(* case <-time.After(p.backoff): at once if the duration is not positive. *)
WaitEnds ==
    /\ pc = "wait"
    /\ pc' = AfterWait
    /\ UNCHANGED <<sink, policy, ctx, cur, i, failures, acked>>

(* case <-ctx.Done(): ctx.Err() is returned and the last error forgotten. *)
WaitCancelled ==
    /\ pc = "wait" /\ ctx = "cancelled"
    /\ pc' = "failed"
    /\ UNCHANGED <<sink, policy, ctx, cur, i, failures, acked>>

Close ==
    /\ pc \in {"new", "ready", "failed"}
    /\ pc' = "closed"
    /\ UNCHANGED <<sink, policy, ctx, cur, i, failures, acked>>

Cancel ==
    /\ ctx = "live"
    /\ ctx' = "cancelled"
    /\ UNCHANGED <<sink, policy, pc, cur, i, failures, acked>>

DoStep == Succeed \/ Retry \/ WaitEnds \/ WaitCancelled

Next == Open \/ CallWrite \/ DoStep \/ Close \/ Cancel

Spec == Init /\ [][Next]_vars

(* Statements and timers end; nobody must write, cancel or close. *)
FairSpec == Spec /\ WF_vars(DoStep)

-----------------------------------------------------------------------------
(* Type invariant: also a Write makes at most maxRetries + 1 attempts. *)
TypeOK ==
    /\ SinkTypeOK
    /\ maxRetries \in -1..MaxRetries
    /\ backoff \in -(Modulus \div 2)..(Modulus \div 2 - 1)
    /\ pc \in {"new", "ready", "attempt", "wait", "failed", "closed"}
    /\ ctx \in {"live", "cancelled"}
    /\ cur \in 0..NumRecords /\ acked \in 0..cur /\ failures \in Nat
    /\ i \in Nat /\ (pc \in {"attempt", "wait"} => i <= maxRetries)

Stored == {rows[k] : k \in DOMAIN rows}

(* Behind a policy that allows an attempt, every record acknowledged after  *)
(* the first is a row, and the acknowledged records are the first written;  *)
(* retries never hide a lost record (policy.go:51-54, sqlite.go:65-69).     *)
AckedAreRows ==
    maxRetries >= 0 => \A r \in 2..acked : r \in Stored

(* A failed createTable is final: the headers are set, so no retry and no   *)
(* later Write creates the table, and nothing is acknowledged any more.     *)
TableOrNothing ==
    headers = "set" /\ table = "absent" => rows = <<>> /\ (maxRetries >= 0 => acked = 0)

(* Rows come in the order of the records; a record is there more than once  *)
(* only if a Write that worked was reported as failed, and never more often *)
(* than there were attempts.                                                *)
RowsInOrder ==
    /\ \A j, k \in DOMAIN rows : j <= k => rows[j] <= rows[k]
    /\ \A j, k \in DOMAIN rows : rows[j] = rows[k] => k - j <= maxRetries
    /\ Len(rows) <= acked + failures

(* The wait doubles with every failure in the life of the policy, not of    *)
(* the Write, modulo the width of a duration (policy.go:58).                *)
BackoffCountsFailures == backoff = Wrap(2 ^ failures)

(* Write returns: it succeeds, gives up or sees the cancellation. *)
WriteReturns == (pc \in {"attempt", "wait"}) ~> (pc \in {"ready", "failed"})

(* "Write inserts a record." (sqlite.go:37): a record whose Write returned  *)
(* nil is a row of the table.                                               *)
WriteInserts ==
    maxRetries >= 0 => \A r \in 1..acked : r \in Stored
-----------------------------------------------------------------------------
(* What the properties above need to be inductive.  Where the caller is:    *)
(* every Write that returned was acknowledged, the one under way is not.    *)
CallerInv ==
    /\ pc = "new" => cur = 0
    /\ pc \in {"new", "ready"} => acked = cur
    /\ pc \in {"attempt", "wait"} => maxRetries >= 0 /\ acked = cur - 1
    /\ maxRetries < 0 => headers = "nil"

(* Before the first Write of the sink nothing is stored, nor acknowledged   *)
(* by a policy that makes attempts.                                         *)
SinkInv ==
    headers = "nil" => rows = <<>> /\ failures = 0 /\ (maxRetries >= 0 => acked = 0)

(* The rows of the Write under way are the last ones, one at most for each  *)
(* attempt that failed; no row is of a record still to come.                *)
AttemptInv ==
    /\ \A k \in DOMAIN rows : rows[k] <= cur
    /\ pc \in {"attempt", "wait"} =>
          \A k \in DOMAIN rows : rows[k] = cur => Len(rows) - k < i

IInv ==
    /\ TypeOK /\ CallerInv /\ SinkInv /\ AttemptInv
    /\ AckedAreRows /\ TableOrNothing /\ RowsInOrder
=============================================================================
