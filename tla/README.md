# go-intake in TLA+

A verification development for [go-intake](../src/README.md): models of the
parts of the library where order, concurrency and failure matter, model-checked
with TLC, and proofs about the core checked with TLAPS.

## The system

One `Pipeline.Run` is one goroutine that pulls records from a `Source`, sends
each through the `Transformer`s and `Validator`s, and hands it to a `Sink` or,
rejected, to a `Quarantine`. All of these are interfaces that user code
implements and `Run` calls; some of the bundled implementations start goroutines
of their own (S3Sink, SlidingWindow, MetricsCollector).

| Component (source) | State it keeps | Operations | What is hard | What makes it correct |
|---|---|---|---|---|
| Pipeline (`pipeline.go`, `intake.go`) | components, stages, `Stats`, `run` | `From To OnInvalid Transform Validate Run Stats` | any call may fail, panic or be cancelled; teardown in three deferred calls; single use | each record settled once and in order; counters balance; everything closed; Run returns |
| Record, errors (`record.go`, `errors.go`, `invalid.go`) | none | constructors, `Unwrap`, `Is` | aliasing of record maps | a stage never changes a record others hold |
| S3Sink (`sink/cloud/s3.go`) | channel, buffer, header, goroutine | `Open Write Close`, `uploadLoop` | two goroutines, bounded channel, cancellation of both sides | order kept, whole object or none, Close ends |
| FileTailSource (`source/streaming/tail.go`) | file, scanner | `Open Read Close` | another process appends meanwhile | lines in order, none lost, cancellation ends Read |
| SlidingWindow, CountWindow (`window/sliding.go`) | records, mutex, channel, goroutine | `AddRecord Start Stop Window` | send under a lock, ticks, consumer that leaves | no record lost or doubled, nobody blocked for ever |
| RetrySink, Policy (`retry/policy.go`) | back-off | `Do Write Open Close` | repeated writes, cancellation, back-off that is never reset | at most `maxRetries+1` attempts, error of the last one |
| SQLiteSink (`sink/db/sqlite.go`) | headers, database | `Open Write Close` | table created on the first write | every acknowledged record is a row |
| CSV/JSONL sinks and sources | file, encoder or scanner | `Open Write/Read Close` | buffering, faults, torn files, ragged rows, reuse | a nil Close vouches for the file; what it holds is read back |
| JSONL quarantine (`quarantine/jsonl.go`) | file, encoder | `Open Write Close` | reserved keys, values JSON cannot hold | nothing rejected is lost |
| Metrics (`metrics/prometheus.go`) | last `Stats`, readiness, goroutine | `UpdateStats ServeHTTP Collect Stop` | copies counters another goroutine changes | what is exported never goes back and comes to be final; Stop ends the goroutine |
| Discover (`discover/*.go`) | accumulators per field | `InspectSource` | caps, ratios, type rules | profile agrees with the sample |
| Transformers, enrichers (`transform/*.go`, `enrich/lookup.go`) | none / a cache | `Apply` | key collisions, aliasing | input untouched, documented result |
| Validators (`validate/*.go`) | none | `Validate` | boundaries, missing fields | accept exactly the documented values |
| Examples | none | `main` | - | - |

They interact through the calls of `Run` (direct, synchronous), one context
that the caller may cancel at any time and that every call receives, and, inside
S3Sink and SlidingWindow, a channel. `PROJECT.json` lists the hazards of each at
the line where they bite, and the properties that cover them.

## What is modelled

### RecordFlow and Pipeline

`RecordFlow` is the promise, in terms of the records only: a source offers
records one at a time; each is delivered or refused, once, in order, before the
next is offered; a clean verdict leaves none unsettled; after the verdict nothing
moves. `Pipeline` models `pipeline.go` and is shown to implement it.

State of `Pipeline`: `wired`, `transforms`, `validators` are the builder's
fields; `Read Written Invalid Failed` are `p.stats`; `run` is the operator of
that name. `pc` is the point of `Run` before its next call, `err` what `Run`
will return. `rec`, `raw`, `out`, `outIs`, `step`, `errs` are the local
variables of the loop; `life` is what the components saw of Open and Close.
`input`, `accepted`, `stored`, `refused`, `quarantined` record what crossed
the interfaces.

There is one action for each call into user code, with all the outcomes it can
have (result, error, panic), and the local computation up to the next call is
part of it. A record is its place in the stream, with a choice of the
transformer that rejects it and the validators that object; the contents of a
map are its *version*, the number of transformers applied. `Styles` says how
`Apply` hands back its result: a fresh map, as `intake.go:73` demands, or the
same map changed in place, as `record.go:9-12` allows. Panics inside `Close`
and nil arguments of the builder (which panic before anything changes) are left
out. So are builder calls after `Run`, whose effect no later `Run` can observe.

### S3Sink

`writer` is the pipeline's goroutine in its calls of the sink, `uploader` the
goroutine of `uploadLoop`; `records` is the channel, `buffer` the rows in
`s.buffer`, `puts` and `object` what left for the bucket. A `select` with
several ready cases takes any of them. A URL that does not parse (`endpoint`)
and a request whose fate nobody looks at are included. The environment is the
pipeline: it looks at the context before each record, writes nothing after an
error and closes once.

### FileTail

`file` is a sequence of text pieces and newlines that another process extends at
any moment. The part of `bufio.Scanner` that matters is explicit: how far it read
(`pos`), how far it returned (`start`), the bound on a token, and the error it
keeps for good (`latch`). It is external code, modelled from how `tail.go:54-55`
configures it and `tail.go:66-76` uses it. A read of the file may be short, and
may fail. Truncation and replacement of the file are left out: the code holds
one descriptor and never looks at the name again.

### SlidingWindow, CountWindow

`adding` are the goroutines inside `AddRecord`, `flusher` the goroutine of
`Start`; the lock is held exactly while `flusher` is `sending` or `clearing`
(an adder's critical section is one append, hence one step). `sent` and
`taken` are the channel: what was put on it and how much of it was received.
Stop and cancellation lead to the same case of the same select, so both are
`Halt`. There is no duration: `NewSlidingWindow` stores the one it is given
(`sliding.go:14`, `:25`) and nothing reads it. Batches are what was added since
the tick before, so "in exactly one batch" is what the code does, and not what
`sliding.go:12`, "over a sliding time window", promises.

`CountWindow` has no goroutine and no lock: `AddRecord` appends, and `Send` waits
for room in the channel before the call returns, so one goroutine uses it.
`Windows` puts both side by side: `kind` says which one is used.

### SQLiteSink and RetrySink

`SQLiteSink` has the state of the sink and its database (`headers`, `table`,
`rows`) and `Write` as a relation between the state before, the state after
and the answer. A failed INSERT may have worked: the database is external, and so
is the way its answer comes back. `RetrySink` composes it with `Policy.Do`: `pc`
is `attempt` before a call of the inner Write and `wait` in the select between
two attempts, `i` and `backoff` are the code's. A policy with `maxRetries = 0` is
the bare sink; `-1` stands for any negative number. Durations wrap around at
`Modulus`, 2^64 in the code. A policy shared by two goroutines is left out.

### Metrics

`Metrics` composes the counters of a running pipeline with the collector's
goroutine and its exporters. `Pipeline.Stats` copies a struct of four words while
`Run` increments them; the copy is one `CopyCounter` per word, in any order. A
tick waits in the ticker's channel of one. `Page` is what `ServeHTTP` shows,
with the unsigned subtraction it computes `validated` by. HTTP itself and
`HealthCheck`, a flag behind a lock, are left out.

### Discover

`InspectSource` step by step: `Open`, the head of the loop (`Check`), a record
or the end of the source, and the deferred `Close`. `accs` are the accumulators;
`Observe`, `Widen`, `InferType`, `Finalize` and `ProfileIssues` are the
functions of `typing.go` and `discover.go`. A value is a tag with a value; what
`strconv` and `time` read in a text is a table, `Lexicon`. `sampled` remembers
the whole sample, and the reference definitions at the end of the module compute
from it what the documented profile is, without the code's classes: a type is one that
takes every value (`Fits`, `Matched`), numbers and lengths have bounds, examples
come as they were first seen, and parse errors are the values that do not match.
Only the numbers (`NumericValue`) and the texts (`StringOf`) are the code's;
where those differ from the documentation is listed below.

### Floats

Go's conversion of an integer to a `float64`, which `toFloat` of `validate` and
of `discover` go through, and a number that `encoding/json` reads back:
the nearest one, and of two the even one. Up to `Mantissa`, 2^53 in Go, every
integer is a float64; beyond it every second, fourth, and so on. The instances
have small ones, so that integers just beyond are rounded up, down and not at all.

### HeaderStyles, Transformers, Validators, Stages

The pure parts of the library, each function an operator. `HeaderStyles` has the
header styles as passes over characters, as the loops in `headers.go` are: a
recursive function on sequences for each, which makes one step (`SnakeStep`,
`Collapse`, `SplitStep`, `Join`) for one character or word more. A `HeaderStyle`
of the user's own, about which nothing can be said, is left out.
`Transformers` gives for each transformer and enricher the record it returns,
whether that is a new map, and whether it fails or panics. `Validators` gives the
rule that was broken, or `""`; a numeric check is made on what `ToFloat` leaves of
an integer. `Stages` puts them together as the loops of
`applyTransforms` and `applyValidators` do, with the maps on a heap, so that a
write to a map that is already there can be seen.

### Files

The sinks, the quarantine and the sources around one file. `file` is the lines
that were written, `durable` counts half lines, so that an odd number is a torn
line. The buffer under the CSV writer lets any part out at any Write; a write
may fail after any part, at a Write or at Close; the process may crash with the
sink open. Then a source reads what is there. `kind` selects CSV, JSONL or
quarantine; a quarantine file is read back as JSONL. Files from elsewhere have
ragged, blank, broken and over-long lines. Values change as the encodings change
them: `encoding/csv` makes one line feed of a CR LF inside of a cell (`NewLines`);
`encoding/json` makes a text of a time or of bytes, a `float64` of every number and
valid UTF-8 of every text (`Encoded`, `Float64`), and has nothing for a NaN. A JSON
line of 16 MiB (`Long`) can be written and not be read (`source/jsonl.go:60`), and
a file that cannot be opened or read ends a source at any point (`ReadFails`).
Taken for granted: keys are valid UTF-8, values inside of lists and
objects are such as JSON gives, no foreign line is a single quoted empty cell, and
the piece of a JSON line that a read error leaves is no object by itself.
Calls that are refused (a context that is done, a
component that is not open) return an error and change nothing: they are
stuttering steps.

## The runs

| Run | Instance | Shows |
|---|---|---|
| `pipeline` | 2 records, up to 2 transformers and 2 validators, one extra Run; 73 152 states | the nine properties of `Pipeline.cfg`, refinement of `RecordFlow` included |
| `s3sink` | channel of 2, 5 records; 414 states | order, whole objects, Write and Close return |
| `s3sink_close` | same | **divergence**: `s3.go:78` "Close flushes remaining records"; after a cancellation it does not |
| `file_tail` | file of up to 5 units, tokens of up to 3; 41 089 states | lines in order and untorn, catching up, cancellation |
| `file_tail_follow` | file of up to 3 units | **divergence**: `tail.go:14` promises new lines as they are appended; after the first end of file none is returned |
| `retry_sink` | up to 2 retries, 3 records, 4-bit durations; 2 252 states | acknowledged records after the first are rows, in order; a table that could not be created is final; the back-off counts all failures; Write ends |
| `sqlite_first_record` | same | **divergence**: `sqlite.go:37` "Write inserts a record."; the first Write only creates the table |
| `windows` | 2 adders, channel of 2, 4 records; batches of 2, 8 records; 4 178 states | conservation of records in both windows, and progress while the consumer receives |
| `metrics` | 2 exporters, 2 records; 34 448 states | four of the five series are counters, the final counters come to be shown, Stop ends the collector |
| `discover` | every sample of up to 3 of 17 records, 2 fields, caps of 2, a mantissa of 8; 48 823 states | the profile is the reference's, the issues are justified and in order, the source is closed |
| `stages` | chains of up to 3 of 21 transformers, 18 validators; all 1 464 keys of up to 3 characters and pairs of 9 longer ones under 5 styles, twice; a mantissa of 2; 606 897 states | no map is changed in place, parsed fields stay parsed, headers settle under every style but camelCase, wrappers agree with the core validators |
| `files` | 8 records, 5 rejections, 2 sessions of up to 2 Writes, a mantissa of 4; foreign files of up to 3 lines; 181 196 states | a nil Close vouches for the file, what it holds is read back, the quarantine keeps its evidence |

Bounds. Two records are enough for each record to have a predecessor and a
successor in every position of the loop, two transformers and validators for
"first", "last", "before" and "after"; the proofs below remove these bounds. The
channel of S3Sink holds fewer records than are written, so it fills, drains and
blocks; six failures overflow a 4-bit duration; the channel of either window
holds fewer batches than there are records. A file of five units holds a line
that fits, one that is too long, and one that is unfinished. Two exporters and
two records let a copy be torn across the fate of a record and let one exporter
run behind the other. A sample of three exceeds the caps of two. Two sessions
reuse a sink, two Writes give a fault a line before it and one it never reaches.
Three stages parse a field, change it and parse it again; the chains of header
styles feed a style its own output. Three characters show every pair of
neighbours at either end, and the longer keys the runs of capitals that
`splitWords` looks at. With a mantissa of 2, 4 or 8 the integers of an instance
lie on both sides of the first that is no float64, and one of them next to a bound.

Deadlock is not an error in these systems: a pipeline that returned, a sink that
is closed, or a source that failed has nothing left to do (`CHECK_DEADLOCK
FALSE`). That nobody stops too early is what the liveness properties say.

Fairness. `Pipeline`: each step of the goroutine inside `Run`, so every call into
user code returns or panics; nobody must call `Run` or cancel. `S3Sink`: each of
the two goroutines, and the network answers in the end, which the code leaves to
the network (`http.Client{}` has no timeout). `RetrySink`: statements and timers
end. `FileTail`: the goroutine that reads. `SlidingWindow`: strong fairness for
taking the mutex (Go's mutex starves nobody) and for each case of the select (Go
chooses at random among those that are ready); the ticker ticks; a consumer that
listens receives, but it may leave at any time, and the properties say what is no
longer promised then. `Metrics`: the ticker ticks, the collector's goroutine is
scheduled, and its select takes each case that stays ready; `Run` need not go on.
`Discover`: `InspectSource` runs and the source's calls return; the source may go
on for ever. `Stages`, `Files` and `CountWindow` have safety properties only.

### Where the code departs from its documents

Three of these are runs. The others are definitions in their modules, named
here, which TLC refutes when they are put into the module's configuration.

- `CloseFlushes` (run `s3sink_close`), `FollowsFile` (run `file_tail_follow`),
  `WriteInserts` (run `sqlite_first_record`): the table above.
- `CloseFailureReported` (Pipeline): `errors.go:15` lists close failures among
  the errors of a sink, `pipeline.go:134` discards them; Run returns nil although
  accepted records were not stored.
- `OriginalQuarantined` (Pipeline): `intake.go:76-78` promises the original
  record to the quarantine; an in-place transformer, which `record.go:9-12`
  allows, has changed it. No bundled transformer does so (`InputUntouched`).
- `ValidatedIsCounter` (Metrics): `prometheus.go:43` declares all series
  counters; `validated` is read minus invalid (`:45`) and goes back when a record
  that was read is rejected, and wraps around in a torn copy.
- `ClosedEvenThen` (Discover): `discover.go:223-224` says Close is called even
  when Open fails; `:244-247` returns before Close is deferred.
- `NullsIncludeMissing` (Discover): `discover.go:128-129` counts missing fields
  as nulls; a record without the field is not observed.
- `UniqueCountsValues` (Discover): `discover.go:137-139` counts the distinct
  non-null values; the code counts the distinct results of `toString`, which is
  `""` for all unsigned and short integers, lists and times (`typing.go:165-187`).
- `FloatIsFractional` (Discover): `discover.go:52-54` and the repository's
  `README.md:340` call a column float when at least one value is fractional; a
  column of `float64(7)`, which is what JSON makes of a 7, is one.
- `RangeOfNumbers` (Discover): `discover.go:146-147` has the range zero unless the
  type is int or float; a mixed column keeps that of its numbers.
- `StringsHaveNoErrors` (Discover): `discover.go:155-156` has `ParseErrors` 0 for a
  string column; a mixed one counts its typed values (`typing.go:372-374`).
- `OneEntryEach` (Discover): `discover.go:240-241` lists one entry per field; a
  column with too many nulls and mixed types has two issues.
- `CamelSettles` (Stages): no document says that a header style is idempotent, but a
  pipeline that reads what another wrote relies on it. Lower and upper are, snake
  and kebab too but for a key with a line end inside, and camelCase is not: it
  makes `aBC` of `a b c` and `aBc` of that (`headers.go:72-147`).
- `FreshRecord` (Stages): `intake.go:73-75` asks for a new map even when there was
  nothing to do; an enricher that finds nothing hands on the one it was given
  (`lookup.go:32-34`, `:51`). `InputUntouched` says no bundled transformer then
  writes to it; a custom one may.
- `RangeIsStrict` (Stages): `number.go:34-35` fails what is not strictly inside;
  NaN passes, because both comparisons are false.
- `MinIsExact` (Stages): `number.go:10-11` fails what is less than `min`; an integer
  of 64 bits is rounded to a `float64` first (`:80-112`) and passes when that is
  `min`. The same goes for every bound.
- `HeadersFromFirst` (Files): `sink/csv.go:35` takes the headers from the first
  record; a sink that is opened again keeps those of its first session (`:76`).

Without a definition of their own: `Required` trims ASCII white space only
(`basic.go:126`), so a no-break space is a value to it and blank to the parsers;
`validate.go:12-16` says a wrapper never adds what the core set cannot express, and
`basic.go:51-53` that `Forbidden` "has no equivalent in the core set": it is
`Required`'s opposite, which is what `WrappersAgree` states of it;
`SlidingWindow` "aggregates records over a sliding time window" (`sliding.go:12`),
but the duration is never read and no two batches overlap (`Conserved`);
`source/jsonl.go:15-16` says each non-empty line is emitted, but a `null` line is
passed over (`:84-86`) and one of 16 MiB, which the sink writes and acknowledges,
ends the source (`:60`, `:89-91`; `Unreadable` in `RoundTrip`);
a row of blank cells is taken as the header (`source/csv.go:14-15`
says the first non-empty one); `splitWords` repeats letters where a run of
capitals meets a small letter (`headers.go:133-138`, modelled by `SplitStep`);
with a negative `maxRetries` a policy reports success without a call
(`policy.go:42`, modelled by `CallWrite`); a cache entry that is not a map panics
(`lookup.go:46`, modelled by `Panics`).

Remarks from the code that no run needed. The first wait of a policy is twice
what `WithBackoff` was given, because the doubling comes before the wait
(`policy.go:20`, `:47`, `:58`); `BackoffCountsFailures` states what the
code does. `applyTransforms` says it returns the original record on an error
(`pipeline.go:199-202`) and returns the one the chain had reached (`:210`); Run
ignores that result. And `tail.go:52` speaks of seeking to the end, which the
code does not do: that is the mutant that breaks `CatchesUp`.

## What is proved

`PipelineProofs` proves, for every number of records, transformers, validators
and reruns, under `ConstantsAssumption` alone:

| Theorem | Statement |
|---|---|
| `TypeCorrect` | `Spec => []TypeOK` |
| `AccountingCorrect` | `Spec => []Accounting` |
| `FailedCounts` | `Spec => []FailedIffFatal` |
| `QuarantineCorrect` | `Spec => []QuarantineComplete` |
| `RoutingCorrect` | `Spec => []Routed` |
| `LifecycleCorrect` | `Spec => []Lifecycle` |
| `CancelCorrect` | `Spec => []CancelStops` |
| `MonotonicStats` | `Spec => StatsMonotonic` |
| `Refinement` | `Spec => ImplementsRecordFlow` |

None of the invariants is inductive alone, because each depends on where `Run`
stands. The strengthenings are stated beside them in `Pipeline.tla` and built in
layers, each proved once the layers under it are known:

1. `TypeOK`, then `ControlInv`: which `pc` is possible with which components and
   which `err`; in particular no error is set while user code is being called.
2. `AccountingInv`: a record is in hand exactly between its Read and its verdict.
   `QuarantineInv`: the quarantine is behind by one exactly at its Write.
   `LifecycleInv`: the state of each component at each open and close.
   `CancelInv`: no read has happened since a cancellation that finds `Run` in Read.
3. `RoutedInv`: what the stages already passed say of the record in hand (its
   version, the errors collected so far), and that histories only grow, so what
   was well routed stays so.
4. `Refinement` uses 1 and 2: each action is a step of `RecordFlow` or a stutter.

The other proof modules prove each safety property their runs check, again for
every value of the constants:

| Module | Theorem | Statement |
|---|---|---|
| `S3SinkProofs` | `NothingLost` | `Spec => []Conserved` |
| | `OneWholeObject` | `Spec => []WholeObject` |
| `WindowProofs` | `NothingLost` | `Spec => []Conserved` |
| | `CountsExact` | `WindowsSpec => []BatchesExact` |
| `RetrySinkProofs` | `NoAckedRecordLost` | `Spec => []AckedAreRows` |
| | `NoTableNoRows` | `Spec => []TableOrNothing` |
| | `DuplicatesAreRetries` | `Spec => []RowsInOrder` |
| | `WaitsDouble` | `Spec => []BackoffCountsFailures` |
| `FileTailProofs` | `LinesInOrder` | `Spec => []Gapless` |
| | `TornLineIsLast` | `Spec => []TornIsLast` |
| `ObserverProofs` | `ExportsGrow` | `MetricsSpec => SeriesAreCounters` (of Metrics) |
| | `ProfilesAreExact` | `Spec => []ProfileIsReference` (of Discover) |
| | `IssuesAreJustified` | `Spec => []IssuesJustified` (of Discover) |
| `FilesProofs` | `ClosedFilesComplete` | `Spec => []CloseVouches` |
| | `FilesReadBack` | `Spec => []ReadBack` |
| | `EvidenceKept` | `Spec => []QuarantineKeepsEvidence` |
| `StagesProofs` | `SourceRecordKept` | `Spec => InputUntouched` |
| | `ParsedStaysTyped` | `Spec => []TypedOnceParsed` |
| | `HeadersAreSettled` | `Spec => []HeadersSettled` |
| | `WrappersMatchChecks` | `Spec => []WrappersAgree` |

The inductive invariant of each stands at the end of its module, and TLC has
checked it on the instance of the run before it was proved.

- **S3Sink.** `Conserved` is not inductive: it needs `ProtocolInv`, that nothing
  is written once the channel is closed and nothing collected once the request is
  built, for otherwise a Write could fall behind the object. `WholeObject`
  follows from `ProtocolInv` and `Conserved` without an induction of its own.
- **Windows.** `Conserved` of SlidingWindow needs only that a flusher waiting in
  its send holds a batch that is not empty, which the lock guarantees: nobody
  else takes records out of the window. `BatchesExact` of CountWindow needs that
  the window never holds more than `Count` records and holds exactly that many
  while `AddRecord` waits; `Count` is any integer, as the code checks nothing.
- **RetrySink.** Three properties are proved together, for each protects the
  others: a record is a row before it is acknowledged (`CallerInv` says which one
  is being tried), without headers there was nothing to insert (`SinkInv`), and
  while a record is tried its rows are at most its attempts (`AttemptInv`).
  The back-off is `2 ^ failures` modulo `Modulus`, so it becomes zero and stays
  zero; the theorem needs that the width is even and at least 4.
- **FileTail.** What was returned lies before the scanner's unread data (`Behind`).
  Another process may append at any moment, but changes nothing that is there.
- **Metrics.** Every word of a torn copy lies between what was exported last and
  what the pipeline has counted, whatever the moments at which they were copied.
- **Discover.** `Holds(a, f)` says of the accumulator `a` what it knows of the
  sampled column `f`: the counts are cardinalities of sets of positions, the range
  is the bounds of the numbers (or NaN for ever, when NaN came first), and what is
  kept under a cap is all there is while there is room. `Observed` shows that one
  more value keeps it so; the order of the examples is `FirstSeen`, kept because the
  sample grows at its end. `ClassIsDocumented` ties the code's classes to the
  documented types, once for all values. That the documented type comes out is then an argument
  about counts (`CountsSayTypes`): a type is alone in a column just when its count
  is that of all values. For the issues, every one has a `Key`, and the loop over
  the sorted profiles leaves them strictly sorted by it (`Sorted`), from which each
  comes once and in order; that thresholds are in (0, 1] gives each its reason.
- **Files, writing.** `CloseVouches` needs `Written`: the lines of the records
  that were taken come first in the file, and nothing else comes unless a write
  failed; with the first record the header is there, so the columns cannot change
  under rows that were taken; a nil Close has flushed everything.
- **Files, reading.** `ReadBack` and `QuarantineKeepsEvidence` need `ReadInv`,
  which says at every moment what of the file was returned: the rows up to where
  the source is, by their places (`Rows`), the columns once the header was met
  (`HeaderAt`), and that of the lines nobody acknowledged at most one left the
  process whole. `RecordsComeBack` then gives each acknowledged record its place
  among the rows: a record that is `Visible` is on a line the source does not
  pass over (`SkippedIsInvisible`), and the lines before it are the records before
  it, shifted by the header (`RowsAreBack`). What a row or an object becomes is
  `RowIsText`, `RaggedRow`, `LineKeepsRecord` and `LineKeepsEvidence`; that an integer
  comes back as one next to it (`Nearly`) is arithmetic on the spacing of the
  float64s, up to 64 bits.
- **Stages.** That a parsed field stays parsed is inductive with `HeapOK`, since
  each of the sixteen transformers that does not write a field leaves it as it is
  or drops it. A step appends to the heap or leaves it alone.
  `WrappersMatchChecks` compares the wrappers case by case; it needs that every
  text of the current record has a length in the lexicon (`TextsKnown`), which
  each transformer keeps: a parser makes no text, trimming and letter case stay in
  the lexicon, a key that wins a name brings along its own value (`RenamedKnown`),
  and the rest copy values of the record or of their own.
- **Stages, header names.** `HeadersSettled` holds after a step whatever was before
  it, but for one thing: the record must have finitely many names over the
  alphabet (`NamesKnown`), so that a style is defined on them and one of the keys
  that come to a name is the first. Each transformer keeps that
  (`NamesStayKnown`). `SortsTotal`, `SortsStrict` and `SortsTransitive` say that
  `sort.Strings` orders names totally, by the first place where they differ;
  `FirstKey` finds the first of a finite set, and `RenamedFacts` that
  `NormalizeHeaders` takes its value. What a style makes of one name
  (`StyleFacts`) goes by induction over the name. The library's induction
  theorems take an operator for a parameter, which the provers here cannot
  instantiate, so `SeqInduction` is about a *set* of sequences instead and rests
  on `LeastNatural`, and `SeqRecursion` shows that a function defined by its step
  exists, from which `SnakeScanDef` and its four like are the equations of the
  passes. Then: every pass keeps the words of a name (`SameWords`,
  `SnakeScanFacts`, `CollapsedFacts`), for `splitWords` provided `Doubling` does
  not happen (`ReadStep`), and snake case leaves lower case letters without
  doubled or outer underscores (`SnakeCaseFacts`), which a second pass leaves
  alone (`SnakeSettles`), kebab case by way of the underscores it replaced.
  A camelCase name is left alone when every capital follows a small letter
  (`Humped`): its words are then read back as they are spelled (`HumpedIsSpelled`)
  and joined to the same name (`CamelSteady`). Without that it need not be.

The proofs assume what the modules' ASSUMEs say, and TLC evaluates these in the
runs: `Modulus` of durations is even and at least 4, that of counters exceeds the
number of records; a file from elsewhere has finitely many lines, and a CSV one
has rows of texts or lines that are not well-formed; in `Files` header names are
texts, white space trimmed from an empty one and a line end read in it leave it
empty, and the names of the stages and the times a quarantine writes are ASCII,
which JSON keeps; an integer field holds an integer, of at most 64 bits (`Wide`)
where it goes to a file; `Mantissa` is a positive integer; the transformers are
the sixteen the packages have; records, and the maps of a lookup's cache, have
finitely many fields, which are named by sequences over the alphabet of
`HeaderStyles`, as are the fields the transformers add, and header styles are the
five predefined ones (`NamesAssumption`); the lexicon tells of the texts of the
records and of the transformers, trimming and changing the case of one gives
another one, and lengths are natural numbers; a number `discover` is shown is an
integer (the order of floats, NaN apart, is that of integers) and NaN stands apart
from them; the parsers tell texts apart, but for an integer, which `ParseFloat`
takes too; its thresholds are in (0, 1] as `applyDefaults` leaves them, and the
names of the fields are sorted and distinct.

Every safety property of the passing runs is thus a theorem. Only model-checked
is liveness: `RunReturns`, `WriteReturns`, `CloseEnds`, `CancelEndsRead`,
`CatchesUp`, `AddReturns`, `EveryRecordArrives`, `HaltEnds`, `FinalStatsExported`,
`StopEndsCollector` and `InspectReturns` need fairness and ENABLED, which the
prover does not handle. The alphabet of `HeaderStyles` is fixed: the theorems are
about names of every length over it, and that its eleven characters stand for the
others is part of the model, not of the proofs.

## Not modelled, and the plan

Not modelled: `HealthCheck` (one flag behind a lock); sources and sinks over a
caller's `io.Reader` or `io.Writer`; a source that is opened a second time;
`Options.applyDefaults` of discover, whose result the constants stand for;
`hashRecord`, which nothing uses; the texts of messages, HTTP, and the methods of
the error types, which have no state. Examples and package comments have no state
either.

What could be added: the error types of `errors.go` with their `Unwrap` chains, and
the methods of `InvalidRecord` beyond the keys the quarantine uses. Nothing that is
modelled waits for a safety proof.
