-------------------------------- MODULE Files --------------------------------
(***************************************************************************)
(* The file formats: sink/csv.go, sink/jsonl.go and quarantine/jsonl.go    *)
(* write a file, source/csv.go and source/jsonl.go read it back.  kind     *)
(* says which sink is looked at.                                           *)
(*                                                                         *)
(* The file is a sequence of lines, <<"row", cells>> or <<"json", object>>, *)
(* or in one that came from elsewhere <<"null">>, <<"blank">> or <<"bad">>. *)
(* The first durable half lines of it are out of the process: an odd number *)
(* is a torn line.  CSV lines go through a bufio.Writer, which lets any     *)
(* part of them out at any Write, JSON lines straight to the file.  The     *)
(* encodings are modelled by what they do to the values (CellOf, Cells and  *)
(* JSON); keys are valid UTF-8, and lists and objects inside of a record    *)
(* are such as JSON gives.                                                 *)
(*                                                                         *)
(* Calls that are refused, because of a context that is done or because    *)
(* nothing is open, return an error and change nothing: stuttering steps.  *)
(***************************************************************************)
EXTENDS Floats, Sequences, SequencesExt, FiniteSets

CONSTANTS
    Records,        \* what a sink is given
    Rejections,     \* what a quarantine is given: [record, errors, stage, stamp]
    Foreign,        \* for each kind, files that came from elsewhere
    HeaderLists,    \* what WithHeaders is given; <<>> when it is not called
    SortedKeys(_),  \* the fields of a record in the order of their bytes
    Trim(_),        \* strings.TrimSpace of a header
    CellOf(_),      \* the text stringify makes of a value
    NewLines(_),    \* a text as encoding/csv reads it: each CR LF is an LF
    Encoded(_),     \* what encoding/json reads of a text, a time, bytes or a
                    \* float32 it wrote: a text of valid UTF-8, or a float64
    Long(_),        \* has a line 16 MiB, which bufio.Scanner gives up on
    MaxSessions,    \* bound: how often the sink is opened
    MaxLines        \* bound: the Writes after one Open

ASSUME ConstantsAssumption ==
    /\ MaxSessions \in Nat \ {0} /\ MaxLines \in Nat
    /\ \A k \in DOMAIN Foreign : \A f \in Foreign[k] : Len(f) \in Nat
    /\ DOMAIN Foreign = {"csv", "jsonl", "quarantine"}

Told(errors) == SelectSeq(errors, LAMBDA e : e[1] # "nil")

(* An int64 or a uint64. *)
Storable(v) == v[1] = "int" => v[2] \in Int /\ Magnitude(v[2]) <= Wide

ASSUME ValuesAssumption ==
    /\ \A r \in Records \cup {q.record : q \in Rejections} : \A f \in DOMAIN r : Storable(r[f])
    /\ \A q \in Rejections : \A j \in DOMAIN Told(q.errors) :
          LET e == Told(q.errors)[j] IN Storable(IF e[1] = "rule" THEN e[4] ELSE e[2])

(* The stages and timestamps are ASCII. *)
ASSUME StagesAssumption ==
    \A t \in {"transform", "now"} \cup {q.stage : q \in Rejections} \cup {q.stamp : q \in Rejections} :
        Encoded(<<"text", t>>) = t

ASSUME ForeignAssumption ==
    /\ \A k \in DOMAIN Foreign : \A f \in Foreign[k] : DOMAIN f = 1..Len(f)
    /\ \A f \in Foreign["csv"] : \A i \in DOMAIN f : f[i] \in {<<"bad">>} \cup ({"row"} \X Seq(STRING))

ASSUME HeadersAssumption ==
    /\ HeaderLists \subseteq Seq(STRING)
    /\ \A r \in Records : SortedKeys(r) \in Seq(STRING)
    /\ Trim("") = "" /\ NewLines("") = ""

VARIABLES
    kind,           \* "csv", "jsonl" or "quarantine"
    open, sessions, \* the sink: is it open, and how often was it
    headers, wrote, \* CSVSink.headers and .wrote
    file, durable,  \* the lines of this session, and what left the process
    broken,         \* the sticky error of bufio.Writer and json.Encoder
    acked,          \* history: what Write took since Open
    closed,         \* what the last Close said: "none", "ok" or "error"
    skipEmpty,      \* CSVSource.skipEmpty
    reading,        \* the source: "not yet", "open", "eof", "error" at a line
                    \* or "failed" where the file cannot be opened or read
    columns, at,    \* CSVSource.headers, and how many lines are behind it
    produced        \* history: the records the source returned

sink   == <<open, sessions, headers, wrote, file, durable, broken, acked, closed>>
source == <<skipEmpty, reading, columns, at, produced>>
vars   == <<kind, sink, source>>

Init ==
    /\ kind \in {"csv", "jsonl", "quarantine"}
    /\ open = FALSE /\ wrote = FALSE /\ broken = FALSE /\ acked = <<>> /\ closed = "none"
    /\ headers \in IF kind = "csv" THEN HeaderLists ELSE {<<>>}
    /\ \/ sessions = 0 /\ file = <<>> /\ durable = 0
       \/ sessions = MaxSessions /\ file \in Foreign[kind] /\ durable = 2 * Len(file)
    /\ skipEmpty \in IF kind = "csv" THEN BOOLEAN ELSE {TRUE}
    /\ reading = "not yet" /\ columns = <<>> /\ at = 0 /\ produced = <<>>

-----------------------------------------------------------------------------
(* Encodings. *)

Get(r, f) == IF f \in DOMAIN r THEN r[f] ELSE <<"nil", 0>>

Row(hs, r) == <<"row", [i \in DOMAIN hs |-> CellOf(Get(r, hs[i]))]>>

(* A value after json.Marshal and json.Unmarshal; what has no encoding, NaN *)
(* or a time past the year 9999, is a "nan" (Encodable).                    *)
JSON(v) ==
    CASE v[1] = "int"                       -> <<"float", Float64(v[2])>>
      [] v[1] \in {"text", "time", "bytes"} -> <<"text", Encoded(v)>>
      [] v[1] = "float32"                   -> <<"float", Encoded(v)>>
      [] OTHER                              -> v

(* encodeErrors: what is nil is left out, a ValidationError gives its       *)
(* field, its rule and its value (nil: none), any other error a message.    *)
EncodeErrors(errors) ==
    LET given == Told(errors)
    IN  [i \in DOMAIN given |->
            IF given[i][1] = "rule" THEN <<"rule", given[i][2], given[i][3], JSON(given[i][4])>>
            ELSE <<"message", JSON(given[i][2])>>]

Reserved == {"_errors", "_stage", "_timestamp"}

(* Mutant: a key the record has already is left alone. *)
KeepOwn(r, meta) == r @@ meta

Override(r, meta) ==
    [f \in DOMAIN r \cup DOMAIN meta |-> IF f \in DOMAIN meta THEN meta[f] ELSE r[f]]

Spread(q) ==
    Override(q.record,
        [f \in Reserved |->
            CASE f = "_errors"    -> <<"list", EncodeErrors(q.errors)>>
              [] f = "_stage"     -> <<"text", IF q.stage = "" THEN "transform" ELSE q.stage>>
              [] f = "_timestamp" -> <<"text", IF q.stamp = "zero" THEN "now" ELSE q.stamp>>])

Encodable(x) ==
    CASE kind = "csv"        -> TRUE
      [] kind = "jsonl"      -> \A f \in DOMAIN x : x[f][1] # "nan"
      [] kind = "quarantine" -> /\ \A f \in DOMAIN x.record \ Reserved : x.record[f][1] # "nan"
                                /\ \A i \in DOMAIN x.errors :
                                      x.errors[i][1] = "rule" => x.errors[i][4][1] # "nan"

JSONLine(r) == <<"json", [f \in DOMAIN r |-> JSON(r[f])]>>

-----------------------------------------------------------------------------
(* The sinks. *)

(* os.Create truncates; a CSVSink that was used before keeps its columns.  *)
Open ==
    /\ ~open /\ sessions < MaxSessions /\ reading = "not yet"
    /\ open' = TRUE /\ sessions' = sessions + 1 /\ wrote' = FALSE
    /\ file' = <<>> /\ durable' = 0 /\ broken' = FALSE /\ acked' = <<>> /\ closed' = "none"
    /\ UNCHANGED <<kind, headers, source>>

(* The lines are handed over: CSV lines leave the buffer as it fills, a     *)
(* JSON line leaves at once.                                               *)
Emit(lines, x) ==
    /\ file' = file \o lines
    /\ acked' = Append(acked, x)
    /\ durable' \in IF kind = "csv" THEN durable..2 * Len(file') ELSE {2 * Len(file')}
    /\ UNCHANGED broken

(* A write to the file fails on the way, after a part of it. *)
Fault(lines) ==
    /\ file' = file \o lines
    /\ durable' \in durable..2 * Len(file') - 1
    /\ broken' = TRUE
    /\ UNCHANGED acked

CanWrite == open /\ ~broken /\ Len(acked) < MaxLines

WriteCSV(r) ==
    LET hs   == IF headers = <<>> THEN SortedKeys(r) ELSE headers
        head == IF wrote THEN <<>> ELSE <<<<"row", hs>>>>
    IN  /\ kind = "csv" /\ CanWrite
        /\ IF wrote THEN UNCHANGED headers ELSE headers' = hs
        /\ \/ Emit(Append(head, Row(headers', r)), r) /\ wrote' = TRUE
           \/ Fault(Append(head, Row(headers', r))) /\ wrote' = TRUE
           \/ ~wrote /\ Fault(head) /\ UNCHANGED wrote
        /\ UNCHANGED <<kind, open, sessions, closed, source>>

WriteJSON(x, line) ==
    /\ CanWrite /\ Encodable(x)
    /\ Emit(<<line>>, x) \/ Fault(<<line>>)
    /\ UNCHANGED <<kind, open, sessions, headers, wrote, closed, source>>

WriteJSONL(r)      == kind = "jsonl" /\ WriteJSON(r, JSONLine(r))
WriteQuarantine(q) == kind = "quarantine" /\ WriteJSON(q, JSONLine(Spread(q)))

(* Mutant: writer.Error is not asked after Flush. *)
FlushUnchecked == FALSE

FlushFails == kind = "csv" /\ broken'

(* Flush of what is left of CSV; Sync or Close of the file may fail too.   *)
Close ==
    /\ open /\ open' = FALSE /\ wrote' = FALSE
    /\ IF kind # "csv" \/ broken THEN UNCHANGED <<durable, broken>>
       ELSE \/ durable' = 2 * Len(file) /\ UNCHANGED broken
            \/ durable' \in durable..2 * Len(file) - 1 /\ broken' = TRUE
    /\ closed' \in IF FlushFails THEN {"error"} ELSE {"ok", "error"}
    /\ UNCHANGED <<kind, sessions, headers, file, acked, source>>

(* The process ends with the sink open. *)
Crash ==
    /\ open /\ open' = FALSE /\ wrote' = FALSE /\ closed' = "error"
    /\ UNCHANGED <<kind, sessions, headers, file, durable, broken, acked, source>>

-----------------------------------------------------------------------------
(* The sources, which read the file once the sink's pipeline is done.       *)

Whole  == durable \div 2
Torn   == durable % 2 = 1

(* encoding/csv passes over empty lines: no cell, or one empty one.         *)
EmptyLine(line) == line[1] = "row" /\ line[2] \in {<<>>, <<"">>}

Cells(line) == [i \in DOMAIN line[2] |-> NewLines(line[2][i])]

(* Mutant: one blank cell is enough. *)
BlankCell(line) == line[1] = "row" /\ \E i \in DOMAIN line[2] : Trim(Cells(line)[i]) = ""

EmptyRow(line) == line[1] = "row" /\ \A i \in DOMAIN line[2] : Trim(Cells(line)[i]) = ""

(* sc.Scan ends at a line it has no room for, and sc.Err says so. *)
TooLong(line) == kind # "csv" /\ Long(line)

Bad(line) == line[1] = "bad" \/ TooLong(line)

Skipped(line) ==
    IF kind = "csv" THEN EmptyLine(line) \/ (skipEmpty /\ EmptyRow(line))
    ELSE line[1] \in {"null", "blank"} /\ ~TooLong(line)

(* What is left of a torn line: a row that is cut anywhere, or what is no   *)
(* JSON unless all but its end was written.                                 *)
Cuts(line) ==
    IF kind # "csv" THEN {<<"bad">>, line}
    ELSE {<<"bad">>} \cup
         {<<"row", Append(SubSeq(line[2], 1, k - 1), cell)>> :
              k \in DOMAIN line[2], cell \in {"", "cut"}}

(* The source moves on to a line that it does not pass over, or to the end. *)
Ahead(Skip(_)) == {i \in at + 1..Whole : ~Skip(file[i])}

Advance(Skip(_), Take(_), end) ==
    \/ /\ Ahead(Skip) # {}
       /\ at' = Min(Ahead(Skip)) /\ Take(file[at'])
    \/ /\ Ahead(Skip) = {} /\ Torn /\ at <= Whole
       /\ at' = Whole + 1
       /\ \E line \in Cuts(file[at']) : IF Skip(line) THEN end ELSE Take(line)
    \/ /\ Ahead(Skip) = {} /\ ~(Torn /\ at <= Whole)
       /\ end /\ UNCHANGED at

Header(line) ==
    IF Bad(line) THEN reading' = "error" /\ UNCHANGED columns
    ELSE reading' = "open" /\ columns' = [i \in DOMAIN line[2] |-> Trim(Cells(line)[i])]

OpenSource ==
    /\ reading = "not yet" /\ ~open /\ sessions > 0
    /\ IF kind = "csv" THEN Advance(EmptyLine, Header, reading' = "open" /\ UNCHANGED columns)
       ELSE reading' = "open" /\ UNCHANGED <<columns, at>>
    /\ UNCHANGED <<kind, sink, skipEmpty, produced>>

(* Cells without a column are dropped, columns without a cell are missing, *)
(* and of two columns with one name the last counts.                       *)
Record(line) ==
    IF kind # "csv" THEN line[2]
    ELSE LET filled == DOMAIN columns \cap DOMAIN line[2]
         IN  [h \in {columns[i] : i \in filled} |->
                 <<"text", Cells(line)[Max({i \in filled : columns[i] = h})]>>]

Produce(line) ==
    IF Bad(line) THEN reading' = "error" /\ UNCHANGED produced
    ELSE produced' = Append(produced, Record(line)) /\ UNCHANGED reading

Read ==
    /\ reading = "open"
    /\ Advance(Skipped, Produce, reading' = "eof" /\ UNCHANGED produced)
    /\ UNCHANGED <<kind, sink, skipEmpty, columns>>

(* The file cannot be opened or read, be it at the header; what that leaves *)
(* of a JSON line is taken to be none by itself.                           *)
ReadFails ==
    /\ reading \in {"not yet", "open"} /\ ~open /\ sessions > 0
    /\ reading' = "failed"
    /\ UNCHANGED <<kind, sink, skipEmpty, columns, at, produced>>

Next ==
    \/ Open \/ Close \/ Crash
    \/ \E r \in Records : WriteCSV(r) \/ WriteJSONL(r)
    \/ \E q \in Rejections : WriteQuarantine(q)
    \/ OpenSource \/ Read \/ ReadFails

Spec == Init /\ [][Next]_vars

-----------------------------------------------------------------------------
(* Properties. *)

TypeOK ==
    /\ {open, wrote, broken, skipEmpty} \subseteq BOOLEAN
    /\ sessions \in 0..MaxSessions /\ durable \in 0..2 * Len(file)
    /\ closed \in {"none", "ok", "error"} 
    /\ reading \in {"not yet", "open", "eof", "error", "failed"}
    /\ at \in 0..Len(file) /\ Len(acked) <= MaxLines

Foreigner == sessions > 0 /\ ~open /\ closed = "none"

(* The line of a record, and the file that has those of all a Write took.  *)
Line(x) ==
    CASE kind = "csv"        -> Row(headers, x)
      [] kind = "jsonl"      -> JSONLine(x)
      [] kind = "quarantine" -> JSONLine(Spread(x))

Wanted ==
    (IF kind = "csv" /\ acked # <<>> THEN <<<<"row", headers>>>> ELSE <<>>)
        \o [i \in DOMAIN acked |-> Line(acked[i])]

(* A nil Close vouches for every record a Write took: each is one whole     *)
(* line of the file, in order and under the header, whatever the buffer let *)
(* out before and wherever a write failed; behind them there is at most the *)
(* line of the Write that failed, and in a CSV file not even that.          *)
CloseVouches ==
    ~Foreigner =>
        /\ IsPrefix(Wanted, file)
        /\ closed = "ok" => durable >= 2 * Len(Wanted)
        /\ closed = "ok" /\ (kind = "csv" \/ ~broken) => durable = 2 * Len(Wanted) /\ file = Wanted

(* A record that comes back from JSON has the fields that went in, an       *)
(* integer as a float: the same one up to the mantissa, and beyond it one   *)
(* that differs in no more than the digits a float64 does not have.  From   *)
(* CSV come all columns, as texts.                                         *)
Nearly(m, n) ==
    /\ Magnitude(n) <= Mantissa => m = n
    /\ Magnitude(m - n) * Mantissa <= Magnitude(n)

SameValue(out, in) ==
    CASE in[1] = "int"                       -> out[1] = "float" /\ Nearly(out[2], in[2])
      [] in[1] \in {"text", "time", "bytes"} -> out = <<"text", Encoded(in)>>
      [] in[1] = "float32"                   -> out = <<"float", Encoded(in)>>
      [] OTHER                               -> out = in

SameJSON(out, in) == DOMAIN out = DOMAIN in /\ \A f \in DOMAIN in : SameValue(out[f], in[f])

Name(h) == Trim(NewLines(h))

SameText(out, in) ==
    /\ DOMAIN out = {Name(h) : h \in ToSet(headers)}
    /\ \A h \in DOMAIN out : \E g \in ToSet(headers) :
          Name(g) = h /\ out[h] = <<"text", NewLines(CellOf(Get(in, g)))>>

(* A row that an empty line stands for cannot come back, nor one of blanks  *)
(* unless they are asked for.                                               *)
Visible(r) ==
    \/ \E h \in ToSet(headers) : Trim(NewLines(CellOf(Get(r, h)))) # ""
    \/ ~skipEmpty /\ \/ Len(headers) > 1
                     \/ \E h \in ToSet(headers) : CellOf(Get(r, h)) # ""

(* The Writes whose records come back, and the place each then has.        *)
Unreadable(i) == kind # "csv" /\ Long(Line(acked[i]))

Back     == {i \in DOMAIN acked : ~Unreadable(i) /\ (kind = "csv" => Visible(acked[i]))}
Place(i) == Cardinality({j \in Back : j <= i})

Same(out, in) == IF kind = "csv" THEN SameText(out, in) ELSE SameJSON(out, in)

RoundTrip ==
    kind # "quarantine" /\ ~Foreigner /\ headers # <<"">> =>
        /\ \A i \in Back :
              Place(i) <= Len(produced) /\ (Place(i) < Len(produced) \/ ~Torn) =>
                  Same(produced[Place(i)], acked[i])
        /\ Len(produced) <= Cardinality(Back) + IF Torn THEN 1 ELSE 0
        /\ reading = "eof" /\ closed = "ok" =>
              Len(produced) >= Cardinality(Back) /\ \A i \in DOMAIN acked : ~Unreadable(i)
        /\ reading = "error" => Torn \/ \E i \in DOMAIN acked : Unreadable(i) /\ Len(produced) = i - 1

ForeignRead ==
    LET bad    == {i \in DOMAIN file : Bad(file[i])}
        header == {i \in DOMAIN file : kind = "csv" /\ \A j \in 1..i - 1 : EmptyLine(file[j])}
        rows   == {i \in DOMAIN file \ header : (\A j \in bad : i < j) /\ ~Skipped(file[i])}
        width(i) == Min({Len(columns), Len(file[i][2])})
    IN  Foreigner /\ reading \in {"eof", "error"} =>
            /\ reading = "error" <=> bad # {}
            /\ Len(produced) = Cardinality(rows)
            /\ kind = "csv" => \A i \in rows :
                  LET out == produced[Cardinality({j \in rows : j <= i})]
                  IN  /\ DOMAIN out = {columns[k] : k \in 1..width(i)}
                      /\ width(i) > 0 => out[columns[width(i)]] = <<"text", Cells(file[i])[width(i)]>>

(* What a sink acknowledged a source reads back, every record once and in   *)
(* order, with no end of the stream before the last of them.  Only behind a *)
(* torn line may there be an error, or at the first JSON line that the sink *)
(* took and its source has no room for (source/jsonl.go:60), and only a row *)
(* from a torn line may differ.  (Of a header of one empty name nothing is  *)
(* read: its line is an empty one.)  A file from elsewhere is read to its   *)
(* end or to the first line that is too long or not well-formed, blank      *)
(* lines and null objects apart; a ragged row fills the columns it reaches  *)
(* and no others.                                                          *)
ReadBack == RoundTrip /\ ForeignRead

Entry(out, e) ==
    IF e[1] = "rule"
    THEN out[1] = "rule" /\ out[2] = e[2] /\ out[3] = e[3] /\ SameValue(out[4], e[4])
    ELSE out[1] = "message" /\ SameValue(out[2], e[2])

Evidence(out, q) ==
    LET told == Told(q.errors)
    IN  /\ SameJSON([f \in DOMAIN out \ Reserved |-> out[f]],
                    [f \in DOMAIN q.record \ Reserved |-> q.record[f]])
        /\ out["_stage"] = <<"text", IF q.stage = "" THEN "transform" ELSE q.stage>>
        /\ out["_timestamp"] # <<"text", "zero">>
        /\ Len(out["_errors"][2]) = Len(told)
        /\ \A j \in DOMAIN told : Entry(out["_errors"][2][j], told[j])

(* The line of a rejected record names, beside the record, every error that *)
(* is not nil in the order of the pipeline, with the field, the rule and    *)
(* the value of a validation error, and the stage and the time, even        *)
(* when the record brings the reserved keys along because it is itself read *)
(* from a quarantine file (jsonl.go:18-19).                                 *)
QuarantineKeepsEvidence ==
    kind = "quarantine" =>
        \A i \in DOMAIN produced \cap DOMAIN acked :
            i < Len(produced) \/ ~Torn => Evidence(produced[i], acked[i])

(* "the headers are taken from the first record" (csv.go:35). *)
HeadersFromFirst ==
    kind = "csv" /\ acked # <<>> /\ headers \notin HeaderLists => headers = SortedKeys(acked[1])

-----------------------------------------------------------------------------
(* What CloseVouches needs to be inductive.                                 *)

(* Every line a sink can write: a header, a row under one, an object.       *)
Columns == {<<>>} \cup HeaderLists \cup {SortedKeys(r) : r \in Records}

ObjectLines == {JSONLine(r) : r \in Records \cup {Spread(q) : q \in Rejections}}

SinkLines ==
    {<<"row", hs>> : hs \in Columns} \cup {Row(hs, r) : hs \in Columns, r \in Records} \cup ObjectLines

SinkTypeOK ==
    /\ kind \in {"csv", "jsonl", "quarantine"} /\ headers \in Columns
    /\ {open, wrote, broken} \subseteq BOOLEAN /\ sessions \in 0..MaxSessions
    /\ acked \in Seq(IF kind = "quarantine" THEN Rejections ELSE Records)
    /\ durable \in Nat /\ closed \in {"none", "ok", "error"}

(* A file from elsewhere is never written to.  In any other the lines of    *)
(* the records that were taken come first, and nothing else comes unless a  *)
(* write failed; a JSON line that was taken is out of the process, a CSV    *)
(* line is once Close says so.  The header is there with the first record,  *)
(* so the columns cannot change under rows that were taken.                 *)
Written ==
    /\ file \in Seq(SinkLines) /\ durable <= 2 * Len(file)
    /\ IsPrefix(Wanted, file) /\ (~broken => file = Wanted)
    /\ kind # "csv" => durable >= 2 * Len(Wanted) /\ (~broken => durable = 2 * Len(file))
    /\ kind = "csv" /\ closed = "ok" => ~broken /\ durable = 2 * Len(file)
    /\ open => closed = "none"
    /\ open /\ kind = "csv" /\ ~broken => (wrote <=> acked # <<>>)

SinkInv == (Foreigner => sessions = MaxSessions) /\ (~Foreigner => Written)

IInv == SinkTypeOK /\ SinkInv

(* The rows are the lines behind that of the columns, if there is one, but  *)
(* for those that are passed over; they come back one after the other up to *)
(* where the source is.  What is left of a torn line behind the last whole  *)
(* one may give one record more.  A line that is not well-formed is the     *)
(* last that is looked at.                                                 *)
Behind(i) == kind = "csv" => \E j \in 1..i - 1 : ~EmptyLine(file[j])

Rows(n) == {i \in 1..n : Behind(i) /\ ~Bad(file[i]) /\ ~Skipped(file[i])}

HeaderAt(i) ==
    /\ ~EmptyLine(file[i]) /\ \A j \in 1..i - 1 : EmptyLine(file[j])
    /\ ~Bad(file[i]) => columns = [k \in DOMAIN file[i][2] |-> Trim(Cells(file[i])[k])]

ReadSoFar ==
    /\ reading = "not yet" => at = 0 /\ produced = <<>>
    /\ at \in Nat /\ at <= Whole + 1 /\ (at > Whole => Torn)
    /\ produced \in Seq(ToSet(produced))
    /\ at <= Whole => Len(produced) = Cardinality(Rows(at))
    /\ at > Whole => Len(produced) - Cardinality(Rows(Whole)) \in {0, 1}
    /\ \A i \in Rows(Whole) : i <= at => produced[Cardinality(Rows(i))] = Record(file[i])
    /\ \A i \in 1..Whole : i <= at /\ Bad(file[i]) => i = at /\ reading = "error"
    /\ reading = "error" => at > Whole \/ (at > 0 /\ Bad(file[at]))
    /\ reading = "eof" => \A i \in at + 1..Whole : Skipped(file[i])
    /\ kind = "csv" /\ (at > 0 \/ reading \notin {"not yet", "failed"}) =>
          (\A i \in 1..Whole : EmptyLine(file[i])) \/ (\E i \in 1..at : HeaderAt(i))

(* What ReadBack and QuarantineKeepsEvidence need beside: the source is not *)
(* opened before the sink is done, and of the lines that were not           *)
(* acknowledged no more than the header left the process whole.            *)
Above == IF kind = "csv" THEN 1 ELSE 0

ReadInv ==
    /\ Foreigner => acked = <<>> /\ file \in Foreign[kind] /\ durable = 2 * Len(file)
    /\ ~Foreigner => durable <= 2 * (Len(acked) + Above) + 1
    /\ open => reading = "not yet"
    /\ ReadSoFar
=============================================================================
