------------------------------ MODULE Discover ------------------------------
(***************************************************************************)
(* discover/discover.go and typing.go: InspectSource opens a source, reads *)
(* at most SampleSize records with an accumulator per field, and returns   *)
(* either a profile with its issues or an error, after closing the source. *)
(*                                                                         *)
(* A value is a tagged pair; a "uint" is any integer but an int or an      *)
(* int64, and what the code has no case for has a tag of its own.  What     *)
(* strconv and time say of a text is external and comes from Lexicon.  A    *)
(* nil record has no fields to observe and is the empty one.  The fields of *)
(* one record are observed in one step: each has an accumulator of its own, *)
(* so the order in which Go walks the map cannot show.  A ratio is kept as  *)
(* its two integers.                                                       *)
(***************************************************************************)
EXTENDS Floats, Sequences, FiniteSets, SequencesExt

CONSTANTS
    FieldOrder,     \* the field names, in the order of sort.Strings
    Records,        \* the records a source may yield
    Lexicon,        \* for each text: blank, parsers (that take it), number, length
    SampleSize, MaxExamples, MaxUnique,     \* Options
    NullThreshold, MixedThreshold,          \* Options, as <<p, q>> for p / q
    Shown(_),       \* the text toString makes of a bool, float or int
    NaN,            \* an integer that stands for the float
    Fractions       \* the integers that stand for floats with a fraction

Narrow == {"bool", "int", "float", "date", "datetime"}
Types  == Narrow \cup {"string"}

(* What applyDefaults leaves: thresholds are in (0, 1] (discover.go:198-214). *)
ASSUME ConstantsAssumption ==
    /\ SampleSize \in Nat \ {0} /\ MaxExamples \in Nat \ {0} /\ MaxUnique \in Nat \ {0}
    /\ \A t \in {NullThreshold, MixedThreshold} :
          t[1] \in Nat \ {0} /\ t[2] \in Nat \ {0} /\ t[1] <= t[2]
    /\ IsInjective(FieldOrder) /\ Len(FieldOrder) \in Nat /\ DOMAIN FieldOrder = 1..Len(FieldOrder)
    /\ \A r \in Records : DOMAIN r \subseteq ToSet(FieldOrder)

VARIABLES
    at,         \* "opening", "checking", "reading", "closing" or "returned"
    source,     \* "new", "failed", "open" or "closed"
    sampled,    \* history: the records read; its length is rowCount
    accs,       \* the accumulator of every field seen
    outcome,    \* "none", "profile" or "error"
    cancelled,  \* "no" or "yes"
    late        \* history: records read since the cancellation

vars == <<at, source, sampled, accs, outcome, cancelled, late>>

Init ==
    /\ at = "opening" /\ source = "new"
    /\ sampled = <<>> /\ accs = <<>> /\ outcome = "none"
    /\ cancelled = "no" /\ late = 0

-----------------------------------------------------------------------------
(* Values.  The first parser that takes a text names its class.            *)

Text(v) == Lexicon[v[2]]

Missing(v) == v[1] = "nil" \/ (v[1] = "text" /\ Text(v).blank)

FirstOf(parsers) ==
    IF "bool" \in parsers THEN "bool"
    ELSE IF "int" \in parsers THEN "int"
    ELSE IF "float" \in parsers THEN "float"
    ELSE IF "datetime" \in parsers THEN "datetime"
    ELSE IF "date" \in parsers THEN "date"
    ELSE "string"

Classify(v) ==
    IF Missing(v) THEN "null"
    ELSE IF v[1] = "text" THEN FirstOf(Text(v).parsers)
    ELSE IF v[1] \in {"int", "uint"} THEN "int"
    ELSE IF v[1] \in {"bool", "float"} THEN v[1]
    ELSE "string"

NumericValue(v) ==
    IF v[1] = "text" THEN Text(v).number ELSE IF v[1] = "float" THEN v[2] ELSE Float64(v[2])

StringOf(v) ==
    IF v[1] = "text" THEN v[2] ELSE IF v[1] \in {"bool", "float", "int"} THEN Shown(v) ELSE ""

(* What strconv and time promise of a text: the parsers tell texts apart,   *)
(* but for an integer, which is a float too.                               *)
ASSUME ValuesAssumption ==
    /\ NaN \in Int \ Nat
    /\ \A r \in Records : \A f \in DOMAIN r :
          /\ r[f] = <<r[f][1], r[f][2]>>
          /\ r[f][1] \in {"int", "uint", "float"} => r[f][2] \in Int /\ Float64(r[f][2]) \in Int
          /\ r[f][1] = "text" =>
                /\ Text(r[f]).blank \in BOOLEAN /\ Text(r[f]).length \in Nat /\ Text(r[f]).number \in Int
                /\ Text(r[f]).parsers \in {{t} : t \in Narrow \ {"int"}} \cup {{}, {"int", "float"}}

(* What Go's < says of float64s. *)
Less(x, y) == x # NaN /\ y # NaN /\ x < y

-----------------------------------------------------------------------------
(* The accumulator of a field.  An empty range or length is an unset one;  *)
(* distinctCapped only saves looking into a set that cannot grow.          *)

NewAcc ==
    [nulls |-> 0, nonNulls |-> 0, count |-> [t \in Types |-> 0],
     range |-> <<>>, length |-> <<>>, examples |-> <<>>, distinct |-> {}]

(* Mutant: the upper bound is only looked at when the lower one moved not.  *)
WidenOneSide(range, x) ==
    IF range = <<>> THEN <<x, x>> ELSE IF Less(x, range[1]) THEN <<x, range[2]>> ELSE range

Widen(range, x) ==
    IF range = <<>> THEN <<x, x>>
    ELSE <<IF Less(x, range[1]) THEN x ELSE range[1],
           IF Less(range[2], x) THEN x ELSE range[2]>>

Observe(acc, v) ==
    LET t  == Classify(v)
        sv == StringOf(v)
    IN  IF t = "null" THEN [acc EXCEPT !.nulls = @ + 1]
        ELSE [acc EXCEPT
                !.nonNulls = @ + 1,
                !.count[t] = @ + 1,
                !.range    = IF t \in {"int", "float"} THEN Widen(@, NumericValue(v)) ELSE @,
                !.length   = IF t = "string" /\ v[1] = "text" THEN Widen(@, Text(v).length) ELSE @,
                !.examples = IF Len(@) < MaxExamples /\ ~Contains(@, sv) THEN Append(@, sv) ELSE @,
                !.distinct = IF Cardinality(@) < MaxUnique THEN @ \cup {sv} ELSE @]

Seen(f) == IF f \in DOMAIN accs THEN accs[f] ELSE NewAcc

ObserveAll(r) ==
    [f \in DOMAIN accs \cup DOMAIN r |-> IF f \in DOMAIN r THEN Observe(Seen(f), r[f]) ELSE accs[f]]

-----------------------------------------------------------------------------
(* The profile.                                                            *)

InferType(a) ==
    LET n     == a.nonNulls
        whole == {t \in Types : a.count[t] = n}
    IN  IF n = 0 THEN "unknown"
        ELSE IF whole # {} THEN CHOOSE t \in whole : TRUE
        ELSE IF a.count["int"] + a.count["float"] = n THEN "float"
        ELSE "string"

(* The values that match Type, out of all: TypeConfidence and ParseErrors. *)
Matching(a) ==
    CASE InferType(a) = "unknown" -> 0
      [] InferType(a) = "float"   -> a.count["int"] + a.count["float"]
      [] OTHER                    -> a.count[InferType(a)]

Finalize(a) ==
    [type |-> InferType(a), matching |-> Matching(a), parseErrors |-> a.nonNulls - Matching(a),
     nulls |-> a.nulls, nonNulls |-> a.nonNulls, unique |-> Cardinality(a.distinct),
     range |-> a.range, length |-> a.length, examples |-> a.examples]

(* Mutant: a field of nulls only is reported as mixed. *)
MixedWhenNull(p) == p.matching * MixedThreshold[2] <= MixedThreshold[1] * p.nonNulls

IsMixed(p) ==
    p.nonNulls > 0 /\ p.matching * MixedThreshold[2] < MixedThreshold[1] * p.nonNulls

ProfileIssues(f) ==
    LET p == Finalize(accs[f])
    IN  (IF p.nulls * NullThreshold[2] > NullThreshold[1] * (p.nulls + p.nonNulls)
         THEN <<<<f, "high_null_ratio">>>> ELSE <<>>)
        \o (IF IsMixed(p) THEN <<<<f, "mixed_types">>>> ELSE <<>>)

(* The loop over the profiles, which are sorted by name. *)
IssuesUpTo[i \in 0..Len(FieldOrder)] ==
    IF i = 0 THEN IF "" \in DOMAIN accs THEN <<<<"", "empty_field_name">>>> ELSE <<>>
    ELSE IssuesUpTo[i - 1]
             \o (IF FieldOrder[i] \in DOMAIN accs THEN ProfileIssues(FieldOrder[i]) ELSE <<>>)

Issues ==
    IssuesUpTo[Len(FieldOrder)]
        \o (IF sampled = <<>> THEN <<<<"", "no_records_sampled">>>> ELSE <<>>)

-----------------------------------------------------------------------------
(* InspectSource.                                                          *)

Open ==
    /\ at = "opening"
    /\ \/ source' = "open" /\ at' = "checking" /\ UNCHANGED outcome
       \/ source' = "failed" /\ at' = "returned" /\ outcome' = "error"
    /\ UNCHANGED <<sampled, accs, cancelled, late>>

ContextErr == cancelled = "yes"

(* The head of the loop: the sample is complete, the context is done, or a *)
(* record is wanted.                                                       *)
Check ==
    /\ at = "checking"
    /\ \/ Len(sampled) >= SampleSize /\ at' = "closing" /\ outcome' = "profile"
       \/ Len(sampled) < SampleSize /\ ContextErr /\ at' = "closing" /\ outcome' = "error"
       \/ Len(sampled) < SampleSize /\ ~ContextErr /\ at' = "reading" /\ UNCHANGED outcome
    /\ UNCHANGED <<source, sampled, accs, cancelled, late>>

ReadRecord(r) ==
    /\ at = "reading"
    /\ sampled' = Append(sampled, r)
    /\ accs' = ObserveAll(r)
    /\ late' = IF cancelled = "yes" THEN late + 1 ELSE late
    /\ at' = "checking"
    /\ UNCHANGED <<source, outcome, cancelled>>

(* io.EOF ends the sample, any other error the inspection. *)
ReadEnds ==
    /\ at = "reading" /\ at' = "closing"
    /\ outcome' \in {"profile", "error"}
    /\ UNCHANGED <<source, sampled, accs, cancelled, late>>

(* Mutant: the source stays open when the profile is discarded. *)
CloseOnSuccess == IF outcome = "profile" THEN "closed" ELSE source

Closed == "closed"

(* The deferred Close. *)
Close ==
    /\ at = "closing" /\ at' = "returned"
    /\ source' = Closed
    /\ UNCHANGED <<sampled, accs, outcome, cancelled, late>>

Cancel ==
    /\ cancelled = "no" /\ cancelled' = "yes"
    /\ UNCHANGED <<at, source, sampled, accs, outcome, late>>

Step == Open \/ Check \/ ReadEnds \/ Close \/ \E r \in Records : ReadRecord(r)

Next == Step \/ Cancel

Spec == Init /\ [][Next]_vars

(* InspectSource runs, and every call of the source returns. *)
FairSpec == Spec /\ WF_vars(Step)

-----------------------------------------------------------------------------
(* The reference: what the profile of a column of values is documented to  *)
(* be (discover.go:41-66, 107-156), without a look at how it was counted.  *)

Column(f) == {i \in DOMAIN sampled : f \in DOMAIN sampled[i]}
Values(f) == {i \in Column(f) : ~Missing(sampled[i][f])}

Capped(n, cap) == IF n <= cap THEN n ELSE cap

Fits(v, t) ==
    \/ v[1] = "text" /\ t \in Text(v).parsers
    \/ v[1] = "bool" /\ t = "bool"
    \/ v[1] \in {"int", "uint"} /\ t \in {"int", "float"}
    \/ v[1] = "float" /\ t = "float"

Matches(v, t) == Fits(v, t) \/ (t = "string" /\ \A u \in Narrow : ~Fits(v, u))

Matched(f, t) == {i \in Values(f) : Matches(sampled[i][f], t)}

(* The narrowest type that takes every value; string is the fallback. *)
DocumentedType(f) ==
    LET whole == {t \in Narrow : Matched(f, t) = Values(f)}
    IN  IF Values(f) = {} THEN "unknown"
        ELSE IF whole = {} THEN "string"
        ELSE IF "int" \in whole THEN "int" ELSE CHOOSE t \in whole : TRUE

Bounds(b, K) ==
    /\ b # <<>>
    /\ b[1] \in K /\ \A x \in K : b[1] <= x
    /\ b[2] \in K /\ \A x \in K : x <= b[2]

(* A NaN that comes first is never replaced, one that comes later never     *)
(* counts; without one the range does not depend on the order.              *)
Numeric(f) == Matched(f, "float")
Known(f)   == {NumericValue(sampled[i][f]) : i \in Numeric(f)} \ {NaN}

NaNFirst(f) ==
    \E i \in Numeric(f) : NumericValue(sampled[i][f]) = NaN /\ \A j \in Numeric(f) : i <= j

IsRange(range, f) ==
    CASE Numeric(f) = {} -> range = <<>>
      [] NaNFirst(f)     -> range = <<NaN, NaN>>
      [] OTHER           -> Bounds(range, Known(f))

(* The lengths are those of the texts that are nothing but text. *)
Lengths(f) == {Text(sampled[i][f]).length : i \in {j \in Matched(f, "string") : sampled[j][f][1] = "text"}}

IsLength(length, f) == IF Lengths(f) = {} THEN length = <<>> ELSE Bounds(length, Lengths(f))

Forms(f)    == {StringOf(sampled[i][f]) : i \in Values(f)}
Distinct(f) == {sampled[i][f] : i \in Values(f)}

SeenBefore(f, s, t) ==
    \E i \in Values(f) :
        StringOf(sampled[i][f]) = s /\ \A j \in Values(f) : StringOf(sampled[j][f]) = t => i < j

FirstSeen(examples, f) ==
    /\ \A j, k \in DOMAIN examples : j < k => SeenBefore(f, examples[j], examples[k])
    /\ \A j \in DOMAIN examples : \A s \in Forms(f) \ ToSet(examples) : SeenBefore(f, examples[j], s)

(* Type invariant. *)
TypeOK ==
    /\ at \in {"opening", "checking", "reading", "closing", "returned"}
    /\ source \in {"new", "failed", "open", "closed"}
    /\ sampled \in Seq(Records) /\ DOMAIN accs \subseteq ToSet(FieldOrder)
    /\ outcome \in {"none", "profile", "error"} /\ cancelled \in {"no", "yes"} /\ late \in Nat

(* The accumulators, fed one value at a time and capped, give every column  *)
(* the profile its documentation describes from the whole sample: its type, *)
(* how many values match it and how many do not, the bounds of its numbers  *)
(* and of the lengths of its texts, the examples in the order they were     *)
(* first seen, and the number of distinct values, up to the cap.  A column  *)
(* of texts counts its values; in any other two values are distinct when    *)
(* toString tells them apart (UniqueCountsValues is what the comment says). *)
ProfileIsReference ==
    /\ DOMAIN accs = UNION {DOMAIN sampled[i] : i \in DOMAIN sampled}
    /\ \A f \in DOMAIN accs :
          LET p == Finalize(accs[f])
          IN  /\ p.type = DocumentedType(f)
              /\ p.nonNulls = Cardinality(Values(f)) /\ p.nulls = Cardinality(Column(f) \ Values(f))
              /\ p.matching = Cardinality(Matched(f, p.type))
              /\ p.parseErrors = Cardinality(Values(f) \ Matched(f, p.type))
              /\ IsRange(p.range, f) /\ IsLength(p.length, f)
              /\ p.unique = Capped(Cardinality(Forms(f)), MaxUnique)
              /\ (\A v \in Distinct(f) : v[1] = "text") =>
                    p.unique = Capped(Cardinality(Distinct(f)), MaxUnique)
              /\ IsInjective(p.examples) /\ ToSet(p.examples) \subseteq Forms(f)
              /\ Len(p.examples) = Capped(Cardinality(Forms(f)), MaxExamples)
              /\ FirstSeen(p.examples, f)

(* What the code counts: the values of each class. *)
OfClass(f, t) == {i \in Column(f) : Classify(sampled[i][f]) = t}
Classes(f)    == {Classify(sampled[i][f]) : i \in Values(f)}

Rank(f) == CHOOSE i \in DOMAIN FieldOrder : FieldOrder[i] = f

(* The issues come in a stable order (discover.go:240), each once, whatever *)
(* the order of the sample; a column without values is never called mixed,  *)
(* and an empty sample is the only reason for no_records_sampled.           *)
IssuesJustified ==
    /\ IsInjective(Issues)
    /\ \A i \in DOMAIN Issues :
          LET f == Issues[i][1]
          IN  CASE Issues[i][2] = "no_records_sampled" -> Len(Issues) = 1 /\ sampled = <<>>
                [] Issues[i][2] = "empty_field_name"   -> i = 1 /\ f = "" /\ Column("") # {}
                [] Issues[i][2] = "high_null_ratio"    -> OfClass(f, "null") # {}
                [] Issues[i][2] = "mixed_types"        -> \E s, t \in Classes(f) : s # t
    /\ \A i, j \in DOMAIN Issues :
          i < j /\ Issues[i][2] # "empty_field_name" => Rank(Issues[i][1]) <= Rank(Issues[j][1])

(* InspectSource returns however long the source goes on, with a profile of *)
(* at most SampleSize records or an error; a source that was opened is      *)
(* closed by then, and a cancellation lets one more record in at most.      *)
InspectReturns ==
    <>[](/\ at = "returned" /\ source \in {"failed", "closed"}
         /\ Len(sampled) <= SampleSize /\ late <= 1)

(* "The source is opened and closed exactly once. Close is called even when *)
(* Open fails." (discover.go:223-224)                                       *)
ClosedEvenThen == at = "returned" => source = "closed"

(* "NullCount is the number of records where the field was nil, missing, or *)
(* an empty string." (discover.go:128-129)                                  *)
NullsIncludeMissing ==
    \A f \in DOMAIN accs : accs[f].nulls + accs[f].nonNulls = Len(sampled)

(* "UniqueCount is the number of distinct non-null values seen, capped"     *)
(* (discover.go:137-139); toString makes "" of all it has no case for.      *)
UniqueCountsValues ==
    \A f \in DOMAIN accs :
        Finalize(accs[f]).unique = Capped(Cardinality(Distinct(f)), MaxUnique)

(* A float column has "at least one value [that] is fractional"             *)
(* (discover.go:52-54); float64(7), which is what JSON gives, is a float.   *)
FloatIsFractional ==
    \A f \in DOMAIN accs :
        Finalize(accs[f]).type = "float" => Known(f) \cap Fractions # {}

(* "MinFloat and MaxFloat are populated when Type is int or float. They are *)
(* zero otherwise." (discover.go:146-147); a mixed column keeps them.       *)
RangeOfNumbers ==
    \A f \in DOMAIN accs :
        Finalize(accs[f]).range # <<>> => Finalize(accs[f]).type \in {"int", "float"}

(* "For TypeString and TypeUnknown it is always 0." (discover.go:155-156)   *)
StringsHaveNoErrors ==
    \A f \in DOMAIN accs : Finalize(accs[f]).type = "string" => Finalize(accs[f]).parseErrors = 0

(* "one entry per field in alphabetical order" (discover.go:240-241)        *)
OneEntryEach ==
    \A i, j \in DOMAIN Issues :
        i # j /\ Issues[i][1] = Issues[j][1] => "empty_field_name" \in {Issues[i][2], Issues[j][2]}

-----------------------------------------------------------------------------
(* What ProfileIsReference and IssuesJustified need to be inductive: what   *)
(* each accumulator holds of the sample so far.  While there is room, the   *)
(* examples and the distinct values are all there are.                      *)
Holds(a, f) ==
    /\ a \in [nulls : Nat, nonNulls : Nat, count : [Types -> Nat],
              range : {<<>>} \cup (Int \X Int), length : {<<>>} \cup (Int \X Int),
              examples : Seq(Forms(f)), distinct : SUBSET Forms(f)]
    /\ a.nulls = Cardinality(OfClass(f, "null")) /\ a.nonNulls = Cardinality(Values(f))
    /\ \A t \in Types : a.count[t] = Cardinality(OfClass(f, t))
    /\ IsRange(a.range, f) /\ IsLength(a.length, f)
    /\ IsInjective(a.examples) /\ Len(a.examples) <= MaxExamples /\ FirstSeen(a.examples, f)
    /\ Len(a.examples) < MaxExamples => ToSet(a.examples) = Forms(f)
    /\ Cardinality(a.distinct) <= MaxUnique
    /\ Cardinality(a.distinct) < MaxUnique => a.distinct = Forms(f)

IInv ==
    /\ sampled \in Seq(Records)
    /\ DOMAIN accs = UNION {DOMAIN sampled[i] : i \in DOMAIN sampled}
    /\ \A f \in DOMAIN accs : Holds(accs[f], f)
=============================================================================
