----------------------------- MODULE Validators -----------------------------
(***************************************************************************)
(* validate/: what each Validator says of a record, "" for no objection    *)
(* and else the rule that was broken.  As in the code, the wrappers are    *)
(* the same few checks with other parameters; a bound that is not given is *)
(* the empty sequence.                                                     *)
(*                                                                         *)
(* What regexp, net/url and the clock say of a value is external.          *)
(***************************************************************************)
EXTENDS Transformers, Floats

CONSTANTS
    NaN,        \* an integer that stands for the float
    Matches,    \* for each pattern that compiles, the texts it matches
    WebURLs     \* the trimmed texts that are http or https URLs with a host

(* What < says of float64s. *)
Below(x, y) == x # NaN /\ y # NaN /\ x < y

(* The value of a field, which must be of one of the kinds. *)
Has(r, f, kinds) == f \in Fields(r) /\ r[f][1] \in kinds

-----------------------------------------------------------------------------
(* basic.go.  The package's own trim knows only ASCII white space.         *)

Blank(v) == IsText(v) /\ Lexicon[v[2]].asciiBlank

IsNil(r, f) == f \notin Fields(r) \/ r[f][1] = "nil"

Required(r, f)  == IF IsNil(r, f) \/ Blank(r[f]) THEN "required" ELSE ""
Present(r, f)   == IF IsNil(r, f) THEN "present" ELSE ""
Forbidden(r, f) == IF IsNil(r, f) \/ Blank(r[f]) THEN "" ELSE "forbidden"
NotFuture(r, f) == IF Has(r, f, {"time"}) /\ r[f][2] = "past" THEN "" ELSE "not_future"

(* fn's own ValidationError is forwarded, any other error takes the name. *)
Custom(name, answer) == IF answer = "error" THEN name ELSE answer

-----------------------------------------------------------------------------
(* number.go.  A text is not coerced: a numeric transform comes first.     *)

(* Mutant: an exclusive range takes its bounds. *)
BoundsTaken(x, b, exclusive) == FALSE

OnBound(x, b, exclusive) == exclusive /\ x = b

InRange(x, c) ==
    IF c.min # <<>> /\ (Below(x, c.min[1]) \/ OnBound(x, c.min[1], c.exclusive)) THEN "min"
    ELSE IF c.max # <<>> /\ (Below(c.max[1], x) \/ OnBound(x, c.max[1], c.exclusive)) THEN "max"
    ELSE ""

(* toFloat: the checks are made on a float64, whatever the value was. *)
ToFloat(v) == IF v[1] = "int" THEN Float64(v[2]) ELSE v[2]

NumericCheck(r, f, c) == IF Has(r, f, {"int", "float"}) THEN InRange(ToFloat(r[f]), c) ELSE "between"

AtLeast(r, f, lo)            == NumericCheck(r, f, [min |-> <<lo>>, max |-> <<>>, exclusive |-> FALSE])
AtMost(r, f, hi)             == NumericCheck(r, f, [min |-> <<>>, max |-> <<hi>>, exclusive |-> FALSE])
Between(r, f, lo, hi)        == NumericCheck(r, f, [min |-> <<lo>>, max |-> <<hi>>, exclusive |-> FALSE])
ExclusiveRange(r, f, lo, hi) == NumericCheck(r, f, [min |-> <<lo>>, max |-> <<hi>>, exclusive |-> TRUE])

-----------------------------------------------------------------------------
(* string.go. *)

LengthCheck(r, f, c) ==
    IF ~Has(r, f, {"text"}) THEN "length"
    ELSE LET n == Lexicon[r[f][2]].runes
         IN  IF c.exact # <<>> /\ n # c.exact[1] THEN "length"
             ELSE IF c.min # <<>> /\ n < c.min[1] THEN "min_length"
             ELSE IF c.max # <<>> /\ n > c.max[1] THEN "max_length"
             ELSE ""

MinLen(r, f, n)   == LengthCheck(r, f, [min |-> <<n>>, max |-> <<>>, exact |-> <<>>])
MaxLen(r, f, n)   == LengthCheck(r, f, [min |-> <<>>, max |-> <<n>>, exact |-> <<>>])
ExactLen(r, f, n) == LengthCheck(r, f, [min |-> <<>>, max |-> <<>>, exact |-> <<n>>])

(* A pattern that does not compile objects to every record. *)
Regex(r, f, pattern) ==
    IF pattern \notin DOMAIN Matches THEN "compile pattern"
    ELSE IF Has(r, f, {"text"}) /\ r[f][2] \in Matches[pattern] THEN ""
    ELSE "regex"

Email(r, f)         == Regex(r, f, "email")
Enum(r, f, allowed) == IF Has(r, f, {"text"}) /\ r[f][2] \in allowed THEN "" ELSE "enum"
URL(r, f)           == IF Has(r, f, {"text"}) /\ Lexicon[r[f][2]].trimmed \in WebURLs THEN "" ELSE "url"

-----------------------------------------------------------------------------
(* A validator v asked about r. *)
Validate(v, r) ==
    CASE v.op = "Required"       -> Required(r, v.field)
      [] v.op = "Present"        -> Present(r, v.field)
      [] v.op = "Forbidden"      -> Forbidden(r, v.field)
      [] v.op = "NotFuture"      -> NotFuture(r, v.field)
      [] v.op = "Custom"         -> Custom(v.name, v.answer)
      [] v.op = "Min"            -> AtLeast(r, v.field, v.lo)
      [] v.op = "Max"            -> AtMost(r, v.field, v.hi)
      [] v.op = "Between"        -> Between(r, v.field, v.lo, v.hi)
      [] v.op = "ExclusiveRange" -> ExclusiveRange(r, v.field, v.lo, v.hi)
      [] v.op = "MinLen"         -> MinLen(r, v.field, v.n)
      [] v.op = "MaxLen"         -> MaxLen(r, v.field, v.n)
      [] v.op = "Len"            -> ExactLen(r, v.field, v.n)
      [] v.op = "Regex"          -> Regex(r, v.field, v.pattern)
      [] v.op = "Email"          -> Email(r, v.field)
      [] v.op = "Enum"           -> Enum(r, v.field, v.allowed)
      [] v.op = "URL"            -> URL(r, v.field)
=============================================================================
