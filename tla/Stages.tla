------------------------------- MODULE Stages -------------------------------
(***************************************************************************)
(* One record on its way through the pipeline's stages: pipeline.go's      *)
(* applyTransforms and applyValidators with the transformers of transform/ *)
(* and enrich/ and the validators of validate/.  The maps live on a heap,  *)
(* where the source's own record is the first: a stage may return a new    *)
(* map or the one it got.                                                  *)
(*                                                                         *)
(* setup names one of the pipelines that are checked, with the records     *)
(* its source yields.                                                      *)
(***************************************************************************)
EXTENDS Validators, FiniteSets

CONSTANTS
    Records,        \* for each setup, the records of the source
    Transforms,     \* for each setup, the transformers a chain is made of
    Suites,         \* for each setup, the sets of validators
    Bounds,         \* the numbers validators compare with
    MaxStages       \* bound: for each setup, the length of a chain

(* The packages' own transformers. *)
Operations ==
    {"ParseFloat", "ParseInt", "ParseBool", "ParseDate", "Rename", "Drop", "Keep", "AddField", "Copy",
     "MapField", "TrimStrings", "LowerStrings", "UpperStrings", "NormalizeHeaders", "CacheLookup",
     "StaticMapEnrich"}

ASSUME BoundsAssumption == Bounds \subseteq Int

ASSUME OperationsAssumption == \A s \in DOMAIN Records : \A t \in Transforms[s] : t.op \in Operations

(* Every text a setup brings along is one the lexicon tells of. *)
Known(r) == \A f \in DOMAIN r : IsText(r[f]) => r[f][2] \in DOMAIN Lexicon

ASSUME TextsAssumption ==
    \A s \in DOMAIN Records :
        /\ \A r \in Records[s] : r # Nil => Known(r)
        /\ \A t \in Transforms[s] :
              /\ t.op = "AddField" => Known([g \in {t.field} |-> t.value])
              /\ t.op = "MapField" /\ t.fn # <<>> => Known([g \in {t.field} |-> t.fn[1]])
              /\ t.op = "CacheLookup" =>
                    \A k \in DOMAIN t.cache : t.cache[k][1] = "map" => Known(t.cache[k][2])
              /\ t.op = "StaticMapEnrich" =>
                    \A k \in DOMAIN t.mapping : t.mapping[k] \in DOMAIN Lexicon

(* Records have finitely many fields, with names over the alphabet, and the *)
(* header styles are the package's own.                                    *)
Named(r) == IsFiniteSet(DOMAIN r) /\ DOMAIN r \subseteq Seq(Chars)

ASSUME NamesAssumption ==
    \A s \in DOMAIN Records :
        /\ \A r \in Records[s] : r # Nil => Named(r)
        /\ \A t \in Transforms[s] :
              /\ t.op = "AddField" => t.field \in Seq(Chars)
              /\ t.op \in {"Rename", "Copy", "StaticMapEnrich"} => t.to \in Seq(Chars)
              /\ t.op = "CacheLookup" =>
                    \A k \in DOMAIN t.cache : t.cache[k][1] = "map" => Named(t.cache[k][2])
              /\ t.op = "NormalizeHeaders" => t.style \in Styles

VARIABLES
    setup,
    heap,       \* every map made so far
    chain,      \* the transformers applied so far
    verdict,    \* "transforming", "rejected", "panicked", "invalid" or "valid"
    objections  \* the validators that rejected the record

vars == <<setup, heap, chain, verdict, objections>>

Current == heap[Len(heap)]

Init ==
    /\ setup \in DOMAIN Records
    /\ \E r \in Records[setup] : heap = <<r>>
    /\ chain = <<>> /\ verdict = "transforming" /\ objections = {}

Place(result) ==
    IF result.new THEN Append(heap, result.rec) ELSE [heap EXCEPT ![Len(heap)] = result.rec]

(* One turn of the loop in applyTransforms.  What is returned beside an    *)
(* error is dropped, and the source's own record goes to the quarantine.   *)
Transform(t) ==
    LET result == Apply(t, Current)
    IN  /\ verdict = "transforming" /\ Len(chain) < MaxStages[setup]
        /\ heap' = IF result.err THEN heap ELSE Place(result)
        /\ chain' = Append(chain, t)
        /\ verdict' = IF result.panics THEN "panicked" ELSE IF result.err THEN "rejected" ELSE verdict
        /\ UNCHANGED <<setup, objections>>

(* The chain ends here, and every validator is asked. *)
ValidateAll(suite) ==
    /\ verdict = "transforming"
    /\ objections' = {v \in suite : Validate(v, Current) # ""}
    /\ verdict' = IF objections' = {} THEN "valid" ELSE "invalid"
    /\ UNCHANGED <<setup, heap, chain>>

Next ==
    \/ \E t \in Transforms[setup] : Transform(t)
    \/ \E suite \in Suites[setup] : ValidateAll(suite)

Spec == Init /\ [][Next]_vars

-----------------------------------------------------------------------------
(* Properties. *)

TypeOK ==
    /\ setup \in DOMAIN Records
    /\ Len(heap) \in 1..MaxStages[setup] + 1
    /\ chain \in Seq(Transforms[setup]) /\ Len(chain) <= MaxStages[setup]
    /\ verdict \in {"transforming", "rejected", "panicked", "invalid", "valid"}
    /\ objections \subseteq UNION Suites[setup]

(* "Apply never mutates the input record" (fields.go:18 and on every other  *)
(* transformer): a map that is on the heap keeps its contents, so the       *)
(* record a quarantine is handed is the one the source delivered.           *)
InputUntouched == [][\A i \in DOMAIN heap : heap'[i] = heap[i]]_vars

(* "It always returns a fresh Record, even on no-op" (intake.go:73-75).     *)
(* TLC refutes it with an enricher that finds nothing, which hands on the   *)
(* map it was given (lookup.go:32-34, 51); InputUntouched says that none of *)
(* the packages' transformers then writes to it.                           *)
FreshRecord ==
    [][chain' # chain /\ verdict' = "transforming" /\ Current # Nil => Len(heap') > Len(heap)]_vars

Writes(t, f) ==
    CASE t.op \in {"AddField", "MapField"}         -> t.field = f
      [] t.op \in {"Copy", "StaticMapEnrich"}      -> t.to = f
      [] t.op = "Rename"                           -> f \in {t.from, t.to}
      [] t.op \in {"NormalizeHeaders", "CacheLookup"} -> TRUE
      [] OTHER                                     -> FALSE

NoText(r, f) == f \notin Fields(r) \/ ~IsText(r[f])

Parses(t) == t.op \in {"ParseFloat", "ParseInt", "ParseBool", "ParseDate"}

(* Once a field was parsed it stays parsed: until a stage writes it, it is   *)
(* missing or no text, however the chain goes on, so that no validator that  *)
(* wants a number finds a text and Required objects to what was blank.       *)
TypedOnceParsed ==
    verdict # "rejected" =>
        \A i \in DOMAIN chain :
            Parses(chain[i]) /\ (\A j \in i + 1..Len(chain) : ~Writes(chain[j], chain[i].field))
            => NoText(Current, chain[i].field)

WordCharacter(c) == IF c \in Lowers \cup Uppers \cup Digits THEN <<LowerOf(c)>> ELSE <<>>

WordCharacters[s \in Seq(Chars)] ==
    IF s = <<>> THEN <<>> ELSE WordCharacters[Front(s)] \o WordCharacter(Last(s))

(* What splitWords gets wrong: a capital before a small letter, and before   *)
(* it no small letter that would have started a word.                       *)
Doubling(s) ==
    \E i \in 2..Len(s) - 1 :
        s[i - 1] \in Uppers \cup Digits /\ s[i] \in Uppers /\ s[i + 1] \in Lowers

Tidy(s) ==
    /\ \A i \in DOMAIN s : s[i] \notin Uppers \cup {" ", "."}
    /\ s[1] # "_" /\ Last(s) # "_" /\ \A i \in 1..Len(s) - 1 : ~(s[i] = "_" /\ s[i + 1] = "_")

Humped(n) == \A i \in DOMAIN n : n[i] \in Uppers => i > 1 /\ n[i - 1] \in Lowers

(* A name that a second pass leaves as it is: under snake and kebab if its  *)
(* key has no line end within, under camel if every capital comes right     *)
(* after a small letter.                                                    *)
Steady(k, n, style) ==
    CASE style \in {"snake", "kebab"} -> ~Contains(TrimSpace(k), "~")
      [] style = "camel"              -> Humped(n)
      [] OTHER                        -> TRUE

Settled(before, after, style) ==
    LET keys(n) == {k \in DOMAIN before : Style(style, k) = n}
    IN  /\ DOMAIN after = {Style(style, k) : k \in DOMAIN before} \ {<<>>}
        /\ \A n \in DOMAIN after :
              \E k \in keys(n) :
                  /\ after[n] = before[k]
                  /\ \A l \in keys(n) \ {k} : SortsBefore(k, l)
                  /\ style # "camel" \/ ~Doubling(k) => WordCharacters[n] = WordCharacters[k]
                  /\ Steady(k, n, style) => Style(style, n) = n
                  /\ style = "snake" /\ ~Contains(TrimSpace(k), "~") => Tidy(n)

(* NormalizeHeaders keeps the value of the smallest of the keys that come   *)
(* to one name, adds no name and loses none but the empty one.  The letters  *)
(* and digits of a key survive in their order, in camelCase those of a key   *)
(* whose words splitWords gets right.  A second pass over its own output, as *)
(* over a file that was written under the new names, changes no name that is *)
(* Steady, which under lower and upper is every one.                        *)
HeadersSettled ==
    chain # <<>> /\ verdict = "transforming" /\ Last(chain).op = "NormalizeHeaders" /\ Current # Nil
    => Settled(heap[Len(heap) - 1], Current, Last(chain).style)

(* CamelCase names, too: what a consumer that normalises again relies on.   *)
(* TLC refutes it, for headers.go:72-147 makes "aBC" of "a b c" and "aBc"   *)
(* of that.                                                                 *)
CamelSettles ==
    chain # <<>> /\ verdict = "transforming" /\ Last(chain) = [op |-> "NormalizeHeaders", style |-> "camel"]
        /\ Current # Nil
    => \A n \in DOMAIN Current : CamelCase(n) = n

(* The wrappers against the checks they are short for (number.go:34-38,     *)
(* string.go:14-40, basic.go:30-67), and Forbidden against Required, whose  *)
(* opposite it is: asked about any field the record has or had, whatever    *)
(* the chain made of the value (NaN, a blank, another type, an integer that *)
(* is rounded onto a bound), a wrapper objects just when the checks do.     *)
WrappersAgree ==
    LET r == Current
    IN  \A f \in UNION {Fields(heap[i]) : i \in DOMAIN heap} :
            /\ Forbidden(r, f) = "" <=> Required(r, f) # ""
            /\ Present(r, f) # "" => Required(r, f) # ""
            /\ \A lo, hi \in Bounds :
                  /\ Between(r, f, lo, hi) = "" <=> AtLeast(r, f, lo) = "" /\ AtMost(r, f, hi) = ""
                  /\ ExclusiveRange(r, f, lo, hi) = "" <=>
                        Between(r, f, lo, hi) = "" /\ ToFloat(r[f]) \notin {lo, hi}
            /\ \A n \in Bounds :
                  ExactLen(r, f, n) = "" <=> MinLen(r, f, n) = "" /\ MaxLen(r, f, n) = ""

(* "fails unless the numeric value of field is strictly inside (min, max)"  *)
(* (number.go:34-35).  TLC refutes it with NaN, which every range takes.    *)
RangeIsStrict ==
    \A f \in Fields(Current) : \A lo, hi \in Bounds :
        ExclusiveRange(Current, f, lo, hi) = "" => Current[f][2] \in lo + 1..hi - 1

(* "fails when the numeric value of field is strictly less than min"        *)
(* (number.go:10-11).  TLC refutes it with an integer just below min that   *)
(* is rounded onto it (number.go:80-112).                                   *)
MinIsExact ==
    \A f \in Fields(Current) : \A lo \in Bounds :
        Has(Current, f, {"int"}) /\ Current[f][2] < lo => AtLeast(Current, f, lo) # ""

-----------------------------------------------------------------------------
(* What the proofs need beside TypedOnceParsed: the heap is a sequence that *)
(* is never empty, so there always is a current record, and a chain is made *)
(* of what the setup has.                                                  *)
HeapOK ==
    /\ setup \in DOMAIN Records
    /\ heap # <<>> /\ heap \in Seq({heap[i] : i \in DOMAIN heap})
    /\ chain \in Seq(Transforms[setup])

(* What WrappersAgree needs: every text of the current record is one the   *)
(* lexicon gives a length for.                                             *)
TextsKnown == Current # Nil => Known(Current)

(* What HeadersSettled needs: the names of the current record are sequences *)
(* a style is a pass over, and finitely many, so that one of them is first. *)
NamesKnown == Current # Nil => Named(Current)

IInv == HeapOK /\ TypedOnceParsed /\ TextsKnown /\ NamesKnown /\ HeadersSettled
=============================================================================
