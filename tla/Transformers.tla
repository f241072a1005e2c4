---------------------------- MODULE Transformers ----------------------------
(***************************************************************************)
(* transform/ and enrich/: what each Transformer makes of one record.      *)
(*                                                                         *)
(* A record is a function from field names, which are sequences of         *)
(* characters, to tagged values.  What strconv, strings and time say of a  *)
(* text is external and comes from Lexicon.  A call returns a record,      *)
(* whether that is a new map, and whether there was an error.              *)
(***************************************************************************)
EXTENDS Integers, HeaderStyles

CONSTANTS
    Nil,        \* the nil Record
    Lexicon     \* for each text: trimmed, lower, upper, float, int, bool, dates, runes

ASSUME LexiconAssumption ==
    \A t \in DOMAIN Lexicon :
        /\ {Lexicon[t].trimmed, Lexicon[t].lower, Lexicon[t].upper} \subseteq DOMAIN Lexicon
        /\ Lexicon[t].runes \in Nat

IsText(v)        == v[1] = "text"
Fields(r)        == IF r = Nil THEN {} ELSE DOMAIN r
Without(r, F)    == [f \in DOMAIN r \ F |-> r[f]]
With(r, f, v)    == [g \in DOMAIN r \cup {f} |-> IF g = f THEN v ELSE r[g]]
Overlay(r, s)    == [g \in DOMAIN r \cup DOMAIN s |-> IF g \in DOMAIN s THEN s[g] ELSE r[g]]

(* Mutant: the record that came in is written to. *)
InPlace(r) == [rec |-> r, new |-> FALSE, err |-> FALSE, panics |-> FALSE]

Cloned(r)  == [rec |-> r, new |-> TRUE, err |-> FALSE, panics |-> FALSE]
Same(r)    == [rec |-> r, new |-> FALSE, err |-> FALSE, panics |-> FALSE]
Failed(r)  == [rec |-> r, new |-> TRUE, err |-> TRUE, panics |-> FALSE]
Panics(r)  == [rec |-> r, new |-> FALSE, err |-> TRUE, panics |-> TRUE]

-----------------------------------------------------------------------------
(* fields.go: the parsers share all but their type and what they read a    *)
(* trimmed text as, which is one value or none.                            *)

(* Mutant: a blank text is left as an empty one. *)
Blanked(r, f) == Cloned(With(r, f, <<"text", "">>))

Cleared(r, f) == Cloned(Without(r, {f}))

Trimmed(r, f) == Lexicon[r[f][2]].trimmed

Parse(r, f, type, reading) ==
    IF f \notin DOMAIN r \/ ~IsText(r[f]) THEN Cloned(r)
    ELSE IF Trimmed(r, f) = "" THEN Cleared(r, f)
    ELSE IF reading = <<>> THEN Failed(r)
    ELSE Cloned(With(r, f, <<type, reading[1]>>))

ParseFloat(r, f) == Parse(r, f, "float", Lexicon[Trimmed(r, f)].float)
ParseInt(r, f)   == Parse(r, f, "int", Lexicon[Trimmed(r, f)].int)
ParseBool(r, f)  == Parse(r, f, "bool", Lexicon[Lexicon[Trimmed(r, f)].lower].bool)

(* The first layout that takes the text; without layouts every record fails. *)
FirstDate(text, layouts) ==
    LET taking == SelectSeq(layouts, LAMBDA l : l \in DOMAIN Lexicon[text].dates)
    IN  IF taking = <<>> THEN <<>> ELSE <<Lexicon[text].dates[Head(taking)]>>

ParseDate(r, f, layouts) ==
    IF layouts = <<>> THEN Failed(r) ELSE Parse(r, f, "time", FirstDate(Trimmed(r, f), layouts))

Rename(r, from, to) ==
    IF from \notin DOMAIN r \/ from = to THEN Cloned(r)
    ELSE Cloned(With(Without(r, {from}), to, r[from]))

Drop(r, F)        == Cloned(Without(r, F))
Keep(r, F)        == Cloned(Without(r, DOMAIN r \ F))
AddField(r, f, v) == Cloned(With(r, f, v))
Copy(r, from, to) == IF from \in DOMAIN r THEN Cloned(With(r, to, r[from])) ELSE Cloned(r)

(* fn gives one value, or none where it returns an error. *)
MapField(r, f, fn) ==
    IF f \notin DOMAIN r THEN Cloned(r)
    ELSE IF fn = <<>> THEN Failed(r)
    ELSE Cloned(With(r, f, fn[1]))

-----------------------------------------------------------------------------
(* strings.go: no fields means every field.                                *)

OnStrings(r, F, Edit(_)) ==
    Cloned([f \in DOMAIN r |->
               IF (F = {} \/ f \in F) /\ IsText(r[f]) THEN <<"text", Edit(r[f][2])>> ELSE r[f]])

TrimStrings(r, F)  == OnStrings(r, F, LAMBDA t : Lexicon[t].trimmed)
LowerStrings(r, F) == OnStrings(r, F, LAMBDA t : Lexicon[t].lower)
UpperStrings(r, F) == OnStrings(r, F, LAMBDA t : Lexicon[t].upper)

-----------------------------------------------------------------------------
(* headers.go: of the keys that come to the same name the first one in the *)
(* order of sort.Strings wins, and an empty name is dropped.               *)

CharOrder == <<"~", " ", "$", "-", ".", "1", "A", "B", "_", "a", "b">>
Rank(c)   == CHOOSE i \in DOMAIN CharOrder : CharOrder[i] = c

SortsBefore(s, t) ==
    \/ IsStrictPrefix(s, t)
    \/ \E i \in DOMAIN s \cap DOMAIN t :
          SubSeq(s, 1, i - 1) = SubSeq(t, 1, i - 1) /\ Rank(s[i]) < Rank(t[i])

(* Mutant: a later key replaces an earlier one. *)
LastOnes(r, style) ==
    {k \in DOMAIN r : /\ Style(style, k) # <<>>
                      /\ \A l \in DOMAIN r : SortsBefore(k, l) => Style(style, l) # Style(style, k)}

FirstOnes(r, style) ==
    {k \in DOMAIN r : /\ Style(style, k) # <<>>
                      /\ \A l \in DOMAIN r : SortsBefore(l, k) => Style(style, l) # Style(style, k)}

Renamed(r, style) ==
    LET winners == FirstOnes(r, style)
    IN  [n \in {Style(style, k) : k \in winners} |-> r[CHOOSE k \in winners : Style(style, k) = n]]

NormalizeHeaders(r, style) == Cloned(Renamed(r, style))

-----------------------------------------------------------------------------
(* enrich/lookup.go.  "%v" shows a number as the text that reads as it, so *)
(* a number finds the entry of its text; a value in the cache that is not  *)
(* a map fails the type assertion.                                         *)

Shown(v) ==
    IF IsText(v) THEN v[2]
    ELSE LET texts == {t \in DOMAIN Lexicon :
                          /\ Lexicon[t].trimmed = t
                          /\ \/ v[1] = "int" /\ v[2] \in ToSet(Lexicon[t].int)
                             \/ v[1] = "float" /\ v[2] \in ToSet(Lexicon[t].float)}
         IN  IF texts = {} THEN "%v" ELSE CHOOSE t \in texts : TRUE

CacheLookup(r, f, cache) ==
    IF f \notin DOMAIN r \/ Shown(r[f]) \notin DOMAIN cache THEN Same(r)
    ELSE LET entry == cache[Shown(r[f])]
         IN  IF entry[1] = "map" THEN Cloned(Overlay(r, entry[2])) ELSE Panics(r)

StaticMapEnrich(r, f, to, mapping) ==
    IF f \notin DOMAIN r \/ Shown(r[f]) \notin DOMAIN mapping THEN Same(r)
    ELSE Cloned(With(r, to, <<"text", mapping[Shown(r[f])]>>))

-----------------------------------------------------------------------------
(* A transformer t applied to r.  All of them leave a nil record alone.    *)
Apply(t, r) ==
    IF r = Nil THEN Same(r)
    ELSE CASE t.op = "ParseFloat"       -> ParseFloat(r, t.field)
           [] t.op = "ParseInt"         -> ParseInt(r, t.field)
           [] t.op = "ParseBool"        -> ParseBool(r, t.field)
           [] t.op = "ParseDate"        -> ParseDate(r, t.field, t.layouts)
           [] t.op = "Rename"           -> Rename(r, t.from, t.to)
           [] t.op = "Drop"             -> Drop(r, t.fields)
           [] t.op = "Keep"             -> Keep(r, t.fields)
           [] t.op = "AddField"         -> AddField(r, t.field, t.value)
           [] t.op = "Copy"             -> Copy(r, t.from, t.to)
           [] t.op = "MapField"         -> MapField(r, t.field, t.fn)
           [] t.op = "TrimStrings"      -> TrimStrings(r, t.fields)
           [] t.op = "LowerStrings"     -> LowerStrings(r, t.fields)
           [] t.op = "UpperStrings"     -> UpperStrings(r, t.fields)
           [] t.op = "NormalizeHeaders" -> NormalizeHeaders(r, t.style)
           [] t.op = "CacheLookup"      -> CacheLookup(r, t.field, t.cache)
           [] t.op = "StaticMapEnrich"  -> StaticMapEnrich(r, t.field, t.to, t.mapping)
=============================================================================
