------------------------------ MODULE MCStages ------------------------------
(* Two small instances of Stages for TLC: "fields", every transformer and    *)
(* validator of the packages on records of one field or two, and "headers",  *)
(* each header style on records with one key or two, first of the shortest   *)
(* names there are and then of names that run into each other.               *)
EXTENDS Stages

a == <<"a">>
b == <<"b">>

Word(trimmed, lower, upper, float, int, bool, runes) ==
    [trimmed |-> trimmed, lower |-> lower, upper |-> upper, float |-> float, int |-> int,
     bool |-> bool, dates |-> <<>>, asciiBlank |-> FALSE, runes |-> runes]

Plain(t, lower, upper, runes) == Word(t, lower, upper, <<>>, <<>>, <<>>, runes)
White(t, ascii, runes) == [Plain("", t, t, runes) EXCEPT !.asciiBlank = ascii]

MCLexicon ==
    [t \in {"", "space", "nbsp", "1", " 1 ", "yes", "YES", "nan", "NAN", "day", "word", "WORD"} |->
        CASE t = ""      -> White(t, TRUE, 0)
          [] t = "space" -> White(t, TRUE, 1)
          [] t = "nbsp"  -> White(t, FALSE, 1)
          [] t = "1"     -> Word("1", "1", "1", <<1>>, <<1>>, <<TRUE>>, 1)
          [] t = " 1 "   -> Plain("1", t, t, 3)
          [] t \in {"yes", "YES"}   -> Word(t, "yes", "YES", <<>>, <<>>, <<TRUE>>, 3)
          [] t \in {"nan", "NAN"}   -> Word(t, "nan", "NAN", <<NaN>>, <<>>, <<>>, 3)
          [] t = "day"              -> [Plain(t, t, t, 10) EXCEPT !.dates = [iso |-> "past"]]
          [] t \in {"word", "WORD"} -> Plain(t, "word", "WORD", 4)]

Values == {<<"text", t>> : t \in DOMAIN MCLexicon \ {"YES", "NAN", "WORD", "space"}}
              \cup {<<"nil", 0>>, <<"int", 1>>, <<"int", 3>>, <<"bool", FALSE>>, <<"time", "future">>, <<"list", 0>>}

One(f, v) == [g \in {f} |-> v]
Two(f, g, v, w) == [h \in {f, g} |-> IF h = f THEN v ELSE w]

Keyed(op, f) == [op |-> op, field |-> f]

FieldTransforms ==
    {Keyed(op, f) : op \in {"ParseFloat", "ParseInt", "ParseBool"}, f \in {a, b}}
    \cup {[op |-> "ParseDate", field |-> a, layouts |-> ls] : ls \in {<<>>, <<"us", "iso">>}}
    \cup {[op |-> "Rename", from |-> f, to |-> b] : f \in {a, b}}
    \cup {[op |-> op, fields |-> {a}] : op \in {"Drop", "Keep", "LowerStrings", "TrimStrings"}}
    \cup {[op |-> "UpperStrings", fields |-> {}], [op |-> "Copy", from |-> a, to |-> b],
          [op |-> "AddField", field |-> b, value |-> <<"text", "nan">>],
          [op |-> "MapField", field |-> b, fn |-> <<>>],
          [op |-> "MapField", field |-> a, fn |-> <<<<"text", "1">>>>],
          [op |-> "CacheLookup", field |-> a,
           cache |-> ("1" :> <<"map", One(b, <<"text", "yes">>)>> @@ "yes" :> <<"scalar", 0>>)],
          [op |-> "StaticMapEnrich", field |-> b, to |-> a, mapping |-> ("1" :> "word")]}

On(op)    == Keyed(op, a)
FieldSuite ==
    {On("Required"), On("Present"), On("NotFuture"), On("Email"), On("URL"),
     [op |-> "Regex", field |-> a, pattern |-> "words"], [op |-> "Regex", field |-> a, pattern |-> "("],
     [op |-> "Enum", field |-> a, allowed |-> {"yes"}], [op |-> "Custom", name |-> "mine", answer |-> "error"],
     [op |-> "Min", field |-> a, lo |-> 1], [op |-> "Max", field |-> a, hi |-> 1],
     [op |-> "Between", field |-> a, lo |-> 1, hi |-> 2],
     [op |-> "ExclusiveRange", field |-> a, lo |-> 1, hi |-> 2],
     [op |-> "MinLen", field |-> a, n |-> 2], [op |-> "MaxLen", field |-> a, n |-> 2],
     [op |-> "Len", field |-> a, n |-> 1], [op |-> "Custom", name |-> "own", answer |-> ""]}

MCMatches == [words |-> {"word", "yes"}, email |-> {}]

Short  == UNION {[1..n -> Chars] : n \in 0..3}
Tricky == {<<"a", "B">>, <<"a", " ", "b">>, <<"A", "b">>, <<"a", "_", "b">>, <<"A", " ", "B">>,
           <<"-">>, <<"A", "B", "a">>, <<"1", "-", "a">>, <<"A", "B", "a", "b">>}

MCRecords ==
    [fields  |-> {Nil, <<>>} \cup {One(a, v) : v \in Values} \cup {Two(a, b, v, <<"text", "1">>) : v \in {<<"text", "nbsp">>, <<"text", " 1 ">>, <<"int", 1>>}},
     headers |-> {One(s, <<"int", 1>>) : s \in Short}
                    \cup {Two(s, t, <<"int", 1>>, <<"int", 2>>) : s, t \in Tricky}]

MCTransforms ==
    [fields  |-> FieldTransforms,
     headers |-> {[op |-> "NormalizeHeaders", style |-> s] : s \in Styles}]

MCSuites == [fields |-> {FieldSuite, {On("Present")}, {On("Forbidden")}}, headers |-> {}]
MCBounds == {0, 1, 2, 4}
MCMaxStages == [fields |-> 3, headers |-> 2]
=============================================================================
