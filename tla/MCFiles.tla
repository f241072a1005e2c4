------------------------------- MODULE MCFiles -------------------------------
(* A small instance of Files for TLC: records that share some fields, with    *)
(* values that have no text, no encoding or no float64 of their own, that     *)
(* come back as another text or another kind, or that make a line too long,   *)
(* and files from elsewhere with blank, ragged, long and broken lines.       *)
EXTENDS Files

Text(t) == <<"text", t>>

MCRecords ==
    {<<>>, [a |-> Text("x")], [a |-> Text("cr lf"), b |-> <<"int", 5>>], [b |-> <<"nan", 0>>],
     [a |-> Text(" "), b |-> <<"nil", 0>>], "" :> Text("half a rune"), [a |-> Text("long")],
     [a |-> <<"time", "noon">>, b |-> <<"int", -9>>]}

Q(record, errors, stage, stamp) == [record |-> record, errors |-> errors, stage |-> stage, stamp |-> stamp]

Message == <<"message", Text("m")>>

MCRejections ==
    {Q([a |-> <<"time", "noon">>, b |-> <<"float32", "0.1">>], <<Message>>, "transform", "t1"),
     Q([a |-> <<"int", 5>>],
       <<<<"nil", 0>>, <<"rule", "a", "min", <<"int", -9>>>>, <<"rule", "b", "in", <<"nil", 0>>>>>>,
       "validation", "t1"),
     Q([a |-> Text("x"), _errors |-> <<"list", <<>>>>, _stage |-> Text("validation")], <<Message>>, "", "zero"),
     Q([a |-> Text("long")], <<>>, "", "zero"),
     Q(<<>>, <<<<"rule", "a", "min", <<"nan", 0>>>>>>, "validation", "t1")}

CSVLines  == {<<"row", <<"a", "b">>>>, <<"row", <<"a", " a">>>>, <<"row", <<>>>>, <<"row", <<"", " ">>>>,
              <<"row", <<"cr lf">>>>, <<"row", <<"x", "y", "z">>>>, <<"bad">>}
JSONLines == {<<"json", [a |-> Text("x")]>>, <<"null">>, <<"blank">>, <<"blank", "long">>, <<"bad">>}

UpTo(n, S) == UNION {[1..k -> S] : k \in 0..n}

MCForeign == [csv |-> UpTo(3, CSVLines), jsonl |-> UpTo(3, JSONLines), quarantine |-> {}]

MCHeaderLists == {<<>>, <<"b", " a", "a">>}
MCSortedKeys(r) == SelectSeq(<<"", "a", "b">>, LAMBDA f : f \in DOMAIN r)

MCTrim(t) == CASE t = " a" -> "a" [] t = " " -> "" [] OTHER -> t

MCCellOf(v) ==
    CASE v[1] = "nil" -> "" [] v[1] = "int" -> "5" [] v[1] = "nan" -> "NaN" [] OTHER -> v[2]

MCNewLines(t) == IF t = "cr lf" THEN "lf" ELSE t

MCEncoded(v) ==
    CASE v = <<"time", "noon">> -> "12:00" [] v = Text("half a rune") -> "U+FFFD" [] OTHER -> v[2]

MCLong(line) ==
    \/ line = <<"blank", "long">>
    \/ line[1] = "json" /\ \E f \in DOMAIN line[2] : line[2][f] = Text("long")
=============================================================================
