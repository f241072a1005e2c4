----------------------------- MODULE MCDiscover -----------------------------
(* A small instance of Discover for TLC: a column of everything a source    *)
(* can yield beside one whose name is empty, and samples larger than the    *)
(* caps on examples and distinct values.                                    *)
EXTENDS Discover

MCFieldOrder == <<"", "a">>
MCNaN        == -99

Lexeme(parsers, number, length) ==
    [blank |-> length = 0, parsers |-> parsers, number |-> number, length |-> length]

MCLexicon ==
    [blank |-> Lexeme({}, 0, 0),               yes  |-> Lexeme({"bool"}, 0, 3),
     seven |-> Lexeme({"int", "float"}, 7, 5), nan  |-> Lexeme({"float"}, MCNaN, 3),
     day   |-> Lexeme({"date"}, 0, 10),        word |-> Lexeme({}, 0, 4),
     noon  |-> Lexeme({"datetime"}, 0, 20),    no   |-> Lexeme({}, 0, 2)]

(* 9 is no float64 under a Mantissa of 8. *)
Some ==
    {<<"text", t>> : t \in DOMAIN MCLexicon}
        \cup {<<"nil", 0>>, <<"int", 7>>, <<"float", 7>>, <<"uint", 9>>, <<"uint", -9>>, <<"list", 0>>}

Named(v)   == [f \in {"a"} |-> v]
Nameless   == [f \in {""} |-> <<"text", "word">>]
Both(v)    == [f \in {"", "a"} |-> IF f = "" THEN <<"text", "seven">> ELSE v]

MCRecords  == {<<>>, Nameless, Both(<<"int", 7>>)} \cup {Named(v) : v \in Some}
MCShown(v)  == "seven"
MCNullThreshold  == <<1, 4>>
MCMixedThreshold == <<4, 5>>
=============================================================================
