---------------------------- MODULE HeaderStyles ----------------------------
(***************************************************************************)
(* transform/headers.go: the styles NormalizeHeaders rewrites keys with.   *)
(* A name is a sequence of characters, and a style a pass over it.         *)
(* The alphabet is a small part of ASCII, in which "~" stands for the      *)
(* white space that is no separator (a line end), and "$" for all other    *)
(* characters.                                                             *)
(***************************************************************************)
EXTENDS Naturals, Sequences, SequencesExt, FiniteSetsExt

Lowers     == {"a", "b"}
Uppers     == {"A", "B"}
Digits     == {"1"}
Separators == {" ", "-", "."}
Spaces     == {" ", "~"}
Chars      == Lowers \cup Uppers \cup Digits \cup Separators \cup Spaces \cup {"_", "$"}

LowerOf(c) == CASE c = "A" -> "a" [] c = "B" -> "b" [] OTHER -> c
UpperOf(c) == CASE c = "a" -> "A" [] c = "b" -> "B" [] OTHER -> c

LowerCase(s) == [i \in DOMAIN s |-> LowerOf(s[i])]
UpperCase(s) == [i \in DOMAIN s |-> UpperOf(s[i])]

TrimSpace(s) ==
    LET kept == {i \in DOMAIN s : s[i] \notin Spaces}
    IN  IF kept = {} THEN <<>> ELSE SubSeq(s, Min(kept), Max(kept))

-----------------------------------------------------------------------------
(* An underscore is neither the first nor doubled. *)
Underscore(out) == IF out # <<>> /\ Last(out) # "_" THEN Append(out, "_") ELSE out

(* One character of the first pass: low says that the last one was a lower *)
(* case letter.                                                            *)
SnakeStep(scan, c) ==
    CASE c \in Separators -> [out |-> Underscore(scan.out), low |-> FALSE]
      [] c \in Uppers     -> [out |-> Append(IF scan.low THEN Underscore(scan.out) ELSE scan.out,
                                             LowerOf(c)),
                              low |-> FALSE]
      [] OTHER            -> [out |-> Append(scan.out, c), low |-> c \in Lowers]

Collapse(out, c) == IF c = "_" THEN Underscore(out) ELSE Append(out, c)

(* What the two passes make of the characters of s. *)
SnakeScan[s \in Seq(Chars)] ==
    IF s = <<>> THEN [out |-> <<>>, low |-> FALSE] ELSE SnakeStep(SnakeScan[Front(s)], Last(s))

Collapsed[s \in Seq(Chars)] == IF s = <<>> THEN <<>> ELSE Collapse(Collapsed[Front(s)], Last(s))

SnakeCase(s) ==
    LET final == Collapsed[SnakeScan[TrimSpace(s)].out]
    IN  IF final # <<>> /\ Last(final) = "_" THEN Front(final) ELSE final

KebabCase(s) == ReplaceAll(SnakeCase(s), "_", "-")

-----------------------------------------------------------------------------
(* One character of splitWords.  Where a lower case letter follows a run   *)
(* of upper case ones the run's last letter belongs to the next word; the  *)
(* code keeps all the others for it instead (headers.go:133-138).          *)
SplitStep(scan, c) ==
    LET lower == c \in Lowers
        upper == c \in Uppers
        word  == lower \/ upper \/ c \in Digits
        ends  == CASE ~word /\ scan.current # <<>>                        -> scan.current
                   [] upper /\ scan.lower                                 -> scan.current
                   [] lower /\ scan.upper /\ Len(scan.current) > 1        -> Front(scan.current)
                   [] OTHER                                               -> <<>>
        rest  == CASE ~word \/ (upper /\ scan.lower)                      -> <<>>
                   [] lower /\ scan.upper /\ Len(scan.current) > 1        -> Front(scan.current)
                   [] OTHER                                               -> scan.current
    IN  [words   |-> IF ends = <<>> THEN scan.words ELSE Append(scan.words, ends),
         current |-> IF word THEN Append(rest, c) ELSE <<>>,
         lower   |-> lower, upper |-> upper]

SplitScan[s \in Seq(Chars)] ==
    IF s = <<>> THEN [words |-> <<>>, current |-> <<>>, lower |-> FALSE, upper |-> FALSE]
    ELSE SplitStep(SplitScan[Front(s)], Last(s))

SplitWords(s) ==
    LET scan == SplitScan[TrimSpace(s)]
    IN  IF scan.current = <<>> THEN scan.words ELSE Append(scan.words, scan.current)

Capitalised(w) == [i \in DOMAIN w |-> IF i = 1 THEN UpperOf(w[i]) ELSE LowerOf(w[i])]

(* No word is empty, so an empty name is one that has no word yet. *)
Join(name, word) == name \o (IF name = <<>> THEN LowerCase(word) ELSE Capitalised(word))

Joined[words \in Seq(Seq(Chars))] ==
    IF words = <<>> THEN <<>> ELSE Join(Joined[Front(words)], Last(words))

CamelCase(s) == Joined[SplitWords(s)]

Styles == {"snake", "kebab", "camel", "lower", "upper"}

Style(style, s) ==
    CASE style = "snake" -> SnakeCase(s)
      [] style = "kebab" -> KebabCase(s)
      [] style = "camel" -> CamelCase(s)
      [] style = "lower" -> LowerCase(s)
      [] style = "upper" -> UpperCase(s)
=============================================================================
