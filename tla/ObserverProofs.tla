--------------------------- MODULE ObserverProofs ---------------------------
(***************************************************************************)
(* Theorems about the two parts that only look on: Discover, which profiles *)
(* what a source yields, for all records, lexicons, caps and thresholds,   *)
(* and Metrics, which exports what a pipeline counts, for any number of    *)
(* exporters and records.                                                  *)
(***************************************************************************)
EXTENDS Discover, Metrics, SequenceTheorems, FiniteSetTheorems, WellFoundedInduction, TLAPS

-----------------------------------------------------------------------------
(* What Classify says of a value is what its type is documented to take.   *)

LEMMA MissingIsNull ==
  ASSUME NEW v
  PROVE  Missing(v) <=> Classify(v) = "null"
<1>1. CASE Missing(v)
  BY <1>1 DEF Classify
<1>2. CASE ~Missing(v)
  BY <1>2 DEF Classify, FirstOf
<1>3. QED
  BY <1>1, <1>2

LEMMA ClassIsDocumented ==
  ASSUME NEW r \in Records, NEW f \in DOMAIN r
  PROVE  /\ Classify(r[f]) \in Types \cup {"null"}
         /\ ~Missing(r[f]) => /\ \A t \in Types \ {"float"} : Matches(r[f], t) <=> Classify(r[f]) = t
                              /\ Matches(r[f], "float") <=> Classify(r[f]) \in {"int", "float"}
                              /\ ~Matches(r[f], "unknown")
         /\ Classify(r[f]) \in {"int", "float"} => NumericValue(r[f]) \in Int
         /\ r[f][1] = "text" => Text(r[f]).length \in Nat
<1> PICK v : v = r[f]
  OBVIOUS
<1> SUFFICES /\ Classify(v) \in Types \cup {"null"}
             /\ ~Missing(v) => /\ \A t \in Types \ {"float"} : Matches(v, t) <=> Classify(v) = t
                               /\ Matches(v, "float") <=> Classify(v) \in {"int", "float"}
                               /\ ~Matches(v, "unknown")
             /\ Classify(v) \in {"int", "float"} => NumericValue(v) \in Int
             /\ v[1] = "text" => Text(v).length \in Nat
  OBVIOUS
<1>1. Types = {"bool", "int", "float", "date", "datetime", "string"}
      /\ Narrow = {"bool", "int", "float", "date", "datetime"}
  BY DEF Types, Narrow
<1>2. /\ v[1] \in {"int", "uint", "float"} => v[2] \in Int /\ Float64(v[2]) \in Int
      /\ v[1] = "text" => Text(v).length \in Nat /\ Text(v).number \in Int
  BY ValuesAssumption
<1>3. CASE Missing(v)
  <2>1. Classify(v) = "null"
    BY <1>3, MissingIsNull
  <2>2. QED
    BY <1>2, <1>3, <2>1
<1>4. CASE ~Missing(v) /\ v[1] = "text"
  <2>1. PICK ps : ps = Text(v).parsers
    OBVIOUS
  <2>2. ps \in {{}, {"bool"}, {"float"}, {"date"}, {"datetime"}, {"int", "float"}}
    BY <1>1, <1>4, <2>1, ValuesAssumption
  <2>3. \A t : Fits(v, t) <=> t \in ps
    BY <1>4, <2>1 DEF Fits
  <2>4. \A t : Matches(v, t) <=> (t \in ps \/ (t = "string" /\ \A u \in Narrow : u \notin ps))
    BY <2>3 DEF Matches
  <2>5. Classify(v) = FirstOf(ps)
    BY <1>4, <2>1 DEF Classify
  <2>6. NumericValue(v) \in Int
    BY <1>2, <1>4 DEF NumericValue
  <2>7. ASSUME NEW c, c = FirstOf(ps)
        PROVE  /\ c \in Types /\ c # "null"
               /\ \A t \in Types \ {"float"} : t \in ps \/ (t = "string" /\ \A u \in Narrow : u \notin ps)
                                               <=> c = t
               /\ "float" \in ps <=> c \in {"int", "float"}
               /\ "unknown" \notin ps
    <3>1. CASE ps = {}
      BY <1>1, <2>7, <3>1 DEF FirstOf
    <3>2. CASE ps = {"int", "float"}
      BY <1>1, <2>7, <3>2 DEF FirstOf
    <3>3. CASE ps \in {{"bool"}, {"float"}, {"date"}, {"datetime"}}
      BY <1>1, <2>7, <3>3 DEF FirstOf
    <3>4. QED
      BY <2>2, <3>1, <3>2, <3>3
  <2>8. PICK c : c = FirstOf(ps) /\ c = Classify(v)
    BY <2>5
  <2>9. QED
    BY <1>1, <1>2, <1>4, <2>4, <2>6, <2>7, <2>8
<1>5. CASE ~Missing(v) /\ v[1] # "text"
  <2>1. \A t : Fits(v, t) <=> (\/ v[1] = "bool" /\ t = "bool"
                               \/ v[1] \in {"int", "uint"} /\ t \in {"int", "float"}
                               \/ v[1] = "float" /\ t = "float")
    BY <1>5 DEF Fits
  <2>2. Classify(v) = IF v[1] \in {"int", "uint"} THEN "int"
                      ELSE IF v[1] \in {"bool", "float"} THEN v[1] ELSE "string"
    BY <1>5 DEF Classify
  <2>3. NumericValue(v) = IF v[1] = "float" THEN v[2] ELSE Float64(v[2])
    BY <1>5 DEF NumericValue
  <2>4. CASE v[1] \in {"int", "uint"}
    BY <1>1, <1>2, <1>5, <2>1, <2>2, <2>3, <2>4 DEF Matches
  <2>5. CASE v[1] \in {"bool", "float"}
    BY <1>1, <1>2, <1>5, <2>1, <2>2, <2>3, <2>5 DEF Matches
  <2>6. CASE v[1] \notin {"int", "uint", "bool", "float"}
    BY <1>1, <1>2, <1>5, <2>1, <2>2, <2>3, <2>6 DEF Matches
  <2>7. QED
    BY <2>4, <2>5, <2>6
<1>6. QED
  BY <1>3, <1>4, <1>5

(* A column that is the same leaves all that is said of it the same.       *)
LEMMA SameColumn ==
  ASSUME NEW f, Column(f)' = Column(f), \A i \in Column(f) : sampled'[i] = sampled[i], NEW a
  PROVE  Holds(a, f)' <=> Holds(a, f)
<1>1. Values(f)' = Values(f) /\ \A i \in Values(f) : sampled'[i] = sampled[i]
  BY DEF Values
<1>2. \A t : OfClass(f, t)' = OfClass(f, t)
  BY DEF OfClass
<1>3. \A t : Matched(f, t)' = Matched(f, t) /\ \A i \in Matched(f, t) : sampled'[i] = sampled[i]
  BY <1>1 DEF Matched
<1>4. Numeric(f)' = Numeric(f) /\ \A i \in Numeric(f) : sampled'[i] = sampled[i]
  BY <1>3 DEF Numeric
<1>5. Known(f)' = Known(f) /\ (NaNFirst(f)' <=> NaNFirst(f)) /\ Lengths(f)' = Lengths(f)
  BY <1>3, <1>4 DEF Known, NaNFirst, Lengths
<1>6. Forms(f)' = Forms(f) /\ \A s, t : SeenBefore(f, s, t)' <=> SeenBefore(f, s, t)
  BY <1>1 DEF Forms, SeenBefore
<1>7. \A b : (IsRange(b, f)' <=> IsRange(b, f)) /\ (IsLength(b, f)' <=> IsLength(b, f))
  BY <1>4, <1>5 DEF IsRange, IsLength
<1>8. \A e : FirstSeen(e, f)' <=> FirstSeen(e, f)
  BY <1>6 DEF FirstSeen
<1>9. QED
  BY <1>1, <1>2, <1>6, <1>7, <1>8 DEF Holds

-----------------------------------------------------------------------------
(* One record more in the sample.                                          *)

LEMMA SampleGrows ==
  ASSUME sampled \in Seq(Records), NEW r \in Records, sampled' = Append(sampled, r)
  PROVE  /\ Len(sampled) \in Nat /\ DOMAIN sampled = 1..Len(sampled)
         /\ sampled' \in Seq(Records) /\ DOMAIN sampled' = DOMAIN sampled \cup {Len(sampled) + 1}
         /\ Len(sampled) + 1 \notin DOMAIN sampled
         /\ \A i \in DOMAIN sampled : sampled'[i] = sampled[i] /\ i < Len(sampled) + 1
         /\ sampled'[Len(sampled) + 1] = r
<1>1. /\ Append(sampled, r) \in Seq(Records) /\ Len(Append(sampled, r)) = Len(sampled) + 1
      /\ \A i \in 1..Len(sampled) : Append(sampled, r)[i] = sampled[i]
      /\ Append(sampled, r)[Len(sampled) + 1] = r
  BY AppendProperties
<1>2. /\ Len(sampled) \in Nat /\ DOMAIN sampled = 1..Len(sampled)
      /\ DOMAIN Append(sampled, r) = 1..Len(Append(sampled, r))
  BY <1>1, LenProperties
<1>3. \A n \in Nat : 1..n + 1 = (1..n) \cup {n + 1} /\ n + 1 \notin 1..n /\ \A i \in 1..n : i < n + 1
  OBVIOUS
<1>4. QED
  BY <1>1, <1>2, <1>3

LEMMA ColumnFinite ==
  ASSUME sampled \in Seq(Records), NEW f
  PROVE  IsFiniteSet(Column(f)) /\ IsFiniteSet(Values(f)) /\ IsFiniteSet(Forms(f))
<1>1. 1 \in Int /\ Len(sampled) \in Int /\ DOMAIN sampled = 1..Len(sampled)
  BY LenProperties
<1>2. IsFiniteSet(1..Len(sampled))
  BY <1>1, FS_Interval
<1>3. Column(f) \in SUBSET (1..Len(sampled))
  BY <1>1 DEF Column
<1>4. IsFiniteSet(Column(f))
  BY <1>2, <1>3, FS_Subset
<1>5. IsFiniteSet(Values(f))
  <2>1. Values(f) \in SUBSET Column(f)
    BY DEF Values
  <2>2. QED
    BY <1>4, <2>1, FS_Subset
<1>6. IsFiniteSet(Forms(f))
  <2> DEFINE form == [i \in Values(f) |-> StringOf(sampled[i][f])]
  <2>1. form \in Surjection(Values(f), Forms(f))
    BY DEF Surjection, Forms
  <2>2. QED
    BY <1>5, <2>1, FS_Surjection
<1>7. QED
  BY <1>4, <1>5, <1>6

(* A record without the field changes nothing for it. *)
LEMMA NotInRecord ==
  ASSUME sampled \in Seq(Records), NEW r \in Records, sampled' = Append(sampled, r),
         NEW f, f \notin DOMAIN r, NEW a, Holds(a, f)
  PROVE  Holds(a, f)'
<1>1. /\ DOMAIN sampled' = DOMAIN sampled \cup {Len(sampled) + 1}
      /\ \A i \in DOMAIN sampled : sampled'[i] = sampled[i]
      /\ sampled'[Len(sampled) + 1] = r
  BY SampleGrows
<1>2. Column(f)' = Column(f) /\ \A i \in Column(f) : sampled'[i] = sampled[i]
  BY <1>1 DEF Column
<1>3. QED
  BY <1>2, SameColumn

(* One with the field adds one value to it. *)
Adds(r, f, n) ==
    /\ sampled \in Seq(Records) /\ r \in Records /\ sampled' = Append(sampled, r)
    /\ f \in DOMAIN r /\ n = Len(sampled) + 1

LEMMA InRecord ==
  ASSUME NEW r, NEW f, NEW n, Adds(r, f, n)
  PROVE  /\ Column(f)' = Column(f) \cup {n} /\ n \notin Column(f) /\ n \in Nat
         /\ \A i \in Column(f) : sampled'[i] = sampled[i] /\ i \in Nat /\ i < n /\ sampled[i] \in Records
         /\ sampled'[n] = r /\ IsFiniteSet(Column(f))
<1>0. /\ sampled \in Seq(Records) /\ r \in Records /\ sampled' = Append(sampled, r)
      /\ f \in DOMAIN r /\ n = Len(sampled) + 1
  BY DEF Adds
<1>1. /\ DOMAIN sampled' = DOMAIN sampled \cup {n} /\ n \notin DOMAIN sampled
      /\ \A i \in DOMAIN sampled : sampled'[i] = sampled[i] /\ i < n
      /\ sampled'[n] = r
      /\ Len(sampled) \in Nat /\ DOMAIN sampled = 1..Len(sampled)
  BY <1>0, SampleGrows
<1>2. Column(f)' = Column(f) \cup {n} /\ n \notin Column(f)
  BY <1>0, <1>1 DEF Column
<1>3. Column(f) \subseteq DOMAIN sampled
  BY DEF Column
<1>4. IsFiniteSet(Column(f))
  BY <1>0, ColumnFinite
<1>5. \A i \in DOMAIN sampled : i \in Nat /\ sampled[i] \in Records
  BY <1>0, <1>1, ElementOfSeq
<1>6. n \in Nat
  BY <1>0, <1>1
<1>7. QED
  BY <1>1, <1>2, <1>3, <1>4, <1>5, <1>6

LEMMA OneMoreOfClass ==
  ASSUME NEW r, NEW f, NEW n, Adds(r, f, n)
  PROVE  /\ \A t : OfClass(f, t)' = OfClass(f, t) \cup IF Classify(r[f]) = t THEN {n} ELSE {}
         /\ Values(f)' = Values(f) \cup IF Classify(r[f]) # "null" THEN {n} ELSE {}
         /\ \A t : Matched(f, t)' = Matched(f, t) \cup
                      IF Classify(r[f]) # "null" /\ Matches(r[f], t) THEN {n} ELSE {}
         /\ Numeric(f)' = Numeric(f) \cup IF Classify(r[f]) \in {"int", "float"} THEN {n} ELSE {}
         /\ Forms(f)' = Forms(f) \cup IF Classify(r[f]) # "null" THEN {StringOf(r[f])} ELSE {}
<1>1. /\ Column(f)' = Column(f) \cup {n} /\ n \notin Column(f)
      /\ \A i \in Column(f) : sampled'[i] = sampled[i]
      /\ sampled'[n] = r
  BY InRecord
<1>2. \A t : OfClass(f, t)' = OfClass(f, t) \cup IF Classify(r[f]) = t THEN {n} ELSE {}
  BY <1>1 DEF OfClass
<1>3. Missing(r[f]) <=> Classify(r[f]) = "null"
  BY MissingIsNull
<1>4. Values(f)' = Values(f) \cup IF Classify(r[f]) # "null" THEN {n} ELSE {}
  BY <1>1, <1>3 DEF Values
<1>5. \A t : Matched(f, t)' = Matched(f, t) \cup IF Classify(r[f]) # "null" /\ Matches(r[f], t) THEN {n} ELSE {}
  <2>1. \A i \in Values(f) : sampled'[i] = sampled[i]
    BY <1>1 DEF Values
  <2>2. QED
    BY <1>1, <1>4, <2>1 DEF Matched
<1>6. \A i \in Values(f) : sampled'[i] = sampled[i]
  BY <1>1 DEF Values
<1>7. Forms(f)' = Forms(f) \cup IF Classify(r[f]) # "null" THEN {StringOf(r[f])} ELSE {}
  BY <1>1, <1>4, <1>6 DEF Forms
<1>8. Numeric(f)' = Numeric(f) \cup IF Classify(r[f]) \in {"int", "float"} THEN {n} ELSE {}
  <2>1. Missing(r[f]) <=> Classify(r[f]) = "null"
    BY MissingIsNull
  <2>2. ~Missing(r[f]) => (Matches(r[f], "float") <=> Classify(r[f]) \in {"int", "float"})
    BY ClassIsDocumented DEF Adds
  <2>3. Classify(r[f]) # "null" /\ Matches(r[f], "float") <=> Classify(r[f]) \in {"int", "float"}
    BY <2>1, <2>2
  <2>4. QED
    BY <1>5, <2>3 DEF Numeric
<1>9. QED
  BY <1>2, <1>4, <1>5, <1>7, <1>8

LEMMA Counted ==
  ASSUME sampled \in Seq(Records), NEW r \in Records, sampled' = Append(sampled, r),
         NEW f \in DOMAIN r
  PROVE  /\ \A t : Cardinality(OfClass(f, t))' =
                   Cardinality(OfClass(f, t)) + IF Classify(r[f]) = t THEN 1 ELSE 0
         /\ Cardinality(Values(f))' = Cardinality(Values(f)) + IF Classify(r[f]) # "null" THEN 1 ELSE 0
         /\ IsFiniteSet(Forms(f))
<1>1. PICK n : Adds(r, f, n)
  BY DEF Adds
<1>2. n \notin Column(f) /\ IsFiniteSet(Column(f))
  BY <1>1, InRecord
<1>3. ASSUME NEW S \in SUBSET Column(f)
      PROVE  /\ IsFiniteSet(S) /\ Cardinality(S) \in Nat
             /\ Cardinality(S \cup {n}) = Cardinality(S) + 1 /\ S \cup {} = S
  BY <1>2, <1>3, FS_Subset, FS_AddElement, FS_CardinalityType
<1>4. Values(f) \in SUBSET Column(f) /\ \A t : OfClass(f, t) \in SUBSET Column(f)
  BY DEF Values, OfClass
<1>5. /\ \A t : OfClass(f, t)' = OfClass(f, t) \cup IF Classify(r[f]) = t THEN {n} ELSE {}
      /\ Values(f)' = Values(f) \cup IF Classify(r[f]) # "null" THEN {n} ELSE {}
  BY <1>1, OneMoreOfClass
<1>6. ASSUME NEW S \in SUBSET Column(f), NEW T, NEW b \in BOOLEAN,
             T = S \cup IF b THEN {n} ELSE {}
      PROVE  Cardinality(T) = Cardinality(S) + IF b THEN 1 ELSE 0
  <2>1. CASE b
    BY <1>3, <1>6, <2>1
  <2>2. CASE ~b
    <3>1. T = S
      BY <1>6, <2>2
    <3>2. Cardinality(S) \in Nat /\ Cardinality(T) = Cardinality(S)
      BY <1>3, <3>1
    <3>3. QED
      BY <2>2, <3>2
  <2>3. QED
    BY <2>1, <2>2
<1>7. Cardinality(Values(f)') = Cardinality(Values(f)) + IF Classify(r[f]) # "null" THEN 1 ELSE 0
  BY <1>4, <1>5, <1>6
<1>8. \A t : Cardinality(OfClass(f, t)') =
              Cardinality(OfClass(f, t)) + IF Classify(r[f]) = t THEN 1 ELSE 0
  BY <1>4, <1>5, <1>6
<1>9. IsFiniteSet(Forms(f))
  BY ColumnFinite
<1>10. QED
  BY <1>7, <1>8, <1>9

-----------------------------------------------------------------------------
(* What is kept under a cap.                                               *)

LEMMA ExamplesStep ==
  ASSUME NEW S, NEW s \in Seq(S), NEW x, NEW t,
         IsInjective(s), Len(s) <= MaxExamples, Len(s) < MaxExamples => ToSet(s) = S,
         t = IF Len(s) < MaxExamples /\ ~Contains(s, x) THEN Append(s, x) ELSE s
  PROVE  /\ t \in Seq(S \cup {x}) /\ IsInjective(t) /\ Len(t) <= MaxExamples
         /\ Len(t) < MaxExamples => ToSet(t) = S \cup {x}
<1> DEFINE T == S \cup {x}
<1>1. s \in Seq(T) /\ Len(s) \in Nat /\ DOMAIN s = 1..Len(s) /\ MaxExamples \in Nat
  <2>1. Len(s) \in Nat /\ s \in [1..Len(s) -> S]
    BY LenProperties
  <2>2. s \in [1..Len(s) -> T]
    BY <2>1
  <2>3. QED
    BY <2>1, <2>2, SeqDef, ConstantsAssumption
<1>2. CASE ~(Len(s) < MaxExamples)
  BY <1>1, <1>2
<1>3. CASE Len(s) < MaxExamples /\ Contains(s, x)
  <2>1. ToSet(s) = S /\ x \in S
    BY <1>1, <1>3 DEF Contains, ToSet
  <2>2. QED
    BY <1>1, <1>3, <2>1
<1>4. CASE Len(s) < MaxExamples /\ ~Contains(s, x)
  <2>1. /\ t = Append(s, x) /\ t \in Seq(T) /\ Len(t) = Len(s) + 1
        /\ \A i \in 1..Len(s) : t[i] = s[i]
        /\ t[Len(s) + 1] = x
    BY <1>1, <1>4, AppendProperties
  <2>2. DOMAIN t = DOMAIN s \cup {Len(s) + 1}
    BY <1>1, <2>1, LenProperties
  <2>3. \A i \in DOMAIN s : s[i] # x
    BY <1>1, <1>4 DEF Contains
  <2>4. IsInjective(t)
    BY <1>1, <2>1, <2>2, <2>3 DEF IsInjective
  <2>5. ToSet(t) = S \cup {x}
    BY <1>1, <1>4, <2>1, <2>2 DEF ToSet
  <2>6. QED
    BY <1>1, <1>4, <2>1, <2>4, <2>5
<1>5. QED
  BY <1>2, <1>3, <1>4

(* What is appended was not there.                                         *)
Longer(t, s, x, n) ==
    /\ n \in Nat /\ DOMAIN s = 1..n /\ DOMAIN t = 1..n + 1
    /\ t[n + 1] = x /\ \A i \in 1..n : t[i] = s[i]

Kept(s, x) == IF Len(s) < MaxExamples /\ ~Contains(s, x) THEN Append(s, x) ELSE s

LEMMA ExamplesGrow ==
  ASSUME NEW S, NEW s \in Seq(S), NEW x, Len(s) < MaxExamples => ToSet(s) = S
  PROVE  \/ Kept(s, x) = s
         \/ x \notin S /\ Longer(Kept(s, x), s, x, Len(s)) /\ ToSet(Kept(s, x)) = S \cup {x}
<1> PICK t : t = Kept(s, x)
  OBVIOUS
<1> SUFFICES t = s \/ (x \notin S /\ Longer(t, s, x, Len(s)) /\ ToSet(t) = S \cup {x})
  OBVIOUS
<1>1. Len(s) \in Nat /\ DOMAIN s = 1..Len(s)
  BY LenProperties
<1>2. CASE ~(Len(s) < MaxExamples /\ ~Contains(s, x))
  BY <1>2 DEF Kept
<1>3. CASE Len(s) < MaxExamples /\ ~Contains(s, x)
  <2>1. x \notin S
    BY <1>1, <1>3 DEF Contains, ToSet
  <2>2. s \in Seq(S \cup {x})
    <3>1. s \in [1..Len(s) -> S]
      BY LenProperties
    <3>2. s \in [1..Len(s) -> S \cup {x}]
      BY <3>1
    <3>3. QED
      BY <1>1, <3>2, SeqDef
  <2>3. /\ t = Append(s, x) /\ t \in Seq(S \cup {x}) /\ Len(t) = Len(s) + 1
        /\ \A i \in 1..Len(s) : t[i] = s[i]
        /\ t[Len(s) + 1] = x
    <3>1. t = Append(s, x)
      BY <1>3 DEF Kept
    <3>2. QED
      BY <2>2, <3>1, AppendProperties
  <2>4. DOMAIN t = 1..Len(s) + 1 /\ DOMAIN t = DOMAIN s \cup {Len(s) + 1}
    BY <1>1, <2>3, LenProperties
  <2>5. ToSet(t) = S \cup {x}
    BY <1>1, <1>3, <2>3, <2>4 DEF ToSet
  <2>6. Longer(t, s, x, Len(s))
    BY <1>1, <2>3, <2>4 DEF Longer
  <2>7. QED
    BY <2>1, <2>5, <2>6
<1>4. QED
  BY <1>2, <1>3

(* The order in which forms were first seen is not undone, and a form that *)
(* is new comes after all others.                                          *)
LEMMA SeenStep ==
  ASSUME sampled \in Seq(Records), NEW r \in Records, sampled' = Append(sampled, r),
         NEW f \in DOMAIN r, NEW s \in Forms(f)
  PROVE  /\ \A t : SeenBefore(f, s, t) => SeenBefore(f, s, t)'
         /\ \A t : t \notin Forms(f) => SeenBefore(f, s, t)'
<1>1. PICK n : Adds(r, f, n)
  BY DEF Adds
<1>2. /\ \A i \in Column(f) : sampled'[i] = sampled[i] /\ i < n
      /\ Values(f)' = Values(f) \cup IF Classify(r[f]) # "null" THEN {n} ELSE {}
  <2>1. /\ Column(f)' = Column(f) \cup {n} /\ n \notin Column(f) /\ n \in Nat
        /\ \A i \in Column(f) : sampled'[i] = sampled[i] /\ i \in Nat /\ i < n /\ sampled[i] \in Records
        /\ sampled'[n] = r /\ IsFiniteSet(Column(f))
    BY <1>1, InRecord
  <2>2. QED
    BY <1>1, <2>1, OneMoreOfClass
<1>3. \A i \in Values(f) : sampled'[i] = sampled[i] /\ i < n /\ i \in Values(f)'
  BY <1>2 DEF Values
<1>4. \A j \in Values(f)' : j \in Values(f) \/ j = n
  BY <1>2
<1>5. ASSUME NEW t, SeenBefore(f, s, t) PROVE SeenBefore(f, s, t)'
  <2>1. PICK i \in Values(f) :
          /\ StringOf(sampled[i][f]) = s
          /\ \A j \in Values(f) : StringOf(sampled[j][f]) = t => i < j
    BY <1>5 DEF SeenBefore
  <2>2. \A j \in Values(f)' : StringOf(sampled'[j][f]) = t => i < j
    BY <1>3, <1>4, <2>1
  <2>3. QED
    BY <1>3, <2>1, <2>2 DEF SeenBefore
<1>6. ASSUME NEW t, t \notin Forms(f) PROVE SeenBefore(f, s, t)'
  <2>1. PICK i \in Values(f) : StringOf(sampled[i][f]) = s
    BY DEF Forms
  <2>2. \A j \in Values(f) : StringOf(sampled'[j][f]) # t
    BY <1>3, <1>6 DEF Forms
  <2>3. \A j \in Values(f)' : StringOf(sampled'[j][f]) = t => i < j
    BY <1>3, <1>4, <2>2
  <2>4. QED
    BY <1>3, <2>1, <2>3 DEF SeenBefore
<1>7. QED
  BY <1>5, <1>6

LEMMA FirstSeenStep ==
  ASSUME sampled \in Seq(Records), NEW r \in Records, sampled' = Append(sampled, r),
         NEW f \in DOMAIN r, NEW s \in Seq(Forms(f)), FirstSeen(s, f),
         NEW x, Forms(f)' = Forms(f) \cup {x},
         NEW t, NEW n,
         t = s \/ (x \notin Forms(f) /\ Longer(t, s, x, n) /\ ToSet(t) = Forms(f) \cup {x})
  PROVE  FirstSeen(t, f)'
<1>1. /\ \A j, k \in DOMAIN s : j < k => SeenBefore(f, s[j], s[k])
      /\ \A j \in DOMAIN s : \A u \in Forms(f) \ ToSet(s) : SeenBefore(f, s[j], u)
  BY DEF FirstSeen
<1>2. \A j \in DOMAIN s : s[j] \in Forms(f)
  BY ElementOfSeq, LenProperties
<1>3. /\ \A u \in Forms(f) : \A v : SeenBefore(f, u, v) => SeenBefore(f, u, v)'
      /\ \A u \in Forms(f) : \A v : v \notin Forms(f) => SeenBefore(f, u, v)'
  BY SeenStep
<1>4. CASE t = s
  <2>1. \A j, k \in DOMAIN t : j < k => SeenBefore(f, t[j], t[k])'
    BY <1>1, <1>2, <1>3, <1>4
  <2>2. \A j \in DOMAIN t : \A u \in Forms(f)' \ ToSet(t) : SeenBefore(f, t[j], u)'
    BY <1>1, <1>2, <1>3, <1>4
  <2>3. QED
    BY <2>1, <2>2 DEF FirstSeen
<1>5. CASE x \notin Forms(f) /\ Longer(t, s, x, n) /\ ToSet(t) = Forms(f) \cup {x}
  <2>0. /\ n \in Nat /\ DOMAIN s = 1..n /\ DOMAIN t = 1..n + 1
        /\ t[n + 1] = x /\ \A i \in 1..n : t[i] = s[i]
    BY <1>5 DEF Longer
  <2>1. ASSUME NEW j \in DOMAIN t, NEW k \in DOMAIN t, j < k
        PROVE  SeenBefore(f, t[j], t[k])'
    <3>1. j \in 1..n /\ t[j] = s[j] /\ t[j] \in Forms(f)
      BY <1>2, <2>0, <2>1
    <3>2. CASE k \in 1..n
      <4>1. t[k] = s[k] /\ SeenBefore(f, s[j], s[k])
        BY <1>1, <2>0, <2>1, <3>1, <3>2
      <4>2. QED
        BY <1>3, <3>1, <4>1
    <3>3. CASE k = n + 1
      BY <1>3, <1>5, <2>0, <3>1, <3>3
    <3>4. QED
      BY <2>0, <3>2, <3>3
  <2>2. Forms(f)' \ ToSet(t) = {}
    BY <1>5
  <2>3. QED
    BY <2>1, <2>2 DEF FirstSeen
<1>6. QED
  BY <1>4, <1>5
-----------------------------------------------------------------------------
(* The range of the numbers.                                               *)

LEMMA KnownNumbers ==
  ASSUME sampled \in Seq(Records), NEW r \in Records, sampled' = Append(sampled, r),
         NEW f \in DOMAIN r
  PROVE  Known(f) \subseteq Int \ {NaN}
<1>1. \A i \in Column(f) : sampled[i] \in Records /\ f \in DOMAIN sampled[i]
  BY ElementOfSeq, LenProperties DEF Column
<1>2. \A i \in Numeric(f) : i \in Column(f) /\ ~Missing(sampled[i][f]) /\ Matches(sampled[i][f], "float")
  BY DEF Numeric, Matched, Values
<1>3. ASSUME NEW i \in Numeric(f) PROVE NumericValue(sampled[i][f]) \in Int
  <2>1. PICK q : q = sampled[i]
    OBVIOUS
  <2>2. q \in Records /\ f \in DOMAIN q /\ ~Missing(q[f]) /\ Matches(q[f], "float")
    BY <1>1, <1>2, <2>1
  <2>3. /\ ~Missing(q[f]) => (Matches(q[f], "float") <=> Classify(q[f]) \in {"int", "float"})
        /\ Classify(q[f]) \in {"int", "float"} => NumericValue(q[f]) \in Int
    BY <2>2, ClassIsDocumented
  <2>4. QED
    BY <2>1, <2>2, <2>3
<1>4. QED
  BY <1>3 DEF Known

(* What Widen makes of the numbers below and above. *)
LEMMA WidenBounds ==
  ASSUME NEW K \in SUBSET (Int \ {NaN}), NEW x \in Int, NEW g \in Int \X Int, Bounds(g, K)
  PROVE  Widen(g, x) \in Int \X Int /\ Bounds(Widen(g, x), K \cup ({x} \ {NaN}))
<1> PICK h, L : h = Widen(g, x) /\ L = K \cup ({x} \ {NaN})
  OBVIOUS
<1>0. g[1] \in K /\ g[2] \in K /\ \A y \in K : g[1] <= y /\ y <= g[2]
  BY DEF Bounds
<1> SUFFICES h # <<>> /\ h \in Int \X Int /\ h[1] \in L /\ h[2] \in L /\ \A y \in L : h[1] <= y /\ y <= h[2]
  BY DEF Bounds
<1>1. g # <<>> /\ g[1] \in Int \ {NaN} /\ g[2] \in Int \ {NaN}
  BY <1>0
<1>2. Widen(g, x) = <<IF Less(x, g[1]) THEN x ELSE g[1], IF Less(g[2], x) THEN x ELSE g[2]>>
  BY <1>1 DEF Widen
<1>3. CASE x = NaN
  <2>1. Widen(g, x) = <<g[1], g[2]>>
    BY <1>2, <1>3 DEF Less
  <2>2. QED
    BY <1>0, <1>1, <1>3, <2>1
<1>4. CASE x # NaN
  <2>1. /\ Less(x, g[1]) <=> x < g[1]
        /\ Less(g[2], x) <=> g[2] < x
    BY <1>1, <1>4 DEF Less
  <2>2. PICK lo : lo = IF x < g[1] THEN x ELSE g[1]
    OBVIOUS
  <2>3. PICK hi : hi = IF g[2] < x THEN x ELSE g[2]
    OBVIOUS
  <2>4. Widen(g, x) = <<lo, hi>>
    BY <1>2, <2>1, <2>2, <2>3
  <2>5. /\ lo \in K \cup {x} /\ hi \in K \cup {x} /\ lo \in Int /\ hi \in Int
        /\ lo <= x /\ lo <= g[1] /\ x <= hi /\ g[2] <= hi
    BY <1>0, <1>1, <2>2, <2>3
  <2>6. \A y \in K \cup {x} : lo <= y /\ y <= hi
    BY <1>0, <1>1, <2>5
  <2>7. QED
    BY <1>4, <2>4, <2>5, <2>6
<1>5. QED
  BY <1>3, <1>4

(* A newcomer behind all others comes first only when it is alone. *)
LEMMA FirstOfMore ==
  ASSUME NEW N \in SUBSET Nat, NEW n \in Nat, \A i \in N : i < n, NEW Z \in SUBSET N,
         NEW b \in BOOLEAN
  PROVE  (\E i \in Z \cup (IF b THEN {n} ELSE {}) : \A j \in N \cup {n} : i <= j)
         <=> \/ \E i \in Z : \A j \in N : i <= j
             \/ N = {} /\ b
<1>1. \A i \in N : i \in Nat /\ i <= n /\ ~(n <= i)
  OBVIOUS
<1>2. n <= n
  OBVIOUS
<1>3. CASE b
  BY <1>1, <1>2, <1>3
<1>4. CASE ~b
  BY <1>1, <1>2, <1>4
<1>5. QED
  BY <1>3, <1>4

LEMMA NumbersStep ==
  ASSUME sampled \in Seq(Records), NEW r \in Records, sampled' = Append(sampled, r),
         NEW f \in DOMAIN r, NEW x, x = NumericValue(r[f])
  PROVE  /\ Classify(r[f]) \notin {"int", "float"} =>
               Numeric(f)' = Numeric(f) /\ Known(f)' = Known(f) /\ (NaNFirst(f)' <=> NaNFirst(f))
         /\ Classify(r[f]) \in {"int", "float"} =>
               /\ Numeric(f)' # {} /\ Known(f)' = Known(f) \cup ({x} \ {NaN})
               /\ NaNFirst(f)' <=> NaNFirst(f) \/ (Numeric(f) = {} /\ x = NaN)
<1>1. PICK n : Adds(r, f, n)
  BY DEF Adds
<1>2. /\ \A i \in Column(f) : sampled'[i] = sampled[i] /\ i \in Nat /\ i < n
      /\ sampled'[n] = r /\ n \in Nat
  <2>1. /\ Column(f)' = Column(f) \cup {n} /\ n \notin Column(f) /\ n \in Nat
        /\ \A i \in Column(f) : sampled'[i] = sampled[i] /\ i \in Nat /\ i < n /\ sampled[i] \in Records
        /\ sampled'[n] = r /\ IsFiniteSet(Column(f))
    BY <1>1, InRecord
  <2>2. QED
    BY <2>1
<1>3. \A i \in Numeric(f) : sampled'[i] = sampled[i] /\ i \in Nat /\ i < n
  BY <1>2 DEF Numeric, Matched, Values
<1>4. CASE Classify(r[f]) \notin {"int", "float"}
  <2>1. Numeric(f)' = Numeric(f)
    <3>1. Numeric(f)' = Numeric(f) \cup IF Classify(r[f]) \in {"int", "float"} THEN {n} ELSE {}
      BY <1>1, OneMoreOfClass
    <3>2. QED
      BY <1>4, <3>1
  <2>2. Known(f)' = Known(f) /\ (NaNFirst(f)' <=> NaNFirst(f))
    BY <1>3, <2>1 DEF Known, NaNFirst
  <2>3. QED
    BY <1>4, <2>1, <2>2
<1>5. CASE Classify(r[f]) \in {"int", "float"}
  <2>1. Numeric(f)' = Numeric(f) \cup {n}
    BY <1>1, <1>5, OneMoreOfClass
  <2>2. Known(f)' = Known(f) \cup ({x} \ {NaN})
    BY <1>2, <1>3, <2>1 DEF Known
  <2>3. NaNFirst(f)' <=> NaNFirst(f) \/ (Numeric(f) = {} /\ x = NaN)
    <3> DEFINE Z == {i \in Numeric(f) : NumericValue(sampled[i][f]) = NaN}
    <3>1. NaNFirst(f) <=> \E i \in Z : \A j \in Numeric(f) : i <= j
      BY DEF NaNFirst
    <3>2. \A i \in Numeric(f)' : NumericValue(sampled'[i][f]) = IF i = n THEN x ELSE NumericValue(sampled[i][f])
      BY <1>2, <1>3, <2>1
    <3>3. Z' = Z \cup IF x = NaN THEN {n} ELSE {}
      BY <1>2, <1>3, <2>1, <3>2
    <3>4. NaNFirst(f)' <=> \E i \in Z' : \A j \in Numeric(f)' : i <= j
      BY DEF NaNFirst
    <3>5. Z \in SUBSET Numeric(f) /\ Numeric(f) \in SUBSET Nat
      BY <1>3
    <3> HIDE DEF Z
    <3>6. PICK b \in BOOLEAN : b <=> x = NaN
      OBVIOUS
    <3>7. (\E i \in Z \cup (IF b THEN {n} ELSE {}) : \A j \in Numeric(f) \cup {n} : i <= j)
            <=> (\E i \in Z : \A j \in Numeric(f) : i <= j) \/ (Numeric(f) = {} /\ b)
      <4>1. n \in Nat /\ \A i \in Numeric(f) : i < n
        BY <1>2, <1>3
      <4>2. QED
        BY <3>5, <4>1, FirstOfMore
    <3>8. Z' = Z \cup (IF b THEN {n} ELSE {})
      BY <3>3, <3>6
    <3>9. QED
      BY <2>1, <3>1, <3>4, <3>6, <3>7, <3>8
  <2>4. QED
    BY <1>5, <2>1, <2>2, <2>3
<1>6. QED
  BY <1>4, <1>5

LEMMA RangeStep ==
  ASSUME sampled \in Seq(Records), NEW r \in Records, sampled' = Append(sampled, r),
         NEW f \in DOMAIN r,
         NEW g \in {<<>>} \cup (Int \X Int), IsRange(g, f),
         NEW h, h = IF Classify(r[f]) \in {"int", "float"} THEN Widen(g, NumericValue(r[f])) ELSE g
  PROVE  h \in {<<>>} \cup (Int \X Int) /\ IsRange(h, f)'
<1>1. PICK x : x = NumericValue(r[f])
  OBVIOUS
<1>2. /\ Classify(r[f]) \notin {"int", "float"} =>
            Numeric(f)' = Numeric(f) /\ Known(f)' = Known(f) /\ (NaNFirst(f)' <=> NaNFirst(f))
      /\ Classify(r[f]) \in {"int", "float"} =>
            /\ Numeric(f)' # {} /\ Known(f)' = Known(f) \cup ({x} \ {NaN})
            /\ NaNFirst(f)' <=> NaNFirst(f) \/ (Numeric(f) = {} /\ x = NaN)
  BY <1>1, NumbersStep
<1>3. CASE Classify(r[f]) \notin {"int", "float"}
  BY <1>2, <1>3 DEF IsRange
<1>4. CASE Classify(r[f]) \in {"int", "float"}
  <2>1. x \in Int /\ NaN \in Int /\ h = Widen(g, x)
    BY <1>1, <1>4, ClassIsDocumented, ValuesAssumption
  <2>2. CASE Numeric(f) = {}
    <3>1. g = <<>> /\ Known(f) = {} /\ ~NaNFirst(f)
      BY <2>2 DEF IsRange, Known, NaNFirst
    <3>2. h = <<x, x>> /\ Known(f)' = {x} \ {NaN} /\ (NaNFirst(f)' <=> x = NaN) /\ Numeric(f)' # {}
      BY <1>2, <1>4, <2>1, <2>2, <3>1 DEF Widen
    <3>3. x # NaN => x <= x
      BY <2>1
    <3>4. h \in Int \X Int /\ h # <<>> /\ h[1] = x /\ h[2] = x
      <4>1. h = <<x, x>> /\ x \in Int
        BY <2>1, <3>2
      <4>2. h \in Int \X Int /\ h[1] = x /\ h[2] = x
        BY <4>1
      <4>3. h # <<>>
        BY <4>2
      <4>4. QED
        BY <4>2, <4>3
    <3>5. CASE x = NaN
      BY <3>2, <3>4, <3>5 DEF IsRange
    <3>6. CASE x # NaN
      <4>1. Known(f)' = {x} /\ ~NaNFirst(f)' /\ Numeric(f)' # {}
        BY <3>2, <3>6
      <4>2. h[1] \in Known(f)' /\ h[2] \in Known(f)' /\ \A y \in Known(f)' : h[1] <= y /\ y <= h[2]
        BY <3>3, <3>4, <3>6, <4>1
      <4>3. QED
        BY <3>4, <4>1, <4>2 DEF IsRange, Bounds
    <3>7. QED
      BY <3>5, <3>6
  <2>3. CASE Numeric(f) # {} /\ NaNFirst(f)
    <3>1. g = <<NaN, NaN>>
      BY <2>3 DEF IsRange
    <3>2. h = <<NaN, NaN>>
      BY <2>1, <3>1 DEF Widen, Less
    <3>3. QED
      BY <1>2, <1>4, <2>1, <2>3, <3>2 DEF IsRange
  <2>4. CASE Numeric(f) # {} /\ ~NaNFirst(f)
    <3>1. Known(f) \in SUBSET (Int \ {NaN})
      BY KnownNumbers
    <3>2. g \in Int \X Int /\ Bounds(g, Known(f))
      BY <2>4 DEF IsRange, Bounds
    <3>3. h \in Int \X Int /\ Bounds(h, Known(f) \cup ({x} \ {NaN}))
      BY <2>1, <3>1, <3>2, WidenBounds
    <3>4. Known(f)' = Known(f) \cup ({x} \ {NaN}) /\ Numeric(f)' # {} /\ ~NaNFirst(f)'
      BY <1>2, <1>4, <2>4
    <3>5. QED
      BY <3>3, <3>4 DEF IsRange, Bounds
  <2>5. QED
    BY <2>2, <2>3, <2>4
<1>5. QED
  BY <1>3, <1>4
LEMMA PairOf ==
  ASSUME NEW x \in Int, NEW h, h = <<x, x>>
  PROVE  h \in Int \X Int /\ h # <<>> /\ h[1] = x /\ h[2] = x
<1>1. h \in Int \X Int /\ h[1] = x /\ h[2] = x
  OBVIOUS
<1>2. QED
  BY <1>1

(* The lengths of the texts, by the same Widen.                            *)
LEMMA LengthStep ==
  ASSUME sampled \in Seq(Records), NEW r \in Records, sampled' = Append(sampled, r),
         NEW f \in DOMAIN r,
         NEW g \in {<<>>} \cup (Int \X Int), IsLength(g, f),
         NEW h, h = IF Classify(r[f]) = "string" /\ r[f][1] = "text" THEN Widen(g, Text(r[f]).length) ELSE g
  PROVE  h \in {<<>>} \cup (Int \X Int) /\ IsLength(h, f)'
<1>1. PICK n : Adds(r, f, n)
  BY DEF Adds
<1>2. PICK x : x = Text(r[f]).length
  OBVIOUS
<1>3. /\ \A i \in Column(f) : sampled'[i] = sampled[i] /\ sampled[i] \in Records
      /\ sampled'[n] = r
  <2>1. /\ Column(f)' = Column(f) \cup {n} /\ n \notin Column(f) /\ n \in Nat
        /\ \A i \in Column(f) : sampled'[i] = sampled[i] /\ i \in Nat /\ i < n /\ sampled[i] \in Records
        /\ sampled'[n] = r /\ IsFiniteSet(Column(f))
    BY <1>1, InRecord
  <2>2. QED
    BY <2>1
<1>4. Matched(f, "string")' = Matched(f, "string") \cup IF Classify(r[f]) = "string" THEN {n} ELSE {}
  <2>1. Matched(f, "string")' = Matched(f, "string") \cup
                                  IF Classify(r[f]) # "null" /\ Matches(r[f], "string") THEN {n} ELSE {}
    BY <1>1, OneMoreOfClass
  <2>2. "string" \in Types \ {"float"} /\ "string" # "null"
    BY DEF Types
  <2>3. Missing(r[f]) <=> Classify(r[f]) = "null"
    BY MissingIsNull
  <2>4. ~Missing(r[f]) => \A t \in Types \ {"float"} : Matches(r[f], t) <=> Classify(r[f]) = t
    BY ClassIsDocumented
  <2>5. Classify(r[f]) # "null" /\ Matches(r[f], "string") <=> Classify(r[f]) = "string"
    BY <2>2, <2>3, <2>4
  <2>6. QED
    BY <2>1, <2>5
<1>5. \A i \in Matched(f, "string") : i \in Column(f) /\ sampled'[i] = sampled[i]
  BY <1>3 DEF Matched, Values
<1>6. PICK b \in BOOLEAN : b <=> Classify(r[f]) = "string" /\ r[f][1] = "text"
  OBVIOUS
<1>7. Lengths(f)' = Lengths(f) \cup IF b THEN {x} ELSE {}
  <2>1. PICK M, N : M = Matched(f, "string") /\ N = Matched(f, "string")'
    OBVIOUS
  <2>2. \A i \in M : sampled'[i] = sampled[i]
    BY <1>5, <2>1
  <2>3. N = M \cup IF Classify(r[f]) = "string" THEN {n} ELSE {}
    BY <1>4, <2>1
  <2>4. /\ Lengths(f)  = {Text(sampled[i][f]).length : i \in {j \in M : sampled[j][f][1] = "text"}}
        /\ Lengths(f)' = {Text(sampled'[i][f]).length : i \in {j \in N : sampled'[j][f][1] = "text"}}
    BY <2>1 DEF Lengths
  <2>5. PICK P, Q : P = {j \in M : sampled[j][f][1] = "text"} /\ Q = {j \in N : sampled'[j][f][1] = "text"}
    OBVIOUS
  <2>6. sampled'[n] = r /\ P \subseteq M
    BY <1>3, <2>5
  <2>7. Q = P \cup IF b THEN {n} ELSE {}
    <3>1. P = {j \in M : sampled'[j][f][1] = "text"}
      BY <2>2, <2>5
    <3>2. n \in Q <=> n \in N /\ r[f][1] = "text"
      BY <2>5, <2>6
    <3>3. CASE Classify(r[f]) = "string"
      BY <1>6, <2>3, <2>5, <2>6, <3>1, <3>3
    <3>4. CASE Classify(r[f]) # "string"
      BY <1>6, <2>3, <2>5, <3>1, <3>4
    <3>5. QED
      BY <3>3, <3>4
  <2>8. PICK F : F = [i \in Q |-> Text(sampled'[i][f]).length]
    OBVIOUS
  <2>9. \A i \in P : i \in Q /\ F[i] = Text(sampled[i][f]).length
    BY <2>2, <2>6, <2>7, <2>8
  <2>10. Lengths(f) = {F[i] : i \in P} /\ Lengths(f)' = {F[i] : i \in Q}
    <3>1. Lengths(f) = {Text(sampled[i][f]).length : i \in P}
      BY <2>4, <2>5
    <3>2. Lengths(f)' = {Text(sampled'[i][f]).length : i \in Q}
      BY <2>4, <2>5
    <3>3. {Text(sampled[i][f]).length : i \in P} = {F[i] : i \in P}
      BY <2>9
    <3>4. \A i \in Q : F[i] = Text(sampled'[i][f]).length
      BY <2>8
    <3>5. {Text(sampled'[i][f]).length : i \in Q} = {F[i] : i \in Q}
      BY <3>4
    <3>6. QED
      BY <3>1, <3>2, <3>3, <3>5
  <2>11. b => F[n] = x
    BY <1>2, <2>6, <2>7, <2>8
  <2>12. QED
    BY <2>7, <2>10, <2>11
<1>8. Lengths(f) \in SUBSET (Int \ {NaN}) /\ (b => x \in Nat) /\ NaN \in Int \ Nat
  <2>1. \A i \in Matched(f, "string") : sampled[i] \in Records /\ f \in DOMAIN sampled[i]
    BY <1>3, <1>5 DEF Column
  <2>2. \A i \in Matched(f, "string") : sampled[i][f][1] = "text" => Text(sampled[i][f]).length \in Nat
    BY <2>1, ClassIsDocumented
  <2>3. NaN \in Int \ Nat /\ (b => x \in Nat)
    BY <1>2, <1>6, ClassIsDocumented, ValuesAssumption
  <2>4. QED
    BY <2>2, <2>3 DEF Lengths
<1>9. CASE ~b
  <2>1. h = g /\ Lengths(f)' = Lengths(f)
    BY <1>6, <1>7, <1>9
  <2>2. QED
    BY <2>1 DEF IsLength
<1>10. CASE b /\ Lengths(f) = {}
  <2>1. g = <<>> /\ x \in Int /\ Lengths(f)' = {x} /\ h = Widen(g, x)
    BY <1>2, <1>6, <1>7, <1>8, <1>10 DEF IsLength
  <2>2. Widen(g, x) = <<x, x>> /\ h = <<x, x>>
    <3>1. Widen(g, x) = <<x, x>>
      BY <2>1 DEF Widen
    <3>2. QED
      BY <2>1, <3>1
  <2>3. h \in Int \X Int /\ h # <<>> /\ h[1] = x /\ h[2] = x
    BY <2>1, <2>2, PairOf
  <2>4. x <= x
    BY <2>1
  <2>5. Lengths(f)' # {}
    BY <2>1
  <2>6. QED
    BY <2>1, <2>3, <2>4, <2>5 DEF IsLength, Bounds
<1>11. CASE b /\ Lengths(f) # {}
  <2>1. Bounds(g, Lengths(f)) /\ g \in Int \X Int
    BY <1>11 DEF IsLength, Bounds
  <2>2. x \in Int /\ x # NaN /\ h = Widen(g, x)
    BY <1>2, <1>6, <1>8, <1>11
  <2>3. h \in Int \X Int /\ Bounds(h, Lengths(f) \cup ({x} \ {NaN}))
    BY <1>8, <2>1, <2>2, WidenBounds
  <2>4. Lengths(f)' = Lengths(f) \cup ({x} \ {NaN}) /\ Lengths(f)' # {}
    BY <1>7, <1>11, <2>2
  <2>5. QED
    BY <2>3, <2>4 DEF IsLength, Bounds
<1>12. QED
  BY <1>9, <1>10, <1>11
-----------------------------------------------------------------------------
(* The accumulator as a whole.                                             *)

LEMMA Observed ==
  ASSUME sampled \in Seq(Records), NEW r \in Records, sampled' = Append(sampled, r),
         NEW f \in DOMAIN r, NEW a, Holds(a, f)
  PROVE  Holds(Observe(a, r[f]), f)'
<1>1. PICK t : t = Classify(r[f])
  OBVIOUS
<1>2. PICK o : o = Observe(a, r[f])
  OBVIOUS
<1>3. PICK x : x = StringOf(r[f])
  OBVIOUS
<1>4. t \in Types \cup {"null"} /\ "null" \notin Types
  <2>1. t \in Types \cup {"null"}
    BY <1>1, ClassIsDocumented
  <2>2. QED
    BY <2>1 DEF Types, Narrow
<1>5. /\ a = [nulls |-> a.nulls, nonNulls |-> a.nonNulls, count |-> a.count, range |-> a.range,
              length |-> a.length, examples |-> a.examples, distinct |-> a.distinct]
      /\ a.nulls \in Nat /\ a.nonNulls \in Nat /\ a.count \in [Types -> Nat]
      /\ a.range \in {<<>>} \cup (Int \X Int) /\ a.length \in {<<>>} \cup (Int \X Int)
      /\ a.examples \in Seq(Forms(f)) /\ a.distinct \in SUBSET Forms(f)
  BY DEF Holds
<1>6. /\ a.nulls = Cardinality(OfClass(f, "null")) /\ a.nonNulls = Cardinality(Values(f))
      /\ \A u \in Types : a.count[u] = Cardinality(OfClass(f, u))
  BY DEF Holds
<1>7. IsRange(a.range, f) /\ IsLength(a.length, f)
  BY DEF Holds
<1>8. /\ IsInjective(a.examples) /\ Len(a.examples) <= MaxExamples /\ FirstSeen(a.examples, f)
      /\ Len(a.examples) < MaxExamples => ToSet(a.examples) = Forms(f)
      /\ Cardinality(a.distinct) <= MaxUnique
      /\ Cardinality(a.distinct) < MaxUnique => a.distinct = Forms(f)
  BY DEF Holds
<1>9. /\ \A u : Cardinality(OfClass(f, u)') = Cardinality(OfClass(f, u)) + IF t = u THEN 1 ELSE 0
      /\ Cardinality(Values(f)') = Cardinality(Values(f)) + IF t # "null" THEN 1 ELSE 0
      /\ IsFiniteSet(Forms(f))
  BY <1>1, Counted
<1>10. Forms(f)' = Forms(f) \cup IF t # "null" THEN {x} ELSE {}
  <2>1. PICK n : Adds(r, f, n)
    BY DEF Adds
  <2>2. QED
    BY <1>1, <1>3, <2>1, OneMoreOfClass
<1>11. CASE t = "null"
  <2>1. o = [a EXCEPT !.nulls = a.nulls + 1]
    BY <1>1, <1>2, <1>11 DEF Observe
  <2>2. /\ o = [nulls |-> a.nulls + 1, nonNulls |-> a.nonNulls, count |-> a.count, range |-> a.range,
                length |-> a.length, examples |-> a.examples, distinct |-> a.distinct]
    BY <1>5, <2>1
  <2>3. Forms(f)' = Forms(f)
    BY <1>10, <1>11
  <2>4. /\ o.nulls \in Nat /\ o.nulls = Cardinality(OfClass(f, "null")')
        /\ o.nonNulls \in Nat /\ o.nonNulls = Cardinality(Values(f)')
    BY <1>5, <1>6, <1>9, <1>11, <2>2
  <2>5. \A u \in Types : o.count[u] = Cardinality(OfClass(f, u)')
    <3>1. \A u \in Types : Cardinality(OfClass(f, u)) = a.count[u] /\ a.count[u] \in Nat /\ u # t
      BY <1>4, <1>5, <1>6, <1>11
    <3>2. QED
      BY <1>9, <2>2, <3>1
  <2>6. IsRange(o.range, f)' /\ IsLength(o.length, f)'
    <3>1. IsRange(o.range, f)'
      BY <1>1, <1>5, <1>7, <1>11, <2>2, RangeStep
    <3>2. IsLength(o.length, f)'
      BY <1>1, <1>5, <1>7, <1>11, <2>2, LengthStep
    <3>3. QED
      BY <3>1, <3>2
  <2>7. o \in [nulls : Nat, nonNulls : Nat, count : [Types -> Nat],
               range : {<<>>} \cup (Int \X Int), length : {<<>>} \cup (Int \X Int),
               examples : Seq(Forms(f)'), distinct : SUBSET Forms(f)']
    BY <1>5, <2>2, <2>3, <2>4
  <2>8. /\ IsInjective(o.examples) /\ Len(o.examples) <= MaxExamples
        /\ Len(o.examples) < MaxExamples => ToSet(o.examples) = Forms(f)'
        /\ Cardinality(o.distinct) <= MaxUnique
        /\ Cardinality(o.distinct) < MaxUnique => o.distinct = Forms(f)'
    BY <1>8, <2>2, <2>3
  <2>9. FirstSeen(o.examples, f)'
    <3>1. Values(f)' = Values(f) /\ \A i \in Values(f) : sampled'[i] = sampled[i]
      <4>1. PICK n : Adds(r, f, n)
        BY DEF Adds
      <4>2. Values(f)' = Values(f) \cup IF Classify(r[f]) # "null" THEN {n} ELSE {}
        BY <4>1, OneMoreOfClass
      <4>3. \A i \in Column(f) : sampled'[i] = sampled[i]
        BY <4>1, InRecord
      <4>4. QED
        BY <1>1, <1>11, <4>2, <4>3 DEF Values
    <3>2. \A u, v : SeenBefore(f, u, v)' <=> SeenBefore(f, u, v)
      BY <3>1 DEF SeenBefore
    <3>3. QED
      BY <1>8, <2>2, <2>3, <3>2 DEF FirstSeen
  <2>11. Holds(o, f)'
    BY <2>4, <2>5, <2>6, <2>7, <2>8, <2>9 DEF Holds
  <2>12. QED
    BY <1>2, <2>11
<1>12. CASE t # "null"
  <2>1. PICK g : g = IF t \in {"int", "float"} THEN Widen(a.range, NumericValue(r[f])) ELSE a.range
    OBVIOUS
  <2>2. PICK e : e = IF Len(a.examples) < MaxExamples /\ ~Contains(a.examples, x)
                     THEN Append(a.examples, x) ELSE a.examples
    OBVIOUS
  <2>3. PICK d : d = IF Cardinality(a.distinct) < MaxUnique THEN a.distinct \cup {x} ELSE a.distinct
    OBVIOUS
  <2>4. PICK l : l = IF t = "string" /\ r[f][1] = "text" THEN Widen(a.length, Text(r[f]).length) ELSE a.length
    OBVIOUS
  <2>5. PICK c : c = [a.count EXCEPT ![t] = a.count[t] + 1]
    OBVIOUS
  <2>6. o = [nulls |-> a.nulls, nonNulls |-> a.nonNulls + 1, count |-> c, range |-> g,
             length |-> l, examples |-> e, distinct |-> d]
    <3>1. o = [a EXCEPT !.nonNulls = a.nonNulls + 1, !.count = c, !.range = g,
                        !.length = l, !.examples = e, !.distinct = d]
      BY <1>1, <1>2, <1>3, <1>12, <2>1, <2>2, <2>3, <2>4, <2>5 DEF Observe
    <3>2. QED
      BY <1>5, <3>1
  <2>7. Forms(f)' = Forms(f) \cup {x}
    BY <1>10, <1>12
  <2>8. /\ o.nulls \in Nat /\ o.nulls = Cardinality(OfClass(f, "null")')
        /\ o.nonNulls \in Nat /\ o.nonNulls = Cardinality(Values(f)')
    BY <1>5, <1>6, <1>9, <1>12, <2>6
  <2>9. c \in [Types -> Nat] /\ \A u \in Types : c[u] = Cardinality(OfClass(f, u)')
    <3>1. t \in Types
      BY <1>4, <1>12
    <3>2. /\ c \in [Types -> Nat] /\ c[t] = a.count[t] + 1
          /\ \A u \in Types : u # t => c[u] = a.count[u]
      BY <1>5, <2>5, <3>1
    <3>3. \A u \in Types : Cardinality(OfClass(f, u)) = a.count[u] /\ a.count[u] \in Nat
      BY <1>5, <1>6
    <3>4. \A u \in Types : Cardinality(OfClass(f, u)') = a.count[u] + IF t = u THEN 1 ELSE 0
      BY <1>9, <3>3
    <3>5. QED
      BY <3>1, <3>2, <3>3, <3>4
  <2>10. /\ g \in {<<>>} \cup (Int \X Int) /\ IsRange(g, f)'
         /\ l \in {<<>>} \cup (Int \X Int) /\ IsLength(l, f)'
    <3>1. g \in {<<>>} \cup (Int \X Int) /\ IsRange(g, f)'
      BY <1>1, <1>5, <1>7, <2>1, RangeStep
    <3>2. l \in {<<>>} \cup (Int \X Int) /\ IsLength(l, f)'
      BY <1>1, <1>5, <1>7, <2>4, LengthStep
    <3>3. QED
      BY <3>1, <3>2
  <2>11. /\ e \in Seq(Forms(f)') /\ IsInjective(e) /\ Len(e) <= MaxExamples
         /\ Len(e) < MaxExamples => ToSet(e) = Forms(f)'
         /\ FirstSeen(e, f)'
    <3>1. PICK S, s : S = Forms(f) /\ s = a.examples
      OBVIOUS
    <3>2. s \in Seq(S) /\ IsInjective(s) /\ Len(s) <= MaxExamples /\ (Len(s) < MaxExamples => ToSet(s) = S)
      BY <1>5, <1>8, <3>1
    <3>3. e = IF Len(s) < MaxExamples /\ ~Contains(s, x) THEN Append(s, x) ELSE s
      BY <2>2, <3>1
    <3>4. /\ e \in Seq(S \cup {x}) /\ IsInjective(e) /\ Len(e) <= MaxExamples
          /\ Len(e) < MaxExamples => ToSet(e) = S \cup {x}
      BY <3>2, <3>3, ExamplesStep
    <3>5. e = s \/ (x \notin S /\ Longer(e, s, x, Len(s)) /\ ToSet(e) = S \cup {x})
      <4>1. e = Kept(s, x)
        BY <3>3 DEF Kept
      <4>2. s \in Seq(S) /\ (Len(s) < MaxExamples => ToSet(s) = S)
        BY <3>2
      <4>3. QED
        BY <4>1, <4>2, ExamplesGrow
    <3>6. FirstSeen(e, f)'
      <4>1. s \in Seq(Forms(f)) /\ FirstSeen(s, f)
        BY <1>8, <3>1, <3>2
      <4>2. e = s \/ (x \notin Forms(f) /\ Longer(e, s, x, Len(s)) /\ ToSet(e) = Forms(f) \cup {x})
        BY <3>1, <3>5
      <4>3. QED
        BY <2>7, <4>1, <4>2, FirstSeenStep
    <3>7. QED
      BY <2>7, <3>1, <3>4, <3>6
  <2>12. /\ d \in SUBSET Forms(f)' /\ Cardinality(d) <= MaxUnique
         /\ Cardinality(d) < MaxUnique => d = Forms(f)'
    <3>1. PICK S, D : S = Forms(f) /\ D = a.distinct
      OBVIOUS
    <3>2. /\ D \in SUBSET S /\ IsFiniteSet(S)
          /\ Cardinality(D) <= MaxUnique /\ (Cardinality(D) < MaxUnique => D = S)
      BY <1>5, <1>8, <1>9, <3>1
    <3>3. d = IF Cardinality(D) < MaxUnique THEN D \cup {x} ELSE D
      BY <2>3, <3>1
    <3>4. /\ d \in SUBSET (S \cup {x}) /\ Cardinality(d) <= MaxUnique
          /\ Cardinality(d) < MaxUnique => d = S \cup {x}
      <4>1. IsFiniteSet(D) /\ Cardinality(D) \in Nat /\ MaxUnique \in Nat
        BY <3>2, ConstantsAssumption, FS_Subset, FS_CardinalityType
      <4>2. Cardinality(D \cup {x}) = Cardinality(D) \/ Cardinality(D \cup {x}) = Cardinality(D) + 1
        BY <4>1, FS_AddElement
      <4>3. QED
        BY <3>2, <3>3, <4>1, <4>2
    <3>5. QED
      BY <2>7, <3>1, <3>4
  <2>13. o \in [nulls : Nat, nonNulls : Nat, count : [Types -> Nat],
                range : {<<>>} \cup (Int \X Int), length : {<<>>} \cup (Int \X Int),
                examples : Seq(Forms(f)'), distinct : SUBSET Forms(f)']
    BY <1>5, <2>6, <2>8, <2>9, <2>10, <2>11, <2>12
  <2>14. Holds(o, f)'
    BY <2>6, <2>8, <2>9, <2>10, <2>11, <2>12, <2>13 DEF Holds
  <2>15. QED
    BY <1>2, <2>14
<1>13. QED
  BY <1>11, <1>12

(* Nothing is known of a field that no record had yet. *)
LEMMA NewHolds ==
  ASSUME NEW f, Column(f) = {}
  PROVE  Holds(NewAcc, f)
<1>1. /\ \A t : OfClass(f, t) = {}
      /\ Values(f) = {} /\ (\A t : Matched(f, t) = {}) /\ Numeric(f) = {}
  BY DEF OfClass, Values, Matched, Numeric
<1>2. Forms(f) = {} /\ Lengths(f) = {}
  BY <1>1 DEF Forms, Lengths
<1>3. IsRange(<<>>, f) /\ IsLength(<<>>, f) /\ FirstSeen(<<>>, f)
  <2>1. Numeric(f) = {}
    BY <1>1
  <2>2. ~NaNFirst(f)
    BY <2>1 DEF NaNFirst
  <2>3. IsLength(<<>>, f)
    BY <1>2 DEF IsLength
  <2>4. FirstSeen(<<>>, f)
    BY DEF FirstSeen
  <2>5. QED
    BY <2>1, <2>2, <2>3, <2>4 DEF IsRange
<1>4. Cardinality({}) = 0 /\ MaxUnique \in Nat /\ MaxExamples \in Nat
  BY FS_EmptySet, ConstantsAssumption
<1>5. <<>> \in Seq(Forms(f)) /\ IsInjective(<<>>) /\ Len(<<>>) = 0 /\ ToSet(<<>>) = {}
  BY DEF IsInjective, ToSet
<1>6. /\ NewAcc.nulls = 0 /\ NewAcc.nonNulls = 0 /\ NewAcc.count = [t \in Types |-> 0]
      /\ NewAcc.range = <<>> /\ NewAcc.length = <<>> /\ NewAcc.examples = <<>> /\ NewAcc.distinct = {}
      /\ NewAcc \in [nulls : Nat, nonNulls : Nat, count : [Types -> Nat],
                     range : {<<>>} \cup (Int \X Int), length : {<<>>} \cup (Int \X Int),
                     examples : Seq(Forms(f)), distinct : SUBSET Forms(f)]
  BY <1>2 DEF NewAcc
<1>7. /\ NewAcc.nulls = Cardinality(OfClass(f, "null")) /\ NewAcc.nonNulls = Cardinality(Values(f))
      /\ \A t \in Types : NewAcc.count[t] = Cardinality(OfClass(f, t))
  <2>1. \A t \in Types : NewAcc.count[t] = 0
    BY <1>6
  <2>2. QED
    BY <1>1, <1>4, <1>6, <2>1
<1>8. /\ IsInjective(NewAcc.examples) /\ Len(NewAcc.examples) <= MaxExamples
      /\ Len(NewAcc.examples) < MaxExamples => ToSet(NewAcc.examples) = Forms(f)
      /\ Cardinality(NewAcc.distinct) <= MaxUnique
      /\ Cardinality(NewAcc.distinct) < MaxUnique => NewAcc.distinct = Forms(f)
  BY <1>2, <1>4, <1>5, <1>6
<1>9. IsRange(NewAcc.range, f) /\ IsLength(NewAcc.length, f) /\ FirstSeen(NewAcc.examples, f)
  BY <1>3, <1>6
<1>10. QED
  BY <1>6, <1>7, <1>8, <1>9 DEF Holds
-----------------------------------------------------------------------------
(* The inspection as a whole.                                              *)

LEMMA ReadStep ==
  ASSUME IInv, NEW r \in Records, ReadRecord(r)
  PROVE  IInv'
<1>1. /\ sampled \in Seq(Records) /\ sampled' = Append(sampled, r)
      /\ DOMAIN accs = UNION {DOMAIN sampled[i] : i \in DOMAIN sampled}
      /\ \A f \in DOMAIN accs : Holds(accs[f], f)
      /\ accs' = [f \in DOMAIN accs \cup DOMAIN r |->
                    IF f \in DOMAIN r THEN Observe(Seen(f), r[f]) ELSE accs[f]]
  BY DEF IInv, ReadRecord, ObserveAll
<1>2. DOMAIN accs' = UNION {DOMAIN sampled'[i] : i \in DOMAIN sampled'} /\ sampled' \in Seq(Records)
  <2>1. /\ DOMAIN sampled' = DOMAIN sampled \cup {Len(sampled) + 1}
        /\ Len(sampled) + 1 \notin DOMAIN sampled
        /\ \A i \in DOMAIN sampled : sampled'[i] = sampled[i]
        /\ sampled'[Len(sampled) + 1] = r /\ sampled' \in Seq(Records)
    BY <1>1, SampleGrows
  <2>2. DOMAIN accs' = DOMAIN accs \cup DOMAIN r
    BY <1>1
  <2>3. UNION {DOMAIN sampled'[i] : i \in DOMAIN sampled'} =
          (UNION {DOMAIN sampled[i] : i \in DOMAIN sampled}) \cup DOMAIN r
    BY <2>1
  <2>4. QED
    BY <1>1, <2>1, <2>2, <2>3
<1>3. ASSUME NEW f \in DOMAIN accs' PROVE Holds(accs[f], f)'
  <2>1. CASE f \in DOMAIN r
    <3>1. PICK a : a = Seen(f)
      OBVIOUS
    <3>2. Holds(a, f)
      <4>1. CASE f \in DOMAIN accs
        BY <1>1, <3>1, <4>1 DEF Seen
      <4>2. CASE f \notin DOMAIN accs
        <5>1. Column(f) = {}
          BY <1>1, <4>2 DEF Column
        <5>2. QED
          BY <3>1, <4>2, <5>1, NewHolds DEF Seen
      <4>3. QED
        BY <4>1, <4>2
    <3>3. accs'[f] = Observe(a, r[f])
      BY <1>1, <2>1, <3>1
    <3>4. PICK o : o = Observe(a, r[f])
      OBVIOUS
    <3>5. Holds(o, f)' /\ accs'[f] = o
      BY <1>1, <2>1, <3>2, <3>3, <3>4, Observed
    <3>6. QED
      BY <3>5
  <2>2. CASE f \notin DOMAIN r
    <3>1. PICK a : a = accs[f]
      OBVIOUS
    <3>2. f \in DOMAIN accs /\ accs'[f] = a
      BY <1>1, <1>3, <2>2, <3>1
    <3>3. Holds(a, f)
      BY <1>1, <3>1, <3>2
    <3>4. Holds(a, f)'
      BY <1>1, <2>2, <3>3, NotInRecord
    <3>5. QED
      BY <3>2, <3>4
  <2>3. QED
    BY <2>1, <2>2
<1>4. QED
  BY <1>2, <1>3 DEF IInv

LEMMA Inductive == Spec => []IInv
<1>1. Init => IInv
  BY DEF Init, IInv
<1>2. IInv /\ [Next]_vars => IInv'
  <2> SUFFICES ASSUME IInv, [Next]_vars PROVE IInv'
    OBVIOUS
  <2>1. CASE UNCHANGED <<sampled, accs>>
    <3>1. \A f : Column(f)' = Column(f) /\ \A i \in Column(f) : sampled'[i] = sampled[i]
      BY <2>1 DEF Column
    <3>2. \A a, f : Holds(a, f)' <=> Holds(a, f)
      BY <3>1, SameColumn
    <3>3. \A f \in DOMAIN accs : Holds(accs[f], f)'
      BY <2>1, <3>2 DEF IInv
    <3>4. QED
      BY <2>1, <3>3 DEF IInv
  <2>2. CASE \E r \in Records : ReadRecord(r)
    BY <2>2, ReadStep
  <2>3. QED
    BY <2>1, <2>2 DEF Next, Step, Open, Check, ReadEnds, Close, Cancel, vars
<1>3. QED
  BY <1>1, <1>2, PTL DEF Spec
-----------------------------------------------------------------------------
(* The profile an accumulator is finished to.                              *)

LEMMA ClassesMatch ==
  ASSUME sampled \in Seq(Records), NEW f
  PROVE  /\ Column(f) \ Values(f) = OfClass(f, "null")
         /\ \A t \in Types : OfClass(f, t) \subseteq Values(f)
         /\ \A t \in Types \ {"float"} : Matched(f, t) = OfClass(f, t)
         /\ Matched(f, "float") = OfClass(f, "int") \cup OfClass(f, "float")
         /\ Matched(f, "unknown") = {}
         /\ \A i \in Values(f) : \E t \in Types : i \in OfClass(f, t)
<1>1. \A i \in Column(f) : Missing(sampled[i][f]) <=> Classify(sampled[i][f]) = "null"
  BY MissingIsNull
<1>2. "null" \notin Types /\ "int" \in Types /\ "float" \in Types
  BY DEF Types, Narrow
<1>3. ASSUME NEW i \in Values(f)
      PROVE  /\ i \in Column(f) /\ Classify(sampled[i][f]) \in Types
             /\ \A t \in Types \ {"float"} : Matches(sampled[i][f], t) <=> Classify(sampled[i][f]) = t
             /\ Matches(sampled[i][f], "float") <=> Classify(sampled[i][f]) \in {"int", "float"}
             /\ ~Matches(sampled[i][f], "unknown")
  <2>1. i \in Column(f) /\ ~Missing(sampled[i][f])
    BY DEF Values
  <2>2. PICK q : q = sampled[i]
    OBVIOUS
  <2>3. q \in Records /\ f \in DOMAIN q
    BY <2>1, <2>2, ElementOfSeq, LenProperties DEF Column
  <2>4. /\ Classify(q[f]) \in Types \cup {"null"} /\ Classify(q[f]) # "null"
        /\ \A t \in Types \ {"float"} : Matches(q[f], t) <=> Classify(q[f]) = t
        /\ Matches(q[f], "float") <=> Classify(q[f]) \in {"int", "float"}
        /\ ~Matches(q[f], "unknown")
    BY <1>1, <2>1, <2>2, <2>3, ClassIsDocumented
  <2>5. QED
    BY <2>1, <2>2, <2>4
<1>4. Column(f) \ Values(f) = OfClass(f, "null")
  BY <1>1 DEF Values, OfClass
<1>5. \A t \in Types : OfClass(f, t) \subseteq Values(f)
  BY <1>1, <1>2 DEF Values, OfClass
<1>6. \A t \in Types \ {"float"} : Matched(f, t) = OfClass(f, t)
  BY <1>3, <1>5 DEF Matched, OfClass
<1>7. Matched(f, "float") = OfClass(f, "int") \cup OfClass(f, "float")
  BY <1>2, <1>3, <1>5 DEF Matched, OfClass
<1>8. Matched(f, "unknown") = {}
  BY <1>3 DEF Matched
<1>9. \A i \in Values(f) : \E t \in Types : i \in OfClass(f, t)
  BY <1>3 DEF OfClass
<1>10. QED
  BY <1>4, <1>5, <1>6, <1>7, <1>8, <1>9

(* A count is that of all values when there are no others.                 *)
LEMMA CountsSayTypes ==
  ASSUME sampled \in Seq(Records), NEW f, NEW a, Holds(a, f)
  PROVE  /\ a.nonNulls \in Nat /\ a.nonNulls = Cardinality(Values(f))
         /\ a.nonNulls = 0 <=> Values(f) = {}
         /\ \A t \in Types : /\ a.count[t] \in Nat /\ a.count[t] = Cardinality(OfClass(f, t))
                             /\ a.count[t] = a.nonNulls <=> OfClass(f, t) = Values(f)
         /\ a.count["int"] + a.count["float"] = Cardinality(Matched(f, "float"))
         /\ Cardinality(Matched(f, "float")) = a.nonNulls <=> Matched(f, "float") = Values(f)
<1>1. /\ IsFiniteSet(Values(f)) /\ "int" \in Types /\ "float" \in Types
      /\ \A t \in Types : OfClass(f, t) \in SUBSET Values(f)
      /\ Matched(f, "float") = OfClass(f, "int") \cup OfClass(f, "float")
  BY ColumnFinite, ClassesMatch DEF Types, Narrow
<1>2. /\ a.nonNulls = Cardinality(Values(f))
      /\ \A t \in Types : a.count[t] = Cardinality(OfClass(f, t))
  BY DEF Holds
<1>3. ASSUME NEW S \in SUBSET Values(f)
      PROVE  /\ IsFiniteSet(S) /\ Cardinality(S) \in Nat
             /\ Cardinality(S) = a.nonNulls <=> S = Values(f)
  BY <1>1, <1>2, FS_Subset, FS_CardinalityType
<1>4. a.nonNulls \in Nat /\ (a.nonNulls = 0 <=> Values(f) = {})
  BY <1>1, <1>2, FS_CardinalityType, FS_EmptySet
<1>5. a.count["int"] + a.count["float"] = Cardinality(Matched(f, "float"))
  <2>1. OfClass(f, "int") \cap OfClass(f, "float") = {}
    BY DEF OfClass
  <2>2. /\ IsFiniteSet(OfClass(f, "int")) /\ IsFiniteSet(OfClass(f, "float"))
        /\ Cardinality(OfClass(f, "int")) \in Nat /\ Cardinality(OfClass(f, "float")) \in Nat
    BY <1>1, <1>3
  <2>3. Cardinality(OfClass(f, "int") \cap OfClass(f, "float")) = 0
    BY <2>1, FS_EmptySet
  <2>4. Cardinality(OfClass(f, "int") \cup OfClass(f, "float")) =
          Cardinality(OfClass(f, "int")) + Cardinality(OfClass(f, "float"))
            - Cardinality(OfClass(f, "int") \cap OfClass(f, "float"))
    BY <2>2, FS_Union
  <2>5. Cardinality(OfClass(f, "int") \cup OfClass(f, "float")) =
          Cardinality(OfClass(f, "int")) + Cardinality(OfClass(f, "float"))
    BY <2>2, <2>3, <2>4
  <2>6. QED
    BY <1>1, <1>2, <2>5
<1>6. Matched(f, "float") \in SUBSET Values(f)
  BY DEF Matched
<1>7. \A t \in Types : /\ a.count[t] \in Nat /\ a.count[t] = Cardinality(OfClass(f, t))
                       /\ a.count[t] = a.nonNulls <=> OfClass(f, t) = Values(f)
  BY <1>1, <1>2, <1>3
<1>8. QED
  BY <1>2, <1>3, <1>4, <1>5, <1>6, <1>7

(* Values of one class have the type of that name.                         *)
LEMMA OneClass ==
  ASSUME sampled \in Seq(Records), NEW f, NEW a, Holds(a, f), Values(f) # {},
         NEW t \in Types, OfClass(f, t) = Values(f)
  PROVE  InferType(a) = t /\ DocumentedType(f) = t /\ Matched(f, t) = Values(f)
<1>1. a.nonNulls # 0 /\ \A u \in Types : a.count[u] = a.nonNulls <=> OfClass(f, u) = Values(f)
  BY CountsSayTypes
<1>2. \A u \in Types : OfClass(f, u) = Values(f) <=> u = t
  BY DEF OfClass
<1>3. InferType(a) = t
  <2>1. {u \in Types : a.count[u] = a.nonNulls} = {t}
    BY <1>1, <1>2
  <2>2. QED
    BY <1>1, <2>1 DEF InferType
<1>4. /\ \A u \in Types \ {"float"} : Matched(f, u) = OfClass(f, u)
      /\ Matched(f, "float") = OfClass(f, "int") \cup OfClass(f, "float")
      /\ \A u \in Types : OfClass(f, u) \subseteq Values(f)
  BY ClassesMatch
<1>5. /\ Types = Narrow \cup {"string"} /\ "string" \notin Narrow
      /\ "int" \in Narrow /\ "float" \in Narrow
  BY DEF Types, Narrow
<1>6. \A u \in Types \ {"float"} : Matched(f, u) = Values(f) <=> u = t
  BY <1>2, <1>4
<1>7. Matched(f, "float") = Values(f) <=> t \in {"int", "float"}
  <2>1. CASE t \in {"int", "float"}
    BY <1>4, <1>5, <2>1
  <2>2. CASE t \notin {"int", "float"}
    <3>1. PICK i \in Values(f) : TRUE
      OBVIOUS
    <3>2. i \notin OfClass(f, "int") /\ i \notin OfClass(f, "float")
      BY <2>2, <3>1 DEF OfClass
    <3>3. QED
      BY <1>4, <2>2, <3>1, <3>2
  <2>3. QED
    BY <2>1, <2>2
<1>8. PICK W : W = {u \in Narrow : Matched(f, u) = Values(f)}
  OBVIOUS
<1>9. DocumentedType(f) = IF W = {} THEN "string"
                          ELSE IF "int" \in W THEN "int" ELSE CHOOSE u \in W : TRUE
  BY <1>8 DEF DocumentedType
<1>10. DocumentedType(f) = t
  <2>1. CASE t = "string"
    <3>1. W = {}
      BY <1>5, <1>6, <1>7, <1>8, <2>1
    <3>2. QED
      BY <1>9, <2>1, <3>1
  <2>2. CASE t = "int"
    <3>1. "int" \in W
      BY <1>5, <1>6, <1>8, <2>2
    <3>2. QED
      BY <1>9, <2>2, <3>1
  <2>3. CASE t \notin {"string", "int"}
    <3>1. W = {t} /\ "int" # t
      BY <1>5, <1>6, <1>7, <1>8, <2>3
    <3>2. (CHOOSE u \in W : TRUE) = t
      BY <3>1
    <3>3. QED
      BY <1>9, <3>1, <3>2
  <2>4. QED
    BY <2>1, <2>2, <2>3
<1>11. QED
  BY <1>3, <1>6, <1>7, <1>10

(* The inferred type is the documented one, and the values that match it   *)
(* are as many as are counted.                                             *)
LEMMA TypeIsDocumented ==
  ASSUME sampled \in Seq(Records), NEW f, NEW a, Holds(a, f)
  PROVE  /\ InferType(a) = DocumentedType(f)
         /\ Matching(a) = Cardinality(Matched(f, InferType(a)))
<1>1. /\ a.nonNulls = 0 <=> Values(f) = {}
      /\ \A t \in Types : /\ a.count[t] = Cardinality(OfClass(f, t))
                          /\ a.count[t] = a.nonNulls <=> OfClass(f, t) = Values(f)
      /\ a.count["int"] + a.count["float"] = Cardinality(Matched(f, "float"))
      /\ Cardinality(Matched(f, "float")) = a.nonNulls <=> Matched(f, "float") = Values(f)
  BY CountsSayTypes
<1>2. /\ \A t \in Types \ {"float"} : Matched(f, t) = OfClass(f, t)
      /\ Matched(f, "unknown") = {}
  BY ClassesMatch
<1>3. /\ Types = Narrow \cup {"string"} /\ "string" \notin Narrow /\ "unknown" \notin Types
      /\ "int" \in Narrow /\ "float" \in Narrow
  BY DEF Types, Narrow
<1>4. ASSUME NEW t \in Types \cup {"unknown"}, InferType(a) = t
      PROVE  Matching(a) = Cardinality(Matched(f, InferType(a)))
  <2>1. CASE t = "unknown"
    BY <1>2, <1>4, <2>1, FS_EmptySet DEF Matching
  <2>2. CASE t = "float"
    BY <1>1, <1>4, <2>2 DEF Matching
  <2>3. CASE t \notin {"unknown", "float"}
    <3>1. Matching(a) = a.count[t]
      BY <1>4, <2>3 DEF Matching
    <3>2. QED
      BY <1>1, <1>2, <1>4, <2>3, <3>1
  <2>4. QED
    BY <2>1, <2>2, <2>3
<1>5. CASE Values(f) = {}
  <2>1. InferType(a) = "unknown" /\ DocumentedType(f) = "unknown"
    BY <1>1, <1>5 DEF InferType, DocumentedType
  <2>2. QED
    BY <1>4, <2>1
<1>6. CASE Values(f) # {} /\ \E t \in Types : OfClass(f, t) = Values(f)
  <2>1. PICK t \in Types : OfClass(f, t) = Values(f)
    BY <1>6
  <2>2. InferType(a) = t /\ DocumentedType(f) = t
    BY <1>6, <2>1, OneClass
  <2>3. QED
    BY <1>4, <2>2
<1>7. CASE Values(f) # {} /\ \A t \in Types : OfClass(f, t) # Values(f)
  <2>1. {t \in Types : a.count[t] = a.nonNulls} = {} /\ a.nonNulls # 0
    BY <1>1, <1>7
  <2>2. PICK W : W = {t \in Narrow : Matched(f, t) = Values(f)}
    OBVIOUS
  <2>3. \A t \in Narrow : t # "float" => t \notin W
    BY <1>2, <1>3, <1>7, <2>2
  <2>4. DocumentedType(f) = IF W = {} THEN "string"
                            ELSE IF "int" \in W THEN "int" ELSE CHOOSE u \in W : TRUE
    BY <1>7, <2>2 DEF DocumentedType
  <2>5. CASE Matched(f, "float") = Values(f)
    <3>1. W = {"float"}
      BY <1>3, <2>2, <2>3, <2>5
    <3>2. DocumentedType(f) = "float"
      <4>1. W # {} /\ "int" \notin W /\ (CHOOSE u \in W : TRUE) = "float"
        BY <3>1
      <4>2. QED
        BY <2>4, <4>1
    <3>3. InferType(a) = "float"
      BY <1>1, <2>1, <2>5 DEF InferType
    <3>4. QED
      BY <1>3, <1>4, <3>2, <3>3
  <2>6. CASE Matched(f, "float") # Values(f)
    <3>1. W = {}
      BY <2>2, <2>3, <2>6
    <3>2. InferType(a) = "string"
      BY <1>1, <2>1, <2>6 DEF InferType
    <3>3. QED
      BY <1>3, <1>4, <2>4, <3>1, <3>2
  <2>7. QED
    BY <2>5, <2>6
<1>8. QED
  BY <1>5, <1>6, <1>7

(* The kept values are all there are, or as many as fit.                   *)
LEMMA KeptIsReference ==
  ASSUME sampled \in Seq(Records), NEW f, NEW a, Holds(a, f)
  PROVE  /\ Cardinality(a.distinct) = Capped(Cardinality(Forms(f)), MaxUnique)
         /\ IsInjective(a.examples) /\ ToSet(a.examples) \subseteq Forms(f)
         /\ Len(a.examples) = Capped(Cardinality(Forms(f)), MaxExamples)
<1>1. IsFiniteSet(Forms(f)) /\ MaxUnique \in Nat /\ MaxExamples \in Nat
  BY ColumnFinite, ConstantsAssumption
<1>2. /\ a.examples \in Seq(Forms(f)) /\ a.distinct \in SUBSET Forms(f)
      /\ IsInjective(a.examples) /\ Len(a.examples) <= MaxExamples
      /\ Len(a.examples) < MaxExamples => ToSet(a.examples) = Forms(f)
      /\ Cardinality(a.distinct) <= MaxUnique
      /\ Cardinality(a.distinct) < MaxUnique => a.distinct = Forms(f)
  BY DEF Holds
<1>3. \A S \in SUBSET Forms(f) : /\ IsFiniteSet(S) /\ Cardinality(S) \in Nat
                                 /\ Cardinality(S) <= Cardinality(Forms(f))
  BY <1>1, FS_Subset, FS_CardinalityType
<1>4. Cardinality(Forms(f)) \in Nat
  BY <1>1, FS_CardinalityType
<1>5. Cardinality(a.distinct) = Capped(Cardinality(Forms(f)), MaxUnique)
  BY <1>1, <1>2, <1>3, <1>4 DEF Capped
<1>6. ToSet(a.examples) \in SUBSET Forms(f)
  BY <1>2, ElementOfSeq, LenProperties DEF ToSet
<1>7. Len(a.examples) \in Nat /\ DOMAIN a.examples = 1..Len(a.examples)
  BY <1>2, LenProperties
<1>8. Cardinality(ToSet(a.examples)) = Len(a.examples)
  <2>1. PICK e : e = a.examples
    OBVIOUS
  <2>2. e \in Bijection(1..Len(e), ToSet(e))
    <3>1. DOMAIN e = 1..Len(e) /\ IsInjective(e) /\ e \in [1..Len(e) -> Forms(f)]
      BY <1>2, <1>7, <2>1, LenProperties
    <3>2. e \in [1..Len(e) -> ToSet(e)] /\ \A x \in ToSet(e) : \E i \in 1..Len(e) : e[i] = x
      BY <3>1 DEF ToSet
    <3>3. \A i, j \in 1..Len(e) : e[i] = e[j] => i = j
      BY <3>1 DEF IsInjective
    <3>4. QED
      BY <3>2, <3>3 DEF Bijection, Injection, Surjection, IsInjective
  <2>3. ExistsBijection(1..Len(e), ToSet(e))
    BY <2>2 DEF ExistsBijection
  <2>4. Len(e) \in Nat
    BY <1>7, <2>1
  <2>5. Cardinality(ToSet(e)) = Len(e)
    BY <2>3, <2>4, FS_CountingElements
  <2>6. QED
    BY <2>1, <2>5
<1>9. Len(a.examples) = Capped(Cardinality(Forms(f)), MaxExamples)
  BY <1>1, <1>2, <1>3, <1>4, <1>6, <1>7, <1>8 DEF Capped
<1>10. QED
  BY <1>2, <1>5, <1>6, <1>9

(* A text is its own form, so a column of texts has as many forms as values. *)
LEMMA TextsAreForms ==
  ASSUME sampled \in Seq(Records), NEW f, \A v \in Distinct(f) : v[1] = "text"
  PROVE  Cardinality(Distinct(f)) = Cardinality(Forms(f))
<1>1. \A i \in Values(f) : /\ sampled[i] \in Records /\ f \in DOMAIN sampled[i]
                           /\ sampled[i][f] \in Distinct(f)
  BY ElementOfSeq, LenProperties DEF Values, Column, Distinct
<1>2. \A i \in Values(f) : /\ sampled[i][f] = <<"text", sampled[i][f][2]>>
                           /\ StringOf(sampled[i][f]) = sampled[i][f][2]
  BY <1>1, ValuesAssumption DEF StringOf
<1> DEFINE g == [v \in Distinct(f) |-> v[2]]
<1>3. \A v \in Distinct(f) : v = <<"text", v[2]>> /\ \E i \in Values(f) : v = sampled[i][f]
  BY <1>2 DEF Distinct
<1>4. Forms(f) = {sampled[i][f][2] : i \in Values(f)}
  BY <1>2 DEF Forms
<1>5. \A v \in Distinct(f) : v[2] \in Forms(f)
  BY <1>3, <1>4
<1>6. \A x \in Forms(f) : \E v \in Distinct(f) : v[2] = x
  BY <1>1, <1>4
<1>7. \A v, w \in Distinct(f) : v[2] = w[2] => v = w
  BY <1>3
<1>8. g \in Bijection(Distinct(f), Forms(f))
  BY <1>5, <1>6, <1>7 DEF Bijection, Injection, Surjection, IsInjective
<1>9. IsFiniteSet(Distinct(f))
  <2>1. [i \in Values(f) |-> sampled[i][f]] \in Surjection(Values(f), Distinct(f))
    BY DEF Surjection, Distinct
  <2>2. QED
    BY <2>1, ColumnFinite, FS_Surjection
<1>10. ExistsBijection(Distinct(f), Forms(f))
  BY <1>8 DEF ExistsBijection
<1>11. QED
  BY <1>9, <1>10, FS_Bijection

(* Whatever a source yields, each field has the profile its documentation  *)
(* describes: the type, the values that match and those that do not, the   *)
(* bounds of numbers and of lengths, the first examples, the number of     *)
(* distinct forms up to the cap.                                           *)
THEOREM ProfilesAreExact == Spec => []ProfileIsReference
<1>1. IInv => ProfileIsReference
  <2> SUFFICES ASSUME IInv PROVE ProfileIsReference
    OBVIOUS
  <2>1. sampled \in Seq(Records) /\ DOMAIN accs = UNION {DOMAIN sampled[i] : i \in DOMAIN sampled}
    BY DEF IInv
  <2>2. ASSUME NEW f \in DOMAIN accs, NEW p, p = Finalize(accs[f])
        PROVE  /\ p.type = DocumentedType(f)
               /\ p.nonNulls = Cardinality(Values(f)) /\ p.nulls = Cardinality(Column(f) \ Values(f))
               /\ p.matching = Cardinality(Matched(f, p.type))
               /\ p.parseErrors = Cardinality(Values(f) \ Matched(f, p.type))
               /\ IsRange(p.range, f) /\ IsLength(p.length, f)
               /\ p.unique = Capped(Cardinality(Forms(f)), MaxUnique)
               /\ (\A v \in Distinct(f) : v[1] = "text") =>
                     p.unique = Capped(Cardinality(Distinct(f)), MaxUnique)
               /\ IsInjective(p.examples) /\ ToSet(p.examples) \subseteq Forms(f)
               /\ Len(p.examples) = Capped(Cardinality(Forms(f)), MaxExamples)
               /\ FirstSeen(p.examples, f)
    <3>1. PICK a : a = accs[f]
      OBVIOUS
    <3>2. Holds(a, f)
      BY <2>2, <3>1 DEF IInv
    <3>3. /\ p.type = InferType(a) /\ p.matching = Matching(a) /\ p.parseErrors = a.nonNulls - Matching(a)
          /\ p.nulls = a.nulls /\ p.nonNulls = a.nonNulls /\ p.unique = Cardinality(a.distinct)
          /\ p.range = a.range /\ p.length = a.length /\ p.examples = a.examples
      BY <2>2, <3>1 DEF Finalize
    <3>4. /\ a.nulls = Cardinality(OfClass(f, "null")) /\ a.nonNulls = Cardinality(Values(f))
          /\ IsRange(a.range, f) /\ IsLength(a.length, f) /\ FirstSeen(a.examples, f)
      BY <3>2 DEF Holds
    <3>5. OfClass(f, "null") = Column(f) \ Values(f)
      BY <2>1, ClassesMatch
    <3>6. InferType(a) = DocumentedType(f) /\ Matching(a) = Cardinality(Matched(f, InferType(a)))
      BY <2>1, <3>2, TypeIsDocumented
    <3>7. p.parseErrors = Cardinality(Values(f) \ Matched(f, p.type))
      <4>1. PICK M : M = Matched(f, p.type)
        OBVIOUS
      <4>2. M \subseteq Values(f) /\ IsFiniteSet(Values(f))
        BY <2>1, <4>1, ColumnFinite DEF Matched
      <4>3. Values(f) \cap M = M
        BY <4>2
      <4>4. Cardinality(Values(f) \ M) = Cardinality(Values(f)) - Cardinality(Values(f) \cap M)
        BY <4>2, FS_Difference
      <4>5. QED
        BY <3>3, <3>4, <3>6, <4>1, <4>3, <4>4
    <3>8. /\ p.unique = Capped(Cardinality(Forms(f)), MaxUnique)
          /\ IsInjective(p.examples) /\ ToSet(p.examples) \subseteq Forms(f)
          /\ Len(p.examples) = Capped(Cardinality(Forms(f)), MaxExamples)
      BY <2>1, <3>2, <3>3, KeptIsReference
    <3>9. (\A v \in Distinct(f) : v[1] = "text") =>
            p.unique = Capped(Cardinality(Distinct(f)), MaxUnique)
      BY <2>1, <3>8, TextsAreForms
    <3>10. QED
      BY <3>3, <3>4, <3>5, <3>6, <3>7, <3>8, <3>9
  <2>3. QED
    BY <2>1, <2>2 DEF ProfileIsReference
<1>2. QED
  BY Inductive, <1>1, PTL
-----------------------------------------------------------------------------
(* The issues.  Each is warranted by its column, and they come in the      *)
(* order of their keys.                                                    *)

Warranted ==
    (IF Column("") # {} THEN {<<"", "empty_field_name">>} ELSE {})
    \cup {<<f, "high_null_ratio">> : f \in {g \in DOMAIN accs : OfClass(g, "null") # {}}}
    \cup {<<f, "mixed_types">> : f \in {g \in DOMAIN accs : \E s, t \in Classes(g) : s # t}}

Key(issue) ==
    CASE issue[2] = "empty_field_name" -> 0
      [] issue[2] = "high_null_ratio"  -> 2 * Rank(issue[1])
      [] OTHER                         -> 2 * Rank(issue[1]) + 1

Sorted(s, lo, hi) ==
    /\ s \in Seq(Warranted)
    /\ \A i \in 1..Len(s) : Key(s[i]) \in lo..hi
    /\ \A i, j \in 1..Len(s) : i < j => Key(s[i]) < Key(s[j])

LEMMA SortedConcat ==
  ASSUME NEW s, NEW t, NEW lo \in Nat, NEW mid \in Nat, NEW hi \in Nat,
         lo <= mid + 1, mid <= hi, Sorted(s, lo, mid), Sorted(t, mid + 1, hi)
  PROVE  Sorted(s \o t, lo, hi)
<1>1. s \in Seq(Warranted) /\ t \in Seq(Warranted) /\ Len(s) \in Nat /\ Len(t) \in Nat
  BY LenProperties DEF Sorted
<1>2. /\ s \o t \in Seq(Warranted) /\ Len(s \o t) = Len(s) + Len(t)
      /\ \A i \in 1..Len(s) + Len(t) : (s \o t)[i] = IF i <= Len(s) THEN s[i] ELSE t[i - Len(s)]
  BY <1>1, ConcatProperties
<1>3. \A i \in 1..Len(s) + Len(t) :
        IF i <= Len(s) THEN i \in 1..Len(s) ELSE i - Len(s) \in 1..Len(t)
  BY <1>1
<1>4. \A i \in 1..Len(s) : Key(s[i]) \in lo..mid
  BY DEF Sorted
<1>5. \A i \in 1..Len(t) : Key(t[i]) \in mid + 1..hi
  BY DEF Sorted
<1>6. ASSUME NEW i \in 1..Len(s) + Len(t)
      PROVE  /\ i <= Len(s) => i \in 1..Len(s) /\ Key((s \o t)[i]) = Key(s[i]) /\ Key((s \o t)[i]) \in lo..mid
             /\ ~(i <= Len(s)) => /\ i - Len(s) \in 1..Len(t) /\ Key((s \o t)[i]) = Key(t[i - Len(s)])
                                  /\ Key((s \o t)[i]) \in mid + 1..hi
  BY <1>2, <1>3, <1>4, <1>5
<1>7. \A i \in 1..Len(s) + Len(t) : Key((s \o t)[i]) \in lo..hi
  BY <1>6
<1>8. ASSUME NEW i \in 1..Len(s) + Len(t), NEW j \in 1..Len(s) + Len(t), i < j
      PROVE  Key((s \o t)[i]) < Key((s \o t)[j])
  <2>1. CASE j <= Len(s)
    <3>1. i <= Len(s)
      BY <1>1, <1>8, <2>1
    <3>2. QED
      BY <1>6, <1>8, <2>1, <3>1 DEF Sorted
  <2>2. CASE i <= Len(s) /\ ~(j <= Len(s))
    BY <1>6, <1>8, <2>2
  <2>3. CASE ~(i <= Len(s))
    <3>1. ~(j <= Len(s)) /\ i - Len(s) < j - Len(s)
      BY <1>1, <1>8, <2>3
    <3>2. QED
      BY <1>6, <1>8, <2>3, <3>1 DEF Sorted
  <2>4. QED
    BY <2>1, <2>2, <2>3
<1>9. QED
  BY <1>2, <1>7, <1>8 DEF Sorted

LEMMA SortedShort ==
  ASSUME NEW x, NEW b \in BOOLEAN, NEW n \in Nat, NEW lo \in Nat, NEW hi \in Nat, lo <= n, n <= hi,
         b => x \in Warranted /\ Key(x) = n
  PROVE  Sorted(IF b THEN <<x>> ELSE <<>>, lo, hi)
<1>1. CASE b
  <2>1. <<x>> \in Seq(Warranted) /\ Len(<<x>>) = 1 /\ <<x>>[1] = x
    BY <1>1
  <2>2. 1..1 = {1}
    OBVIOUS
  <2>3. QED
    BY <1>1, <2>1, <2>2 DEF Sorted
<1>2. CASE ~b
  <2>1. <<>> \in Seq(Warranted) /\ Len(<<>>) = 0 /\ 1..0 = {}
    OBVIOUS
  <2>2. QED
    BY <1>2, <2>1 DEF Sorted
<1>3. QED
  BY <1>1, <1>2

(* The thresholds are positive and at most one. *)
LEMMA NullsExceed ==
  ASSUME NEW n \in Nat, NEW m \in Nat, NEW p \in Nat, NEW q \in Nat, n * q > p * (n + m)
  PROVE  n # 0
<1>1. SUFFICES ASSUME n = 0 PROVE FALSE
  OBVIOUS
<1>2. n * q = 0 /\ p * (n + m) >= 0
  BY <1>1
<1>3. QED
  BY <1>2

LEMMA MatchingFallsShort ==
  ASSUME NEW n \in Nat, NEW m \in Nat, NEW p \in Nat, NEW q \in Nat, p <= q, m * q < p * n
  PROVE  m < n
<1>1. SUFFICES ASSUME n <= m PROVE FALSE
  OBVIOUS
<1>2. PICK d \in Nat : m = n + d
  <2>1. m - n \in Nat /\ m = n + (m - n)
    BY <1>1
  <2>2. QED
    BY <2>1
<1>3. PICK e \in Nat : q = p + e
  <2>1. q - p \in Nat /\ q = p + (q - p)
    OBVIOUS
  <2>2. QED
    BY <2>1
<1>4. m * q = p * n + n * e + d * q
  BY <1>2, <1>3
<1>5. n * e >= 0 /\ d * q >= 0 /\ n * e \in Nat /\ d * q \in Nat /\ p * n \in Nat
  BY <1>2, <1>3
<1>6. QED
  BY <1>4, <1>5
LEMMA RankOf ==
  ASSUME NEW i \in 1..Len(FieldOrder)
  PROVE  Rank(FieldOrder[i]) = i
BY ConstantsAssumption DEF Rank, IsInjective

(* What is said of a profile is true of its column.                        *)
LEMMA ProfileIssuesSorted ==
  ASSUME IInv, NEW i \in 1..Len(FieldOrder), FieldOrder[i] \in DOMAIN accs
  PROVE  Sorted(ProfileIssues(FieldOrder[i]), 2 * i, 2 * i + 1)
<1>1. PICK f, a, p : f = FieldOrder[i] /\ a = accs[f] /\ p = Finalize(a)
  OBVIOUS
<1>2. f \in DOMAIN accs /\ sampled \in Seq(Records) /\ Holds(a, f) /\ Rank(f) = i
  BY <1>1, RankOf DEF IInv
<1>3. /\ p.nulls = a.nulls /\ p.nonNulls = a.nonNulls /\ p.matching = Matching(a)
      /\ p.nulls \in Nat /\ p.nonNulls \in Nat /\ p.matching \in Nat
  <2>1. p.nulls = a.nulls /\ p.nonNulls = a.nonNulls /\ p.matching = Matching(a)
    BY <1>1 DEF Finalize
  <2>2. a.nulls \in Nat /\ a.nonNulls \in Nat
    BY <1>2 DEF Holds
  <2>3. Matching(a) \in Nat
    <3>1. Matched(f, InferType(a)) \in SUBSET Values(f) /\ IsFiniteSet(Values(f))
      BY <1>2, ColumnFinite DEF Matched
    <3>2. QED
      BY <1>2, <3>1, TypeIsDocumented, FS_Subset, FS_CardinalityType
  <2>4. QED
    BY <2>1, <2>2, <2>3
<1>4. PICK tooNull \in BOOLEAN : tooNull <=> p.nulls * NullThreshold[2] > NullThreshold[1] * (p.nulls + p.nonNulls)
  OBVIOUS
<1>5. PICK mixed \in BOOLEAN : mixed <=> IsMixed(p)
  OBVIOUS
<1>6. ProfileIssues(f) = (IF tooNull THEN <<<<f, "high_null_ratio">>>> ELSE <<>>)
                           \o (IF mixed THEN <<<<f, "mixed_types">>>> ELSE <<>>)
  BY <1>1, <1>4, <1>5 DEF ProfileIssues
<1>7. /\ NullThreshold[1] \in Nat /\ NullThreshold[2] \in Nat
      /\ MixedThreshold[1] \in Nat /\ MixedThreshold[2] \in Nat /\ MixedThreshold[1] <= MixedThreshold[2]
  BY ConstantsAssumption
<1>8. ASSUME tooNull PROVE OfClass(f, "null") # {}
  <2>1. p.nulls # 0
    BY <1>3, <1>4, <1>7, <1>8, NullsExceed
  <2>2. a.nulls = Cardinality(OfClass(f, "null"))
    BY <1>2 DEF Holds
  <2>3. QED
    BY <1>3, <2>1, <2>2, FS_EmptySet
<1>9. ASSUME mixed PROVE \E s, t \in Classes(f) : s # t
  <2>1. a.nonNulls # 0 /\ Matching(a) * MixedThreshold[2] < MixedThreshold[1] * a.nonNulls
    BY <1>3, <1>5, <1>9 DEF IsMixed
  <2>2. a.nonNulls \in Nat /\ Matching(a) \in Nat
    BY <1>3
  <2>3. Matching(a) < a.nonNulls
    BY <1>7, <2>1, <2>2, MatchingFallsShort
  <2>4. Values(f) # {} /\ a.nonNulls = Cardinality(Values(f))
    BY <1>2, <2>1, CountsSayTypes
  <2>5. \A t \in Types : OfClass(f, t) # Values(f)
    <3> SUFFICES ASSUME NEW t \in Types, OfClass(f, t) = Values(f) PROVE FALSE
      OBVIOUS
    <3>1. InferType(a) = t /\ Matched(f, t) = Values(f)
      BY <1>2, <2>4, OneClass
    <3>2. Matching(a) = a.nonNulls
      BY <1>2, <2>4, <3>1, TypeIsDocumented
    <3>3. QED
      BY <2>2, <2>3, <3>2
  <2>6. PICK i1 \in Values(f) : TRUE
    BY <2>4
  <2>7. PICK t \in Types : i1 \in OfClass(f, t)
    BY <1>2, <2>6, ClassesMatch
  <2>8. OfClass(f, t) \subseteq Values(f)
    BY <1>2, ClassesMatch
  <2>9. PICK i2 \in Values(f) : i2 \notin OfClass(f, t)
    <3>1. OfClass(f, t) # Values(f)
      BY <2>5
    <3>2. QED
      BY <2>8, <3>1
  <2>10. Classify(sampled[i1][f]) = t /\ Classify(sampled[i2][f]) # t
    BY <2>7, <2>9 DEF OfClass, Values
  <2>11. QED
    BY <2>6, <2>9, <2>10 DEF Classes
<1>10. Sorted(IF tooNull THEN <<<<f, "high_null_ratio">>>> ELSE <<>>, 2 * i, 2 * i)
  <2>1. tooNull => <<f, "high_null_ratio">> \in Warranted
    BY <1>2, <1>8 DEF Warranted
  <2>2. Key(<<f, "high_null_ratio">>) = 2 * i
    BY <1>2 DEF Key
  <2>3. 2 * i \in Nat /\ 2 * i <= 2 * i
    OBVIOUS
  <2>4. QED
    BY <2>1, <2>2, <2>3, SortedShort
<1>11. Sorted(IF mixed THEN <<<<f, "mixed_types">>>> ELSE <<>>, 2 * i + 1, 2 * i + 1)
  <2>1. mixed => <<f, "mixed_types">> \in Warranted
    BY <1>2, <1>9 DEF Warranted
  <2>2. Key(<<f, "mixed_types">>) = 2 * i + 1
    BY <1>2 DEF Key
  <2>3. 2 * i + 1 \in Nat /\ 2 * i + 1 <= 2 * i + 1
    OBVIOUS
  <2>4. QED
    BY <2>1, <2>2, <2>3, SortedShort
<1>12. Sorted(ProfileIssues(f), 2 * i, 2 * i + 1)
  <2>1. 2 * i \in Nat /\ 2 * i + 1 \in Nat /\ 2 * i <= 2 * i + 1
    OBVIOUS
  <2>2. QED
    BY <1>6, <1>10, <1>11, <2>1, SortedConcat
<1>13. QED
  BY <1>1, <1>12

(* The loop has a result after every profile.                              *)
LEMMA LeastNatural ==
  ASSUME NEW T, T \subseteq Nat, T # {}
  PROVE  \E x \in T : \A y \in T : x <= y
<1> DEFINE R == {ss \in Nat \X Nat : ss[1] < ss[2]}
<1>1. IsWellFoundedOn(R, Nat)
  BY NatLessThanWellFounded DEF OpToRel
<1>2. \A x, y \in Nat : y < x => <<y, x>> \in R
  OBVIOUS
<1> HIDE DEF R
<1>3. PICK x \in T : \A y \in T : ~(<<y, x>> \in R)
  BY <1>1, WFMin
<1>4. \A y \in T : ~(y < x)
  BY <1>2, <1>3, Zenon
<1>5. \A y \in T : x <= y
  BY <1>4
<1>6. QED
  BY <1>5

IssuesAt(i) == IF FieldOrder[i] \in DOMAIN accs THEN ProfileIssues(FieldOrder[i]) ELSE <<>>

IssuesAtFirst == IF "" \in DOMAIN accs THEN <<<<"", "empty_field_name">>>> ELSE <<>>

Loops(g, n) == g = [i \in 0..n |-> IF i = 0 THEN IssuesAtFirst ELSE g[i - 1] \o IssuesAt(i)]

LEMMA LoopExists ==
  ASSUME NEW n \in Nat
  PROVE  \E g : Loops(g, n)
<1> DEFINE Bad == {k \in Nat : ~\E g : Loops(g, k)}
<1>1. SUFFICES ASSUME Bad # {} PROVE FALSE
  OBVIOUS
<1>2. PICK k \in Bad : \A m \in Bad : k <= m
  BY <1>1, LeastNatural
<1>3. k \in Nat /\ ~\E g : Loops(g, k)
  OBVIOUS
<1>4. CASE k = 0
  <2>1. Loops([i \in 0..0 |-> IssuesAtFirst], 0)
    BY DEF Loops
  <2>2. QED
    BY <1>3, <1>4, <2>1
<1>5. CASE k # 0
  <2>1. k - 1 \in Nat /\ ~(k <= k - 1)
    BY <1>3, <1>5
  <2>2. k - 1 \notin Bad
    BY <1>2, <2>1
  <2>3. PICK g : Loops(g, k - 1)
    BY <2>1, <2>2
  <2>4. PICK h : h = [i \in 0..k |-> IF i = k THEN g[k - 1] \o IssuesAt(k) ELSE g[i]]
    OBVIOUS
  <2>5. \A i \in 0..k - 1 : h[i] = g[i]
    BY <1>3, <2>4
  <2>6. \A i \in 0..k - 1 : g[i] = IF i = 0 THEN IssuesAtFirst ELSE g[i - 1] \o IssuesAt(i)
    BY <2>3 DEF Loops
  <2>7. \A i \in 0..k : h[i] = IF i = 0 THEN IssuesAtFirst ELSE h[i - 1] \o IssuesAt(i)
    <3> SUFFICES ASSUME NEW i \in 0..k
                 PROVE  h[i] = IF i = 0 THEN IssuesAtFirst ELSE h[i - 1] \o IssuesAt(i)
      OBVIOUS
    <3>1. CASE i = k
      <4>1. k - 1 \in 0..k - 1 /\ i # 0
        BY <1>3, <1>5, <3>1
      <4>2. h[i - 1] = g[k - 1]
        BY <2>5, <3>1, <4>1
      <4>3. h[i] = g[k - 1] \o IssuesAt(k)
        BY <2>4, <3>1
      <4>4. QED
        BY <3>1, <4>1, <4>2, <4>3
    <3>2. CASE i # k
      <4>1. i \in 0..k - 1 /\ (i # 0 => i - 1 \in 0..k - 1)
        BY <1>3, <3>2
      <4>2. QED
        BY <2>5, <2>6, <4>1
    <3>3. QED
      BY <3>1, <3>2
  <2>8. Loops(h, k)
    BY <2>4, <2>7 DEF Loops
  <2>9. QED
    BY <1>3, <2>8
<1>6. QED
  BY <1>4, <1>5

LEMMA IssuesUpToLoops ==
  \A i \in 0..Len(FieldOrder) :
    IssuesUpTo[i] = IF i = 0 THEN IssuesAtFirst ELSE IssuesUpTo[i - 1] \o IssuesAt(i)
<1>1. Len(FieldOrder) \in Nat
  BY ConstantsAssumption
<1>2. \E g : Loops(g, Len(FieldOrder))
  BY <1>1, LoopExists
<1>3. Loops(IssuesUpTo, Len(FieldOrder))
  BY <1>2 DEF IssuesUpTo, Loops, IssuesAt, IssuesAtFirst
<1>4. QED
  BY <1>3 DEF Loops
LEMMA IssuesUpToSorted ==
  ASSUME IInv, NEW n \in 0..Len(FieldOrder)
  PROVE  Sorted(IssuesUpTo[n], 0, 2 * n + 1)
<1> DEFINE Bad == {k \in 0..Len(FieldOrder) : ~Sorted(IssuesUpTo[k], 0, 2 * k + 1)}
<1>1. SUFFICES ASSUME Bad # {} PROVE FALSE
  OBVIOUS
<1>2. Bad \subseteq Nat /\ Len(FieldOrder) \in Nat
  BY ConstantsAssumption
<1>3. PICK k \in Bad : \A m \in Bad : k <= m
  BY <1>1, <1>2, LeastNatural
<1>4. k \in 0..Len(FieldOrder) /\ k \in Nat /\ ~Sorted(IssuesUpTo[k], 0, 2 * k + 1)
  BY <1>2
<1>5. CASE k = 0
  <2>1. IssuesUpTo[k] = IssuesAtFirst
    BY <1>4, <1>5, IssuesUpToLoops
  <2>2. PICK b \in BOOLEAN : b <=> "" \in DOMAIN accs
    OBVIOUS
  <2>3. b => <<"", "empty_field_name">> \in Warranted
    <3>1. b => Column("") # {}
      BY <2>2 DEF IInv, Column
    <3>2. QED
      BY <3>1 DEF Warranted
  <2>4. Key(<<"", "empty_field_name">>) = 0
    BY DEF Key
  <2>5. Sorted(IF b THEN <<<<"", "empty_field_name">>>> ELSE <<>>, 0, 1)
    <3>1. 0 \in Nat /\ 1 \in Nat /\ 0 <= 0 /\ 0 <= 1
      OBVIOUS
    <3>2. QED
      BY <2>3, <2>4, <3>1, SortedShort
  <2>6. Sorted(IssuesUpTo[k], 0, 1)
    BY <2>1, <2>2, <2>5 DEF IssuesAtFirst
  <2>7. 2 * k + 1 = 1
    BY <1>5
  <2>8. QED
    BY <1>4, <2>6, <2>7
<1>6. CASE k # 0
  <2>1. /\ k - 1 \in 0..Len(FieldOrder) /\ k - 1 \in Nat /\ ~(k <= k - 1) /\ k \in 1..Len(FieldOrder)
        /\ 2 * (k - 1) + 1 = 2 * k - 1
    BY <1>2, <1>4, <1>6
  <2>2. Sorted(IssuesUpTo[k - 1], 0, 2 * (k - 1) + 1)
    BY <1>3, <2>1
  <2>3. IssuesUpTo[k] = IssuesUpTo[k - 1] \o IssuesAt(k)
    BY <1>4, <1>6, IssuesUpToLoops
  <2>4. Sorted(IssuesAt(k), 2 * k, 2 * k + 1)
    <3>1. CASE FieldOrder[k] \in DOMAIN accs
      BY <2>1, <3>1, ProfileIssuesSorted DEF IssuesAt
    <3>2. CASE FieldOrder[k] \notin DOMAIN accs
      <4>1. IssuesAt(k) = <<>>
        BY <3>2 DEF IssuesAt
      <4>2. <<>> \in Seq(Warranted) /\ Len(<<>>) = 0 /\ 1..0 = {}
        OBVIOUS
      <4>3. QED
        BY <4>1, <4>2 DEF Sorted
    <3>3. QED
      BY <3>1, <3>2
  <2>5. PICK mid \in Nat : mid = 2 * k - 1
    BY <2>1
  <2>6. /\ Sorted(IssuesUpTo[k - 1], 0, mid) /\ Sorted(IssuesAt(k), mid + 1, 2 * k + 1)
        /\ 2 * k + 1 \in Nat /\ 0 <= mid + 1 /\ mid <= 2 * k + 1
    <3>1. mid + 1 = 2 * k /\ 2 * k + 1 \in Nat /\ 0 <= mid + 1 /\ mid <= 2 * k + 1
      BY <1>4, <2>5
    <3>2. QED
      BY <2>1, <2>2, <2>4, <2>5, <3>1
  <2>7. Sorted(IssuesUpTo[k - 1] \o IssuesAt(k), 0, 2 * k + 1)
    BY <2>6, SortedConcat
  <2>8. QED
    BY <1>4, <2>3, <2>7
<1>7. QED
  BY <1>5, <1>6

LEMMA FieldRanked ==
  ASSUME IInv, NEW f \in DOMAIN accs
  PROVE  Rank(f) \in Nat
<1>1. PICK i \in DOMAIN sampled : f \in DOMAIN sampled[i]
  BY DEF IInv
<1>2. sampled[i] \in Records
  BY ElementOfSeq, LenProperties DEF IInv
<1>3. f \in ToSet(FieldOrder)
  BY <1>1, <1>2, ConstantsAssumption
<1>4. PICK k \in 1..Len(FieldOrder) : FieldOrder[k] = f
  BY <1>3, ConstantsAssumption DEF ToSet
<1>5. QED
  BY <1>4, RankOf, ConstantsAssumption

(* Sorted, warranted issues are what IssuesJustified asks for.             *)
LEMMA SortedAreJustified ==
  ASSUME IInv, NEW s, NEW hi \in Nat, Sorted(s, 0, hi)
  PROVE  /\ IsInjective(s)
         /\ \A i \in DOMAIN s :
               CASE s[i][2] = "no_records_sampled" -> Len(s) = 1 /\ sampled = <<>>
                 [] s[i][2] = "empty_field_name"   -> i = 1 /\ s[i][1] = "" /\ Column("") # {}
                 [] s[i][2] = "high_null_ratio"    -> OfClass(s[i][1], "null") # {}
                 [] s[i][2] = "mixed_types"        -> \E t, u \in Classes(s[i][1]) : t # u
         /\ \A i, j \in DOMAIN s :
               i < j /\ s[i][2] # "empty_field_name" => Rank(s[i][1]) <= Rank(s[j][1])
<1>1. s \in Seq(Warranted) /\ Len(s) \in Nat /\ DOMAIN s = 1..Len(s)
  BY LenProperties DEF Sorted
<1>2. \A i \in DOMAIN s : s[i] \in Warranted /\ Key(s[i]) \in Nat
  <2>1. \A i \in DOMAIN s : s[i] \in Warranted
    BY <1>1, ElementOfSeq
  <2>2. \A i \in DOMAIN s : Key(s[i]) \in Nat
    BY <1>1 DEF Sorted
  <2>3. QED
    BY <2>1, <2>2
<1>3. \A i, j \in DOMAIN s : i < j => Key(s[i]) < Key(s[j])
  BY <1>1 DEF Sorted
<1>4. IsInjective(s)
  <2> SUFFICES ASSUME NEW i \in DOMAIN s, NEW j \in DOMAIN s, s[i] = s[j] PROVE i = j
    BY DEF IsInjective
  <2>1. ~(i < j) /\ ~(j < i)
    <3>1. Key(s[i]) = Key(s[j]) /\ Key(s[i]) \in Nat
      BY <1>2
    <3>2. QED
      BY <1>3, <3>1
  <2>2. i \in Nat /\ j \in Nat
    BY <1>1
  <2>3. QED
    BY <2>1, <2>2
<1>5. ASSUME NEW x \in Warranted
      PROVE  \/ x[2] = "empty_field_name" /\ x[1] = "" /\ Column("") # {} /\ Key(x) = 0
             \/ x[2] = "high_null_ratio" /\ OfClass(x[1], "null") # {} /\ Key(x) = 2 * Rank(x[1])
                /\ x[1] \in DOMAIN accs
             \/ x[2] = "mixed_types" /\ (\E t, u \in Classes(x[1]) : t # u) /\ Key(x) = 2 * Rank(x[1]) + 1
                /\ x[1] \in DOMAIN accs
  <2>1. CASE Column("") # {} /\ x = <<"", "empty_field_name">>
    <3>1. x[1] = "" /\ x[2] = "empty_field_name"
      BY <2>1
    <3>2. QED
      BY <2>1, <3>1 DEF Key
  <2>2. ASSUME NEW f \in DOMAIN accs, OfClass(f, "null") # {}, x = <<f, "high_null_ratio">>
        PROVE  /\ x[2] = "high_null_ratio" /\ OfClass(x[1], "null") # {} /\ Key(x) = 2 * Rank(x[1])
               /\ x[1] \in DOMAIN accs
    <3>1. x[1] = f /\ x[2] = "high_null_ratio"
      BY <2>2
    <3>2. QED
      BY <2>2, <3>1 DEF Key
  <2>3. ASSUME NEW f \in DOMAIN accs, NEW t \in Classes(f), NEW u \in Classes(f), t # u,
               x = <<f, "mixed_types">>
        PROVE  /\ x[2] = "mixed_types" /\ (\E v, w \in Classes(x[1]) : v # w)
               /\ Key(x) = 2 * Rank(x[1]) + 1 /\ x[1] \in DOMAIN accs
    <3>1. x[1] = f /\ x[2] = "mixed_types"
      BY <2>3
    <3>2. QED
      BY <2>3, <3>1 DEF Key
  <2>4. \/ Column("") # {} /\ x = <<"", "empty_field_name">>
        \/ \E f \in DOMAIN accs : OfClass(f, "null") # {} /\ x = <<f, "high_null_ratio">>
        \/ \E f \in DOMAIN accs : (\E t, u \in Classes(f) : t # u) /\ x = <<f, "mixed_types">>
    BY DEF Warranted
  <2>5. QED
    BY <2>1, <2>2, <2>3, <2>4
<1>6. \A i \in DOMAIN s : s[i][2] = "empty_field_name" => i = 1
  <2> SUFFICES ASSUME NEW i \in DOMAIN s, s[i][2] = "empty_field_name", i # 1 PROVE FALSE
    OBVIOUS
  <2>1. 1 \in DOMAIN s /\ 1 < i
    BY <1>1
  <2>2. Key(s[1]) < Key(s[i]) /\ Key(s[1]) \in Nat
    BY <1>2, <1>3, <2>1
  <2>3. Key(s[i]) = 0
    BY DEF Key
  <2>4. QED
    BY <2>2, <2>3
<1>7. ASSUME NEW i \in DOMAIN s
      PROVE  CASE s[i][2] = "no_records_sampled" -> Len(s) = 1 /\ sampled = <<>>
               [] s[i][2] = "empty_field_name"   -> i = 1 /\ s[i][1] = "" /\ Column("") # {}
               [] s[i][2] = "high_null_ratio"    -> OfClass(s[i][1], "null") # {}
               [] s[i][2] = "mixed_types"        -> \E t, u \in Classes(s[i][1]) : t # u
  BY <1>2, <1>5, <1>6
<1>8. ASSUME NEW i \in DOMAIN s, NEW j \in DOMAIN s, i < j, s[i][2] # "empty_field_name"
      PROVE  Rank(s[i][1]) <= Rank(s[j][1])
  <2>1. s[j][2] # "empty_field_name"
    <3>1. i \in 1..Len(s) /\ j # 1
      BY <1>1, <1>8
    <3>2. QED
      BY <1>6, <3>1
  <2>2. Key(s[i]) < Key(s[j]) /\ s[i] \in Warranted /\ s[j] \in Warranted
    BY <1>2, <1>3, <1>8
  <2>3. /\ Key(s[i]) = 2 * Rank(s[i][1]) \/ Key(s[i]) = 2 * Rank(s[i][1]) + 1
        /\ Key(s[j]) = 2 * Rank(s[j][1]) \/ Key(s[j]) = 2 * Rank(s[j][1]) + 1
        /\ s[i][1] \in DOMAIN accs /\ s[j][1] \in DOMAIN accs
    BY <1>5, <1>8, <2>1, <2>2
  <2>4. Rank(s[i][1]) \in Nat /\ Rank(s[j][1]) \in Nat
    BY <2>3, FieldRanked
  <2>5. QED
    BY <2>2, <2>3, <2>4
<1>9. QED
  BY <1>4, <1>7, <1>8
(* Issues come in the order of the fields, each once, and each has its     *)
(* reason in the sample.                                                   *)
THEOREM IssuesAreJustified == Spec => []IssuesJustified
<1>1. IInv => IssuesJustified
  <2> SUFFICES ASSUME IInv PROVE IssuesJustified
    OBVIOUS
  <2>1. PICK s, n : s = IssuesUpTo[Len(FieldOrder)] /\ n = Len(FieldOrder)
    OBVIOUS
  <2>2. n \in Nat /\ n \in 0..n /\ 2 * n + 1 \in Nat
    BY <2>1, ConstantsAssumption
  <2>3. Sorted(s, 0, 2 * n + 1)
    BY <2>1, <2>2, IssuesUpToSorted
  <2>4. s \in Seq(Warranted) /\ DOMAIN s = 1..Len(s) /\ Len(s) \in Nat
    BY <2>3, LenProperties DEF Sorted
  <2>5. CASE sampled # <<>>
    <3>1. Issues = s
      <4>1. Issues = s \o <<>>
        BY <2>1, <2>5 DEF Issues
      <4>2. QED
        BY <2>4, <4>1, ConcatEmptySeq
    <3>2. /\ IsInjective(s)
          /\ \A i \in DOMAIN s :
               CASE s[i][2] = "no_records_sampled" -> Len(s) = 1 /\ sampled = <<>>
                 [] s[i][2] = "empty_field_name"   -> i = 1 /\ s[i][1] = "" /\ Column("") # {}
                 [] s[i][2] = "high_null_ratio"    -> OfClass(s[i][1], "null") # {}
                 [] s[i][2] = "mixed_types"        -> \E t, u \in Classes(s[i][1]) : t # u
          /\ \A i, j \in DOMAIN s :
               i < j /\ s[i][2] # "empty_field_name" => Rank(s[i][1]) <= Rank(s[j][1])
      BY <2>2, <2>3, SortedAreJustified
    <3>3. QED
      BY <3>1, <3>2 DEF IssuesJustified
  <2>6. CASE sampled = <<>>
    <3>1. DOMAIN accs = {} /\ Column("") = {}
      BY <2>6 DEF IInv, Column
    <3>2. Warranted = {}
      BY <3>1 DEF Warranted
    <3>3. s = <<>>
      BY <2>4, <3>2, EmptySeq
    <3>4. Issues = <<<<"", "no_records_sampled">>>>
      BY <2>1, <2>6, <3>3, ConcatEmptySeq DEF Issues
    <3>5. PICK x : x = <<"", "no_records_sampled">>
      OBVIOUS
    <3>6. Issues = <<x>> /\ x[2] = "no_records_sampled"
      BY <3>4, <3>5
    <3>7. Len(Issues) = 1 /\ DOMAIN Issues = {1} /\ Issues[1] = x
      BY <3>6
    <3>8. IsInjective(Issues)
      BY <3>7 DEF IsInjective
    <3>9. \A i \in DOMAIN Issues : Issues[i][2] = "no_records_sampled" /\ Len(Issues) = 1
      BY <3>6, <3>7
    <3>10. \A i, j \in DOMAIN Issues : ~(i < j)
      BY <3>7
    <3>11. QED
      BY <2>6, <3>8, <3>9, <3>10 DEF IssuesJustified
  <2>7. QED
    BY <2>5, <2>6
<1>2. QED
  BY Inductive, <1>1, PTL
-----------------------------------------------------------------------------
(* Metrics.  The collector's copy and the pages of its exporters.          *)

LEMMA CountersInit == MetricsInit => ExportInv
BY DEF MetricsInit, ExportInv, MetricsTypeOK, Zero, Counters

(* Run only counts up, and only Run counts. *)
LEMMA CountStep ==
  ASSUME MetricsTypeOK, NEW c \in Counters, NEW from, NEW to \in {"loop", "holding", "rejecting", "ended"},
         Count(c, from, to)
  PROVE  /\ UNCHANGED <<tick, stop, round, exported>>
         /\ stats' \in [Counters -> Nat] /\ run' = to
         /\ \A d \in Counters : stats[d] <= stats'[d]
BY DEF MetricsTypeOK, Count

LEMMA RunStepCounts ==
  ASSUME MetricsTypeOK, RunStep
  PROVE  /\ UNCHANGED <<tick, stop, round, exported>>
         /\ stats' \in [Counters -> Nat] /\ run' \in {"loop", "holding", "rejecting", "ended"}
         /\ \A d \in Counters : stats[d] <= stats'[d]
<1>1. CASE CountRead BY <1>1, CountStep DEF CountRead, Counters
<1>2. CASE CountInvalid BY <1>2, CountStep DEF CountInvalid, Counters
<1>3. CASE CountWritten BY <1>3, CountStep DEF CountWritten, Counters
<1>4. CASE CountFailed BY <1>4, CountStep DEF CountFailed, Counters
<1>5. CASE GoOn BY <1>5 DEF GoOn, MetricsTypeOK
<1>6. QED
  BY <1>1, <1>2, <1>3, <1>4, <1>5 DEF RunStep

(* Every step keeps the exported numbers behind the copy and the copy       *)
(* behind the pipeline, and each of the three only grows.                   *)
LEMMA CountersStep ==
  ASSUME ExportInv, [MetricsNext]_metricsVars
  PROVE  /\ ExportInv'
         /\ \A e \in Exporters, c \in Counters : exported[e][c] <= exported'[e][c]
<1> USE DEF ExportInv, MetricsTypeOK, pipeline, round
<1>1. CASE RunStep
  BY <1>1, RunStepCounts
<1>2. CASE Collect BY <1>2 DEF Collect
<1>3. CASE Tick BY <1>3 DEF Tick
<1>4. CASE TakeTick BY <1>4 DEF TakeTick, AskAll
<1>5. CASE Copied BY <1>5 DEF Copied
<1>6. CASE UpdateStats BY <1>6 DEF UpdateStats, Update
<1>7. CASE RoundDone BY <1>7 DEF RoundDone
<1>8. ASSUME NEW c \in Counters, CopyCounter(c)
      PROVE  ExportInv' /\ \A e \in Exporters, d \in Counters : exported[e][d] <= exported'[e][d]
  BY <1>8 DEF CopyCounter
<1>9. CASE Stop BY <1>9 DEF Stop
<1>10. CASE SeeStop BY <1>10 DEF SeeStop
<1>11. CASE UNCHANGED metricsVars BY <1>11 DEF metricsVars
<1>12. QED
  BY <1>1, <1>2, <1>3, <1>4, <1>5, <1>6, <1>7, <1>8, <1>9, <1>10, <1>11 DEF MetricsNext, Round

LEMMA CountersInductive == MetricsSpec => []ExportInv
<1>1. ExportInv /\ [MetricsNext]_metricsVars => ExportInv'
  BY CountersStep
<1>2. QED
  BY CountersInit, <1>1, PTL DEF MetricsSpec

(* No exporter ever shows less than before or more than was counted.       *)
THEOREM ExportsGrow == MetricsSpec => SeriesAreCounters
<1>1. ExportInv /\ [MetricsNext]_metricsVars =>
        \A e \in Exporters :
          /\ \A s \in {"read", "written", "invalid", "failed"} : Page(e)'[s] >= Page(e)[s]
          /\ \A c \in Counters : exported'[e][c] <= stats'[c]
  <2> SUFFICES ASSUME ExportInv, [MetricsNext]_metricsVars, NEW e \in Exporters
               PROVE  /\ \A s \in {"read", "written", "invalid", "failed"} : Page(e)'[s] >= Page(e)[s]
                      /\ \A c \in Counters : exported'[e][c] <= stats'[c]
    OBVIOUS
  <2>1. /\ ExportInv'
        /\ \A c \in Counters : exported[e][c] <= exported'[e][c]
    BY CountersStep
  <2>2. \A c \in Counters : /\ exported[e][c] \in Nat /\ exported'[e][c] \in Nat
                            /\ exported'[e][c] <= stats'[c]
    BY <2>1 DEF ExportInv, MetricsTypeOK
  <2>3. \A s \in {"read", "written", "invalid", "failed"} : Page(e)'[s] >= Page(e)[s]
    BY <2>1, <2>2 DEF Page, Counters
  <2>4. QED
    BY <2>2, <2>3
<1>2. QED
  BY CountersInductive, <1>1, PTL DEF MetricsSpec, SeriesAreCounters
=============================================================================
