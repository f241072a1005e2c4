---------------------------- MODULE StagesProofs ----------------------------
(***************************************************************************)
(* Theorems about Stages for every lexicon of texts, all records and field *)
(* names, and chains of any of the packages' transformers of any length;   *)
(* about the names NormalizeHeaders gives, for names of every length; and   *)
(* about the validators asked of what such a chain left.                   *)
(***************************************************************************)
EXTENDS Stages, SequenceTheorems, FiniteSetTheorems, WellFoundedInduction, TLAPS

(* NoText of a record that is not nil. *)
Lacks(r, f) == f \notin DOMAIN r \/ ~IsText(r[f])

-----------------------------------------------------------------------------
(* The transformers.                                                       *)

(* What the sixteen are made of. *)
LEMMA ApplyCases ==
  ASSUME NEW t, NEW r, r # Nil
  PROVE  /\ t.op = "ParseFloat" => Apply(t, r) = ParseFloat(r, t.field)
         /\ t.op = "ParseInt" => Apply(t, r) = ParseInt(r, t.field)
         /\ t.op = "ParseBool" => Apply(t, r) = ParseBool(r, t.field)
         /\ t.op = "ParseDate" => Apply(t, r) = ParseDate(r, t.field, t.layouts)
         /\ t.op = "Rename" => Apply(t, r) = Rename(r, t.from, t.to)
         /\ t.op = "Drop" => Apply(t, r) = Drop(r, t.fields)
         /\ t.op = "Keep" => Apply(t, r) = Keep(r, t.fields)
         /\ t.op = "AddField" => Apply(t, r) = AddField(r, t.field, t.value)
         /\ t.op = "Copy" => Apply(t, r) = Copy(r, t.from, t.to)
         /\ t.op = "MapField" => Apply(t, r) = MapField(r, t.field, t.fn)
         /\ t.op = "TrimStrings" => Apply(t, r) = TrimStrings(r, t.fields)
         /\ t.op = "LowerStrings" => Apply(t, r) = LowerStrings(r, t.fields)
         /\ t.op = "UpperStrings" => Apply(t, r) = UpperStrings(r, t.fields)
         /\ t.op = "NormalizeHeaders" => Apply(t, r) = NormalizeHeaders(r, t.style)
         /\ t.op = "CacheLookup" => Apply(t, r) = CacheLookup(r, t.field, t.cache)
         /\ t.op = "StaticMapEnrich" => Apply(t, r) = StaticMapEnrich(r, t.field, t.to, t.mapping)
BY DEF Apply

(* What a transformer gives is a map of its own, or the one it was given. *)
LEMMA NewOrSame ==
  ASSUME NEW t, t.op \in Operations, NEW r
  PROVE  Apply(t, r).new \/ Apply(t, r).rec = r
<1>1. CASE r = Nil
  BY <1>1 DEF Apply, Same
<1>2. CASE r # Nil
  <2> DEFINE Made(result) == result.new \/ result.rec = r
  <2>1. (\A s : Made(Cloned(s)) /\ Made(Failed(s))) /\ Made(Same(r)) /\ Made(Panics(r))
    BY DEF Cloned, Failed, Same, Panics
  <2> HIDE DEF Made
  <2>2. \A f, type, reading : Made(Parse(r, f, type, reading))
    BY <2>1 DEF Parse, Cleared
  <2>3. /\ \A f : Made(ParseFloat(r, f)) /\ Made(ParseInt(r, f)) /\ Made(ParseBool(r, f))
        /\ \A f, layouts : Made(ParseDate(r, f, layouts))
    BY <2>1, <2>2 DEF ParseFloat, ParseInt, ParseBool, ParseDate
  <2>4. \A f, g : Made(Rename(r, f, g))
    BY <2>1 DEF Rename
  <2>5. \A F : Made(Drop(r, F))
    BY <2>1 DEF Drop
  <2>6. \A F : Made(Keep(r, F))
    BY <2>1 DEF Keep
  <2>7. \A f, v : Made(AddField(r, f, v))
    BY <2>1 DEF AddField
  <2>8. \A f, g : Made(Copy(r, f, g))
    BY <2>1 DEF Copy
  <2>9. \A f, fn : Made(MapField(r, f, fn))
    BY <2>1 DEF MapField
  <2>10. \A F : Made(TrimStrings(r, F))
    BY <2>1 DEF TrimStrings, OnStrings
  <2>11. \A F : Made(LowerStrings(r, F))
    BY <2>1 DEF LowerStrings, OnStrings
  <2>12. \A F : Made(UpperStrings(r, F))
    BY <2>1 DEF UpperStrings, OnStrings
  <2>13. \A style : Made(NormalizeHeaders(r, style))
    BY <2>1 DEF NormalizeHeaders
  <2>14. \A f, cache : Made(CacheLookup(r, f, cache))
    BY <2>1 DEF CacheLookup
  <2>15. \A f, g, mapping : Made(StaticMapEnrich(r, f, g, mapping))
    BY <2>1 DEF StaticMapEnrich
  <2>16. Made(Apply(t, r))
    <3>1. CASE t.op \in {"ParseFloat", "ParseInt", "ParseBool", "ParseDate", "Rename"}
      BY <1>2, <2>3, <2>4, <3>1, ApplyCases
    <3>2. CASE t.op \in {"Drop", "Keep", "AddField", "Copy", "MapField"}
      BY <1>2, <2>5, <2>6, <2>7, <2>8, <2>9, <3>2, ApplyCases
    <3>3. CASE t.op \in {"TrimStrings", "LowerStrings", "UpperStrings"}
      BY <1>2, <2>10, <2>11, <2>12, <3>3, ApplyCases
    <3>4. CASE t.op \in {"NormalizeHeaders", "CacheLookup", "StaticMapEnrich"}
      BY <1>2, <2>13, <2>14, <2>15, <3>4, ApplyCases
    <3>5. QED
      BY <3>1, <3>2, <3>3, <3>4 DEF Operations
  <2>17. QED
    BY <2>16 DEF Made
<1>3. QED
  BY <1>1, <1>2

(* Only the lookup panics: on an entry of its cache that is no map. *)
LEMMA OnlyLookupPanics ==
  ASSUME NEW t, t.op \in Operations, NEW r, Apply(t, r).panics
  PROVE  t.op = "CacheLookup"
<1> SUFFICES ASSUME t.op # "CacheLookup" PROVE ~Apply(t, r).panics
  OBVIOUS
<1>1. CASE r = Nil
  BY <1>1 DEF Apply, Same
<1>2. CASE r # Nil
  <2> DEFINE Calm(result) == ~result.panics
  <2>1. \A s : Calm(Cloned(s)) /\ Calm(Failed(s)) /\ Calm(Same(s))
    BY DEF Cloned, Failed, Same
  <2> HIDE DEF Calm
  <2>2. \A f, type, reading : Calm(Parse(r, f, type, reading))
    BY <2>1 DEF Parse, Cleared
  <2>3. /\ \A f : Calm(ParseFloat(r, f)) /\ Calm(ParseInt(r, f)) /\ Calm(ParseBool(r, f))
        /\ \A f, layouts : Calm(ParseDate(r, f, layouts))
    BY <2>1, <2>2 DEF ParseFloat, ParseInt, ParseBool, ParseDate
  <2>4. \A f, g : Calm(Rename(r, f, g))
    BY <2>1 DEF Rename
  <2>5. \A F : Calm(Drop(r, F))
    BY <2>1 DEF Drop
  <2>6. \A F : Calm(Keep(r, F))
    BY <2>1 DEF Keep
  <2>7. \A f, v : Calm(AddField(r, f, v))
    BY <2>1 DEF AddField
  <2>8. \A f, g : Calm(Copy(r, f, g))
    BY <2>1 DEF Copy
  <2>9. \A f, fn : Calm(MapField(r, f, fn))
    BY <2>1 DEF MapField
  <2>10. \A F : Calm(TrimStrings(r, F))
    BY <2>1 DEF TrimStrings, OnStrings
  <2>11. \A F : Calm(LowerStrings(r, F))
    BY <2>1 DEF LowerStrings, OnStrings
  <2>12. \A F : Calm(UpperStrings(r, F))
    BY <2>1 DEF UpperStrings, OnStrings
  <2>13. \A style : Calm(NormalizeHeaders(r, style))
    BY <2>1 DEF NormalizeHeaders
  <2>14. \A f, g, mapping : Calm(StaticMapEnrich(r, f, g, mapping))
    BY <2>1 DEF StaticMapEnrich
  <2>15. Calm(Apply(t, r))
    <3>1. CASE t.op \in {"ParseFloat", "ParseInt", "ParseBool", "ParseDate", "Rename"}
      BY <1>2, <2>3, <2>4, <3>1, ApplyCases
    <3>2. CASE t.op \in {"Drop", "Keep", "AddField", "Copy", "MapField"}
      BY <1>2, <2>5, <2>6, <2>7, <2>8, <2>9, <3>2, ApplyCases
    <3>3. CASE t.op \in {"TrimStrings", "LowerStrings", "UpperStrings"}
      BY <1>2, <2>10, <2>11, <2>12, <3>3, ApplyCases
    <3>4. CASE t.op \in {"NormalizeHeaders", "StaticMapEnrich"}
      BY <1>2, <2>13, <2>14, <3>4, ApplyCases
    <3>5. QED
      BY <3>1, <3>2, <3>3, <3>4 DEF Operations
  <2>16. QED
    BY <2>15 DEF Calm
<1>3. QED
  BY <1>1, <1>2

(* A parser that does not fail leaves no text in its field. *)
LEMMA ParsedIsTyped ==
  ASSUME NEW t, Parses(t), NEW r, ~Apply(t, r).err
  PROVE  NoText(Apply(t, r).rec, t.field)
<1>1. CASE r = Nil
  BY <1>1 DEF Apply, Same, NoText, Fields
<1>2. CASE r # Nil
  <2>1. ASSUME NEW f, NEW type, type # "text", NEW reading, ~Parse(r, f, type, reading).err
        PROVE  NoText(Parse(r, f, type, reading).rec, f)
    <3>1. CASE f \notin DOMAIN r \/ ~IsText(r[f])
      BY <1>2, <3>1 DEF Parse, Cloned, NoText, Fields
    <3>2. CASE f \in DOMAIN r /\ IsText(r[f]) /\ Trimmed(r, f) = ""
      <4>1. Parse(r, f, type, reading).rec = Without(r, {f})
        BY <3>2 DEF Parse, Cleared, Cloned
      <4>2. f \notin DOMAIN Without(r, {f})
        BY DEF Without
      <4>3. QED
        BY <4>1, <4>2 DEF NoText, Fields
    <3>3. CASE f \in DOMAIN r /\ IsText(r[f]) /\ Trimmed(r, f) # ""
      <4>1. Parse(r, f, type, reading) = Cloned(With(r, f, <<type, reading[1]>>))
        BY <2>1, <3>3 DEF Parse, Failed
      <4>2. With(r, f, <<type, reading[1]>>)[f] = <<type, reading[1]>>
        BY DEF With
      <4>3. ~IsText(<<type, reading[1]>>)
        BY <2>1 DEF IsText
      <4>4. QED
        BY <4>1, <4>2, <4>3 DEF Cloned, NoText
    <3>4. QED
      BY <3>1, <3>2, <3>3
  <2>2. CASE t.op = "ParseFloat"
    BY <1>2, <2>1, <2>2, ApplyCases DEF ParseFloat
  <2>3. CASE t.op = "ParseInt"
    BY <1>2, <2>1, <2>3, ApplyCases DEF ParseInt
  <2>4. CASE t.op = "ParseBool"
    BY <1>2, <2>1, <2>4, ApplyCases DEF ParseBool
  <2>5. CASE t.op = "ParseDate"
    BY <1>2, <2>1, <2>5, ApplyCases DEF ParseDate, Failed
  <2>6. QED
    BY <2>2, <2>3, <2>4, <2>5 DEF Parses
<1>3. QED
  BY <1>1, <1>2

-----------------------------------------------------------------------------
(* A transformer that does not write a field makes no text of it.          *)

(* A field that lacks a text goes on lacking it when another one is written, *)
(* or it itself with something else; or when fields are removed.             *)
LEMMA WithKeeps ==
  ASSUME NEW r, NEW f, Lacks(r, f), NEW g, NEW v, g # f \/ ~IsText(v)
  PROVE  Lacks(With(r, g, v), f)
<1>1. f \in DOMAIN With(r, g, v) => f \in DOMAIN r \/ f = g
  BY DEF With
<1>2. f \in DOMAIN With(r, g, v) => With(r, g, v)[f] = IF f = g THEN v ELSE r[f]
  BY DEF With
<1>3. QED
  BY <1>1, <1>2 DEF Lacks

LEMMA WithoutKeeps ==
  ASSUME NEW r, NEW f, Lacks(r, f), NEW F
  PROVE  Lacks(Without(r, F), f)
BY DEF Lacks, Without

(* A field that has no text gets one only from a stage that writes it. *)
LEMMA UnwrittenStaysTyped ==
  ASSUME NEW t, t.op \in Operations, NEW r, NEW f, ~Writes(t, f), NoText(r, f), ~Apply(t, r).err
  PROVE  NoText(Apply(t, r).rec, f)
<1>1. CASE r = Nil
  BY <1>1 DEF Apply, Same
<1>2. CASE r # Nil
  <2>1. \A s : Cloned(s).rec = s /\ Failed(s).err /\ Same(s).rec = s /\ Panics(s).err
    BY DEF Cloned, Failed, Same, Panics
  <2>2. Lacks(r, f) /\ \A s : Lacks(s, f) => NoText(s, f)
    BY <1>2 DEF Lacks, NoText, Fields
  <2>3. ASSUME NEW g, NEW type, type # "text", NEW reading, ~Parse(r, g, type, reading).err
        PROVE  NoText(Parse(r, g, type, reading).rec, f)
    <3>1. ~IsText(<<type, reading[1]>>)
      BY <2>3 DEF IsText
    <3>2. Lacks(With(r, g, <<type, reading[1]>>), f)
      BY <2>2, <3>1, WithKeeps
    <3>3. Lacks(Without(r, {g}), f)
      BY <2>2, WithoutKeeps
    <3>4. \/ Parse(r, g, type, reading).rec \in {r, Without(r, {g}), With(r, g, <<type, reading[1]>>)}
          \/ Parse(r, g, type, reading).err
      <4>1. CASE g \notin DOMAIN r \/ ~IsText(r[g])
        BY <2>1, <4>1 DEF Parse
      <4>2. CASE g \in DOMAIN r /\ IsText(r[g]) /\ Trimmed(r, g) = ""
        BY <2>1, <4>2 DEF Parse, Cleared
      <4>3. CASE g \in DOMAIN r /\ IsText(r[g]) /\ Trimmed(r, g) # ""
        BY <2>1, <4>3 DEF Parse
      <4>4. QED
        BY <4>1, <4>2, <4>3
    <3>5. QED
      BY <2>2, <2>3, <3>2, <3>3, <3>4
  <2>4. CASE t.op \in {"ParseFloat", "ParseInt", "ParseBool"}
    BY <1>2, <2>3, <2>4, ApplyCases DEF ParseFloat, ParseInt, ParseBool
  <2>5. CASE t.op = "ParseDate"
    <3>1. \A g, layouts : ~ParseDate(r, g, layouts).err => NoText(ParseDate(r, g, layouts).rec, f)
      BY <2>1, <2>3 DEF ParseDate
    <3>2. QED
      BY <1>2, <2>5, <3>1, ApplyCases
  <2>6. CASE t.op = "Rename"
    <3>1. t.from # f /\ t.to # f
      BY <2>6 DEF Writes
    <3>2. Lacks(With(Without(r, {t.from}), t.to, r[t.from]), f)
      BY <2>2, <3>1, WithoutKeeps, WithKeeps
    <3>3. QED
      BY <1>2, <2>1, <2>2, <2>6, <3>2, ApplyCases DEF Rename
  <2>7. CASE t.op = "Drop"
    BY <1>2, <2>1, <2>2, <2>7, WithoutKeeps, ApplyCases DEF Drop
  <2>8. CASE t.op = "Keep"
    <3>1. \A F : Keep(r, F).rec = Without(r, DOMAIN r \ F)
      BY <2>1 DEF Keep
    <3>2. Lacks(Without(r, DOMAIN r \ t.fields), f)
      BY <2>2, WithoutKeeps
    <3>3. QED
      BY <1>2, <2>2, <2>8, <3>1, <3>2, ApplyCases
  <2>9. CASE t.op \in {"AddField", "MapField"}
    <3>1. t.field # f
      BY <2>9 DEF Writes
    <3>2. \A v : Lacks(With(r, t.field, v), f)
      BY <2>2, <3>1, WithKeeps
    <3>3. CASE t.op = "AddField"
      BY <1>2, <2>1, <2>2, <3>2, <3>3, ApplyCases DEF AddField
    <3>4. CASE t.op = "MapField"
      BY <1>2, <2>1, <2>2, <3>2, <3>4, ApplyCases DEF MapField
    <3>5. QED
      BY <2>9, <3>3, <3>4
  <2>10. CASE t.op \in {"Copy", "StaticMapEnrich"}
    <3>1. t.to # f
      BY <2>10 DEF Writes
    <3>2. \A v : Lacks(With(r, t.to, v), f)
      BY <2>2, <3>1, WithKeeps
    <3>3. CASE t.op = "Copy"
      BY <1>2, <2>1, <2>2, <3>2, <3>3, ApplyCases DEF Copy
    <3>4. CASE t.op = "StaticMapEnrich"
      <4>1. \A mapping : NoText(StaticMapEnrich(r, t.field, t.to, mapping).rec, f)
        BY <2>1, <2>2, <3>2 DEF StaticMapEnrich
      <4>2. QED
        BY <1>2, <3>4, <4>1, ApplyCases
    <3>5. QED
      BY <2>10, <3>3, <3>4
  <2>11. CASE t.op \in {"TrimStrings", "LowerStrings", "UpperStrings"}
    <3>1. \A F : /\ Lacks(TrimStrings(r, F).rec, f) /\ Lacks(LowerStrings(r, F).rec, f)
                 /\ Lacks(UpperStrings(r, F).rec, f)
      BY <2>2 DEF Lacks, TrimStrings, LowerStrings, UpperStrings, OnStrings, Cloned
    <3>2. CASE t.op = "TrimStrings"
      BY <1>2, <2>2, <3>1, <3>2, ApplyCases
    <3>3. CASE t.op = "LowerStrings"
      BY <1>2, <2>2, <3>1, <3>3, ApplyCases
    <3>4. CASE t.op = "UpperStrings"
      BY <1>2, <2>2, <3>1, <3>4, ApplyCases
    <3>5. QED
      BY <2>11, <3>2, <3>3, <3>4
  <2>12. CASE t.op \in {"NormalizeHeaders", "CacheLookup"}
    BY <2>12 DEF Writes
  <2>13. QED
    BY <2>4, <2>5, <2>6, <2>7, <2>8, <2>9, <2>10, <2>11, <2>12 DEF Operations
<1>3. QED
  BY <1>1, <1>2

-----------------------------------------------------------------------------
(* The heap.                                                               *)

(* The heap is not empty, and a sequence. *)
LEMMA HeapFacts ==
  ASSUME HeapOK
  PROVE  Len(heap) \in Nat \ {0} /\ DOMAIN heap = 1..Len(heap)
BY EmptySeq, LenProperties DEF HeapOK

(* A sequence is one of its own elements. *)
LEMMA SeqOfItself ==
  ASSUME NEW S, NEW s \in Seq(S)
  PROVE  s \in Seq({s[i] : i \in DOMAIN s})
<1> DEFINE n == Len(s)
           T == {s[i] : i \in DOMAIN s}
<1>1. n \in Nat /\ DOMAIN s = 1..n /\ s = [i \in 1..n |-> s[i]]
  BY LenProperties
<1>2. \A i \in 1..n : s[i] \in T
  BY <1>1
<1> HIDE DEF n, T
<1>3. s \in [1..n -> T]
  BY <1>1, <1>2
<1>4. s \in Seq(T)
  BY <1>1, <1>3, SeqDef
<1>5. QED
  BY <1>4 DEF T

(* Placing a result leaves every map that is on the heap as it is. *)
LEMMA PlaceKeeps ==
  ASSUME HeapOK, NEW result, result.new \/ result.rec = Current
  PROVE  /\ Place(result) # <<>> /\ Place(result) \in Seq({Place(result)[i] : i \in DOMAIN Place(result)})
         /\ Len(Place(result)) >= Len(heap)
         /\ Place(result)[Len(Place(result))] = result.rec
         /\ \A i \in DOMAIN heap : Place(result)[i] = heap[i]
<1> DEFINE T == {heap[i] : i \in DOMAIN heap} \cup {result.rec}
<1>1. heap \in Seq(T) /\ Len(heap) \in Nat \ {0} /\ DOMAIN heap = 1..Len(heap) /\ result.rec \in T
  BY HeapFacts, SeqMonotonic DEF HeapOK
<1> HIDE DEF T
<1>2. CASE result.new
  <2>1. Place(result) = Append(heap, result.rec)
    BY <1>2 DEF Place
  <2>2. /\ Append(heap, result.rec) \in Seq(T) /\ Append(heap, result.rec) # <<>>
        /\ Len(Append(heap, result.rec)) = Len(heap) + 1
        /\ \A i \in 1..Len(heap) : Append(heap, result.rec)[i] = heap[i]
        /\ Append(heap, result.rec)[Len(heap) + 1] = result.rec
    BY <1>1, AppendProperties
  <2>3. QED
    BY <1>1, <2>1, <2>2, SeqOfItself
<1>3. CASE ~result.new
  <2>1. result.rec = heap[Len(heap)]
    BY <1>3 DEF Current
  <2>2. Place(result) = [heap EXCEPT ![Len(heap)] = heap[Len(heap)]]
    BY <1>3, <2>1 DEF Place
  <2>3. Place(result) = heap
    BY <1>1, <2>2
  <2>4. QED
    BY <1>1, <2>1, <2>3, SeqOfItself, EmptySeq DEF HeapOK
<1>4. QED
  BY <1>2, <1>3

-----------------------------------------------------------------------------
(* Sequences: induction over them, and functions that are defined by what   *)
(* they make of one element more.  The library's theorems about both have   *)
(* an operator for a parameter; here it is a set and a function.           *)

(* A set of naturals that is not empty has a least one. *)
LEMMA LeastNatural ==
  ASSUME NEW T, T \subseteq Nat, T # {}
  PROVE  \E x \in T : \A y \in T : x <= y
<1> DEFINE R == {ss \in Nat \X Nat : ss[1] < ss[2]}
<1>1. IsWellFoundedOn(R, Nat)
  BY NatLessThanWellFounded DEF OpToRel
<1>2. \A x, y \in Nat : y < x => <<y, x>> \in R
  OBVIOUS
<1> HIDE DEF R
<1>3. PICK x \in T : \A y \in T : ~(<<y, x>> \in R)
  BY <1>1, WFMin
<1>4. \A y \in T : ~(y < x)
  BY <1>2, <1>3, Zenon
<1>5. QED
  BY <1>4

(* A sequence that is not empty is its front and its last element. *)
LEMMA FrontAndLast ==
  ASSUME NEW S, NEW s \in Seq(S), s # <<>>
  PROVE  /\ Front(s) \in Seq(S) /\ Last(s) \in S
         /\ Len(s) \in Nat \ {0} /\ Len(Front(s)) = Len(s) - 1
         /\ \A i \in 1..Len(s) - 1 : Front(s)[i] = s[i]
         /\ s = Append(Front(s), Last(s))
<1>1. Len(s) \in Nat \ {0} /\ s \in [1..Len(s) -> S]
  BY EmptySeq, LenProperties
<1>2. PICK n \in Nat : n = Len(s) - 1
  <2>1. \A l \in Nat \ {0} : l - 1 \in Nat
    OBVIOUS
  <2>2. QED
    BY <1>1, <2>1
<1>3. 1 \in Int /\ n \in Int /\ \A i \in 1..n : s[i] \in S
  BY <1>1, <1>2
<1>4. /\ SubSeq(s, 1, n) \in Seq(S) /\ Len(SubSeq(s, 1, n)) = IF 1 <= n THEN n - 1 + 1 ELSE 0
      /\ \A i \in 1..n - 1 + 1 : SubSeq(s, 1, n)[i] = s[1 + i - 1]
  BY <1>3, SubSeqProperties
<1>5. Front(s) = SubSeq(s, 1, n) /\ Last(s) = s[n + 1] /\ n + 1 = Len(s)
  BY <1>1, <1>2 DEF Front, Last
<1>6. Front(s) \in Seq(S) /\ Len(Front(s)) = n /\ (\A i \in 1..n : Front(s)[i] = s[i]) /\ Last(s) \in S
  BY <1>1, <1>2, <1>4, <1>5
<1>7. /\ Append(Front(s), Last(s)) \in Seq(S) /\ Len(Append(Front(s), Last(s))) = n + 1
      /\ (\A i \in 1..n : Append(Front(s), Last(s))[i] = Front(s)[i])
      /\ Append(Front(s), Last(s))[n + 1] = Last(s)
  BY <1>6, AppendProperties
<1>8. \A i \in 1..Len(s) : s[i] = Append(Front(s), Last(s))[i]
  <2> SUFFICES ASSUME NEW i \in 1..Len(s) PROVE s[i] = Append(Front(s), Last(s))[i]
    OBVIOUS
  <2>1. CASE i = n + 1
    BY <1>5, <1>7, <2>1
  <2>2. CASE i # n + 1
    <3>1. i \in 1..n
      BY <1>5, <2>2
    <3>2. QED
      BY <1>6, <1>7, <3>1
  <2>3. QED
    BY <2>1, <2>2
<1>9. Len(s) = Len(Append(Front(s), Last(s)))
  BY <1>5, <1>7
<1>10. s = Append(Front(s), Last(s))
  BY <1>7, <1>8, <1>9, SeqEqual
<1>11. QED
  BY <1>1, <1>2, <1>6, <1>10

(* One element more, taken off again. *)
LEMMA AppendFront ==
  ASSUME NEW S, NEW s \in Seq(S), NEW e \in S
  PROVE  Front(Append(s, e)) = s /\ Last(Append(s, e)) = e
<1> DEFINE t == Append(s, e)
<1>1. t \in Seq(S) /\ t # <<>> /\ Len(s) \in Nat
  BY AppendProperties, LenProperties
<1>2. Front(t) \in Seq(S) /\ Last(t) \in S /\ t = Append(Front(t), Last(t))
  BY <1>1, FrontAndLast
<1>3. QED
  BY <1>2, AppendInjective

(* Induction over sequences, about a set of them. *)
LEMMA SeqInduction ==
  ASSUME NEW S, NEW P, <<>> \in P, \A s \in Seq(S) : \A e \in S : s \in P => Append(s, e) \in P
  PROVE  \A s \in Seq(S) : s \in P
<1> DEFINE Bad == {n \in Nat : \E s \in Seq(S) : Len(s) = n /\ s \notin P}
<1>1. SUFFICES ASSUME NEW r \in Seq(S), r \notin P PROVE FALSE
  OBVIOUS
<1>2. Len(r) \in Bad
  BY <1>1, LenProperties
<1>3. PICK n \in Bad : \A m \in Bad : n <= m
  <2>1. Bad \subseteq Nat /\ Bad # {}
    BY <1>2
  <2> HIDE DEF Bad
  <2>2. QED
    BY <2>1, LeastNatural
<1>4. PICK s \in Seq(S) : Len(s) = n /\ s \notin P
  OBVIOUS
<1>5. s # <<>>
  BY <1>4
<1>6. Front(s) \in Seq(S) /\ Last(s) \in S /\ Len(Front(s)) = n - 1 /\ s = Append(Front(s), Last(s))
  BY <1>4, <1>5, FrontAndLast
<1>7. Front(s) \in P
  <2>1. n \in Nat \ {0}
    BY <1>4, <1>5, FrontAndLast
  <2>2. ~(n <= n - 1) /\ n - 1 \in Nat
    BY <2>1
  <2>3. n - 1 \notin Bad
    BY <1>3, <2>2
  <2>4. QED
    BY <1>6, <2>2, <2>3
<1>8. QED
  BY <1>4, <1>6, <1>7

(* A function on sequences may be defined by what it does with one more     *)
(* element: f is the one that is as far as length n.                       *)
UpTo(C, n) == {s \in Seq(C) : Len(s) <= n}
Recurs(f, C, n, b, step) ==
    f = [s \in UpTo(C, n) |-> IF s = <<>> THEN b ELSE step[<<f[Front(s)], Last(s)>>]]

(* The front of a sequence is shorter by one. *)
LEMMA UpToFacts ==
  ASSUME NEW C, NEW n \in Nat, NEW s \in UpTo(C, n), s # <<>>
  PROVE  n # 0 /\ Front(s) \in UpTo(C, n) /\ Front(s) \in UpTo(C, n - 1) /\ Last(s) \in C
<1>1. s \in Seq(C) /\ Len(s) <= n
  BY DEF UpTo
<1>2. Front(s) \in Seq(C) /\ Last(s) \in C /\ Len(s) \in Nat \ {0} /\ Len(Front(s)) = Len(s) - 1
  BY <1>1, FrontAndLast
<1>3. n # 0 /\ Len(Front(s)) <= n /\ Len(Front(s)) <= n - 1
  BY <1>1, <1>2
<1>4. QED
  BY <1>2, <1>3 DEF UpTo

(* There is such a function for every length, *)
LEMMA RecursExists ==
  ASSUME NEW C, NEW T, NEW b \in T, NEW step \in [T \X C -> T], NEW n \in Nat
  PROVE  \E f \in [UpTo(C, n) -> T] : Recurs(f, C, n, b, step)
<1> DEFINE Bad == {k \in Nat : ~\E f \in [UpTo(C, k) -> T] : Recurs(f, C, k, b, step)}
<1>1. SUFFICES ASSUME Bad # {} PROVE FALSE
  OBVIOUS
<1>2. PICK k \in Bad : \A m \in Bad : k <= m
  BY <1>1, LeastNatural
<1>3. k \in Nat /\ ~\E f \in [UpTo(C, k) -> T] : Recurs(f, C, k, b, step)
  OBVIOUS
<1>4. CASE k = 0
  <2> DEFINE g == [s \in UpTo(C, k) |-> b]
  <2>1. \A s \in UpTo(C, k) : s = <<>>
    BY <1>3, <1>4, UpToFacts
  <2>2. g \in [UpTo(C, k) -> T]
    OBVIOUS
  <2>3. Recurs(g, C, k, b, step)
    BY <2>1 DEF Recurs
  <2>4. QED
    BY <1>3, <2>2, <2>3
<1>5. CASE k # 0
  <2>1. k - 1 \in Nat /\ ~(k <= k - 1)
    BY <1>3, <1>5
  <2>2. k - 1 \notin Bad
    BY <1>2, <2>1
  <2>3. PICK f \in [UpTo(C, k - 1) -> T] : Recurs(f, C, k - 1, b, step)
    BY <2>1, <2>2
  <2>4. PICK g : g = [s \in UpTo(C, k) |-> IF s = <<>> THEN b ELSE step[<<f[Front(s)], Last(s)>>]]
    OBVIOUS
  <2>5. \A s \in UpTo(C, k) : g[s] = IF s = <<>> THEN b ELSE step[<<f[Front(s)], Last(s)>>]
    BY <2>4
  <2>6. \A s \in UpTo(C, k - 1) : s \in UpTo(C, k) 
                                     /\ f[s] = IF s = <<>> THEN b ELSE step[<<f[Front(s)], Last(s)>>]
    <3>1. \A s \in UpTo(C, k - 1) : f[s] = IF s = <<>> THEN b ELSE step[<<f[Front(s)], Last(s)>>]
      BY <2>3 DEF Recurs
    <3>2. ASSUME NEW s \in UpTo(C, k - 1) PROVE s \in UpTo(C, k)
      <4>1. s \in Seq(C) /\ Len(s) <= k - 1 /\ Len(s) \in Nat
        BY LenProperties DEF UpTo
      <4>2. Len(s) <= k
        BY <1>3, <4>1
      <4>3. QED
        BY <4>1, <4>2 DEF UpTo
    <3>3. QED
      BY <3>1, <3>2
  <2>7. \A s \in UpTo(C, k - 1) : g[s] = f[s]
    BY <2>5, <2>6
  <2>8. \A s \in UpTo(C, k) : s # <<>> => Front(s) \in UpTo(C, k - 1) /\ Last(s) \in C
    BY <1>3, UpToFacts
  <2>9. g \in [UpTo(C, k) -> T]
    <3>1. \A s \in UpTo(C, k) : s # <<>> => step[<<f[Front(s)], Last(s)>>] \in T
      BY <2>3, <2>8
    <3>2. QED
      BY <2>4, <3>1
  <2>10. Recurs(g, C, k, b, step)
    <3>1. \A s \in UpTo(C, k) : g[s] = IF s = <<>> THEN b ELSE step[<<g[Front(s)], Last(s)>>]
      BY <2>5, <2>7, <2>8
    <3>2. QED
      BY <2>9, <3>1 DEF Recurs
  <2>11. QED
    BY <1>3, <2>9, <2>10
<1>6. QED
  BY <1>4, <1>5

(* and two of them agree on what both are defined on, *)
LEMMA RecursUnique ==
  ASSUME NEW C, NEW b, NEW step, NEW m \in Nat, NEW n \in Nat,
         NEW f, Recurs(f, C, m, b, step), NEW g, Recurs(g, C, n, b, step),
         NEW s \in UpTo(C, m), s \in UpTo(C, n)
  PROVE  f[s] = g[s]
<1> DEFINE P == {t \in Seq(C) : t \in UpTo(C, m) /\ t \in UpTo(C, n) => f[t] = g[t]}
<1>1. \A t \in UpTo(C, m) : f[t] = IF t = <<>> THEN b ELSE step[<<f[Front(t)], Last(t)>>]
  BY DEF Recurs
<1>2. \A t \in UpTo(C, n) : g[t] = IF t = <<>> THEN b ELSE step[<<g[Front(t)], Last(t)>>]
  BY DEF Recurs
<1>3. <<>> \in P
  <2>1. <<>> \in Seq(C)
    BY EmptySeq
  <2>2. QED
    BY <1>1, <1>2, <2>1
<1>4. ASSUME NEW t \in Seq(C), NEW e \in C, t \in P PROVE Append(t, e) \in P
  <2> DEFINE u == Append(t, e)
  <2>1. u \in Seq(C) /\ u # <<>> /\ Front(u) = t
    BY AppendProperties, AppendFront
  <2> SUFFICES ASSUME u \in UpTo(C, m), u \in UpTo(C, n) PROVE f[u] = g[u]
    BY <2>1
  <2>2. t \in UpTo(C, m) /\ t \in UpTo(C, n)
    <3> HIDE DEF u
    <3>1. Front(u) \in UpTo(C, m) /\ Front(u) \in UpTo(C, n)
      BY <2>1, UpToFacts
    <3>2. QED
      BY <2>1, <3>1
  <2>3. f[t] = g[t]
    BY <1>4, <2>2
  <2> HIDE DEF u
  <2>4. QED
    BY <1>1, <1>2, <2>1, <2>3
<1> HIDE DEF P
<1>5. s \in P
  <2>1. s \in Seq(C)
    BY DEF UpTo
  <2>2. QED
    BY <1>3, <1>4, <2>1, SeqInduction
<1>6. QED
  BY <1>5 DEF P

Loops(f, C, b, step) == f = [s \in Seq(C) |-> IF s = <<>> THEN b ELSE step[<<f[Front(s)], Last(s)>>]]

(* so there is one on the sequences of every length. *)
LEMMA SeqRecursion ==
  ASSUME NEW C, NEW T, NEW b \in T, NEW step \in [T \X C -> T]
  PROVE  \E f \in [Seq(C) -> T] : Loops(f, C, b, step)
<1> DEFINE Level(n) == CHOOSE f : f \in [UpTo(C, n) -> T] /\ Recurs(f, C, n, b, step)
           h == [s \in Seq(C) |-> Level(Len(s))[s]]
<1>1. \A n \in Nat : Level(n) \in [UpTo(C, n) -> T] /\ Recurs(Level(n), C, n, b, step)
  <2> SUFFICES ASSUME NEW n \in Nat
               PROVE  Level(n) \in [UpTo(C, n) -> T] /\ Recurs(Level(n), C, n, b, step)
    OBVIOUS
  <2>1. \E f : f \in [UpTo(C, n) -> T] /\ Recurs(f, C, n, b, step)
    BY RecursExists
  <2>2. QED
    BY <2>1
<1> HIDE DEF Level
<1>2. \A s \in Seq(C) : Len(s) \in Nat /\ s \in UpTo(C, Len(s))
  BY LenProperties DEF UpTo
<1>3. h \in [Seq(C) -> T]
  BY <1>1, <1>2
<1>4. ASSUME NEW s \in Seq(C) PROVE h[s] = IF s = <<>> THEN b ELSE step[<<h[Front(s)], Last(s)>>]
  <2>1. h[s] = IF s = <<>> THEN b ELSE step[<<Level(Len(s))[Front(s)], Last(s)>>]
    BY <1>1, <1>2 DEF Recurs
  <2>2. ASSUME s # <<>> PROVE Level(Len(s))[Front(s)] = h[Front(s)]
    <3>1. Front(s) \in Seq(C) /\ Front(s) \in UpTo(C, Len(s))
      BY <1>2, <2>2, FrontAndLast, UpToFacts
    <3>2. /\ Recurs(Level(Len(s)), C, Len(s), b, step)
          /\ Recurs(Level(Len(Front(s))), C, Len(Front(s)), b, step)
          /\ Front(s) \in UpTo(C, Len(Front(s))) /\ Len(s) \in Nat /\ Len(Front(s)) \in Nat
      BY <1>1, <1>2, <3>1
    <3>3. Level(Len(s))[Front(s)] = Level(Len(Front(s)))[Front(s)]
      BY <3>1, <3>2, RecursUnique
    <3>4. QED
      BY <3>1, <3>3
  <2>3. QED
    BY <2>1, <2>2
<1>5. Loops(h, C, b, step)
  BY <1>3, <1>4 DEF Loops
<1> HIDE DEF h
<1>6. QED
  BY <1>3, <1>5

-----------------------------------------------------------------------------
(* The passes over a name: what they are on a name with one character more. *)

SnakeScans == [out : Seq(Chars), low : BOOLEAN]

(* Letter case stays within the alphabet. *)
LEMMA CharsClosed == \A c \in Chars : LowerOf(c) \in Chars /\ UpperOf(c) \in Chars
BY DEF Chars, Lowers, Uppers, Digits, Separators, Spaces, LowerOf, UpperOf

(* So do an underscore more, *)
LEMMA UnderscoreType == \A out \in Seq(Chars) : Underscore(out) \in Seq(Chars)
<1> SUFFICES ASSUME NEW out \in Seq(Chars) PROVE Underscore(out) \in Seq(Chars)
  OBVIOUS
<1>1. "_" \in Chars
  BY DEF Chars
<1>2. QED
  BY <1>1, AppendProperties DEF Underscore

(* a step of the first pass of snake case, *)
LEMMA SnakeStepType == \A x \in SnakeScans : \A c \in Chars : SnakeStep(x, c) \in SnakeScans
<1> SUFFICES ASSUME NEW x \in SnakeScans, NEW c \in Chars PROVE SnakeStep(x, c) \in SnakeScans
  OBVIOUS
<1>1. x.out \in Seq(Chars) /\ Underscore(x.out) \in Seq(Chars) /\ LowerOf(c) \in Chars
  BY UnderscoreType, CharsClosed DEF SnakeScans
<1>2. \A o \in Seq(Chars) : \A low \in BOOLEAN : [out |-> o, low |-> low] \in SnakeScans
  BY DEF SnakeScans
<1>3. CASE c \in Separators
  <2>1. c \notin Uppers
    BY <1>3 DEF Uppers, Separators
  <2>2. SnakeStep(x, c) = [out |-> Underscore(x.out), low |-> FALSE]
    BY <1>3, <2>1 DEF SnakeStep
  <2>3. QED
    BY <1>1, <1>2, <2>2
<1>4. CASE c \in Uppers
  <2>1. (IF x.low THEN Underscore(x.out) ELSE x.out) \in Seq(Chars)
    BY <1>1
  <2>2. Append(IF x.low THEN Underscore(x.out) ELSE x.out, LowerOf(c)) \in Seq(Chars)
    BY <1>1, <2>1, AppendProperties
  <2>3. c \notin Separators
    BY <1>4 DEF Uppers, Separators
  <2>4. SnakeStep(x, c) =
         [out |-> Append(IF x.low THEN Underscore(x.out) ELSE x.out, LowerOf(c)), low |-> FALSE]
    BY <1>4, <2>3 DEF SnakeStep
  <2>5. QED
    BY <1>2, <2>2, <2>4
<1>5. CASE c \notin Separators /\ c \notin Uppers
  <2>1. Append(x.out, c) \in Seq(Chars)
    BY <1>1, AppendProperties
  <2>2. SnakeStep(x, c) = [out |-> Append(x.out, c), low |-> c \in Lowers]
    BY <1>5 DEF SnakeStep
  <2>3. (c \in Lowers) \in BOOLEAN
    OBVIOUS
  <2>4. QED
    BY <1>2, <2>1, <2>2, <2>3
<1>6. QED
  BY <1>3, <1>4, <1>5

(* and one of the second. *)
LEMMA CollapseType == \A x \in Seq(Chars) : \A c \in Chars : Collapse(x, c) \in Seq(Chars)
BY UnderscoreType, AppendProperties DEF Collapse

(* The first pass is the fold of its step, *)
LEMMA SnakeScanDef ==
  /\ SnakeScan \in [Seq(Chars) -> SnakeScans] /\ SnakeScan[<<>>] = [out |-> <<>>, low |-> FALSE]
  /\ \A s \in Seq(Chars) : \A c \in Chars : SnakeScan[Append(s, c)] = SnakeStep(SnakeScan[s], c)
<1> DEFINE T == SnakeScans
           b == [out |-> <<>>, low |-> FALSE]
           step == [p \in T \X Chars |-> SnakeStep(p[1], p[2])]
<1>1. b \in T
  BY EmptySeq DEF SnakeScans
<1>2. \A x \in T : \A c \in Chars : SnakeStep(x, c) \in T
  BY SnakeStepType
<1>3. step \in [T \X Chars -> T]
  BY <1>2
<1>4. \A x \in T : \A c \in Chars : step[<<x, c>>] = SnakeStep(x, c)
  OBVIOUS
<1> HIDE DEF step, T, b
<1>5. PICK f \in [Seq(Chars) -> T] : Loops(f, Chars, b, step)
  BY <1>1, <1>3, SeqRecursion
<1>6. f = [s \in Seq(Chars) |-> IF s = <<>> THEN b ELSE SnakeStep(f[Front(s)], Last(s))]
  <2>1. \A s \in Seq(Chars) : s # <<>> => Front(s) \in Seq(Chars) /\ Last(s) \in Chars
    BY FrontAndLast
  <2>2. \A s \in Seq(Chars) : s # <<>> => step[<<f[Front(s)], Last(s)>>] = SnakeStep(f[Front(s)], Last(s))
    BY <1>4, <1>5, <2>1
  <2>3. QED
    BY <1>5, <2>2 DEF Loops
<1>7. SnakeScan = [s \in Seq(Chars) |-> IF s = <<>> THEN b ELSE SnakeStep(SnakeScan[Front(s)], Last(s))]
  BY <1>6 DEF SnakeScan, b
<1>8. SnakeScan[<<>>] = b
  <2>1. <<>> \in Seq(Chars)
    BY EmptySeq
  <2>2. QED
    BY <1>7, <2>1
<1>9. ASSUME NEW s \in Seq(Chars), NEW c \in Chars
      PROVE  SnakeScan[Append(s, c)] = SnakeStep(SnakeScan[s], c)
  <2>1. /\ Append(s, c) \in Seq(Chars) /\ Append(s, c) # <<>>
        /\ Front(Append(s, c)) = s /\ Last(Append(s, c)) = c
    BY AppendProperties, AppendFront
  <2>2. QED
    BY <1>7, <2>1
<1> DEFINE P == {s \in Seq(Chars) : SnakeScan[s] \in T}
<1>10. <<>> \in P
  BY <1>1, <1>8, EmptySeq
<1>11. \A s \in Seq(Chars) : \A c \in Chars : s \in P => Append(s, c) \in P
  BY <1>2, <1>9, AppendProperties
<1>12. \A s \in Seq(Chars) : s \in P
  <2> HIDE DEF P
  <2>1. QED
    BY <1>10, <1>11, SeqInduction
<1>13. SnakeScan \in [Seq(Chars) -> T]
  BY <1>7, <1>12
<1>14. QED
  BY <1>8, <1>9, <1>13 DEF T, b

(* and so is the second. *)
LEMMA CollapsedDef ==
  /\ Collapsed \in [Seq(Chars) -> Seq(Chars)] /\ Collapsed[<<>>] = <<>>
  /\ \A s \in Seq(Chars) : \A c \in Chars : Collapsed[Append(s, c)] = Collapse(Collapsed[s], c)
<1> DEFINE T == Seq(Chars)
           b == <<>>
           step == [p \in T \X Chars |-> Collapse(p[1], p[2])]
<1>1. b \in T
  BY EmptySeq
<1>2. \A x \in T : \A c \in Chars : Collapse(x, c) \in T
  BY CollapseType
<1>3. step \in [T \X Chars -> T]
  BY <1>2
<1>4. \A x \in T : \A c \in Chars : step[<<x, c>>] = Collapse(x, c)
  OBVIOUS
<1> HIDE DEF step, T, b
<1>5. PICK f \in [Seq(Chars) -> T] : Loops(f, Chars, b, step)
  BY <1>1, <1>3, SeqRecursion
<1>6. f = [s \in Seq(Chars) |-> IF s = <<>> THEN b ELSE Collapse(f[Front(s)], Last(s))]
  <2>1. \A s \in Seq(Chars) : s # <<>> => Front(s) \in Seq(Chars) /\ Last(s) \in Chars
    BY FrontAndLast
  <2>2. \A s \in Seq(Chars) : s # <<>> => step[<<f[Front(s)], Last(s)>>] = Collapse(f[Front(s)], Last(s))
    BY <1>4, <1>5, <2>1
  <2>3. QED
    BY <1>5, <2>2 DEF Loops
<1>7. Collapsed = [s \in Seq(Chars) |-> IF s = <<>> THEN b ELSE Collapse(Collapsed[Front(s)], Last(s))]
  BY <1>6 DEF Collapsed, b
<1>8. Collapsed[<<>>] = b
  <2>1. <<>> \in Seq(Chars)
    BY EmptySeq
  <2>2. QED
    BY <1>7, <2>1
<1>9. ASSUME NEW s \in Seq(Chars), NEW c \in Chars
      PROVE  Collapsed[Append(s, c)] = Collapse(Collapsed[s], c)
  <2>1. /\ Append(s, c) \in Seq(Chars) /\ Append(s, c) # <<>>
        /\ Front(Append(s, c)) = s /\ Last(Append(s, c)) = c
    BY AppendProperties, AppendFront
  <2>2. QED
    BY <1>7, <2>1
<1> DEFINE P == {s \in Seq(Chars) : Collapsed[s] \in T}
<1>10. <<>> \in P
  BY <1>1, <1>8, EmptySeq
<1>11. \A s \in Seq(Chars) : \A c \in Chars : s \in P => Append(s, c) \in P
  BY <1>2, <1>9, AppendProperties
<1>12. \A s \in Seq(Chars) : s \in P
  <2> HIDE DEF P
  <2>1. QED
    BY <1>10, <1>11, SeqInduction
<1>13. Collapsed \in [Seq(Chars) -> T]
  BY <1>7, <1>12
<1>14. QED
  BY <1>8, <1>9, <1>13 DEF T, b

SplitScans == [words : Seq(Seq(Chars)), current : Seq(Chars), lower : BOOLEAN, upper : BOOLEAN]

LEMMA CharLists == \A c \in Chars : WordCharacter(c) \in Seq(Chars) /\ <<c>> \in Seq(Chars)
BY CharsClosed DEF WordCharacter

(* Letter case. *)
LEMMA CaseType ==
  ASSUME NEW s \in Seq(Chars)
  PROVE  /\ LowerCase(s) \in Seq(Chars) /\ UpperCase(s) \in Seq(Chars) /\ Capitalised(s) \in Seq(Chars)
         /\ Len(LowerCase(s)) = Len(s) /\ Len(UpperCase(s)) = Len(s) /\ Len(Capitalised(s)) = Len(s)
         /\ \A i \in 1..Len(s) : /\ LowerCase(s)[i] = LowerOf(s[i]) /\ UpperCase(s)[i] = UpperOf(s[i])
                                 /\ Capitalised(s)[i] = IF i = 1 THEN UpperOf(s[i]) ELSE LowerOf(s[i])
<1>1. Len(s) \in Nat /\ s \in [1..Len(s) -> Chars] /\ DOMAIN s = 1..Len(s)
  BY LenProperties
<1>2. /\ LowerCase(s) \in [1..Len(s) -> Chars] /\ UpperCase(s) \in [1..Len(s) -> Chars]
      /\ Capitalised(s) \in [1..Len(s) -> Chars]
  BY <1>1, CharsClosed DEF LowerCase, UpperCase, Capitalised
<1>3. LowerCase(s) \in Seq(Chars) /\ UpperCase(s) \in Seq(Chars) /\ Capitalised(s) \in Seq(Chars)
  BY <1>1, <1>2, SeqDef
<1>4. Len(LowerCase(s)) = Len(s) /\ Len(UpperCase(s)) = Len(s) /\ Len(Capitalised(s)) = Len(s)
  BY <1>1, <1>2, <1>3
<1>5. QED
  BY <1>1, <1>3, <1>4 DEF LowerCase, UpperCase, Capitalised

(* A step of splitWords leaves words and a part of one. *)
LEMMA SplitStepType == \A x \in SplitScans : \A c \in Chars : SplitStep(x, c) \in SplitScans
<1> SUFFICES ASSUME NEW x \in SplitScans, NEW c \in Chars PROVE SplitStep(x, c) \in SplitScans
  OBVIOUS
<1>1. /\ x.words \in Seq(Seq(Chars)) /\ x.current \in Seq(Chars)
      /\ x.lower \in BOOLEAN /\ x.upper \in BOOLEAN
  BY DEF SplitScans
<1>2. Len(x.current) > 1 => Front(x.current) \in Seq(Chars)
  <2>1. Len(x.current) > 1 => x.current # <<>>
    OBVIOUS
  <2>2. QED
    BY <1>1, <2>1, FrontAndLast
<1> DEFINE lower == c \in Lowers
           upper == c \in Uppers
           word  == lower \/ upper \/ c \in Digits
           ends  == CASE ~word /\ x.current # <<>>                        -> x.current
                      [] upper /\ x.lower                                 -> x.current
                      [] lower /\ x.upper /\ Len(x.current) > 1           -> Front(x.current)
                      [] OTHER                                            -> <<>>
           rest  == CASE ~word \/ (upper /\ x.lower)                      -> <<>>
                      [] lower /\ x.upper /\ Len(x.current) > 1           -> Front(x.current)
                      [] OTHER                                            -> x.current
<1>3. ~(lower /\ upper)
  BY DEF Lowers, Uppers
<1>4. ends \in Seq(Chars)
  <2>1. CASE ~word /\ x.current # <<>>
    BY <1>1, <2>1
  <2>2. CASE upper /\ x.lower
    BY <1>1, <1>3, <2>2
  <2>3. CASE lower /\ x.upper /\ Len(x.current) > 1
    BY <1>2, <1>3, <2>3
  <2>4. CASE /\ ~(~word /\ x.current # <<>>) /\ ~(upper /\ x.lower)
             /\ ~(lower /\ x.upper /\ Len(x.current) > 1)
    <3>1. ends = <<>>
      BY <2>4
    <3>2. QED
      BY <3>1, EmptySeq
  <2>5. QED
    BY <2>1, <2>2, <2>3, <2>4
<1>5. rest \in Seq(Chars)
  <2>1. CASE ~word \/ (upper /\ x.lower)
    <3>1. rest = <<>>
      BY <1>3, <2>1
    <3>2. QED
      BY <3>1, EmptySeq
  <2>2. CASE lower /\ x.upper /\ Len(x.current) > 1
    BY <1>2, <1>3, <2>2
  <2>3. CASE ~(~word \/ (upper /\ x.lower)) /\ ~(lower /\ x.upper /\ Len(x.current) > 1)
    BY <1>1, <2>3
  <2>4. QED
    BY <2>1, <2>2, <2>3
<1>6. SplitStep(x, c) = [words |-> IF ends = <<>> THEN x.words ELSE Append(x.words, ends),
                         current |-> IF word THEN Append(rest, c) ELSE <<>>,
                         lower |-> lower, upper |-> upper]
  BY DEF SplitStep
<1> HIDE DEF ends, rest
<1>7. (IF ends = <<>> THEN x.words ELSE Append(x.words, ends)) \in Seq(Seq(Chars))
  BY <1>1, <1>4, AppendProperties
<1>8. (IF word THEN Append(rest, c) ELSE <<>>) \in Seq(Chars)
  BY <1>5, AppendProperties, EmptySeq
<1>9. QED
  BY <1>6, <1>7, <1>8 DEF SplitScans

(* Joining leaves a name. *)
LEMMA JoinType == \A x \in Seq(Chars) : \A w \in Seq(Chars) : Join(x, w) \in Seq(Chars)
BY CaseType, ConcatProperties DEF Join

LEMMA WordsStepType == \A x \in Seq(Chars) : \A c \in Chars : x \o WordCharacter(c) \in Seq(Chars)
BY CharLists, ConcatProperties

(* splitWords is the fold of its step, *)
LEMMA SplitScanDef ==
  /\ SplitScan \in [Seq(Chars) -> SplitScans]
  /\ SplitScan[<<>>] = [words |-> <<>>, current |-> <<>>, lower |-> FALSE, upper |-> FALSE]
  /\ \A s \in Seq(Chars) : \A c \in Chars : SplitScan[Append(s, c)] = SplitStep(SplitScan[s], c)
<1> DEFINE T == SplitScans
           b == [words |-> <<>>, current |-> <<>>, lower |-> FALSE, upper |-> FALSE]
           step == [p \in T \X Chars |-> SplitStep(p[1], p[2])]
<1>1. b \in T
  BY EmptySeq DEF SplitScans
<1>2. \A x \in T : \A c \in Chars : SplitStep(x, c) \in T
  BY SplitStepType
<1>3. step \in [T \X Chars -> T]
  BY <1>2
<1>4. \A x \in T : \A c \in Chars : step[<<x, c>>] = SplitStep(x, c)
  OBVIOUS
<1> HIDE DEF step, T, b
<1>5. PICK f \in [Seq(Chars) -> T] : Loops(f, Chars, b, step)
  BY <1>1, <1>3, SeqRecursion
<1>6. f = [s \in Seq(Chars) |-> IF s = <<>> THEN b ELSE SplitStep(f[Front(s)], Last(s))]
  <2>1. \A s \in Seq(Chars) : s # <<>> => Front(s) \in Seq(Chars) /\ Last(s) \in Chars
    BY FrontAndLast
  <2>2. \A s \in Seq(Chars) : s # <<>> => step[<<f[Front(s)], Last(s)>>] = SplitStep(f[Front(s)], Last(s))
    BY <1>4, <1>5, <2>1
  <2>3. QED
    BY <1>5, <2>2 DEF Loops
<1>7. SplitScan = [s \in Seq(Chars) |-> IF s = <<>> THEN b ELSE SplitStep(SplitScan[Front(s)], Last(s))]
  BY <1>6 DEF SplitScan, b
<1>8. SplitScan[<<>>] = b
  BY <1>7, EmptySeq
<1>9. ASSUME NEW s \in Seq(Chars), NEW c \in Chars
      PROVE  SplitScan[Append(s, c)] = SplitStep(SplitScan[s], c)
  <2>1. /\ Append(s, c) \in Seq(Chars) /\ Append(s, c) # <<>>
        /\ Front(Append(s, c)) = s /\ Last(Append(s, c)) = c
    BY AppendProperties, AppendFront
  <2>2. QED
    BY <1>7, <2>1
<1> DEFINE P == {s \in Seq(Chars) : SplitScan[s] \in T}
<1>10. <<>> \in P
  BY <1>1, <1>8, EmptySeq
<1>11. \A s \in Seq(Chars) : \A c \in Chars : s \in P => Append(s, c) \in P
  BY <1>2, <1>9, AppendProperties
<1>12. \A s \in Seq(Chars) : s \in P
  <2> HIDE DEF P
  <2>1. QED
    BY <1>10, <1>11, SeqInduction
<1>13. SplitScan \in [Seq(Chars) -> T]
  BY <1>7, <1>12
<1>14. QED
  BY <1>8, <1>9, <1>13 DEF T, b

(* joining that of the words, *)
LEMMA JoinedDef ==
  /\ Joined \in [Seq(Seq(Chars)) -> Seq(Chars)] /\ Joined[<<>>] = <<>>
  /\ \A s \in Seq(Seq(Chars)) : \A c \in Seq(Chars) : Joined[Append(s, c)] = Join(Joined[s], c)
<1> DEFINE T == Seq(Chars)
           b == <<>>
           step == [p \in T \X Seq(Chars) |-> Join(p[1], p[2])]
<1>1. b \in T
  BY EmptySeq
<1>2. \A x \in T : \A c \in Seq(Chars) : Join(x, c) \in T
  BY JoinType
<1>3. step \in [T \X Seq(Chars) -> T]
  BY <1>2
<1>4. \A x \in T : \A c \in Seq(Chars) : step[<<x, c>>] = Join(x, c)
  OBVIOUS
<1> HIDE DEF step, T, b
<1>5. PICK f \in [Seq(Seq(Chars)) -> T] : Loops(f, Seq(Chars), b, step)
  BY <1>1, <1>3, SeqRecursion
<1>6. f = [s \in Seq(Seq(Chars)) |-> IF s = <<>> THEN b ELSE Join(f[Front(s)], Last(s))]
  <2>1. \A s \in Seq(Seq(Chars)) : s # <<>> => Front(s) \in Seq(Seq(Chars)) /\ Last(s) \in Seq(Chars)
    BY FrontAndLast
  <2>2. \A s \in Seq(Seq(Chars)) : s # <<>> => step[<<f[Front(s)], Last(s)>>] = Join(f[Front(s)], Last(s))
    BY <1>4, <1>5, <2>1
  <2>3. QED
    BY <1>5, <2>2 DEF Loops
<1>7. Joined = [s \in Seq(Seq(Chars)) |-> IF s = <<>> THEN b ELSE Join(Joined[Front(s)], Last(s))]
  BY <1>6 DEF Joined, b
<1>8. Joined[<<>>] = b
  BY <1>7, EmptySeq
<1>9. ASSUME NEW s \in Seq(Seq(Chars)), NEW c \in Seq(Chars)
      PROVE  Joined[Append(s, c)] = Join(Joined[s], c)
  <2>1. /\ Append(s, c) \in Seq(Seq(Chars)) /\ Append(s, c) # <<>>
        /\ Front(Append(s, c)) = s /\ Last(Append(s, c)) = c
    BY AppendProperties, AppendFront
  <2>2. QED
    BY <1>7, <2>1
<1> DEFINE P == {s \in Seq(Seq(Chars)) : Joined[s] \in T}
<1>10. <<>> \in P
  BY <1>1, <1>8, EmptySeq
<1>11. \A s \in Seq(Seq(Chars)) : \A c \in Seq(Chars) : s \in P => Append(s, c) \in P
  BY <1>2, <1>9, AppendProperties
<1>12. \A s \in Seq(Seq(Chars)) : s \in P
  <2> HIDE DEF P
  <2>1. QED
    BY <1>10, <1>11, SeqInduction
<1>13. Joined \in [Seq(Seq(Chars)) -> T]
  BY <1>7, <1>12
<1>14. QED
  BY <1>8, <1>9, <1>13 DEF T, b

(* and the words of a name that of its characters. *)
LEMMA WordCharactersDef ==
  /\ WordCharacters \in [Seq(Chars) -> Seq(Chars)] /\ WordCharacters[<<>>] = <<>>
  /\ \A s \in Seq(Chars) : \A c \in Chars :
        WordCharacters[Append(s, c)] = WordCharacters[s] \o WordCharacter(c)
<1> DEFINE T == Seq(Chars)
           b == <<>>
           step == [p \in T \X Chars |-> p[1] \o WordCharacter(p[2])]
<1>1. b \in T
  BY EmptySeq
<1>2. \A x \in T : \A c \in Chars : x \o WordCharacter(c) \in T
  BY WordsStepType
<1>3. step \in [T \X Chars -> T]
  BY <1>2
<1>4. \A x \in T : \A c \in Chars : step[<<x, c>>] = x \o WordCharacter(c)
  OBVIOUS
<1> HIDE DEF step, T, b
<1>5. PICK f \in [Seq(Chars) -> T] : Loops(f, Chars, b, step)
  BY <1>1, <1>3, SeqRecursion
<1>6. f = [s \in Seq(Chars) |-> IF s = <<>> THEN b ELSE f[Front(s)] \o WordCharacter(Last(s))]
  <2>1. \A s \in Seq(Chars) : s # <<>> => Front(s) \in Seq(Chars) /\ Last(s) \in Chars
    BY FrontAndLast
  <2>2. \A s \in Seq(Chars) : s # <<>> =>
         step[<<f[Front(s)], Last(s)>>] = f[Front(s)] \o WordCharacter(Last(s))
    BY <1>4, <1>5, <2>1
  <2>3. QED
    BY <1>5, <2>2 DEF Loops
<1>7. WordCharacters =
        [s \in Seq(Chars) |-> IF s = <<>> THEN b ELSE WordCharacters[Front(s)] \o WordCharacter(Last(s))]
  BY <1>6 DEF WordCharacters, b
<1>8. WordCharacters[<<>>] = b
  BY <1>7, EmptySeq
<1>9. ASSUME NEW s \in Seq(Chars), NEW c \in Chars
      PROVE  WordCharacters[Append(s, c)] = WordCharacters[s] \o WordCharacter(c)
  <2>1. /\ Append(s, c) \in Seq(Chars) /\ Append(s, c) # <<>>
        /\ Front(Append(s, c)) = s /\ Last(Append(s, c)) = c
    BY AppendProperties, AppendFront
  <2>2. QED
    BY <1>7, <2>1
<1> DEFINE P == {s \in Seq(Chars) : WordCharacters[s] \in T}
<1>10. <<>> \in P
  BY <1>1, <1>8, EmptySeq
<1>11. \A s \in Seq(Chars) : \A c \in Chars : s \in P => Append(s, c) \in P
  BY <1>2, <1>9, AppendProperties
<1>12. \A s \in Seq(Chars) : s \in P
  <2> HIDE DEF P
  <2>1. QED
    BY <1>10, <1>11, SeqInduction
<1>13. WordCharacters \in [Seq(Chars) -> T]
  BY <1>7, <1>12
<1>14. QED
  BY <1>8, <1>9, <1>13 DEF T, b

-----------------------------------------------------------------------------
(* The words of a name, and what keeps them.                               *)

(* One character more at the end of the second part. *)
LEMMA ConcatAppend ==
  ASSUME NEW S, NEW s \in Seq(S), NEW t \in Seq(S), NEW e \in S
  PROVE  s \o Append(t, e) = Append(s \o t, e)
<1>1. <<e>> \in Seq(S)
  OBVIOUS
<1>2. s \o t \in Seq(S)
  BY ConcatProperties
<1>3. Append(t, e) = t \o <<e>> /\ Append(s \o t, e) = (s \o t) \o <<e>>
  BY <1>2, AppendIsConcat
<1>4. (s \o t) \o <<e>> = s \o (t \o <<e>>)
  BY <1>1, ConcatAssociative
<1>5. QED
  BY <1>3, <1>4

(* The words of a name are a name, *)
LEMMA WordsType ==
  \A s \in Seq(Chars) : WordCharacters[s] \in Seq(Chars)
BY WordCharactersDef

(* and those of two names one after the other theirs. *)
LEMMA WordsConcat ==
  ASSUME NEW s \in Seq(Chars), NEW t \in Seq(Chars)
  PROVE  WordCharacters[s \o t] = WordCharacters[s] \o WordCharacters[t]
<1> DEFINE P == {u \in Seq(Chars) : WordCharacters[s \o u] = WordCharacters[s] \o WordCharacters[u]}
<1>1. <<>> \in P
  <2>1. s \o <<>> = s /\ WordCharacters[s] \o <<>> = WordCharacters[s]
    BY WordsType, ConcatEmptySeq
  <2>2. QED
    BY <2>1, WordCharactersDef, EmptySeq
<1>2. ASSUME NEW u \in Seq(Chars), NEW c \in Chars, u \in P PROVE Append(u, c) \in P
  <2>1. s \o u \in Seq(Chars) /\ Append(u, c) \in Seq(Chars)
    BY ConcatProperties, AppendProperties
  <2>2. s \o Append(u, c) = Append(s \o u, c)
    BY ConcatAppend
  <2>3. WordCharacters[s \o Append(u, c)] = (WordCharacters[s] \o WordCharacters[u]) \o WordCharacter(c)
    <3>1. WordCharacters[Append(s \o u, c)] = WordCharacters[s \o u] \o WordCharacter(c)
      BY <2>1, WordCharactersDef
    <3>2. WordCharacters[s \o u] = WordCharacters[s] \o WordCharacters[u]
      BY <1>2
    <3>3. QED
      BY <2>2, <3>1, <3>2
  <2>4. /\ WordCharacters[s] \in Seq(Chars) /\ WordCharacters[u] \in Seq(Chars)
        /\ WordCharacter(c) \in Seq(Chars)
    BY WordsType, CharLists
  <2>5. (WordCharacters[s] \o WordCharacters[u]) \o WordCharacter(c)
          = WordCharacters[s] \o (WordCharacters[u] \o WordCharacter(c))
    <3>1. PICK x \in Seq(Chars), y \in Seq(Chars), z \in Seq(Chars) :
            x = WordCharacters[s] /\ y = WordCharacters[u] /\ z = WordCharacter(c)
      BY <2>4
    <3>2. (x \o y) \o z = x \o (y \o z)
      BY ConcatAssociative, Z3
    <3>3. QED
      BY <3>1, <3>2, Zenon
  <2>6. WordCharacters[Append(u, c)] = WordCharacters[u] \o WordCharacter(c)
    BY WordCharactersDef
  <2>7. QED
    BY <2>1, <2>3, <2>5, <2>6
<1> HIDE DEF P
<1>3. t \in P
  BY <1>1, <1>2, SeqInduction
<1>4. QED
  BY <1>3 DEF P

(* A character that is no word character leaves the words as they are. *)
LEMMA WordsAppend ==
  ASSUME NEW s \in Seq(Chars), NEW c \in Chars
  PROVE  /\ WordCharacters[Append(s, c)] = WordCharacters[s] \o WordCharacter(c)
         /\ WordCharacter(c) = <<>> => WordCharacters[Append(s, c)] = WordCharacters[s]
<1>1. WordCharacters[Append(s, c)] = WordCharacters[s] \o WordCharacter(c)
  BY WordCharactersDef
<1>2. WordCharacters[s] \o <<>> = WordCharacters[s]
  BY WordsType, ConcatEmptySeq
<1>3. QED
  BY <1>1, <1>2

(* Names that only differ in the case of letters, and in which characters   *)
(* that are no word characters stand between them, have the same words.    *)
LEMMA SameWords ==
  ASSUME NEW s \in Seq(Chars), NEW t \in Seq(Chars), Len(s) = Len(t),
         \A i \in 1..Len(s) : WordCharacter(s[i]) = WordCharacter(t[i])
  PROVE  WordCharacters[s] = WordCharacters[t]
<1> DEFINE Alike(u, v) == Len(u) = Len(v) /\ \A i \in 1..Len(u) : WordCharacter(u[i]) = WordCharacter(v[i])
           P == {u \in Seq(Chars) : \A v \in Seq(Chars) :
                    Alike(u, v) => WordCharacters[u] = WordCharacters[v]}
<1>1. <<>> \in P
  <2>1. \A v \in Seq(Chars) : Len(v) = 0 => v = <<>>
    BY EmptySeq
  <2>2. QED
    BY <2>1, EmptySeq
<1>2. ASSUME NEW u \in Seq(Chars), NEW c \in Chars, u \in P PROVE Append(u, c) \in P
  <2>1. /\ Append(u, c) \in Seq(Chars) /\ Len(Append(u, c)) = Len(u) + 1 /\ Len(u) \in Nat
        /\ (\A i \in 1..Len(u) : Append(u, c)[i] = u[i]) /\ Append(u, c)[Len(u) + 1] = c
    BY AppendProperties, LenProperties
  <2> SUFFICES ASSUME NEW v \in Seq(Chars), Alike(Append(u, c), v)
               PROVE  WordCharacters[Append(u, c)] = WordCharacters[v]
    BY <2>1
  <2>2. Len(v) = Len(u) + 1 /\ v # <<>>
    <3>1. Len(v) = Len(u) + 1 /\ Len(u) + 1 # 0
      BY <2>1
    <3>2. Len(<<>>) = 0
      OBVIOUS
    <3>3. QED
      BY <3>1, <3>2
  <2>3. /\ Front(v) \in Seq(Chars) /\ Last(v) \in Chars /\ Len(Front(v)) = Len(u)
        /\ (\A i \in 1..Len(u) : Front(v)[i] = v[i]) /\ v = Append(Front(v), Last(v))
        /\ Last(v) = v[Len(u) + 1]
    <3>1. Len(v) - 1 = Len(u)
      BY <2>1, <2>2
    <3>2. QED
      BY <2>2, <3>1, FrontAndLast DEF Last
  <2>4. \A i \in 1..Len(u) + 1 : WordCharacter(Append(u, c)[i]) = WordCharacter(v[i])
    BY <2>1
  <2>5. Alike(u, Front(v)) /\ WordCharacter(c) = WordCharacter(Last(v))
    <3>1. (\A i \in 1..Len(u) : i \in 1..Len(u) + 1) /\ Len(u) + 1 \in 1..Len(u) + 1
      BY <2>1
    <3>2. \A i \in 1..Len(u) : WordCharacter(u[i]) = WordCharacter(Front(v)[i])
      BY <2>1, <2>3, <2>4, <3>1
    <3>3. WordCharacter(c) = WordCharacter(Last(v))
      BY <2>1, <2>3, <2>4, <3>1
    <3>4. QED
      BY <2>3, <3>2, <3>3
  <2>6. WordCharacters[u] = WordCharacters[Front(v)]
    BY <1>2, <2>3, <2>5
  <2>7. WordCharacters[v] = WordCharacters[Front(v)] \o WordCharacter(Last(v))
    <3>1. \A w \in Seq(Chars) : \A d \in Chars :
             WordCharacters[Append(w, d)] = WordCharacters[w] \o WordCharacter(d)
      BY WordsAppend
    <3>2. WordCharacters[Append(Front(v), Last(v))] = WordCharacters[Front(v)] \o WordCharacter(Last(v))
      BY <2>3, <3>1
    <3>3. QED
      BY <2>3, <3>2, Zenon
  <2>8. WordCharacters[Append(u, c)] = WordCharacters[u] \o WordCharacter(c)
    BY WordsAppend
  <2>9. WordCharacter(c) = WordCharacter(Last(v))
    BY <2>5
  <2>10. QED
    BY <2>6, <2>7, <2>8, <2>9, Zenon
<1>3. Alike(s, t)
  OBVIOUS
<1> HIDE DEF P, Alike
<1>4. s \in P
  BY <1>1, <1>2, SeqInduction
<1>5. QED
  BY <1>3, <1>4 DEF P

(* A name of nothing but other characters has no words. *)
LEMMA NoWords ==
  ASSUME NEW s \in Seq(Chars), \A i \in 1..Len(s) : WordCharacter(s[i]) = <<>>
  PROVE  WordCharacters[s] = <<>>
<1> DEFINE Mute(u) == \A i \in 1..Len(u) : WordCharacter(u[i]) = <<>>
           P == {u \in Seq(Chars) : Mute(u) => WordCharacters[u] = <<>>}
<1>1. <<>> \in P
  BY WordCharactersDef, EmptySeq
<1>2. ASSUME NEW u \in Seq(Chars), NEW c \in Chars, u \in P PROVE Append(u, c) \in P
  <2>1. /\ Append(u, c) \in Seq(Chars) /\ Len(Append(u, c)) = Len(u) + 1 /\ Len(u) \in Nat
        /\ (\A i \in 1..Len(u) : Append(u, c)[i] = u[i]) /\ Append(u, c)[Len(u) + 1] = c
    BY AppendProperties, LenProperties
  <2> SUFFICES ASSUME Mute(Append(u, c)) PROVE WordCharacters[Append(u, c)] = <<>>
    BY <2>1
  <2>2. \A i \in 1..Len(u) + 1 : WordCharacter(Append(u, c)[i]) = <<>>
    BY <2>1
  <2>3. (\A i \in 1..Len(u) : i \in 1..Len(u) + 1) /\ Len(u) + 1 \in 1..Len(u) + 1
    BY <2>1
  <2>4. Mute(u) /\ WordCharacter(c) = <<>>
    BY <2>1, <2>2, <2>3
  <2>5. QED
    BY <1>2, <2>4, WordsAppend
<1>3. Mute(s)
  OBVIOUS
<1> HIDE DEF P, Mute
<1>4. s \in P
  BY <1>1, <1>2, SeqInduction
<1>5. QED
  BY <1>3, <1>4 DEF P

(* The letters of both cases are the same words. *)
LEMMA CaseKeepsWords ==
  ASSUME NEW s \in Seq(Chars)
  PROVE  /\ WordCharacters[LowerCase(s)] = WordCharacters[s]
         /\ WordCharacters[UpperCase(s)] = WordCharacters[s]
         /\ WordCharacters[Capitalised(s)] = WordCharacters[s]
<1>1. \A c \in Chars : /\ WordCharacter(LowerOf(c)) = WordCharacter(c)
                        /\ WordCharacter(UpperOf(c)) = WordCharacter(c)
  BY DEF WordCharacter, LowerOf, UpperOf, Chars, Lowers, Uppers, Digits, Separators, Spaces
<1>2. \A i \in 1..Len(s) : s[i] \in Chars
  BY LenProperties
<1>3. QED
  BY <1>1, <1>2, CaseType, SameWords

(* And a second time they change nothing. *)
LEMMA CaseSettles ==
  ASSUME NEW s \in Seq(Chars)
  PROVE  LowerCase(LowerCase(s)) = LowerCase(s) /\ UpperCase(UpperCase(s)) = UpperCase(s)
<1>1. \A c \in Chars : LowerOf(LowerOf(c)) = LowerOf(c) /\ UpperOf(UpperOf(c)) = UpperOf(c)
  BY DEF LowerOf, UpperOf
<1>2. \A i \in 1..Len(s) : s[i] \in Chars
  BY LenProperties
<1>3. /\ LowerCase(s) \in Seq(Chars) /\ UpperCase(s) \in Seq(Chars)
      /\ LowerCase(LowerCase(s)) \in Seq(Chars) /\ UpperCase(UpperCase(s)) \in Seq(Chars)
      /\ Len(LowerCase(s)) = Len(s) /\ Len(UpperCase(s)) = Len(s)
      /\ Len(LowerCase(LowerCase(s))) = Len(s) /\ Len(UpperCase(UpperCase(s))) = Len(s)
  BY CaseType
<1>4. \A i \in 1..Len(s) : /\ LowerCase(LowerCase(s))[i] = LowerCase(s)[i]
                           /\ UpperCase(UpperCase(s))[i] = UpperCase(s)[i]
  BY <1>1, <1>2, <1>3, CaseType
<1>5. QED
  BY <1>3, <1>4, SeqEqual

(* The first and the last of a set of places. *)
LEMMA MinAndMax ==
  ASSUME NEW n \in Nat, NEW T, T \subseteq 1..n, T # {}
  PROVE  /\ Min(T) \in T /\ \A i \in T : Min(T) <= i
         /\ Max(T) \in T /\ \A i \in T : i <= Max(T)
<1>1. \E i \in T : \A j \in T : i <= j
  <2>1. T \subseteq Nat
    OBVIOUS
  <2>2. QED
    BY <2>1, LeastNatural
<1>2. \E i \in T : \A j \in T : i >= j
  <2> DEFINE U == {n - i : i \in T}
  <2>1. U \subseteq Nat /\ U # {}
    <3>1. \A i \in T : n - i \in Nat
      OBVIOUS
    <3>2. QED
      BY <3>1
  <2>2. PICK l \in U : \A k \in U : l <= k
    <3> HIDE DEF U
    <3>1. QED
      BY <2>1, LeastNatural
  <2>3. PICK i \in T : l = n - i
    OBVIOUS
  <2>4. ASSUME NEW j \in T PROVE i >= j
    <3>1. n - i <= n - j
      BY <2>2, <2>3
    <3>2. i \in 1..n /\ j \in 1..n
      OBVIOUS
    <3>3. QED
      BY <3>1, <3>2
  <2>5. QED
    BY <2>4
<1>3. Min(T) \in T /\ \A i \in T : Min(T) <= i
  BY <1>1 DEF Min
<1>4. Max(T) \in T /\ \A i \in T : Max(T) >= i
  BY <1>2 DEF Max
<1>5. \A i \in T : i <= Max(T)
  BY <1>4
<1>6. QED
  BY <1>3, <1>4, <1>5

(* What TrimSpace leaves is a part of the name, with white space on both    *)
(* sides of it only.                                                       *)
TrimmedAt(s, m) ==
    /\ m + Len(TrimSpace(s)) <= Len(s)
    /\ \A i \in 1..Len(TrimSpace(s)) : TrimSpace(s)[i] = s[m + i]
    /\ \A i \in 1..Len(s) : i <= m \/ i > m + Len(TrimSpace(s)) => s[i] \in Spaces

(* There is such a place for every name. *)
LEMMA TrimFacts ==
  ASSUME NEW s \in Seq(Chars)
  PROVE  /\ TrimSpace(s) \in Seq(Chars) /\ Len(TrimSpace(s)) \in Nat
         /\ \E m \in Nat : TrimmedAt(s, m)
<1> DEFINE kept == {i \in DOMAIN s : s[i] \notin Spaces}
<1>1. Len(s) \in Nat /\ DOMAIN s = 1..Len(s) /\ \A i \in 1..Len(s) : s[i] \in Chars
  BY LenProperties
<1>2. CASE kept = {}
  <2>1. TrimSpace(s) = <<>> /\ Len(<<>>) = 0
    BY <1>2 DEF TrimSpace
  <2>2. \A i \in 1..Len(s) : s[i] \in Spaces
    BY <1>1, <1>2
  <2>3. TrimmedAt(s, 0)
    BY <1>1, <2>1, <2>2 DEF TrimmedAt
  <2>4. QED
    BY <2>1, <2>3, EmptySeq
<1>3. CASE kept # {}
  <2>1. kept \subseteq 1..Len(s)
    BY <1>1
  <2> DEFINE a == Min(kept)
             z == Max(kept)
  <2>2. TrimSpace(s) = SubSeq(s, a, z)
    BY <1>3 DEF TrimSpace
  <2>3. /\ a \in kept /\ (\A i \in kept : a <= i)
        /\ z \in kept /\ (\A i \in kept : i <= z)
    <3> HIDE DEF kept
    <3>1. QED
      BY <1>1, <1>3, <2>1, MinAndMax
  <2> HIDE DEF a, z
  <2>4. a \in 1..Len(s) /\ z \in 1..Len(s) /\ a <= z
    BY <2>1, <2>3
  <2>5. \A i \in 1..Len(s) : i < a \/ i > z => s[i] \in Spaces
    <3> SUFFICES ASSUME NEW i \in 1..Len(s), s[i] \notin Spaces PROVE ~(i < a \/ i > z)
      OBVIOUS
    <3>1. i \in kept
      BY <1>1
    <3>2. a <= i /\ i <= z
      BY <2>3, <3>1
    <3>3. QED
      BY <2>4, <3>2
  <2>6. /\ SubSeq(s, a, z) \in Seq(Chars) /\ Len(SubSeq(s, a, z)) = z - a + 1
        /\ \A i \in 1..z - a + 1 : SubSeq(s, a, z)[i] = s[a + i - 1]
    <3>1. \A i \in a..z : s[i] \in Chars
      BY <1>1, <2>4
    <3>2. QED
      BY <2>4, <3>1, SubSeqProperties
  <2>7. a - 1 \in Nat /\ z - a + 1 \in Nat /\ (a - 1) + (z - a + 1) = z
    BY <2>4
  <2>8. TrimmedAt(s, a - 1)
    <3>1. Len(TrimSpace(s)) = z - a + 1
      BY <2>2, <2>6
    <3>2. (a - 1) + Len(TrimSpace(s)) = z /\ z <= Len(s)
      BY <1>1, <2>4, <2>7, <3>1
    <3>3. \A i \in 1..Len(TrimSpace(s)) : TrimSpace(s)[i] = s[(a - 1) + i]
      <4> SUFFICES ASSUME NEW i \in 1..z - a + 1 PROVE SubSeq(s, a, z)[i] = s[(a - 1) + i]
        BY <2>2, <3>1
      <4>1. a + i - 1 = (a - 1) + i
        BY <2>4
      <4>2. QED
        BY <2>6, <4>1
    <3>4. \A i \in 1..Len(s) : i <= a - 1 => i < a
      BY <2>4
    <3>5. \A i \in 1..Len(s) : i <= a - 1 \/ i > (a - 1) + Len(TrimSpace(s)) => s[i] \in Spaces
      BY <2>5, <3>2, <3>4
    <3>6. QED
      BY <3>2, <3>3, <3>5 DEF TrimmedAt
  <2>9. QED
    BY <2>2, <2>6, <2>7, <2>8
<1>4. QED
  BY <1>2, <1>3

(* White space is in no word. *)
LEMMA TrimKeepsWords ==
  ASSUME NEW s \in Seq(Chars)
  PROVE  WordCharacters[TrimSpace(s)] = WordCharacters[s]
<1> DEFINE t == TrimSpace(s)
<1>1. t \in Seq(Chars) /\ Len(t) \in Nat
  BY TrimFacts
<1>2. PICK m \in Nat : TrimmedAt(s, m)
  BY TrimFacts
<1>3. /\ m + Len(t) <= Len(s) /\ (\A i \in 1..Len(t) : t[i] = s[m + i])
      /\ \A i \in 1..Len(s) : i <= m \/ i > m + Len(t) => s[i] \in Spaces
  BY <1>2 DEF TrimmedAt
<1>4. Len(s) \in Nat /\ \A i \in 1..Len(s) : s[i] \in Chars
  BY LenProperties
<1> HIDE DEF t
<1> DEFINE p == SubSeq(s, 1, m)
           l == m + Len(t)
           q == SubSeq(s, l + 1, Len(s))
<1>5. p \in Seq(Chars) /\ Len(p) = m /\ \A i \in 1..m : p[i] = s[i]
  <2>1. \A i \in 1..m : s[i] \in Chars
    BY <1>1, <1>3, <1>4
  <2>2. QED
    BY <2>1, SubSeqProperties
<1>6. /\ q \in Seq(Chars) /\ Len(q) = Len(s) - l
      /\ \A i \in 1..Len(s) - l : q[i] = s[l + i]
  <2>1. l \in Nat /\ l <= Len(s)
    BY <1>1, <1>3
  <2>2. \A i \in l + 1..Len(s) : s[i] \in Chars
    BY <1>4, <2>1
  <2>3. /\ q \in Seq(Chars) /\ Len(q) = IF l + 1 <= Len(s) THEN Len(s) - (l + 1) + 1 ELSE 0
        /\ \A i \in 1..Len(s) - (l + 1) + 1 : q[i] = s[(l + 1) + i - 1]
    BY <1>4, <2>1, <2>2, SubSeqProperties
  <2> HIDE DEF q
  <2>4. Len(s) - (l + 1) + 1 = Len(s) - l /\ \A i \in 1..Len(s) - l : (l + 1) + i - 1 = l + i
    BY <1>4, <2>1
  <2>5. Len(q) = Len(s) - l
    BY <1>4, <2>1, <2>3
  <2>6. QED
    BY <2>3, <2>4, <2>5
<1>7. l \in Nat /\ l <= Len(s)
  BY <1>1, <1>3
<1> HIDE DEF p, q
<1>8. (p \o t) \o q \in Seq(Chars) /\ p \o t \in Seq(Chars) /\ Len(p \o t) = l /\ Len((p \o t) \o q) = Len(s)
  <2>1. p \o t \in Seq(Chars) /\ Len(p \o t) = l
    BY <1>1, <1>5, ConcatProperties
  <2>2. (p \o t) \o q \in Seq(Chars) /\ Len((p \o t) \o q) = l + (Len(s) - l)
    <3>1. PICK u \in Seq(Chars) : u = p \o t
      BY <2>1
    <3>2. u \o q \in Seq(Chars) /\ Len(u \o q) = Len(u) + Len(q)
      BY <1>6, ConcatProperties
    <3>3. Len(u) = l
      BY <2>1, <3>1
    <3>4. QED
      BY <1>6, <3>1, <3>2, <3>3, Zenon
  <2>3. l + (Len(s) - l) = Len(s)
    BY <1>4, <1>7
  <2> HIDE DEF l
  <2>4. Len((p \o t) \o q) = Len(s)
    BY <2>2, <2>3
  <2>5. QED
    BY <2>1, <2>2, <2>4, Zenon
<1>9. \A i \in 1..Len(s) : ((p \o t) \o q)[i] = s[i]
  <2> SUFFICES ASSUME NEW i \in 1..Len(s) PROVE ((p \o t) \o q)[i] = s[i]
    OBVIOUS
  <2>1. ((p \o t) \o q)[i] = IF i <= l THEN (p \o t)[i] ELSE q[i - l]
    <3>1. i \in 1..Len(p \o t) + Len(q)
      BY <1>4, <1>6, <1>7, <1>8
    <3>2. QED
      BY <1>6, <1>8, <3>1, ConcatProperties
  <2>2. CASE i <= m
    <3>1. i <= l /\ i \in 1..m /\ i \in 1..Len(p) + Len(t)
      BY <1>1, <1>5, <2>2
    <3>2. (p \o t)[i] = p[i]
      BY <1>1, <1>5, <2>2, <3>1, ConcatProperties
    <3>3. QED
      BY <1>5, <2>1, <3>1, <3>2
  <2>3. CASE i > m /\ i <= l
    <3>1. i - m \in 1..Len(t) /\ i \in 1..Len(p) + Len(t) /\ m + (i - m) = i /\ ~(i <= Len(p))
      BY <1>1, <1>5, <2>3
    <3>2. (p \o t)[i] = t[i - m]
      BY <1>1, <1>5, <3>1, ConcatProperties
    <3>3. t[i - m] = s[m + (i - m)]
      BY <1>3, <3>1
    <3>4. QED
      BY <2>1, <2>3, <3>1, <3>2, <3>3
  <2>4. CASE i > l
    <3>1. i - l \in 1..Len(s) - l /\ l + (i - l) = i /\ ~(i <= l)
      BY <1>4, <1>7, <2>4
    <3>2. q[i - l] = s[l + (i - l)]
      BY <1>6, <3>1
    <3>3. QED
      BY <2>1, <3>1, <3>2
  <2>5. i <= m \/ (i > m /\ i <= l) \/ i > l
    BY <1>7
  <2>6. QED
    BY <2>2, <2>3, <2>4, <2>5, Zenon
<1>10. s = (p \o t) \o q
  BY <1>8, <1>9, SeqEqual
<1>11. WordCharacters[p] = <<>>
  <2>1. \A c \in Spaces : WordCharacter(c) = <<>>
    BY DEF WordCharacter, Spaces, Lowers, Uppers, Digits
  <2>2. \A i \in 1..m : i \in 1..Len(s) /\ i <= m
    BY <1>1, <1>3, <1>4
  <2>3. \A i \in 1..Len(p) : WordCharacter(p[i]) = <<>>
    BY <1>3, <1>5, <2>1, <2>2
  <2>4. QED
    BY <1>5, <2>3, NoWords
<1>12. WordCharacters[q] = <<>>
  <2>1. \A c \in Spaces : WordCharacter(c) = <<>>
    BY DEF WordCharacter, Spaces, Lowers, Uppers, Digits
  <2>2. \A i \in 1..Len(s) - l : l + i \in 1..Len(s) /\ l + i > m + Len(t)
    BY <1>4, <1>7
  <2>3. \A i \in 1..Len(q) : WordCharacter(q[i]) = <<>>
    BY <1>3, <1>6, <2>1, <2>2
  <2>4. QED
    BY <1>6, <2>3, NoWords
<1>13. WordCharacters[s] = (<<>> \o WordCharacters[t]) \o <<>>
  <2>1. WordCharacters[(p \o t) \o q] = WordCharacters[p \o t] \o WordCharacters[q]
    BY <1>6, <1>8, WordsConcat
  <2>2. WordCharacters[p \o t] = WordCharacters[p] \o WordCharacters[t]
    BY <1>1, <1>5, WordsConcat
  <2>3. QED
    BY <1>10, <1>11, <1>12, <2>1, <2>2, Zenon
<1>14. PICK w \in Seq(Chars) : w = WordCharacters[t]
  BY <1>1, WordsType
<1>15. (<<>> \o w) \o <<>> = w
  BY ConcatEmptySeq
<1>16. QED
  BY <1>13, <1>14, <1>15, Zenon DEF t

(* A name without white space is left as it is. *)
LEMMA TrimSettles ==
  ASSUME NEW s \in Seq(Chars), \A i \in 1..Len(s) : s[i] \notin Spaces
  PROVE  TrimSpace(s) = s
<1>1. TrimSpace(s) \in Seq(Chars) /\ Len(TrimSpace(s)) \in Nat /\ Len(s) \in Nat
  BY TrimFacts, LenProperties
<1>2. PICK m \in Nat : TrimmedAt(s, m)
  BY TrimFacts
<1>3. /\ m + Len(TrimSpace(s)) <= Len(s) /\ (\A i \in 1..Len(TrimSpace(s)) : TrimSpace(s)[i] = s[m + i])
      /\ \A i \in 1..Len(s) : ~(i <= m) /\ ~(i > m + Len(TrimSpace(s)))
  BY <1>2 DEF TrimmedAt
<1>4. Len(TrimSpace(s)) = Len(s) /\ \A i \in 1..Len(s) : m + i = i
  <2>1. CASE Len(s) = 0
    BY <1>1, <1>3, <2>1
  <2>2. CASE Len(s) # 0
    <3>1. 1 \in 1..Len(s) /\ Len(s) \in 1..Len(s)
      BY <1>1, <2>2
    <3>2. ~(1 <= m) /\ ~(Len(s) > m + Len(TrimSpace(s)))
      BY <1>3, <3>1
    <3>3. m = 0
      BY <3>2
    <3>4. QED
      BY <1>1, <1>3, <3>2, <3>3
  <2>3. QED
    BY <2>1, <2>2
<1>5. \A i \in 1..Len(s) : TrimSpace(s)[i] = s[i]
  BY <1>3, <1>4
<1>6. QED
  BY <1>1, <1>4, <1>5, SeqEqual

(* What splitWords gets wrong in the trimmed name is in the name. *)
LEMMA TrimKeepsDoubling ==
  ASSUME NEW s \in Seq(Chars), Doubling(TrimSpace(s))
  PROVE  Doubling(s)
<1>1. Len(TrimSpace(s)) \in Nat /\ Len(s) \in Nat
  BY TrimFacts, LenProperties
<1>2. PICK m \in Nat : TrimmedAt(s, m)
  BY TrimFacts
<1>3. m + Len(TrimSpace(s)) <= Len(s) /\ \A i \in 1..Len(TrimSpace(s)) : TrimSpace(s)[i] = s[m + i]
  BY <1>2 DEF TrimmedAt
<1>4. PICK i \in 2..Len(TrimSpace(s)) - 1 :
         TrimSpace(s)[i - 1] \in Uppers \cup Digits /\ TrimSpace(s)[i] \in Uppers
         /\ TrimSpace(s)[i + 1] \in Lowers
  BY DEF Doubling
<1>5. /\ i - 1 \in 1..Len(TrimSpace(s)) /\ i \in 1..Len(TrimSpace(s)) /\ i + 1 \in 1..Len(TrimSpace(s))
      /\ m + i \in 2..Len(s) - 1 /\ m + (i - 1) = (m + i) - 1 /\ m + (i + 1) = (m + i) + 1
  BY <1>1, <1>3
<1>6. /\ s[(m + i) - 1] = TrimSpace(s)[i - 1] /\ s[m + i] = TrimSpace(s)[i]
      /\ s[(m + i) + 1] = TrimSpace(s)[i + 1]
  <2>1. /\ TrimSpace(s)[i - 1] = s[m + (i - 1)] /\ TrimSpace(s)[i] = s[m + i]
        /\ TrimSpace(s)[i + 1] = s[m + (i + 1)]
    BY <1>3, <1>5, Zenon
  <2>2. QED
    BY <1>5, <2>1, Zenon
<1>7. QED
  BY <1>4, <1>5, <1>6 DEF Doubling

-----------------------------------------------------------------------------
(* Snake and kebab case.                                                   *)

(* What the two passes of snake case make of a name without line ends. *)
Plain == Lowers \cup Digits \cup {"_", "$"}

(* No underscore at the front, and none doubled. *)
Neat(s) == /\ s # <<>> => s[1] # "_"
           /\ \A i \in 1..Len(s) - 1 : ~(s[i] = "_" /\ s[i + 1] = "_")

(* An underscore is in no word. *)
LEMMA UnderscoreFacts ==
  ASSUME NEW S, S \subseteq Chars, "_" \in S, NEW out \in Seq(S)
  PROVE  /\ Underscore(out) \in Seq(S)
         /\ WordCharacters[Underscore(out)] = WordCharacters[out]
<1>1. Underscore(out) = out \/ Underscore(out) = Append(out, "_")
  BY DEF Underscore
<1>2. Append(out, "_") \in Seq(S)
  BY AppendProperties
<1>3. out \in Seq(Chars) /\ "_" \in Chars
  BY SeqMonotonic
<1>4. WordCharacter("_") = <<>>
  BY DEF WordCharacter, Lowers, Uppers, Digits
<1>5. WordCharacters[Append(out, "_")] = WordCharacters[out]
  BY <1>3, <1>4, WordsAppend
<1>6. QED
  BY <1>1, <1>2, <1>5

(* What one character adds to the name. *)
LEMMA SnakeStepCases ==
  ASSUME NEW x, NEW c \in Chars
  PROVE  /\ c \in Separators => SnakeStep(x, c).out = Underscore(x.out)
         /\ c \in Uppers => \/ SnakeStep(x, c).out = Append(x.out, LowerOf(c))
                            \/ SnakeStep(x, c).out = Append(Underscore(x.out), LowerOf(c))
         /\ c \notin Separators \cup Uppers => SnakeStep(x, c).out = Append(x.out, c)
<1>1. c \in Separators => c \notin Uppers
  BY DEF Separators, Uppers
<1>2. QED
  BY <1>1 DEF SnakeStep

(* It adds its own words to those of the name, *)
LEMMA SnakeStepFacts ==
  ASSUME NEW S, S \subseteq Chars, Plain \subseteq S, NEW x \in SnakeScans, x.out \in Seq(S),
         NEW c \in S \cup Uppers \cup Separators
  PROVE  /\ SnakeStep(x, c).out \in Seq(S)
         /\ WordCharacters[SnakeStep(x, c).out] = WordCharacters[Append(x.out, c)]
<1>1. c \in Chars /\ x.out \in Seq(Chars) /\ "_" \in S
  BY SeqMonotonic DEF Chars, Plain
<1>2. /\ Underscore(x.out) \in Seq(S) /\ Underscore(x.out) \in Seq(Chars)
      /\ WordCharacters[Underscore(x.out)] = WordCharacters[x.out]
  BY <1>1, UnderscoreFacts, SeqMonotonic
<1>3. CASE c \in Separators
  <2>1. WordCharacter(c) = <<>>
    BY <1>3 DEF WordCharacter, Separators, Lowers, Uppers, Digits
  <2>2. WordCharacters[Append(x.out, c)] = WordCharacters[x.out]
    BY <1>1, <2>1, WordsAppend
  <2>3. QED
    BY <1>1, <1>2, <1>3, <2>2, SnakeStepCases
<1>4. CASE c \in Uppers
  <2>1. LowerOf(c) \in S /\ LowerOf(c) \in Chars /\ WordCharacter(LowerOf(c)) = WordCharacter(c)
    BY <1>4 DEF WordCharacter, Plain, LowerOf, Lowers, Uppers, Digits
  <2>2. ASSUME NEW o \in Seq(S), WordCharacters[o] = WordCharacters[x.out]
        PROVE  /\ Append(o, LowerOf(c)) \in Seq(S)
               /\ WordCharacters[Append(o, LowerOf(c))] = WordCharacters[Append(x.out, c)]
    <3>1. o \in Seq(Chars)
      BY SeqMonotonic
    <3>2. WordCharacters[Append(o, LowerOf(c))] = WordCharacters[o] \o WordCharacter(LowerOf(c))
      BY <2>1, <3>1, WordsAppend
    <3>3. WordCharacters[Append(x.out, c)] = WordCharacters[x.out] \o WordCharacter(c)
      BY <1>1, WordsAppend
    <3>4. WordCharacters[Append(o, LowerOf(c))] = WordCharacters[Append(x.out, c)]
      BY <2>1, <2>2, <3>2, <3>3, Zenon
    <3>5. QED
      BY <2>1, <3>4, AppendProperties
  <2>3. QED
    BY <1>1, <1>2, <1>4, <2>2, SnakeStepCases
<1>5. CASE c \notin Separators \cup Uppers
  <2>1. SnakeStep(x, c).out = Append(x.out, c) /\ c \in S
    BY <1>1, <1>5, SnakeStepCases
  <2>2. Append(x.out, c) \in Seq(S)
    BY <2>1, AppendProperties
  <2>3. QED
    BY <2>1, <2>2
<1>6. QED
  BY <1>3, <1>4, <1>5

(* and so the first pass keeps the words, and leaves no capital and no separator. *)
LEMMA SnakeScanFacts ==
  ASSUME NEW S, S \subseteq Chars, Plain \subseteq S, NEW s \in Seq(S \cup Uppers \cup Separators)
  PROVE  /\ SnakeScan[s].out \in Seq(S)
         /\ WordCharacters[SnakeScan[s].out] = WordCharacters[s]
<1> DEFINE D == S \cup Uppers \cup Separators
           P == {u \in Seq(D) : /\ SnakeScan[u].out \in Seq(S)
                                /\ WordCharacters[SnakeScan[u].out] = WordCharacters[u]}
<1>1. D \subseteq Chars
  BY DEF Chars
<1>2. <<>> \in P
  <2>1. <<>> \in Seq(D) /\ <<>> \in Seq(S)
    BY EmptySeq
  <2>2. SnakeScan[<<>>].out = <<>>
    BY SnakeScanDef
  <2>3. QED
    BY <2>1, <2>2
<1> HIDE DEF D
<1>3. ASSUME NEW u \in Seq(D), NEW c \in D, u \in P PROVE Append(u, c) \in P
  <2>1. u \in Seq(Chars) /\ c \in Chars /\ Append(u, c) \in Seq(D)
    BY <1>1, SeqMonotonic, AppendProperties
  <2> DEFINE x == SnakeScan[u]
  <2>2. x \in SnakeScans /\ x.out \in Seq(S) /\ x.out \in Seq(Chars)
        /\ WordCharacters[x.out] = WordCharacters[u]
    BY <1>3, <2>1, SnakeScanDef, SeqMonotonic
  <2>3. SnakeScan[Append(u, c)] = SnakeStep(x, c)
    BY <2>1, SnakeScanDef
  <2> HIDE DEF x
  <2>4. /\ SnakeStep(x, c).out \in Seq(S)
        /\ WordCharacters[SnakeStep(x, c).out] = WordCharacters[Append(x.out, c)]
    BY <2>2, SnakeStepFacts DEF D
  <2>5. WordCharacters[Append(x.out, c)] = WordCharacters[Append(u, c)]
    <3>1. /\ WordCharacters[Append(x.out, c)] = WordCharacters[x.out] \o WordCharacter(c)
          /\ WordCharacters[Append(u, c)] = WordCharacters[u] \o WordCharacter(c)
      BY <2>1, <2>2, WordsAppend
    <3>2. QED
      BY <2>2, <3>1, Zenon
  <2>6. QED
    BY <2>1, <2>3, <2>4, <2>5
<1> HIDE DEF P
<1>4. s \in P
  <2>1. s \in Seq(D)
    BY DEF D
  <2>2. QED
    BY <1>2, <1>3, <2>1, SeqInduction
<1>5. QED
  BY <1>4 DEF P

(* The empty name is neat. *)
LEMMA NeatEmpty == Neat(<<>>)
<1>1. \A n \in Nat : n = 0 => \A i \in 1..n - 1 : FALSE
  OBVIOUS
<1>2. Len(<<>>) = 0
  OBVIOUS
<1>3. \A i \in 1..Len(<<>>) - 1 : FALSE
  BY <1>1, <1>2
<1>4. QED
  BY <1>3 DEF Neat

(* An underscore more keeps a name neat unless it stands at the front or    *)
(* after another one; and what is neat with one character more was neat.   *)
LEMMA NeatAppend ==
  ASSUME NEW s \in Seq(Chars), NEW c \in Chars
  PROVE  Neat(Append(s, c)) <=> Neat(s) /\ (c = "_" => s # <<>> /\ Last(s) # "_")
<1>1. /\ Len(Append(s, c)) = Len(s) + 1 /\ Len(s) \in Nat /\ Append(s, c) # <<>>
      /\ (\A i \in 1..Len(s) : Append(s, c)[i] = s[i]) /\ Append(s, c)[Len(s) + 1] = c
  BY AppendProperties, LenProperties
<1>2. CASE s = <<>>
  <2>1. Len(s) = 0 /\ Append(s, c)[1] = c
    BY <1>1, <1>2
  <2>2. \A i \in 1..Len(s) : FALSE
    BY <2>1
  <2>3. Neat(s)
    BY <1>2, <2>1 DEF Neat
  <2>4. Neat(Append(s, c)) <=> c # "_"
    BY <1>1, <2>1 DEF Neat
  <2>5. QED
    BY <1>2, <2>3, <2>4
<1>3. CASE s # <<>>
  <2>1. Len(s) \in Nat \ {0} /\ Last(s) = s[Len(s)]
    BY <1>3, EmptySeq DEF Last
  <2>2. Append(s, c)[1] = s[1] /\ Append(s, c)[Len(s)] = Last(s)
    BY <1>1, <2>1
  <2>3. ASSUME Neat(Append(s, c)) PROVE Neat(s) /\ (c = "_" => Last(s) # "_")
    <3>1. /\ Append(s, c)[1] # "_"
          /\ \A i \in 1..Len(s) : ~(Append(s, c)[i] = "_" /\ Append(s, c)[i + 1] = "_")
      <4>1. Len(Append(s, c)) - 1 = Len(s)
        BY <1>1
      <4>2. QED
        BY <1>1, <2>3, <4>1 DEF Neat
    <3>2. \A i \in 1..Len(s) - 1 : i \in 1..Len(s) /\ i + 1 \in 1..Len(s)
      BY <2>1
    <3>3. \A i \in 1..Len(s) - 1 : ~(s[i] = "_" /\ s[i + 1] = "_")
      BY <1>1, <3>1, <3>2
    <3>4. c = "_" => Last(s) # "_"
      <4>1. Len(s) \in 1..Len(s)
        BY <2>1
      <4>2. ~(Append(s, c)[Len(s)] = "_" /\ Append(s, c)[Len(s) + 1] = "_")
        BY <3>1, <4>1
      <4>3. QED
        BY <1>1, <2>2, <4>2
    <3>5. QED
      BY <2>2, <3>1, <3>3, <3>4 DEF Neat
  <2>4. ASSUME Neat(s), c = "_" => Last(s) # "_" PROVE Neat(Append(s, c))
    <3>1. s[1] # "_" /\ \A i \in 1..Len(s) - 1 : ~(s[i] = "_" /\ s[i + 1] = "_")
      BY <1>3, <2>4 DEF Neat
    <3>2. ASSUME NEW i \in 1..Len(s) PROVE ~(Append(s, c)[i] = "_" /\ Append(s, c)[i + 1] = "_")
      <4>1. CASE i = Len(s)
        BY <1>1, <2>2, <2>4, <4>1
      <4>2. CASE i # Len(s)
        <5>1. i \in 1..Len(s) - 1 /\ i + 1 \in 1..Len(s)
          BY <2>1, <4>2
        <5>2. QED
          BY <1>1, <3>1, <5>1
      <4>3. QED
        BY <4>1, <4>2
    <3>3. \A i \in 1..Len(Append(s, c)) - 1 : i \in 1..Len(s)
      BY <1>1
    <3>4. QED
      BY <2>2, <3>1, <3>2, <3>3 DEF Neat
  <2>5. QED
    BY <1>3, <2>3, <2>4
<1>4. QED
  BY <1>2, <1>3

(* The second pass keeps the words and makes a name neat, or leaves it if it is. *)
LEMMA CollapsedFacts ==
  ASSUME NEW S, S \subseteq Chars, "_" \in S, NEW s \in Seq(S)
  PROVE  /\ Collapsed[s] \in Seq(S) /\ WordCharacters[Collapsed[s]] = WordCharacters[s]
         /\ Neat(Collapsed[s]) /\ (Neat(s) => Collapsed[s] = s)
<1> DEFINE Good(u) == /\ Collapsed[u] \in Seq(S) /\ WordCharacters[Collapsed[u]] = WordCharacters[u]
                      /\ Neat(Collapsed[u]) /\ (Neat(u) => Collapsed[u] = u)
           P == {u \in Seq(S) : Good(u)}
<1>1. <<>> \in P
  <2>1. <<>> \in Seq(S) /\ Collapsed[<<>>] = <<>>
    BY CollapsedDef, EmptySeq
  <2>2. Neat(<<>>)
    BY NeatEmpty
  <2>3. QED
    BY <2>1, <2>2
<1>2. ASSUME NEW u \in Seq(S), NEW c \in S, u \in P PROVE Append(u, c) \in P
  <2>1. u \in Seq(Chars) /\ c \in Chars /\ Append(u, c) \in Seq(S)
    BY SeqMonotonic, AppendProperties
  <2>2. PICK o \in Seq(S) : o = Collapsed[u]
    BY <1>2
  <2>3. o \in Seq(Chars) /\ WordCharacters[o] = WordCharacters[u] /\ Neat(o) /\ (Neat(u) => o = u)
    BY <1>2, <2>2, SeqMonotonic
  <2>4. Collapsed[Append(u, c)] = Collapse(o, c)
    BY <2>1, <2>2, CollapsedDef
  <2>5. WordCharacters[Append(o, c)] = WordCharacters[Append(u, c)] /\ Append(o, c) \in Seq(S)
    <3>1. /\ WordCharacters[Append(o, c)] = WordCharacters[o] \o WordCharacter(c)
          /\ WordCharacters[Append(u, c)] = WordCharacters[u] \o WordCharacter(c)
      BY <2>1, <2>3, WordsAppend
    <3>2. WordCharacters[Append(o, c)] = WordCharacters[Append(u, c)]
      BY <2>3, <3>1, Zenon
    <3>3. QED
      BY <3>2, AppendProperties
  <2>6. CASE c = "_" /\ ~(o # <<>> /\ Last(o) # "_")
    <3>1. Collapse(o, c) = o
      BY <2>6 DEF Collapse, Underscore
    <3>2. WordCharacter(c) = <<>>
      BY <2>6 DEF WordCharacter, Lowers, Uppers, Digits
    <3>3. WordCharacters[Append(u, c)] = WordCharacters[o]
      BY <2>1, <2>3, <3>2, WordsAppend
    <3>4. ~Neat(Append(u, c))
      BY <2>1, <2>3, <2>6, NeatAppend
    <3>5. Good(Append(u, c))
      BY <2>3, <2>4, <3>1, <3>3, <3>4
    <3>6. QED
      BY <2>1, <3>5
  <2>7. CASE c = "_" => o # <<>> /\ Last(o) # "_"
    <3>1. Collapse(o, c) = Append(o, c)
      BY <2>7 DEF Collapse, Underscore
    <3>2. Neat(Append(o, c))
      BY <2>1, <2>3, <2>7, NeatAppend
    <3>3. Neat(Append(u, c)) => o = u
      BY <2>1, <2>3, NeatAppend
    <3>4. Good(Append(u, c))
      BY <2>4, <2>5, <3>1, <3>2, <3>3
    <3>5. QED
      BY <2>1, <3>4
  <2>8. QED
    BY <2>6, <2>7
<1> HIDE DEF P
<1>3. s \in P
  BY <1>1, <1>2, SeqInduction
<1>4. QED
  BY <1>3 DEF P

(* What snake case leaves of a name: s is one that it would not change. *)
Snake(s) == Neat(s) /\ (s # <<>> => Last(s) # "_")

(* Snake case makes such a name of every one. *)
LEMMA SnakeCaseFacts ==
  ASSUME NEW S, S \subseteq Chars, Plain \subseteq S, NEW s \in Seq(Chars),
         TrimSpace(s) \in Seq(S \cup Uppers \cup Separators)
  PROVE  /\ SnakeCase(s) \in Seq(S) /\ Snake(SnakeCase(s))
         /\ WordCharacters[SnakeCase(s)] = WordCharacters[s]
<1>1. "_" \in S /\ "_" \in Chars
  BY DEF Plain
<1>2. PICK out \in Seq(S) : out = SnakeScan[TrimSpace(s)].out /\ WordCharacters[out] = WordCharacters[s]
  BY SnakeScanFacts, TrimKeepsWords
<1>3. PICK final \in Seq(S) : /\ final = Collapsed[out]
                              /\ WordCharacters[final] = WordCharacters[s] /\ Neat(final)
  <2>1. /\ Collapsed[out] \in Seq(S) /\ WordCharacters[Collapsed[out]] = WordCharacters[out]
        /\ Neat(Collapsed[out])
    BY <1>1, CollapsedFacts
  <2>2. WordCharacters[Collapsed[out]] = WordCharacters[s]
    BY <1>2, <2>1, Zenon
  <2>3. QED
    BY <2>1, <2>2
<1>4. SnakeCase(s) = IF final # <<>> /\ Last(final) = "_" THEN Front(final) ELSE final
  BY <1>2, <1>3 DEF SnakeCase
<1>5. CASE final # <<>> /\ Last(final) = "_"
  <2>1. Front(final) \in Seq(S) /\ final = Append(Front(final), "_")
    BY <1>5, FrontAndLast
  <2>2. PICK f \in Seq(Chars) : f = Front(final) /\ f \in Seq(S)
    BY <2>1, SeqMonotonic
  <2>3. final = Append(f, "_")
    BY <2>1, <2>2, Zenon
  <2>4. Neat(f) /\ (f # <<>> => Last(f) # "_")
    BY <1>1, <1>3, <2>3, NeatAppend
  <2>5. WordCharacter("_") = <<>>
    BY DEF WordCharacter, Lowers, Uppers, Digits
  <2>6. WordCharacters[final] = WordCharacters[f]
    BY <1>1, <2>3, <2>5, WordsAppend
  <2>7. SnakeCase(s) = f
    BY <1>4, <1>5, <2>2, Zenon
  <2>8. QED
    BY <1>3, <2>2, <2>4, <2>6, <2>7 DEF Snake
<1>6. CASE ~(final # <<>> /\ Last(final) = "_")
  BY <1>3, <1>4, <1>6 DEF Snake
<1>7. QED
  BY <1>5, <1>6

Dashed(s) == ReplaceAll(s, "_", "-")

(* ReplaceAll replaces character by character. *)
LEMMA DashedFacts ==
  ASSUME NEW s \in Seq(Chars)
  PROVE  /\ Dashed(s) \in Seq(Chars) /\ Len(Dashed(s)) = Len(s)
         /\ \A i \in 1..Len(s) : Dashed(s)[i] = IF s[i] = "_" THEN "-" ELSE s[i]
<1>1. Len(s) \in Nat /\ \A i \in 1..Len(s) : s[i] \in Chars
  BY LenProperties
<1>2. "-" \in Chars
  BY DEF Chars, Separators
<1>3. Dashed(s) \in [1..Len(s) -> Chars]
  BY <1>1, <1>2 DEF Dashed, ReplaceAll
<1>4. Dashed(s) \in Seq(Chars)
  BY <1>1, <1>3, SeqDef
<1>5. Len(Dashed(s)) = Len(s)
  BY <1>1, <1>3, <1>4
<1>6. QED
  BY <1>1, <1>4, <1>5 DEF Dashed, ReplaceAll

(* Also in a name with one character more. *)
LEMMA DashedAppend ==
  ASSUME NEW s \in Seq(Chars), NEW c \in Chars
  PROVE  Dashed(Append(s, c)) = Append(Dashed(s), IF c = "_" THEN "-" ELSE c)
<1> DEFINE d == IF c = "_" THEN "-" ELSE c
<1>1. d \in Chars
  BY DEF Chars, Separators
<1>2. /\ Append(s, c) \in Seq(Chars) /\ Len(Append(s, c)) = Len(s) + 1 /\ Len(s) \in Nat
      /\ (\A i \in 1..Len(s) : Append(s, c)[i] = s[i]) /\ Append(s, c)[Len(s) + 1] = c
  BY AppendProperties, LenProperties
<1>3. PICK u \in Seq(Chars) : u = Dashed(Append(s, c))
  BY <1>2, DashedFacts
<1>4. /\ Len(u) = Len(s) + 1
      /\ \A i \in 1..Len(s) + 1 : u[i] = IF Append(s, c)[i] = "_" THEN "-" ELSE Append(s, c)[i]
  BY <1>2, <1>3, DashedFacts
<1>5. PICK e \in Seq(Chars) : e = Dashed(s)
  BY DashedFacts
<1>6. Len(e) = Len(s) /\ \A i \in 1..Len(s) : e[i] = IF s[i] = "_" THEN "-" ELSE s[i]
  BY <1>5, DashedFacts
<1> HIDE DEF d
<1>7. PICK v \in Seq(Chars) : v = Append(e, d)
  BY <1>1, AppendProperties
<1>8. Len(v) = Len(s) + 1 /\ (\A i \in 1..Len(s) : v[i] = e[i]) /\ v[Len(s) + 1] = d
  <2>1. /\ Len(Append(e, d)) = Len(e) + 1 /\ (\A i \in 1..Len(e) : Append(e, d)[i] = e[i])
        /\ Append(e, d)[Len(e) + 1] = d
    BY <1>1, AppendProperties
  <2>2. QED
    BY <1>6, <1>7, <2>1, Zenon
<1>9. ASSUME NEW i \in 1..Len(s) + 1 PROVE u[i] = v[i]
  <2>1. CASE i = Len(s) + 1
    BY <1>2, <1>4, <1>8, <2>1 DEF d
  <2>2. CASE i # Len(s) + 1
    <3>1. i \in 1..Len(s)
      BY <1>2, <2>2
    <3>2. QED
      BY <1>2, <1>4, <1>6, <1>8, <3>1
  <2>3. QED
    BY <2>1, <2>2
<1>10. u = v
  BY <1>4, <1>8, <1>9, SeqEqual
<1>11. QED
  BY <1>3, <1>5, <1>7, <1>10, Zenon DEF d

(* A second pass leaves a snake case name as it is, and brings a kebab case *)
(* name back to the snake case it was made of.                             *)
LEMMA SnakeScanSettles ==
  ASSUME NEW s \in Seq(Plain)
  PROVE  /\ SnakeScan[s].out = s
         /\ Neat(s) => SnakeScan[Dashed(s)].out = s
<1> DEFINE P == {u \in Seq(Plain) : /\ SnakeScan[u].out = u
                                    /\ Neat(u) => SnakeScan[Dashed(u)].out = u}
<1>1. Plain \subseteq Chars
  BY DEF Plain, Chars
<1>2. <<>> \in P
  <2>1. <<>> \in Seq(Plain) /\ SnakeScan[<<>>].out = <<>> /\ <<>> \in Seq(Chars)
    BY SnakeScanDef, EmptySeq
  <2>2. Dashed(<<>>) = <<>>
    <3>1. Dashed(<<>>) \in Seq(Chars) /\ Len(Dashed(<<>>)) = 0
      BY <2>1, DashedFacts, EmptySeq
    <3>2. QED
      BY <3>1, EmptySeq
  <2>3. QED
    BY <2>1, <2>2
<1>3. ASSUME NEW u \in Seq(Plain), NEW c \in Plain, u \in P PROVE Append(u, c) \in P
  <2>1. u \in Seq(Chars) /\ c \in Chars /\ Append(u, c) \in Seq(Plain)
    BY <1>1, SeqMonotonic, AppendProperties
  <2>2. c \notin Separators \cup Uppers
    BY DEF Plain, Separators, Uppers, Lowers, Digits
  <2>3. SnakeScan[Append(u, c)].out = Append(u, c)
    <3>1. SnakeScan[Append(u, c)] = SnakeStep(SnakeScan[u], c)
      BY <2>1, SnakeScanDef
    <3>2. SnakeStep(SnakeScan[u], c).out = Append(SnakeScan[u].out, c)
      BY <2>1, <2>2, SnakeStepCases
    <3>3. SnakeScan[u].out = u
      BY <1>3
    <3>4. QED
      BY <3>1, <3>2, <3>3
  <2>4. ASSUME Neat(Append(u, c)) PROVE SnakeScan[Dashed(Append(u, c))].out = Append(u, c)
    <3>1. Neat(u) /\ (c = "_" => u # <<>> /\ Last(u) # "_")
      BY <2>1, <2>4, NeatAppend
    <3>2. SnakeScan[Dashed(u)].out = u
      BY <1>3, <3>1
    <3>3. PICK d \in Chars : d = IF c = "_" THEN "-" ELSE c
      BY <2>1 DEF Chars, Separators
    <3>4. Dashed(u) \in Seq(Chars) /\ Dashed(Append(u, c)) = Append(Dashed(u), d)
      BY <2>1, <3>3, DashedFacts, DashedAppend
    <3>5. SnakeScan[Dashed(Append(u, c))] = SnakeStep(SnakeScan[Dashed(u)], d)
      BY <3>4, SnakeScanDef
    <3>6. CASE c = "_"
      <4>1. d \in Separators
        BY <3>3, <3>6 DEF Separators
      <4>2. SnakeStep(SnakeScan[Dashed(u)], d).out = Underscore(u)
        BY <3>2, <4>1, SnakeStepCases
      <4>3. Underscore(u) = Append(u, c)
        BY <3>1, <3>6 DEF Underscore
      <4>4. QED
        BY <3>5, <4>2, <4>3
    <3>7. CASE c # "_"
      <4>1. SnakeStep(SnakeScan[Dashed(u)], d).out = Append(u, c)
        BY <2>2, <3>2, <3>3, <3>7, SnakeStepCases
      <4>2. QED
        BY <3>5, <4>1
    <3>8. QED
      BY <3>6, <3>7
  <2>5. QED
    BY <2>1, <2>3, <2>4
<1> HIDE DEF P
<1>4. s \in P
  BY <1>2, <1>3, SeqInduction
<1>5. QED
  BY <1>4 DEF P

(* So both are left alone as a whole. *)
LEMMA SnakeSettles ==
  ASSUME NEW s \in Seq(Plain), Snake(s)
  PROVE  /\ SnakeCase(s) = s
         /\ KebabCase(Dashed(s)) = Dashed(s)
<1>1. Plain \subseteq Chars /\ "_" \in Plain
  BY DEF Plain, Chars
<1>2. s \in Seq(Chars) /\ Neat(s) /\ (s # <<>> => Last(s) # "_")
  BY <1>1, SeqMonotonic DEF Snake
<1>3. \A i \in 1..Len(s) : s[i] \in Plain
  BY LenProperties
<1>4. TrimSpace(s) = s
  <2>1. \A i \in 1..Len(s) : s[i] \notin Spaces
    BY <1>3 DEF Plain, Lowers, Digits, Spaces
  <2>2. QED
    BY <1>2, <2>1, TrimSettles
<1>5. TrimSpace(Dashed(s)) = Dashed(s)
  <2>1. \A i \in 1..Len(s) : (IF s[i] = "_" THEN "-" ELSE s[i]) \notin Spaces
    BY <1>3 DEF Plain, Lowers, Digits, Spaces
  <2>2. \A i \in 1..Len(Dashed(s)) : Dashed(s)[i] \notin Spaces
    BY <1>2, <2>1, DashedFacts
  <2>3. QED
    BY <1>2, <2>2, DashedFacts, TrimSettles
<1>6. SnakeScan[s].out = s /\ SnakeScan[Dashed(s)].out = s
  BY <1>2, SnakeScanSettles
<1>7. Collapsed[s] = s
  BY <1>1, <1>2, CollapsedFacts
<1>8. SnakeCase(s) = s
  BY <1>2, <1>4, <1>6, <1>7 DEF SnakeCase
<1>9. SnakeCase(Dashed(s)) = s
  BY <1>2, <1>5, <1>6, <1>7 DEF SnakeCase
<1>10. QED
  BY <1>8, <1>9 DEF KebabCase, Dashed

(* A hyphen is in a word no more than an underscore is. *)
LEMMA DashedKeepsWords ==
  ASSUME NEW s \in Seq(Chars)
  PROVE  WordCharacters[Dashed(s)] = WordCharacters[s]
<1>1. WordCharacter("_") = WordCharacter("-")
  BY DEF WordCharacter, Lowers, Uppers, Digits
<1>2. \A i \in 1..Len(s) : WordCharacter(Dashed(s)[i]) = WordCharacter(s[i])
  BY <1>1, DashedFacts
<1>3. QED
  BY <1>2, DashedFacts, SameWords

(* What snake and kebab case keep of a name. *)
LEMMA SnakeFacts ==
  ASSUME NEW s \in Seq(Chars)
  PROVE  /\ SnakeCase(s) \in Seq(Chars) /\ KebabCase(s) \in Seq(Chars)
         /\ WordCharacters[SnakeCase(s)] = WordCharacters[s]
         /\ WordCharacters[KebabCase(s)] = WordCharacters[s]
         /\ ~Contains(TrimSpace(s), "~") =>
               /\ SnakeCase(SnakeCase(s)) = SnakeCase(s) /\ KebabCase(KebabCase(s)) = KebabCase(s)
               /\ SnakeCase(s) \in Seq(Plain) /\ Snake(SnakeCase(s))
<1>1. TrimSpace(s) \in Seq(Chars)
  BY TrimFacts
<1>2. SnakeCase(s) \in Seq(Chars) /\ WordCharacters[SnakeCase(s)] = WordCharacters[s]
  <2>1. Chars \cup Uppers \cup Separators = Chars /\ Plain \subseteq Chars
    BY DEF Chars, Plain
  <2>2. QED
    BY <1>1, <2>1, SnakeCaseFacts
<1>3. KebabCase(s) = Dashed(SnakeCase(s))
  BY DEF KebabCase, Dashed
<1>4. KebabCase(s) \in Seq(Chars) /\ WordCharacters[KebabCase(s)] = WordCharacters[s]
  BY <1>2, <1>3, DashedFacts, DashedKeepsWords
<1>5. ASSUME ~Contains(TrimSpace(s), "~")
      PROVE  SnakeCase(s) \in Seq(Plain) /\ Snake(SnakeCase(s))
  <2>1. \A i \in 1..Len(TrimSpace(s)) : TrimSpace(s)[i] \in Chars \ {"~"}
    BY <1>1, <1>5, LenProperties DEF Contains
  <2>2. Chars \ {"~"} \subseteq Plain \cup Uppers \cup Separators
    BY DEF Chars, Plain, Spaces, Separators
  <2>3. TrimSpace(s) \in Seq(Plain \cup Uppers \cup Separators)
    <3>1. /\ Len(TrimSpace(s)) \in Nat /\ TrimSpace(s) \in [1..Len(TrimSpace(s)) -> Chars]
      BY <1>1, LenProperties
    <3>2. TrimSpace(s) \in [1..Len(TrimSpace(s)) -> Plain \cup Uppers \cup Separators]
      BY <2>1, <2>2, <3>1
    <3>3. QED
      BY <3>1, <3>2, SeqDef
  <2>4. Plain \subseteq Chars
    BY DEF Chars, Plain
  <2>5. QED
    BY <2>3, <2>4, SnakeCaseFacts
<1>6. ASSUME ~Contains(TrimSpace(s), "~")
      PROVE  SnakeCase(SnakeCase(s)) = SnakeCase(s) /\ KebabCase(KebabCase(s)) = KebabCase(s)
  BY <1>3, <1>5, <1>6, SnakeSettles
<1>7. QED
  BY <1>2, <1>4, <1>5, <1>6

(* A snake case name is tidy: no capitals, no doubled or outer underscores. *)
LEMMA SnakeIsTidy ==
  ASSUME NEW s \in Seq(Plain), Snake(s), s # <<>>
  PROVE  Tidy(s)
<1>1. DOMAIN s = 1..Len(s) /\ \A i \in 1..Len(s) : s[i] \in Plain
  BY LenProperties
<1>2. \A i \in DOMAIN s : s[i] \notin Uppers \cup {" ", "."}
  BY <1>1 DEF Plain, Lowers, Digits, Uppers
<1>3. QED
  BY <1>2 DEF Tidy, Snake, Neat

-----------------------------------------------------------------------------
(* Camel case.                                                             *)

(* A name joined to another has the words of both. *)
LEMMA JoinWords ==
  ASSUME NEW name \in Seq(Chars), NEW w \in Seq(Chars)
  PROVE  WordCharacters[Join(name, w)] = WordCharacters[name] \o WordCharacters[w]
<1>1. PICK v \in Seq(Chars) : /\ v = IF name = <<>> THEN LowerCase(w) ELSE Capitalised(w)
                              /\ WordCharacters[v] = WordCharacters[w]
  BY CaseType, CaseKeepsWords
<1>2. Join(name, w) = name \o v
  BY <1>1 DEF Join
<1>3. WordCharacters[name \o v] = WordCharacters[name] \o WordCharacters[v]
  BY WordsConcat
<1>4. QED
  BY <1>1, <1>2, <1>3, Zenon

(* The words that are complete, with those of the word that is not. *)
LEMMA JoinedAppend ==
  ASSUME NEW words \in Seq(Seq(Chars)), NEW w \in Seq(Chars)
  PROVE  /\ Append(words, w) \in Seq(Seq(Chars))
         /\ WordCharacters[Joined[Append(words, w)]] = WordCharacters[Joined[words]] \o WordCharacters[w]
<1>1. PICK j \in Seq(Chars) : j = Joined[words]
  BY JoinedDef
<1>2. Joined[Append(words, w)] = Join(j, w)
  BY <1>1, JoinedDef
<1>3. WordCharacters[Join(j, w)] = WordCharacters[j] \o WordCharacters[w]
  BY JoinWords
<1>4. Append(words, w) \in Seq(Seq(Chars))
  BY AppendProperties
<1>5. QED
  BY <1>1, <1>2, <1>3, <1>4, Zenon

(* What splitWords knows of the characters it has read. *)
Read(s, x) ==
    /\ x \in SplitScans
    /\ x.lower <=> s # <<>> /\ Last(s) \in Lowers
    /\ x.upper <=> s # <<>> /\ Last(s) \in Uppers
    /\ x.current # <<>> => s # <<>> /\ Last(s) \in Lowers \cup Uppers \cup Digits
    /\ x.upper /\ Len(x.current) > 1 => Len(s) > 1 /\ s[Len(s) - 1] \in Uppers \cup Digits

Kept(s, x) == WordCharacters[Joined[x.words]] \o WordCharacters[x.current] = WordCharacters[s]

(* One character more does not undo what splitWords gets wrong, and may be it. *)
LEMMA DoublingAppend ==
  ASSUME NEW s \in Seq(Chars), NEW c \in Chars
  PROVE  /\ Doubling(s) => Doubling(Append(s, c))
         /\ Len(s) > 1 /\ s[Len(s) - 1] \in Uppers \cup Digits /\ Last(s) \in Uppers /\ c \in Lowers
               => Doubling(Append(s, c))
<1>1. /\ Len(Append(s, c)) = Len(s) + 1 /\ Len(s) \in Nat
      /\ (\A i \in 1..Len(s) : Append(s, c)[i] = s[i]) /\ Append(s, c)[Len(s) + 1] = c
  BY AppendProperties, LenProperties
<1>2. ASSUME Doubling(s) PROVE Doubling(Append(s, c))
  <2>1. PICK i \in 2..Len(s) - 1 :
           s[i - 1] \in Uppers \cup Digits /\ s[i] \in Uppers /\ s[i + 1] \in Lowers
    BY <1>2 DEF Doubling
  <2>2. /\ i \in 2..Len(Append(s, c)) - 1
        /\ i - 1 \in 1..Len(s) /\ i \in 1..Len(s) /\ i + 1 \in 1..Len(s)
    BY <1>1
  <2>3. Append(s, c)[i - 1] = s[i - 1] /\ Append(s, c)[i] = s[i] /\ Append(s, c)[i + 1] = s[i + 1]
    BY <1>1, <2>2
  <2>4. QED
    BY <2>1, <2>2, <2>3 DEF Doubling
<1>3. ASSUME Len(s) > 1, s[Len(s) - 1] \in Uppers \cup Digits, Last(s) \in Uppers, c \in Lowers
      PROVE  Doubling(Append(s, c))
  <2>1. /\ Len(s) \in 2..Len(Append(s, c)) - 1
        /\ Len(s) - 1 \in 1..Len(s) /\ Len(s) \in 1..Len(s)
    BY <1>1, <1>3
  <2>2. /\ Append(s, c)[Len(s) - 1] = s[Len(s) - 1] /\ Append(s, c)[Len(s)] = Last(s)
        /\ Append(s, c)[Len(s) + 1] = c
    BY <1>1, <2>1 DEF Last
  <2>3. QED
    BY <1>3, <2>1, <2>2 DEF Doubling
<1>4. QED
  BY <1>2, <1>3

(* One character more of a name in which splitWords gets nothing wrong. *)
LEMMA SplitStepCases ==
  ASSUME NEW x \in SplitScans, NEW c \in Chars
  PROVE  LET y == SplitStep(x, c)
             word == c \in Lowers \cup Uppers \cup Digits
         IN  /\ y.lower <=> c \in Lowers
             /\ y.upper <=> c \in Uppers
             /\ ~word => /\ y.current = <<>>
                         /\ y.words = IF x.current = <<>> THEN x.words ELSE Append(x.words, x.current)
             /\ c \in Uppers /\ x.lower =>
                    /\ y.current = Append(<<>>, c)
                    /\ y.words = IF x.current = <<>> THEN x.words ELSE Append(x.words, x.current)
             /\ word /\ ~(c \in Uppers /\ x.lower)
                  /\ ~(c \in Lowers /\ x.upper /\ Len(x.current) > 1) =>
                    y.current = Append(x.current, c) /\ y.words = x.words
<1> DEFINE lower == c \in Lowers
           upper == c \in Uppers
           word  == lower \/ upper \/ c \in Digits
           ends  == CASE ~word /\ x.current # <<>>                        -> x.current
                      [] upper /\ x.lower                                 -> x.current
                      [] lower /\ x.upper /\ Len(x.current) > 1           -> Front(x.current)
                      [] OTHER                                            -> <<>>
           rest  == CASE ~word \/ (upper /\ x.lower)                      -> <<>>
                      [] lower /\ x.upper /\ Len(x.current) > 1           -> Front(x.current)
                      [] OTHER                                            -> x.current
           y == SplitStep(x, c)
<1>1. ~(lower /\ upper)
  BY DEF Lowers, Uppers
<1>2. /\ y.words = IF ends = <<>> THEN x.words ELSE Append(x.words, ends)
      /\ y.current = IF word THEN Append(rest, c) ELSE <<>>
      /\ y.lower = lower /\ y.upper = upper
  BY DEF SplitStep
<1>3. ASSUME ~word PROVE (ends = <<>> <=> x.current = <<>>) /\ (ends # <<>> => ends = x.current)
  BY <1>3
<1>4. ASSUME upper, x.lower PROVE ends = x.current /\ rest = <<>>
  BY <1>1, <1>4
<1>5. ASSUME word, ~(upper /\ x.lower), ~(lower /\ x.upper /\ Len(x.current) > 1)
      PROVE  ends = <<>> /\ rest = x.current
  BY <1>5
<1> HIDE DEF y, ends, rest
<1>6. /\ ~word => /\ y.current = <<>>
                  /\ y.words = IF x.current = <<>> THEN x.words ELSE Append(x.words, x.current)
      /\ upper /\ x.lower =>
             /\ y.current = Append(<<>>, c)
             /\ y.words = IF x.current = <<>> THEN x.words ELSE Append(x.words, x.current)
      /\ word /\ ~(upper /\ x.lower) /\ ~(lower /\ x.upper /\ Len(x.current) > 1) =>
             y.current = Append(x.current, c) /\ y.words = x.words
  BY <1>2, <1>3, <1>4, <1>5
<1>7. word <=> c \in Lowers \cup Uppers \cup Digits
  OBVIOUS
<1>8. (y.lower <=> c \in Lowers) /\ (y.upper <=> c \in Uppers)
  BY <1>2
<1>9. QED
  BY <1>6, <1>7, <1>8 DEF y

(* A step knows of the one character more, and keeps the words but for that case. *)
LEMMA ReadStep ==
  ASSUME NEW s \in Seq(Chars), NEW c \in Chars, NEW x, Read(s, x), ~Doubling(Append(s, c))
  PROVE  Read(Append(s, c), SplitStep(x, c)) /\ (Kept(s, x) => Kept(Append(s, c), SplitStep(x, c)))
<1> DEFINE t == Append(s, c)
           word == c \in Lowers \cup Uppers \cup Digits
<1>1. /\ x \in SplitScans /\ x.words \in Seq(Seq(Chars)) /\ x.current \in Seq(Chars)
      /\ x.lower <=> s # <<>> /\ Last(s) \in Lowers
      /\ x.upper <=> s # <<>> /\ Last(s) \in Uppers
      /\ x.current # <<>> => s # <<>> /\ Last(s) \in Lowers \cup Uppers \cup Digits
      /\ x.upper /\ Len(x.current) > 1 => Len(s) > 1 /\ s[Len(s) - 1] \in Uppers \cup Digits
  BY DEF Read, SplitScans
<1>2. /\ t \in Seq(Chars) /\ t # <<>> /\ Len(t) = Len(s) + 1 /\ Last(t) = c /\ Len(s) \in Nat
      /\ \A i \in 1..Len(s) : t[i] = s[i]
  BY AppendProperties, AppendFront, LenProperties
<1>3. ~(c \in Lowers /\ x.upper /\ Len(x.current) > 1)
  BY <1>1, DoublingAppend
<1>4. PICK y \in SplitScans : y = SplitStep(x, c)
  BY <1>1, SplitStepType
<1>5. y.words \in Seq(Seq(Chars)) /\ y.current \in Seq(Chars)
  BY DEF SplitScans
<1>6. /\ y.lower <=> c \in Lowers
      /\ y.upper <=> c \in Uppers
      /\ ~word => /\ y.current = <<>>
                  /\ y.words = IF x.current = <<>> THEN x.words ELSE Append(x.words, x.current)
      /\ c \in Uppers /\ x.lower =>
             /\ y.current = Append(<<>>, c)
             /\ y.words = IF x.current = <<>> THEN x.words ELSE Append(x.words, x.current)
      /\ word /\ ~(c \in Uppers /\ x.lower) => y.current = Append(x.current, c) /\ y.words = x.words
  BY <1>1, <1>3, <1>4, SplitStepCases
<1>7. WordCharacters[t] = WordCharacters[s] \o WordCharacter(c)
  BY WordsAppend
<1> HIDE DEF t
<1>8. PICK done \in Seq(Chars), open \in Seq(Chars) :
         done = WordCharacters[Joined[x.words]] /\ open = WordCharacters[x.current]
  BY <1>1, JoinedDef, WordsType
<1>9. ASSUME y.words = IF x.current = <<>> THEN x.words ELSE Append(x.words, x.current)
      PROVE  WordCharacters[Joined[y.words]] = done \o open
  <2>1. CASE x.current = <<>>
    <3>1. open = <<>>
      BY <1>8, <2>1, WordCharactersDef
    <3>2. done \o <<>> = done
      BY ConcatEmptySeq
    <3>3. y.words = x.words
      BY <1>9, <2>1
    <3>4. QED
      BY <1>8, <3>1, <3>2, <3>3, Zenon
  <2>2. CASE x.current # <<>>
    <3>1. WordCharacters[Joined[Append(x.words, x.current)]]
             = WordCharacters[Joined[x.words]] \o WordCharacters[x.current]
      BY <1>1, JoinedAppend
    <3>2. y.words = Append(x.words, x.current)
      BY <1>9, <2>2
    <3>3. QED
      BY <1>8, <3>1, <3>2, Zenon
  <2>3. QED
    BY <2>1, <2>2
<1>10. Kept(s, x) <=> done \o open = WordCharacters[s]
  BY <1>8, Zenon DEF Kept
<1>11. CASE ~word
  <2>1. y.current = <<>>
    BY <1>6, <1>11
  <2>2. ~y.upper
    BY <1>6, <1>11
  <2>3. Read(t, y)
    BY <1>2, <1>6, <1>11, <2>1, <2>2 DEF Read
  <2>4. WordCharacters[Joined[y.words]] = done \o open
    BY <1>6, <1>9, <1>11
  <2>5. WordCharacters[y.current] = <<>>
    BY <2>1, WordCharactersDef
  <2>6. WordCharacter(c) = <<>>
    BY <1>11 DEF WordCharacter
  <2>7. WordCharacters[t] = WordCharacters[s]
    BY <2>6, WordsAppend DEF t
  <2>8. PICK all \in Seq(Chars) : all = done \o open
    BY ConcatProperties
  <2>9. all \o <<>> = all
    BY ConcatEmptySeq
  <2>10. Kept(s, x) => Kept(t, y)
    BY <1>10, <2>4, <2>5, <2>7, <2>8, <2>9, Zenon DEF Kept
  <2>11. QED
    BY <1>4, <2>3, <2>10 DEF t
<1>12. CASE c \in Uppers /\ x.lower
  <2>1. y.current = Append(<<>>, c)
    BY <1>6, <1>12
  <2>2. Len(y.current) = 1
    BY <2>1
  <2>3. Read(t, y)
    <3>1. ~(Len(y.current) > 1)
      BY <2>2
    <3>2. QED
      BY <1>2, <1>6, <1>12, <3>1 DEF Read
  <2>4. WordCharacters[Joined[y.words]] = done \o open
    BY <1>6, <1>9, <1>12
  <2>5. WordCharacters[y.current] = WordCharacter(c)
    <3>1. WordCharacters[Append(<<>>, c)] = WordCharacters[<<>>] \o WordCharacter(c)
      BY EmptySeq, WordsAppend
    <3>2. <<>> \o WordCharacter(c) = WordCharacter(c)
      BY CharLists, ConcatEmptySeq
    <3>3. WordCharacters[<<>>] = <<>>
      BY WordCharactersDef
    <3>4. QED
      BY <2>1, <3>1, <3>2, <3>3, Zenon
  <2>6. Kept(s, x) => Kept(t, y)
    BY <1>7, <1>10, <2>4, <2>5, Zenon DEF Kept
  <2>7. QED
    BY <1>4, <2>3, <2>6 DEF t
<1>13. CASE word /\ ~(c \in Uppers /\ x.lower)
  <2>1. y.current = Append(x.current, c) /\ y.words = x.words
    BY <1>6, <1>13
  <2>2. Len(y.current) = Len(x.current) + 1
    BY <1>1, <2>1, AppendProperties
  <2>3. ASSUME y.upper, Len(y.current) > 1 PROVE Len(t) > 1 /\ t[Len(t) - 1] \in Uppers \cup Digits
    <3>1. x.current # <<>>
      BY <2>2, <2>3
    <3>2. s # <<>> /\ Last(s) \in Uppers \cup Digits
      BY <1>1, <1>6, <1>13, <2>3, <3>1
    <3>3. Len(s) \in Nat \ {0} /\ Last(s) = s[Len(s)]
      BY <3>2, EmptySeq DEF Last
    <3>4. Len(t) > 1 /\ Len(t) - 1 = Len(s) /\ Len(s) \in 1..Len(s)
      BY <1>2, <3>3
    <3>5. QED
      BY <1>2, <3>2, <3>3, <3>4
  <2>4. Read(t, y)
    BY <1>2, <1>6, <1>13, <2>3 DEF Read
  <2>5. WordCharacters[y.current] = open \o WordCharacter(c)
    <3>1. WordCharacters[Append(x.current, c)] = WordCharacters[x.current] \o WordCharacter(c)
      BY <1>1, WordsAppend
    <3>2. QED
      BY <1>8, <2>1, <3>1, Zenon
  <2>6. PICK last \in Seq(Chars) : last = WordCharacter(c)
    BY CharLists
  <2>7. (done \o open) \o last = done \o (open \o last)
    BY ConcatAssociative
  <2>8. Kept(s, x) => Kept(t, y)
    BY <1>7, <1>8, <1>10, <2>1, <2>5, <2>6, <2>7, Zenon DEF Kept
  <2>9. QED
    BY <1>4, <2>4, <2>8 DEF t
<1>14. QED
  BY <1>11, <1>12, <1>13

(* So splitWords keeps the words of every name without it. *)
LEMMA SplitScanFacts ==
  ASSUME NEW s \in Seq(Chars), ~Doubling(s)
  PROVE  Read(s, SplitScan[s]) /\ Kept(s, SplitScan[s])
<1> DEFINE P == {u \in Seq(Chars) : ~Doubling(u) => Read(u, SplitScan[u]) /\ Kept(u, SplitScan[u])}
<1>1. <<>> \in P
  <2>1. <<>> \in Seq(Chars) /\ Len(<<>>) = 0
    BY EmptySeq
  <2>2. SplitScan[<<>>] \in SplitScans
    BY <2>1, SplitScanDef
  <2>3. SplitScan[<<>>] = [words |-> <<>>, current |-> <<>>, lower |-> FALSE, upper |-> FALSE]
    BY SplitScanDef
  <2>4. Read(<<>>, SplitScan[<<>>])
    BY <2>2, <2>3 DEF Read
  <2>5. Kept(<<>>, SplitScan[<<>>])
    <3>1. Joined[<<>>] = <<>> /\ WordCharacters[<<>>] = <<>>
      BY JoinedDef, WordCharactersDef
    <3>2. <<>> \o <<>> = <<>>
      BY <2>1, ConcatEmptySeq
    <3>3. SplitScan[<<>>].words = <<>> /\ SplitScan[<<>>].current = <<>>
      BY <2>3
    <3>4. QED
      BY <3>1, <3>2, <3>3, Zenon DEF Kept
  <2>6. QED
    BY <2>1, <2>4, <2>5
<1>2. ASSUME NEW u \in Seq(Chars), NEW c \in Chars, u \in P PROVE Append(u, c) \in P
  <2>1. Append(u, c) \in Seq(Chars) /\ SplitScan[Append(u, c)] = SplitStep(SplitScan[u], c)
    BY AppendProperties, SplitScanDef
  <2>2. ASSUME ~Doubling(Append(u, c))
        PROVE  Read(Append(u, c), SplitScan[Append(u, c)]) /\ Kept(Append(u, c), SplitScan[Append(u, c)])
    <3>1. Read(u, SplitScan[u]) /\ Kept(u, SplitScan[u])
      BY <1>2, <2>2, DoublingAppend
    <3>2. QED
      BY <2>1, <2>2, <3>1, ReadStep
  <2>3. QED
    BY <2>1, <2>2
<1> HIDE DEF P
<1>3. s \in P
  BY <1>1, <1>2, SeqInduction
<1>4. QED
  BY <1>3 DEF P

(* And camelCase does. *)
LEMMA CamelFacts ==
  ASSUME NEW s \in Seq(Chars)
  PROVE  /\ CamelCase(s) \in Seq(Chars)
         /\ ~Doubling(s) => WordCharacters[CamelCase(s)] = WordCharacters[s]
<1>1. PICK t \in Seq(Chars) : t = TrimSpace(s)
  BY TrimFacts
<1>2. PICK x \in SplitScans : x = SplitScan[t]
  BY SplitScanDef
<1>3. x.words \in Seq(Seq(Chars)) /\ x.current \in Seq(Chars)
  BY DEF SplitScans
<1>4. SplitWords(s) = IF x.current = <<>> THEN x.words ELSE Append(x.words, x.current)
  BY <1>1, <1>2 DEF SplitWords
<1>5. /\ SplitWords(s) \in Seq(Seq(Chars))
      /\ WordCharacters[Joined[SplitWords(s)]]
           = WordCharacters[Joined[x.words]] \o WordCharacters[x.current]
  <2>1. CASE x.current = <<>>
    <3>1. PICK w \in Seq(Chars) : w = WordCharacters[Joined[x.words]]
      BY <1>3, JoinedDef, WordsType
    <3>2. w \o <<>> = w
      BY ConcatEmptySeq
    <3>3. WordCharacters[x.current] = <<>>
      BY <2>1, WordCharactersDef
    <3>4. SplitWords(s) = x.words
      BY <1>4, <2>1
    <3>5. WordCharacters[Joined[SplitWords(s)]]
             = WordCharacters[Joined[x.words]] \o WordCharacters[x.current]
      BY <3>1, <3>2, <3>3, <3>4, Zenon
    <3>6. QED
      BY <1>3, <3>4, <3>5
  <2>2. CASE x.current # <<>>
    <3>1. SplitWords(s) = Append(x.words, x.current)
      BY <1>4, <2>2
    <3>2. QED
      BY <1>3, <3>1, JoinedAppend
  <2>3. QED
    BY <2>1, <2>2
<1>6. CamelCase(s) \in Seq(Chars)
  BY <1>5, JoinedDef DEF CamelCase
<1>7. ASSUME ~Doubling(s) PROVE WordCharacters[CamelCase(s)] = WordCharacters[s]
  <2>1. Kept(t, x)
    BY <1>1, <1>2, <1>7, TrimKeepsDoubling, SplitScanFacts
  <2>2. WordCharacters[t] = WordCharacters[s]
    BY <1>1, TrimKeepsWords
  <2>3. QED
    BY <1>5, <2>1, <2>2, Zenon DEF CamelCase, Kept
<1>8. QED
  BY <1>6, <1>7

(* The letters and digits, of which splitWords makes words. *)
Alphanumeric == Lowers \cup Uppers \cup Digits

(* They are characters, none a space, and case changes only letters. *)
LEMMA AlphanumericFacts ==
  /\ Alphanumeric \subseteq Chars
  /\ Seq(Alphanumeric) \subseteq Seq(Chars)
  /\ \A c \in Alphanumeric : /\ LowerOf(c) \in Alphanumeric /\ UpperOf(c) \in Alphanumeric
                             /\ c \notin Spaces
                             /\ c \notin Uppers => LowerOf(c) = c
                             /\ c \in Uppers => UpperOf(c) = c
<1>1. Alphanumeric \subseteq Chars
  BY DEF Alphanumeric, Chars
<1>2. Seq(Alphanumeric) \subseteq Seq(Chars)
  BY <1>1, SeqMonotonic
<1>3. \A c \in Alphanumeric : /\ LowerOf(c) \in Alphanumeric /\ UpperOf(c) \in Alphanumeric
                              /\ c \notin Spaces
                              /\ c \notin Uppers => LowerOf(c) = c
                              /\ c \in Uppers => UpperOf(c) = c
  BY DEF Alphanumeric, Lowers, Uppers, Digits, Spaces, LowerOf, UpperOf
<1>4. QED
  BY <1>1, <1>2, <1>3

(* A name made of words has nothing else, *)
LEMMA JoinAlphanumeric ==
  ASSUME NEW name \in Seq(Alphanumeric), NEW w \in Seq(Alphanumeric)
  PROVE  Join(name, w) \in Seq(Alphanumeric)
<1>1. w \in Seq(Chars) /\ Len(w) \in Nat /\ \A i \in 1..Len(w) : w[i] \in Alphanumeric
  BY AlphanumericFacts, LenProperties
<1>2. DOMAIN w = 1..Len(w)
  BY LenProperties
<1>3. \A i \in 1..Len(w) : LowerOf(w[i]) \in Alphanumeric /\ UpperOf(w[i]) \in Alphanumeric
  BY <1>1, AlphanumericFacts
<1>4. LowerCase(w) \in [1..Len(w) -> Alphanumeric] /\ Capitalised(w) \in [1..Len(w) -> Alphanumeric]
  BY <1>2, <1>3 DEF LowerCase, Capitalised
<1>5. LowerCase(w) \in Seq(Alphanumeric) /\ Capitalised(w) \in Seq(Alphanumeric)
  BY <1>1, <1>4, SeqDef
<1>6. QED
  BY <1>5, ConcatProperties DEF Join

(* nor has what splitWords reads on the way. *)
LEMMA SplitAlphanumeric ==
  ASSUME NEW s \in Seq(Chars)
  PROVE  /\ Joined[SplitScan[s].words] \in Seq(Alphanumeric)
         /\ SplitScan[s].current \in Seq(Alphanumeric)
<1> DEFINE Clean(x) == Joined[x.words] \in Seq(Alphanumeric) /\ x.current \in Seq(Alphanumeric)
           P == {u \in Seq(Chars) : Clean(SplitScan[u])}
<1>1. <<>> \in P
  <2>1. <<>> \in Seq(Chars) /\ <<>> \in Seq(Alphanumeric)
    BY EmptySeq
  <2>2. SplitScan[<<>>].words = <<>> /\ SplitScan[<<>>].current = <<>>
    BY SplitScanDef
  <2>3. QED
    BY <2>1, <2>2, JoinedDef
<1>2. ASSUME NEW u \in Seq(Chars), NEW c \in Chars, u \in P PROVE Append(u, c) \in P
  <2>1. PICK x \in SplitScans : x = SplitScan[u]
    BY SplitScanDef
  <2>2. /\ x.words \in Seq(Seq(Chars)) /\ x.current \in Seq(Alphanumeric)
        /\ Joined[x.words] \in Seq(Alphanumeric)
    BY <1>2, <2>1 DEF SplitScans
  <2> DEFINE lower == c \in Lowers
             upper == c \in Uppers
             word  == lower \/ upper \/ c \in Digits
             ends  == CASE ~word /\ x.current # <<>>                        -> x.current
                        [] upper /\ x.lower                                 -> x.current
                        [] lower /\ x.upper /\ Len(x.current) > 1           -> Front(x.current)
                        [] OTHER                                            -> <<>>
             rest  == CASE ~word \/ (upper /\ x.lower)                      -> <<>>
                        [] lower /\ x.upper /\ Len(x.current) > 1           -> Front(x.current)
                        [] OTHER                                            -> x.current
             y == SplitStep(x, c)
  <2>3. Len(x.current) > 1 => Front(x.current) \in Seq(Alphanumeric)
    <3>1. Len(x.current) > 1 => x.current # <<>>
      OBVIOUS
    <3>2. QED
      BY <2>2, <3>1, FrontAndLast
  <2>4. ends \in Seq(Alphanumeric) /\ rest \in Seq(Alphanumeric)
    BY <2>2, <2>3, EmptySeq
  <2>5. /\ y.words = IF ends = <<>> THEN x.words ELSE Append(x.words, ends)
        /\ y.current = IF word THEN Append(rest, c) ELSE <<>>
    BY DEF SplitStep
  <2>6. word => c \in Alphanumeric
    BY DEF Alphanumeric
  <2>7. SplitScan[Append(u, c)] = y
    BY <2>1, SplitScanDef
  <2>8. Append(u, c) \in Seq(Chars)
    BY AppendProperties
  <2> HIDE DEF y, ends, rest, word
  <2>9. y.current \in Seq(Alphanumeric)
    BY <2>4, <2>5, <2>6, AppendProperties, EmptySeq
  <2>10. Joined[y.words] \in Seq(Alphanumeric)
    <3>1. ends \in Seq(Chars)
      BY <2>4, AlphanumericFacts
    <3>2. Joined[Append(x.words, ends)] = Join(Joined[x.words], ends)
      BY <2>2, <3>1, JoinedDef
    <3>3. Join(Joined[x.words], ends) \in Seq(Alphanumeric)
      BY <2>2, <2>4, JoinAlphanumeric
    <3>4. QED
      BY <2>2, <2>5, <3>2, <3>3
  <2>11. QED
    BY <2>7, <2>8, <2>9, <2>10
<1> HIDE DEF P
<1>3. s \in P
  BY <1>1, <1>2, SeqInduction
<1>4. QED
  BY <1>3 DEF P

(* What splitWords makes of a name is the name that its words are joined to. *)
LEMMA CamelIsJoined ==
  ASSUME NEW s \in Seq(Chars)
  PROVE  LET x == SplitScan[TrimSpace(s)]
         IN  CamelCase(s) = IF x.current = <<>> THEN Joined[x.words] ELSE Join(Joined[x.words], x.current)
<1>1. PICK x \in SplitScans : x = SplitScan[TrimSpace(s)]
  BY TrimFacts, SplitScanDef
<1>2. x.words \in Seq(Seq(Chars)) /\ x.current \in Seq(Chars)
  BY DEF SplitScans
<1>3. Joined[Append(x.words, x.current)] = Join(Joined[x.words], x.current)
  BY <1>2, JoinedDef
<1>4. QED
  BY <1>1, <1>3 DEF CamelCase, SplitWords

(* That name is made of letters and digits. *)
LEMMA CamelAlphanumeric ==
  ASSUME NEW s \in Seq(Chars)
  PROVE  CamelCase(s) \in Seq(Alphanumeric)
<1>1. PICK t \in Seq(Chars) : t = TrimSpace(s)
  BY TrimFacts
<1>2. Joined[SplitScan[t].words] \in Seq(Alphanumeric) /\ SplitScan[t].current \in Seq(Alphanumeric)
  BY SplitAlphanumeric
<1>3. Join(Joined[SplitScan[t].words], SplitScan[t].current) \in Seq(Alphanumeric)
  BY <1>2, JoinAlphanumeric
<1>4. QED
  BY <1>1, <1>2, <1>3, CamelIsJoined

(* Where every capital comes right after a small letter: so does it in the  *)
(* name but its last character.                                             *)
LEMMA HumpedFacts ==
  ASSUME NEW u \in Seq(Alphanumeric), NEW c \in Alphanumeric, Humped(Append(u, c))
  PROVE  /\ Humped(u) /\ (c \in Uppers => u # <<>> /\ Last(u) \in Lowers)
<1>1. /\ Append(u, c) \in Seq(Alphanumeric) /\ Len(Append(u, c)) = Len(u) + 1 /\ Len(u) \in Nat
      /\ (\A i \in 1..Len(u) : Append(u, c)[i] = u[i]) /\ Append(u, c)[Len(u) + 1] = c
      /\ DOMAIN u = 1..Len(u) /\ DOMAIN Append(u, c) = 1..Len(u) + 1
  BY AppendProperties, LenProperties
<1>2. \A i \in 1..Len(u) + 1 : Append(u, c)[i] \in Uppers => i > 1 /\ Append(u, c)[i - 1] \in Lowers
  BY <1>1 DEF Humped
<1>3. Humped(u)
  <2> SUFFICES ASSUME NEW i \in 1..Len(u), u[i] \in Uppers PROVE i > 1 /\ u[i - 1] \in Lowers
    BY <1>1 DEF Humped
  <2>1. i \in 1..Len(u) + 1 /\ Append(u, c)[i] = u[i]
    BY <1>1
  <2>2. i > 1 /\ Append(u, c)[i - 1] \in Lowers
    BY <1>2, <2>1
  <2>3. i - 1 \in 1..Len(u)
    BY <1>1, <2>2
  <2>4. QED
    BY <1>1, <2>2, <2>3
<1>4. ASSUME c \in Uppers PROVE u # <<>> /\ Last(u) \in Lowers
  <2>1. Len(u) + 1 \in 1..Len(u) + 1 /\ (Len(u) + 1) - 1 = Len(u)
    BY <1>1
  <2>2. Len(u) + 1 > 1 /\ Append(u, c)[Len(u)] \in Lowers
    BY <1>1, <1>2, <1>4, <2>1
  <2>3. Len(u) \in 1..Len(u)
    <3>1. Len(u) \in Nat
      BY LenProperties
    <3>2. Len(u) + 1 > 1
      BY <2>2
    <3>3. QED
      BY <3>1, <3>2
  <2>4. QED
    BY <1>1, <2>2, <2>3 DEF Last
<1>5. QED
  BY <1>3, <1>4

(* What splitWords gets wrong is not in it. *)
LEMMA HumpedIsNotDoubling ==
  ASSUME NEW u \in Seq(Alphanumeric), Humped(u)
  PROVE  ~Doubling(u)
<1> SUFFICES ASSUME Doubling(u) PROVE FALSE
  OBVIOUS
<1>1. PICK i \in 2..Len(u) - 1 : u[i - 1] \in Uppers \cup Digits /\ u[i] \in Uppers
  BY DEF Doubling
<1>2. i \in DOMAIN u
  BY LenProperties
<1>3. u[i - 1] \in Lowers
  BY <1>1, <1>2 DEF Humped
<1>4. QED
  BY <1>1, <1>3 DEF Lowers, Uppers, Digits

(* Such a name is spelled by the words that were read of it. *)
Spelled(u, x) ==
    IF u = <<>> THEN x.words = <<>> /\ x.current = <<>>
    ELSE x.current # <<>> /\ Join(Joined[x.words], x.current) = u

(* One character more is spelled, too, *)
LEMMA SpelledStep ==
  ASSUME NEW u \in Seq(Alphanumeric), NEW c \in Alphanumeric, Humped(Append(u, c)),
         NEW x, Read(u, x), Spelled(u, x)
  PROVE  Spelled(Append(u, c), SplitStep(x, c))
<1> DEFINE t == Append(u, c)
<1>1. /\ x \in SplitScans /\ x.words \in Seq(Seq(Chars)) /\ x.current \in Seq(Chars)
      /\ x.lower <=> u # <<>> /\ Last(u) \in Lowers
      /\ x.upper <=> u # <<>> /\ Last(u) \in Uppers
      /\ x.upper /\ Len(x.current) > 1 => Len(u) > 1 /\ u[Len(u) - 1] \in Uppers \cup Digits
  BY DEF Read, SplitScans
<1>2. c \in Chars /\ u \in Seq(Chars) /\ Len(u) \in Nat /\ DOMAIN u = 1..Len(u)
  BY AlphanumericFacts, LenProperties
<1>3. Humped(u) /\ (c \in Uppers => u # <<>> /\ Last(u) \in Lowers)
  BY HumpedFacts
<1>4. ~(x.upper /\ Len(x.current) > 1)
  <2> SUFFICES ASSUME x.upper, Len(x.current) > 1 PROVE FALSE
    OBVIOUS
  <2>1. Len(u) > 1 /\ u[Len(u) - 1] \in Uppers \cup Digits /\ u[Len(u)] \in Uppers
    BY <1>1 DEF Last
  <2>2. u[Len(u) - 1] \in Lowers
    BY <1>2, <1>3, <2>1 DEF Humped
  <2>3. QED
    BY <2>1, <2>2 DEF Lowers, Uppers, Digits
<1>5. PICK y : y = SplitStep(x, c)
  OBVIOUS
<1>6. /\ c \in Uppers /\ x.lower =>
           /\ y.current = Append(<<>>, c)
           /\ y.words = IF x.current = <<>> THEN x.words ELSE Append(x.words, x.current)
      /\ ~(c \in Uppers /\ x.lower) => y.current = Append(x.current, c) /\ y.words = x.words
  BY <1>1, <1>2, <1>4, <1>5, SplitStepCases DEF Alphanumeric
<1>7. t # <<>>
  BY AppendProperties
<1>8. PICK j \in Seq(Chars) : j = Joined[x.words]
  BY <1>1, JoinedDef
<1>9. Append(<<>>, c) = <<c>> /\ <<c>> \in Seq(Chars)
  BY <1>2, CharLists
<1>10. u \o <<c>> = t
  BY <1>2, AppendIsConcat
<1>11. CASE c \in Uppers
  <2>1. x.lower /\ u # <<>>
    BY <1>1, <1>3, <1>11
  <2>2. x.current # <<>> /\ Join(j, x.current) = u
    BY <1>8, <2>1 DEF Spelled
  <2>3. y.current = <<c>> /\ y.words = Append(x.words, x.current)
    BY <1>6, <1>9, <1>11, <2>1, <2>2
  <2>4. Joined[y.words] = u
    BY <1>1, <1>8, <2>2, <2>3, JoinedDef
  <2>5. Capitalised(<<c>>) = <<c>>
    <3>1. UpperOf(c) = c
      BY <1>11, AlphanumericFacts
    <3>2. PICK w \in Seq(Chars) : w = <<c>>
      BY <1>9
    <3>3. Len(w) = 1 /\ w[1] = c /\ 1 \in 1..Len(w)
      BY <3>2
    <3>4. Capitalised(w) \in Seq(Chars) /\ Len(Capitalised(w)) = 1 /\ Capitalised(w)[1] = UpperOf(w[1])
      BY <3>3, CaseType
    <3>5. \A i \in 1..1 : Capitalised(w)[i] = w[i]
      BY <3>1, <3>3, <3>4
    <3>6. Capitalised(w) = w
      BY <3>3, <3>4, <3>5, SeqEqual
    <3>7. QED
      BY <3>2, <3>6
  <2>6. Join(u, <<c>>) = u \o <<c>>
    BY <2>1, <2>5 DEF Join
  <2>7. y.current # <<>>
    BY <2>3
  <2>8. Join(Joined[y.words], y.current) = t
    BY <1>10, <2>3, <2>4, <2>6, Zenon
  <2>9. QED
    BY <1>5, <1>7, <2>7, <2>8 DEF Spelled
<1>12. CASE c \notin Uppers
  <2>1. y.current = Append(x.current, c) /\ y.words = x.words
    BY <1>6, <1>12
  <2>2. LowerOf(c) = c
    BY <1>12, AlphanumericFacts
  <2>3. y.current \in Seq(Chars) /\ Len(y.current) = Len(x.current) + 1 /\ Len(x.current) \in Nat
        /\ (\A i \in 1..Len(x.current) : y.current[i] = x.current[i])
        /\ y.current[Len(x.current) + 1] = c
    BY <1>1, <1>2, <2>1, AppendProperties, LenProperties
  <2>4. y.current # <<>>
    BY <2>3, EmptySeq
  <2>5. LowerCase(y.current) = Append(LowerCase(x.current), c)
    <3>1. /\ LowerCase(x.current) \in Seq(Chars) /\ Len(LowerCase(x.current)) = Len(x.current)
          /\ LowerCase(y.current) \in Seq(Chars) /\ Len(LowerCase(y.current)) = Len(x.current) + 1
          /\ \A i \in 1..Len(x.current) : LowerCase(x.current)[i] = LowerOf(x.current[i])
          /\ \A i \in 1..Len(x.current) + 1 : LowerCase(y.current)[i] = LowerOf(y.current[i])
      BY <1>1, <2>3, CaseType
    <3>2. PICK v \in Seq(Chars) : v = Append(LowerCase(x.current), c)
      BY <1>2, <3>1, AppendProperties
    <3>3. /\ Len(v) = Len(x.current) + 1 /\ v[Len(x.current) + 1] = c
          /\ \A i \in 1..Len(x.current) : v[i] = LowerCase(x.current)[i]
      BY <1>2, <3>1, <3>2, AppendProperties
    <3>4. \A i \in 1..Len(x.current) + 1 : LowerCase(y.current)[i] = v[i]
      <4>1. \A i \in 1..Len(x.current) + 1 : i \in 1..Len(x.current) \/ i = Len(x.current) + 1
        BY <2>3
      <4>2. \A i \in 1..Len(x.current) : i \in 1..Len(x.current) + 1
        BY <2>3
      <4>3. Len(x.current) + 1 \in 1..Len(x.current) + 1
        BY <2>3
      <4>4. QED
        BY <4>1, <4>2, <4>3, <2>2, <2>3, <3>1, <3>3
    <3>5. QED
      BY <3>1, <3>2, <3>3, <3>4, SeqEqual
  <2>6. ASSUME x.current # <<>> PROVE Capitalised(y.current) = Append(Capitalised(x.current), c)
    <3>1. /\ Capitalised(x.current) \in Seq(Chars) /\ Len(Capitalised(x.current)) = Len(x.current)
          /\ Capitalised(y.current) \in Seq(Chars) /\ Len(Capitalised(y.current)) = Len(x.current) + 1
          /\ \A i \in 1..Len(x.current) :
                Capitalised(x.current)[i] = IF i = 1 THEN UpperOf(x.current[i]) ELSE LowerOf(x.current[i])
          /\ \A i \in 1..Len(x.current) + 1 :
                Capitalised(y.current)[i] = IF i = 1 THEN UpperOf(y.current[i]) ELSE LowerOf(y.current[i])
      BY <1>1, <2>3, CaseType
    <3>2. PICK v \in Seq(Chars) : v = Append(Capitalised(x.current), c)
      BY <1>2, <3>1, AppendProperties
    <3>3. /\ Len(v) = Len(x.current) + 1 /\ v[Len(x.current) + 1] = c
          /\ \A i \in 1..Len(x.current) : v[i] = Capitalised(x.current)[i]
      BY <1>2, <3>1, <3>2, AppendProperties
    <3>4. Len(x.current) + 1 # 1
      BY <1>1, <2>3, <2>6, EmptySeq
    <3>5. \A i \in 1..Len(x.current) + 1 : Capitalised(y.current)[i] = v[i]
      <4>1. \A i \in 1..Len(x.current) + 1 : i \in 1..Len(x.current) \/ i = Len(x.current) + 1
        BY <2>3
      <4>2. \A i \in 1..Len(x.current) : i \in 1..Len(x.current) + 1
        BY <2>3
      <4>3. Len(x.current) + 1 \in 1..Len(x.current) + 1
        BY <2>3
      <4>4. QED
        BY <4>1, <4>2, <4>3, <2>2, <2>3, <3>1, <3>3, <3>4
    <3>6. QED
      BY <3>1, <3>2, <3>3, <3>5, SeqEqual
  <2>7. Join(j, y.current) = t
    <3>1. CASE u = <<>>
      <4>1. x.words = <<>> /\ x.current = <<>>
        BY <3>1 DEF Spelled
      <4>2. j = <<>>
        BY <1>8, <4>1, JoinedDef
      <4>3. LowerCase(<<>>) = <<>>
        BY DEF LowerCase
      <4>4. LowerCase(y.current) = Append(<<>>, c)
        BY <2>5, <4>1, <4>3
      <4>5. Join(j, y.current) = <<>> \o Append(<<>>, c)
        BY <4>2, <4>4 DEF Join
      <4>6. <<>> \o <<c>> = <<c>>
        BY <1>9, ConcatEmptySeq
      <4>7. QED
        BY <1>9, <3>1, <4>5, <4>6
    <3>2. CASE u # <<>>
      <4>1. x.current # <<>> /\ Join(j, x.current) = u
        BY <1>8, <3>2 DEF Spelled
      <4>2. PICK v \in Seq(Chars) : v = IF j = <<>> THEN LowerCase(x.current) ELSE Capitalised(x.current)
        BY <1>1, CaseType
      <4>3. Join(j, y.current) = j \o Append(v, c)
        BY <2>5, <2>6, <4>1, <4>2 DEF Join
      <4>4. j \o v = u
        BY <4>1, <4>2 DEF Join
      <4>5. j \o Append(v, c) = Append(j \o v, c)
        BY <1>2, ConcatAppend
      <4>6. QED
        BY <4>3, <4>4, <4>5, Zenon
    <3>3. QED
      BY <3>1, <3>2
  <2>8. QED
    BY <1>5, <1>7, <1>8, <2>1, <2>4, <2>7 DEF Spelled
<1>13. QED
  BY <1>11, <1>12

(* and with it every such name. *)
LEMMA HumpedIsSpelled ==
  ASSUME NEW s \in Seq(Alphanumeric), Humped(s)
  PROVE  Spelled(s, SplitScan[s])
<1> DEFINE P == {u \in Seq(Alphanumeric) : Humped(u) => Spelled(u, SplitScan[u])}
<1>1. <<>> \in P
  <2>1. <<>> \in Seq(Alphanumeric)
    BY EmptySeq
  <2>2. SplitScan[<<>>].words = <<>> /\ SplitScan[<<>>].current = <<>>
    BY SplitScanDef
  <2>3. QED
    BY <2>1, <2>2 DEF Spelled
<1>2. ASSUME NEW u \in Seq(Alphanumeric), NEW c \in Alphanumeric, u \in P PROVE Append(u, c) \in P
  <2>1. Append(u, c) \in Seq(Alphanumeric)
    BY AppendProperties
  <2>2. u \in Seq(Chars) /\ c \in Chars
    BY AlphanumericFacts
  <2>3. SplitScan[Append(u, c)] = SplitStep(SplitScan[u], c)
    BY <2>2, SplitScanDef
  <2>4. ASSUME Humped(Append(u, c)) PROVE Spelled(Append(u, c), SplitScan[Append(u, c)])
    <3>1. Humped(u)
      BY <2>4, HumpedFacts
    <3>2. Read(u, SplitScan[u])
      BY <2>2, <3>1, HumpedIsNotDoubling, SplitScanFacts
    <3>3. Spelled(u, SplitScan[u])
      BY <1>2, <3>1
    <3>4. QED
      BY <2>3, <2>4, <3>2, <3>3, SpelledStep
  <2>5. QED
    BY <2>1, <2>4
<1> HIDE DEF P
<1>3. s \in P
  BY <1>1, <1>2, SeqInduction
<1>4. QED
  BY <1>3 DEF P

(* So camelCase leaves it as it is. *)
LEMMA CamelSteady ==
  ASSUME NEW s \in Seq(Chars), Humped(CamelCase(s))
  PROVE  CamelCase(CamelCase(s)) = CamelCase(s)
<1>1. PICK n \in Seq(Alphanumeric) : n = CamelCase(s)
  BY CamelAlphanumeric
<1>2. n \in Seq(Chars) /\ \A i \in 1..Len(n) : n[i] \notin Spaces
  BY AlphanumericFacts, LenProperties
<1>3. TrimSpace(n) = n
  BY <1>2, TrimSettles
<1>4. Spelled(n, SplitScan[n])
  BY <1>1, HumpedIsSpelled
<1>5. CamelCase(n) = IF SplitScan[n].current = <<>> THEN Joined[SplitScan[n].words]
                     ELSE Join(Joined[SplitScan[n].words], SplitScan[n].current)
  BY <1>2, <1>3, CamelIsJoined
<1>6. CASE n = <<>>
  <2>1. SplitScan[n].words = <<>> /\ SplitScan[n].current = <<>>
    BY <1>4, <1>6 DEF Spelled
  <2>2. QED
    BY <1>1, <1>5, <1>6, <2>1, JoinedDef
<1>7. CASE n # <<>>
  BY <1>1, <1>4, <1>5, <1>7 DEF Spelled
<1>8. QED
  BY <1>6, <1>7

-----------------------------------------------------------------------------
(* The order of the names is a total one.                                  *)

(* Every character has a place of its own in the order. *)
LEMMA RankFacts ==
  /\ \A c \in Chars : Rank(c) \in Nat \ {0}
  /\ \A c, d \in Chars : Rank(c) = Rank(d) => c = d
<1>1. DOMAIN CharOrder = 1..11
  BY DEF CharOrder
<1>2. ASSUME NEW c \in Chars PROVE \E i \in DOMAIN CharOrder : CharOrder[i] = c
  <2>1. c \in {"a", "b", "A", "B", "1", " ", "-", ".", "~", "_", "$"}
    BY DEF Chars, Lowers, Uppers, Digits, Separators, Spaces
  <2>2. /\ 1 \in DOMAIN CharOrder /\ 2 \in DOMAIN CharOrder /\ 3 \in DOMAIN CharOrder
        /\ 4 \in DOMAIN CharOrder /\ 5 \in DOMAIN CharOrder /\ 6 \in DOMAIN CharOrder
        /\ 7 \in DOMAIN CharOrder /\ 8 \in DOMAIN CharOrder /\ 9 \in DOMAIN CharOrder
        /\ 10 \in DOMAIN CharOrder /\ 11 \in DOMAIN CharOrder
    BY <1>1
  <2>3. /\ CharOrder[1] = "~" /\ CharOrder[2] = " " /\ CharOrder[3] = "$" /\ CharOrder[4] = "-"
        /\ CharOrder[5] = "." /\ CharOrder[6] = "1" /\ CharOrder[7] = "A" /\ CharOrder[8] = "B"
        /\ CharOrder[9] = "_" /\ CharOrder[10] = "a" /\ CharOrder[11] = "b"
    BY DEF CharOrder
  <2>4. QED
    BY <2>1, <2>2, <2>3, Zenon
<1>3. \A c \in Chars : Rank(c) \in DOMAIN CharOrder /\ CharOrder[Rank(c)] = c
  BY <1>2 DEF Rank
<1>4. QED
  BY <1>1, <1>3

(* The place of a character, 0 after the end of the name. *)
RankAt(s, i) == IF i \in 1..Len(s) THEN Rank(s[i]) ELSE 0

DiffersAt(s, t, i) ==
    /\ \A j \in Nat \ {0} : j < i => RankAt(s, j) = RankAt(t, j)
    /\ RankAt(s, i) < RankAt(t, i)

(* Only a place after the end has 0. *)
LEMMA RankAtFacts ==
  ASSUME NEW s \in Seq(Chars)
  PROVE  /\ Len(s) \in Nat
         /\ \A i \in Nat \ {0} :
               /\ RankAt(s, i) \in Nat
               /\ i <= Len(s) => RankAt(s, i) = Rank(s[i]) /\ RankAt(s, i) # 0 /\ s[i] \in Chars
               /\ i > Len(s) => RankAt(s, i) = 0
<1>1. Len(s) \in Nat /\ \A i \in 1..Len(s) : s[i] \in Chars
  BY LenProperties
<1>2. QED
  BY <1>1, RankFacts DEF RankAt

(* Equal places are equal characters, *)
LEMMA SameRank ==
  ASSUME NEW s \in Seq(Chars), NEW t \in Seq(Chars), NEW i \in Nat \ {0}, i <= Len(s), i <= Len(t)
  PROVE  RankAt(s, i) = RankAt(t, i) <=> s[i] = t[i]
<1>1. RankAt(s, i) = Rank(s[i]) /\ s[i] \in Chars
  BY RankAtFacts
<1>2. RankAt(t, i) = Rank(t[i]) /\ t[i] \in Chars
  BY RankAtFacts
<1>3. QED
  BY <1>1, <1>2, RankFacts

(* and equal prefixes equal places. *)
LEMMA SamePrefix ==
  ASSUME NEW s \in Seq(Chars), NEW t \in Seq(Chars), NEW n \in Nat, n <= Len(s), n <= Len(t)
  PROVE  SubSeq(s, 1, n) = SubSeq(t, 1, n) <=> \A i \in 1..n : s[i] = t[i]
<1>1. /\ Len(s) \in Nat /\ Len(t) \in Nat
      /\ (\A i \in 1..Len(s) : s[i] \in Chars) /\ (\A i \in 1..Len(t) : t[i] \in Chars)
  BY LenProperties
<1>2. (\A i \in 1..n : s[i] \in Chars) /\ (\A i \in 1..n : t[i] \in Chars)
  BY <1>1
<1>3. /\ SubSeq(s, 1, n) \in Seq(Chars) /\ Len(SubSeq(s, 1, n)) = n
      /\ \A i \in 1..n : SubSeq(s, 1, n)[i] = s[i]
  BY <1>2, SubSeqProperties
<1>4. /\ SubSeq(t, 1, n) \in Seq(Chars) /\ Len(SubSeq(t, 1, n)) = n
      /\ \A i \in 1..n : SubSeq(t, 1, n)[i] = t[i]
  BY <1>2, SubSeqProperties
<1>5. ASSUME \A i \in 1..n : s[i] = t[i] PROVE SubSeq(s, 1, n) = SubSeq(t, 1, n)
  <2>1. /\ Len(SubSeq(s, 1, n)) = Len(SubSeq(t, 1, n))
        /\ \A i \in 1..Len(SubSeq(s, 1, n)) : SubSeq(s, 1, n)[i] = SubSeq(t, 1, n)[i]
    BY <1>3, <1>4, <1>5
  <2>2. QED
    BY <1>3, <1>4, <2>1, SeqEqual
<1>6. QED
  BY <1>3, <1>4, <1>5

(* sort.Strings goes by the first place where two names differ. *)
LEMMA SortsBeforeDiffers ==
  ASSUME NEW s \in Seq(Chars), NEW t \in Seq(Chars)
  PROVE  SortsBefore(s, t) <=> \E i \in Nat \ {0} : DiffersAt(s, t, i)
<1>1. Len(s) \in Nat /\ Len(t) \in Nat /\ DOMAIN s = 1..Len(s) /\ DOMAIN t = 1..Len(t)
  BY LenProperties
<1>2. ASSUME IsStrictPrefix(s, t) PROVE \E i \in Nat \ {0} : DiffersAt(s, t, i)
  <2>1. Len(s) <= Len(t) /\ SubSeq(s, 1, Len(s)) = SubSeq(t, 1, Len(s)) /\ s # t
    BY <1>2 DEF IsStrictPrefix, IsPrefix
  <2>2. \A j \in 1..Len(s) : s[j] = t[j]
    BY <1>1, <2>1, SamePrefix
  <2>3. Len(s) # Len(t)
    BY <2>1, <2>2, SeqEqual
  <2>4. Len(s) + 1 \in Nat \ {0} /\ Len(s) + 1 <= Len(t) /\ Len(s) + 1 > Len(s)
    <3>1. \A m, n \in Nat : m <= n /\ m # n => m + 1 \in Nat \ {0} /\ m + 1 <= n /\ m + 1 > m
      OBVIOUS
    <3>2. Len(s) <= Len(t)
      BY <2>1
    <3>3. QED
      BY <1>1, <2>3, <3>1, <3>2
  <2>5. RankAt(s, Len(s) + 1) < RankAt(t, Len(s) + 1)
    BY <2>4, RankAtFacts
  <2>6. ASSUME NEW j \in Nat \ {0}, j < Len(s) + 1 PROVE RankAt(s, j) = RankAt(t, j)
    <3>1. j <= Len(s) /\ j <= Len(t) /\ s[j] = t[j]
      BY <1>1, <2>1, <2>2, <2>6
    <3>2. QED
      BY <3>1, SameRank
  <2>7. QED
    BY <2>4, <2>5, <2>6 DEF DiffersAt
<1>3. ASSUME NEW i \in DOMAIN s \cap DOMAIN t,
             SubSeq(s, 1, i - 1) = SubSeq(t, 1, i - 1), Rank(s[i]) < Rank(t[i])
      PROVE  \E k \in Nat \ {0} : DiffersAt(s, t, k)
  <2>1. i \in Nat \ {0} /\ i <= Len(s) /\ i <= Len(t) /\ i - 1 \in Nat /\ i - 1 <= Len(s) /\ i - 1 <= Len(t)
    BY <1>1
  <2>2. \A j \in 1..i - 1 : s[j] = t[j]
    BY <1>3, <2>1, SamePrefix
  <2>3. RankAt(s, i) < RankAt(t, i)
    BY <1>3, <2>1, RankAtFacts
  <2>4. ASSUME NEW j \in Nat \ {0}, j < i PROVE RankAt(s, j) = RankAt(t, j)
    <3>1. j <= Len(s) /\ j <= Len(t) /\ s[j] = t[j]
      BY <1>1, <2>1, <2>2, <2>4
    <3>2. QED
      BY <3>1, SameRank
  <2>5. QED
    BY <2>1, <2>3, <2>4 DEF DiffersAt
<1>4. ASSUME NEW i \in Nat \ {0}, DiffersAt(s, t, i) PROVE SortsBefore(s, t)
  <2>1. RankAt(s, i) < RankAt(t, i) /\ \A j \in Nat \ {0} : j < i => RankAt(s, j) = RankAt(t, j)
    BY <1>4 DEF DiffersAt
  <2>2. i <= Len(t)
    <3>1. RankAt(s, i) \in Nat
      BY RankAtFacts
    <3>2. i > Len(t) => RankAt(t, i) = 0
      BY RankAtFacts
    <3>3. RankAt(t, i) # 0
      BY <2>1, <3>1
    <3>4. QED
      BY <1>1, <3>2, <3>3
  <2>3. ASSUME NEW j \in Nat \ {0}, j < i, j <= Len(s) PROVE s[j] = t[j]
    <3>1. j <= Len(t) /\ RankAt(s, j) = RankAt(t, j)
      BY <1>1, <2>1, <2>2, <2>3
    <3>2. QED
      BY <2>3, <3>1, SameRank
  <2>4. CASE i <= Len(s)
    <3>1. i - 1 \in Nat /\ i - 1 <= Len(s) /\ i - 1 <= Len(t) /\ i \in DOMAIN s \cap DOMAIN t
      BY <1>1, <2>2, <2>4
    <3>2. \A j \in 1..i - 1 : j \in Nat \ {0} /\ j < i /\ j <= Len(s)
      BY <1>1, <2>4
    <3>3. SubSeq(s, 1, i - 1) = SubSeq(t, 1, i - 1)
      BY <2>3, <3>1, <3>2, SamePrefix
    <3>4. Rank(s[i]) < Rank(t[i])
      BY <2>1, <2>2, <2>4, RankAtFacts
    <3>5. QED
      BY <3>1, <3>3, <3>4 DEF SortsBefore
  <2>5. CASE i > Len(s)
    <3>1. Len(s) + 1 = i
      <4>1. Len(s) + 1 \in Nat \ {0} /\ Len(s) + 1 > Len(s) /\ Len(s) + 1 <= i
        BY <1>1, <2>5
      <4>2. Len(s) + 1 < i => RankAt(s, Len(s) + 1) = 0 /\ RankAt(t, Len(s) + 1) # 0
        BY <1>1, <2>2, <4>1, RankAtFacts
      <4>3. QED
        BY <1>1, <2>1, <4>1, <4>2
    <3>2. Len(s) <= Len(t) /\ Len(s) # Len(t)
      <4>1. \A m, n \in Nat : m + 1 <= n => m <= n /\ m # n
        OBVIOUS
      <4>2. Len(s) + 1 <= Len(t)
        BY <2>2, <3>1
      <4>3. QED
        BY <1>1, <4>1, <4>2
    <3>3. \A j \in 1..Len(s) : s[j] = t[j]
      BY <1>1, <2>3, <3>1
    <3>4. Len(s) <= Len(s)
      BY <1>1
    <3>5. SubSeq(s, 1, Len(s)) = SubSeq(t, 1, Len(s))
      BY <1>1, <3>2, <3>3, <3>4, SamePrefix
    <3>6. QED
      BY <3>2, <3>5 DEF SortsBefore, IsStrictPrefix, IsPrefix
  <2>6. QED
    BY <1>1, <2>4, <2>5
<1>5. QED
  BY <1>2, <1>3, <1>4 DEF SortsBefore

(* The order of sort.Strings is a total one. *)
LEMMA SortsTotal ==
  ASSUME NEW s \in Seq(Chars), NEW t \in Seq(Chars), s # t
  PROVE  SortsBefore(s, t) \/ SortsBefore(t, s)
<1> DEFINE D == {i \in Nat \ {0} : RankAt(s, i) # RankAt(t, i)}
<1>1. Len(s) \in Nat /\ Len(t) \in Nat
  BY LenProperties
<1>2. D # {}
  <2>1. CASE Len(s) = Len(t)
    <3>1. PICK i \in 1..Len(s) : s[i] # t[i]
      BY <2>1, SeqEqual
    <3>2. i \in Nat \ {0} /\ i <= Len(s) /\ i <= Len(t)
      BY <1>1, <2>1
    <3>3. RankAt(s, i) # RankAt(t, i)
      BY <3>1, <3>2, SameRank
    <3>4. QED
      BY <3>2, <3>3
  <2>2. CASE Len(s) < Len(t)
    <3>1. Len(s) + 1 \in Nat \ {0} /\ Len(s) + 1 <= Len(t) /\ Len(s) + 1 > Len(s)
      BY <1>1, <2>2
    <3>2. Len(s) + 1 \in D
      BY <3>1, RankAtFacts
    <3>3. QED
      BY <3>2
  <2>3. CASE Len(t) < Len(s)
    <3>1. Len(t) + 1 \in Nat \ {0} /\ Len(t) + 1 <= Len(s) /\ Len(t) + 1 > Len(t)
      BY <1>1, <2>3
    <3>2. Len(t) + 1 \in D
      BY <3>1, RankAtFacts
    <3>3. QED
      BY <3>2
  <2>4. QED
    BY <1>1, <2>1, <2>2, <2>3
<1>3. D \subseteq Nat
  OBVIOUS
<1>4. PICK i \in D : \A j \in D : i <= j
  <2> HIDE DEF D
  <2>1. QED
    BY <1>2, <1>3, LeastNatural
<1>5. i \in Nat \ {0} /\ RankAt(s, i) # RankAt(t, i)
  OBVIOUS
<1>6. \A j \in Nat \ {0} : j < i => RankAt(s, j) = RankAt(t, j)
  BY <1>4, <1>5
<1>7. RankAt(s, i) \in Nat /\ RankAt(t, i) \in Nat
  BY <1>5, RankAtFacts
<1>8. DiffersAt(s, t, i) \/ DiffersAt(t, s, i)
  BY <1>5, <1>6, <1>7 DEF DiffersAt
<1>9. QED
  BY <1>5, <1>8, SortsBeforeDiffers

(* Not both come before the other, and none before itself. *)
LEMMA SortsStrict ==
  ASSUME NEW s \in Seq(Chars), NEW t \in Seq(Chars), SortsBefore(s, t)
  PROVE  ~SortsBefore(t, s) /\ s # t
<1> SUFFICES ASSUME SortsBefore(t, s) \/ s = t PROVE FALSE
  OBVIOUS
<1>1. PICK i \in Nat \ {0} : DiffersAt(s, t, i)
  BY SortsBeforeDiffers
<1>2. \E j \in Nat \ {0} : DiffersAt(t, s, j)
  BY <1>1, SortsBeforeDiffers
<1>3. PICK j \in Nat \ {0} : DiffersAt(t, s, j)
  BY <1>2
<1>4. \A k \in Nat \ {0} : RankAt(s, k) \in Nat /\ RankAt(t, k) \in Nat
  BY RankAtFacts
<1>5. i < j \/ j < i \/ i = j
  OBVIOUS
<1>6. QED
  BY <1>1, <1>3, <1>4, <1>5 DEF DiffersAt

(* What comes before one comes before what that comes before. *)
LEMMA SortsTransitive ==
  ASSUME NEW s \in Seq(Chars), NEW t \in Seq(Chars), NEW u \in Seq(Chars),
         SortsBefore(s, t), SortsBefore(t, u)
  PROVE  SortsBefore(s, u)
<1>1. PICK i \in Nat \ {0} : DiffersAt(s, t, i)
  BY SortsBeforeDiffers
<1>2. PICK j \in Nat \ {0} : DiffersAt(t, u, j)
  BY SortsBeforeDiffers
<1>3. \A k \in Nat \ {0} : RankAt(s, k) \in Nat /\ RankAt(t, k) \in Nat /\ RankAt(u, k) \in Nat
  BY RankAtFacts
<1>4. CASE i < j
  <2>1. DiffersAt(s, u, i)
    BY <1>1, <1>2, <1>3, <1>4 DEF DiffersAt
  <2>2. QED
    BY <2>1, SortsBeforeDiffers
<1>5. CASE j < i
  <2>1. DiffersAt(s, u, j)
    BY <1>1, <1>2, <1>3, <1>5 DEF DiffersAt
  <2>2. QED
    BY <2>1, SortsBeforeDiffers
<1>6. CASE i = j
  <2>1. DiffersAt(s, u, i)
    BY <1>1, <1>2, <1>3, <1>6 DEF DiffersAt
  <2>2. QED
    BY <2>1, SortsBeforeDiffers
<1>7. QED
  BY <1>4, <1>5, <1>6

(* So of finitely many names there is a first one. *)
LEMMA FirstKey ==
  ASSUME NEW K, K \subseteq Seq(Chars), IsFiniteSet(K), K # {}
  PROVE  \E k \in K : \A l \in K \ {k} : SortsBefore(k, l)
<1> DEFINE First(L) == \E k \in L : \A l \in L \ {k} : SortsBefore(k, l)
           Bad == {n \in Nat : \E L \in SUBSET K : L # {} /\ Cardinality(L) = n /\ ~First(L)}
<1>1. SUFFICES ASSUME ~First(K) PROVE FALSE
  OBVIOUS
<1>2. \A L \in SUBSET K : IsFiniteSet(L) /\ Cardinality(L) \in Nat
  BY FS_Subset, FS_CardinalityType
<1>3. Bad # {} /\ Bad \subseteq Nat
  <2>1. Cardinality(K) \in Bad
    BY <1>1, <1>2
  <2>2. QED
    BY <2>1
<1>4. PICK n \in Bad : \A m \in Bad : n <= m
  <2> HIDE DEF Bad
  <2>1. QED
    BY <1>3, LeastNatural
<1>5. PICK L \in SUBSET K : L # {} /\ Cardinality(L) = n /\ ~First(L)
  BY <1>4
<1>6. PICK x \in L : TRUE
  BY <1>5
<1>7. /\ Cardinality(L \ {x}) = n - 1 /\ n - 1 \in Nat /\ ~(n <= n - 1)
  <2>1. Cardinality(L \ {x}) = n - 1 /\ Cardinality(L \ {x}) \in Nat /\ n \in Nat
    BY <1>2, <1>5, <1>6, FS_RemoveElement
  <2>2. QED
    BY <2>1
<1>8. n - 1 \notin Bad
  BY <1>4, <1>7
<1>9. CASE L \ {x} = {}
  BY <1>5, <1>6, <1>9
<1>10. CASE L \ {x} # {}
  <2>1. First(L \ {x})
    <3>1. L \ {x} \in SUBSET K
      BY <1>5
    <3> HIDE DEF First
    <3>2. QED
      BY <1>7, <1>8, <1>10, <3>1
  <2>2. PICK k \in L \ {x} : \A l \in (L \ {x}) \ {k} : SortsBefore(k, l)
    BY <2>1
  <2>3. k # x /\ k \in Seq(Chars) /\ x \in Seq(Chars) /\ L \subseteq Seq(Chars)
    BY <1>5, <1>6
  <2>4. CASE SortsBefore(k, x)
    <3>1. \A l \in L \ {k} : SortsBefore(k, l)
      BY <2>2, <2>4
    <3>2. QED
      BY <1>5, <3>1
  <2>5. CASE SortsBefore(x, k)
    <3>1. \A l \in L \ {x} : SortsBefore(x, l)
      BY <2>2, <2>3, <2>5, SortsTransitive
    <3>2. QED
      BY <1>5, <1>6, <3>1
  <2>6. QED
    BY <2>3, <2>4, <2>5, SortsTotal
<1>11. QED
  BY <1>9, <1>10

-----------------------------------------------------------------------------
(* NormalizeHeaders.                                                       *)

(* What the five styles make of a name. *)
LEMMA StyleFacts ==
  ASSUME NEW style \in Styles, NEW s \in Seq(Chars)
  PROVE  /\ Style(style, s) \in Seq(Chars)
         /\ style # "camel" \/ ~Doubling(s) =>
               WordCharacters[Style(style, s)] = WordCharacters[s]
         /\ Steady(s, Style(style, s), style) => Style(style, Style(style, s)) = Style(style, s)
         /\ style = "snake" /\ ~Contains(TrimSpace(s), "~") /\ Style(style, s) # <<>> =>
               Tidy(Style(style, s))
<1>1. CASE style = "snake"
  <2>1. \A n : Style(style, n) = SnakeCase(n)
    BY <1>1 DEF Style
  <2>2. \A n : Steady(s, n, style) => ~Contains(TrimSpace(s), "~")
    BY <1>1 DEF Steady
  <2>3. QED
    BY <1>1, <2>1, <2>2, SnakeFacts, SnakeIsTidy
<1>2. CASE style = "kebab"
  <2>1. \A n : Style(style, n) = KebabCase(n)
    BY <1>2 DEF Style
  <2>2. \A n : Steady(s, n, style) => ~Contains(TrimSpace(s), "~")
    BY <1>2 DEF Steady
  <2>3. QED
    BY <1>2, <2>1, <2>2, SnakeFacts
<1>3. CASE style = "camel"
  <2>1. \A n : Style(style, n) = CamelCase(n)
    BY <1>3 DEF Style
  <2>2. \A n : Steady(s, n, style) => Humped(n)
    BY <1>3 DEF Steady
  <2>3. QED
    BY <1>3, <2>1, <2>2, CamelFacts, CamelSteady
<1>4. CASE style = "lower"
  <2>1. \A n : Style(style, n) = LowerCase(n)
    BY <1>4 DEF Style
  <2>2. /\ LowerCase(s) \in Seq(Chars) /\ WordCharacters[LowerCase(s)] = WordCharacters[s]
        /\ LowerCase(LowerCase(s)) = LowerCase(s)
    BY CaseType, CaseKeepsWords, CaseSettles
  <2>3. style # "snake"
    BY <1>4
  <2>4. QED
    BY <2>1, <2>2, <2>3, Zenon
<1>5. CASE style = "upper"
  <2>1. \A n : Style(style, n) = UpperCase(n)
    BY <1>5 DEF Style
  <2>2. /\ UpperCase(s) \in Seq(Chars) /\ WordCharacters[UpperCase(s)] = WordCharacters[s]
        /\ UpperCase(UpperCase(s)) = UpperCase(s)
    BY CaseType, CaseKeepsWords, CaseSettles
  <2>3. style # "snake"
    BY <1>5
  <2>4. QED
    BY <2>1, <2>2, <2>3, Zenon
<1>6. QED
  BY <1>1, <1>2, <1>3, <1>4, <1>5 DEF Styles

(* Of the keys that come to one name the first one wins, and only that one. *)
LEMMA RenamedFacts ==
  ASSUME NEW r, Named(r), NEW style
  PROVE  /\ DOMAIN Renamed(r, style) = {Style(style, k) : k \in DOMAIN r} \ {<<>>}
         /\ \A n \in DOMAIN Renamed(r, style) :
               \E k \in DOMAIN r :
                  /\ Style(style, k) = n /\ Renamed(r, style)[n] = r[k]
                  /\ \A l \in DOMAIN r : Style(style, l) = n /\ l # k => SortsBefore(k, l)
<1> DEFINE winners == FirstOnes(r, style)
           images  == {Style(style, k) : k \in DOMAIN r} \ {<<>>}
<1>1. /\ DOMAIN Renamed(r, style) = {Style(style, k) : k \in winners}
      /\ \A n \in {Style(style, k) : k \in winners} :
            Renamed(r, style)[n] = r[CHOOSE k \in winners : Style(style, k) = n]
  BY DEF Renamed
<1>2. \A k : k \in winners <=>
         /\ k \in DOMAIN r /\ Style(style, k) # <<>>
         /\ \A l \in DOMAIN r : SortsBefore(l, k) => Style(style, l) # Style(style, k)
  BY DEF FirstOnes
<1> HIDE DEF winners
<1>3. ASSUME NEW n \in images
      PROVE  \E k \in winners :
                /\ Style(style, k) = n
                /\ \A l \in DOMAIN r : Style(style, l) = n /\ l # k => SortsBefore(k, l)
                /\ \A l \in winners : Style(style, l) = n => l = k
  <2> DEFINE K == {k \in DOMAIN r : Style(style, k) = n}
  <2>1. K \subseteq Seq(Chars) /\ IsFiniteSet(K) /\ K # {}
    <3>1. K \in SUBSET (DOMAIN r) /\ IsFiniteSet(DOMAIN r) /\ DOMAIN r \subseteq Seq(Chars)
      BY DEF Named
    <3>2. QED
      BY <3>1, FS_Subset
  <2>2. PICK k \in K : \A l \in K \ {k} : SortsBefore(k, l)
    <3> HIDE DEF K
    <3>1. QED
      BY <2>1, FirstKey
  <2>3. k \in DOMAIN r /\ Style(style, k) = n /\ n # <<>>
    OBVIOUS
  <2>4. \A l \in DOMAIN r : Style(style, l) = n /\ l # k => SortsBefore(k, l)
    BY <2>2
  <2>5. ASSUME NEW l \in DOMAIN r, SortsBefore(l, k) PROVE Style(style, l) # n
    <3>1. l \in Seq(Chars) /\ k \in Seq(Chars)
      BY <2>3 DEF Named
    <3>2. ~SortsBefore(k, l) /\ l # k
      BY <2>5, <3>1, SortsStrict
    <3>3. QED
      BY <2>4, <3>2
  <2>6. k \in winners
    BY <1>2, <2>3, <2>5
  <2>7. \A l \in winners : Style(style, l) = n => l = k
    <3> SUFFICES ASSUME NEW l \in winners, Style(style, l) = n, l # k PROVE FALSE
      OBVIOUS
    <3>1. SortsBefore(k, l)
      BY <1>2, <2>4
    <3>2. QED
      BY <1>2, <2>3, <3>1
  <2>8. QED
    BY <2>3, <2>4, <2>6, <2>7
<1>4. DOMAIN Renamed(r, style) = images
  <2>1. \A k \in winners : Style(style, k) \in images
    BY <1>2
  <2> HIDE DEF images
  <2>2. \A n \in images : \E k \in winners : Style(style, k) = n
    BY <1>3
  <2>3. QED
    BY <1>1, <2>1, <2>2
<1>5. ASSUME NEW n \in DOMAIN Renamed(r, style)
      PROVE  \E k \in DOMAIN r :
                /\ Style(style, k) = n /\ Renamed(r, style)[n] = r[k]
                /\ \A l \in DOMAIN r : Style(style, l) = n /\ l # k => SortsBefore(k, l)
  <2> HIDE DEF images
  <2>1. PICK k \in winners :
           /\ Style(style, k) = n
           /\ \A l \in DOMAIN r : Style(style, l) = n /\ l # k => SortsBefore(k, l)
           /\ \A l \in winners : Style(style, l) = n => l = k
    BY <1>3, <1>4
  <2>2. (CHOOSE l \in winners : Style(style, l) = n) = k
    BY <2>1
  <2>3. Renamed(r, style)[n] = r[k]
    BY <1>1, <2>2
  <2>4. QED
    BY <1>2, <2>1, <2>3
<1>6. QED
  BY <1>4, <1>5

(* So what NormalizeHeaders gives is settled. *)
LEMMA RenamedSettles ==
  ASSUME NEW r, Named(r), NEW style \in Styles
  PROVE  Settled(r, Renamed(r, style), style)
<1> DEFINE keys(n) == {k \in DOMAIN r : Style(style, k) = n}
<1>1. DOMAIN Renamed(r, style) = {Style(style, k) : k \in DOMAIN r} \ {<<>>}
  BY RenamedFacts
<1>2. ASSUME NEW n \in DOMAIN Renamed(r, style)
      PROVE  \E k \in keys(n) :
                /\ Renamed(r, style)[n] = r[k]
                /\ \A l \in keys(n) \ {k} : SortsBefore(k, l)
                /\ style # "camel" \/ ~Doubling(k) => WordCharacters[n] = WordCharacters[k]
                /\ Steady(k, n, style) => Style(style, n) = n
                /\ style = "snake" /\ ~Contains(TrimSpace(k), "~") => Tidy(n)
  <2>1. PICK k \in DOMAIN r :
           /\ Style(style, k) = n /\ Renamed(r, style)[n] = r[k]
           /\ \A l \in DOMAIN r : Style(style, l) = n /\ l # k => SortsBefore(k, l)
    BY RenamedFacts
  <2>2. n # <<>> /\ k \in Seq(Chars)
    BY <1>1 DEF Named
  <2>3. /\ style # "camel" \/ ~Doubling(k) => WordCharacters[n] = WordCharacters[k]
        /\ Steady(k, n, style) => Style(style, n) = n
        /\ style = "snake" /\ ~Contains(TrimSpace(k), "~") => Tidy(n)
    BY <2>1, <2>2, StyleFacts, Zenon
  <2>4. QED
    BY <2>1, <2>3, Zenon
<1>3. QED
  BY <1>1, <1>2, Zenon DEF Settled

(* Nor does it leave a name that is no sequence of characters. *)
LEMMA RenamedNamed ==
  ASSUME NEW r, Named(r), NEW style \in Styles
  PROVE  Named(Renamed(r, style))
<1> DEFINE images == {Style(style, k) : k \in DOMAIN r}
           f == [k \in DOMAIN r |-> Style(style, k)]
<1>1. f \in Surjection(DOMAIN r, images)
  BY DEF Surjection
<1>2. IsFiniteSet(DOMAIN r) /\ DOMAIN r \subseteq Seq(Chars)
  BY DEF Named
<1>3. images \subseteq Seq(Chars)
  BY <1>2, StyleFacts
<1>4. DOMAIN Renamed(r, style) \in SUBSET images
  BY RenamedFacts
<1> HIDE DEF f, images
<1>5. IsFiniteSet(images)
  BY <1>1, <1>2, FS_Surjection
<1>6. QED
  BY <1>3, <1>4, <1>5, FS_Subset DEF Named

-----------------------------------------------------------------------------
(* The invariant.                                                          *)

(* The record of the source has what the assumptions say of it. *)
LEMMA InitIInv == Init => IInv
<1> SUFFICES ASSUME Init PROVE IInv
  OBVIOUS
<1>1. PICK r \in Records[setup] : heap = <<r>>
  BY DEF Init
<1>2. chain = <<>> /\ DOMAIN chain = {} /\ setup \in DOMAIN Records
  BY DEF Init
<1>3. heap \in Seq({r}) /\ heap # <<>>
  BY <1>1
<1>4. HeapOK
  BY <1>2, <1>3, SeqOfItself, EmptySeq DEF HeapOK
<1>5. TypedOnceParsed
  BY <1>2 DEF TypedOnceParsed
<1>6. TextsKnown
  <2>1. Current = r
    BY <1>1 DEF Current
  <2>2. QED
    BY <1>2, <2>1, TextsAssumption DEF TextsKnown
<1>7. NamesKnown
  <2>1. Current = r
    BY <1>1 DEF Current
  <2>2. QED
    BY <1>2, <2>1, NamesAssumption DEF NamesKnown
<1>8. HeadersSettled
  BY <1>2 DEF HeadersSettled
<1>9. QED
  BY <1>4, <1>5, <1>6, <1>7, <1>8 DEF IInv

(* What one more transformer does. *)
LEMMA TransformFacts ==
  ASSUME HeapOK, NEW t \in Transforms[setup], Transform(t)
  PROVE  /\ t.op \in Operations /\ (Apply(t, Current).new \/ Apply(t, Current).rec = Current)
         /\ heap' = IF Apply(t, Current).err THEN heap ELSE Place(Apply(t, Current))
         /\ chain' = Append(chain, t) /\ setup' = setup
         /\ HeapOK' /\ \A i \in DOMAIN heap : heap'[i] = heap[i]
<1>1. t.op \in Operations
  BY OperationsAssumption DEF HeapOK
<1>2. Apply(t, Current).new \/ Apply(t, Current).rec = Current
  BY <1>1, NewOrSame
<1>3. /\ heap' = IF Apply(t, Current).err THEN heap ELSE Place(Apply(t, Current))
      /\ chain' = Append(chain, t) /\ setup' = setup
  BY DEF Transform
<1>4. chain' \in Seq(Transforms[setup])
  BY <1>3, AppendProperties DEF HeapOK
<1>5. CASE Apply(t, Current).err
  BY <1>1, <1>2, <1>3, <1>4, <1>5 DEF HeapOK
<1>6. CASE ~Apply(t, Current).err
  <2>1. heap' = Place(Apply(t, Current))
    BY <1>3, <1>6
  <2>2. /\ heap' # <<>> /\ heap' \in Seq({heap'[i] : i \in DOMAIN heap'})
        /\ \A i \in DOMAIN heap : heap'[i] = heap[i]
    <3> DEFINE p == Place(Apply(t, Current))
    <3>1. /\ p # <<>> /\ p \in Seq({p[i] : i \in DOMAIN p})
          /\ \A i \in DOMAIN heap : p[i] = heap[i]
      BY <1>2, PlaceKeeps, Zenon
    <3>2. heap' = p
      BY <2>1
    <3> HIDE DEF p
    <3>3. QED
      BY <3>1, <3>2, Zenon
  <2>3. QED
    BY <1>1, <1>2, <1>3, <1>4, <2>2 DEF HeapOK
<1>7. QED
  BY <1>5, <1>6

(* One more transformer keeps TypedOnceParsed, *)
LEMMA TransformTyped ==
  ASSUME IInv, NEW t \in Transforms[setup], Transform(t)
  PROVE  TypedOnceParsed'
<1> SUFFICES ASSUME verdict' # "rejected", NEW i \in DOMAIN chain', Parses(chain'[i]),
                    \A j \in i + 1..Len(chain') : ~Writes(chain'[j], chain'[i].field)
             PROVE  NoText(Current', chain'[i].field)
  BY DEF TypedOnceParsed
<1>1. HeapOK /\ TypedOnceParsed
  BY DEF IInv
<1>2. /\ t.op \in Operations /\ (Apply(t, Current).new \/ Apply(t, Current).rec = Current)
      /\ heap' = IF Apply(t, Current).err THEN heap ELSE Place(Apply(t, Current))
      /\ chain' = Append(chain, t)
  BY <1>1, TransformFacts
<1>3. /\ Len(chain) \in Nat /\ DOMAIN chain = 1..Len(chain) /\ DOMAIN chain' = 1..Len(chain) + 1
      /\ Len(chain') = Len(chain) + 1 /\ chain'[Len(chain) + 1] = t
      /\ \A j \in 1..Len(chain) : chain'[j] = chain[j]
  BY <1>1, <1>2, AppendProperties, LenProperties DEF HeapOK
<1>4. verdict = "transforming"
  BY DEF Transform
<1>5. CASE ~Apply(t, Current).err
  <2>1. Current' = Apply(t, Current).rec
    BY <1>1, <1>2, <1>5, PlaceKeeps DEF Current
  <2>2. CASE i = Len(chain) + 1
    BY <1>3, <1>5, <2>1, <2>2, ParsedIsTyped
  <2>3. CASE i \in 1..Len(chain)
    <3>1. chain'[i] = chain[i] /\ ~Writes(t, chain[i].field)
      BY <1>3, <2>3
    <3>2. \A j \in i + 1..Len(chain) : ~Writes(chain[j], chain[i].field)
      BY <1>3, <2>3
    <3>3. NoText(Current, chain[i].field)
      BY <1>1, <1>3, <1>4, <2>3, <3>1, <3>2 DEF TypedOnceParsed
    <3>4. QED
      BY <1>2, <1>5, <2>1, <3>1, <3>3, UnwrittenStaysTyped
  <2>4. QED
    BY <1>3, <2>2, <2>3
<1>6. CASE Apply(t, Current).err
  <2>1. t.op = "CacheLookup"
    <3>1. Apply(t, Current).panics
      BY <1>6 DEF Transform
    <3>2. QED
      BY <1>2, <3>1, OnlyLookupPanics
  <2>2. ~Parses(t) /\ \A f : Writes(t, f)
    BY <2>1 DEF Parses, Writes
  <2>3. QED
    BY <1>3, <2>2
<1>7. QED
  BY <1>5, <1>6

(* A key that wins a name is one of the record's. *)
LEMMA RenamedKnown ==
  ASSUME NEW r, Known(r), NEW style
  PROVE  Known(Renamed(r, style))
<1> SUFFICES ASSUME NEW n \in DOMAIN Renamed(r, style)
             PROVE  \E k \in DOMAIN r : Renamed(r, style)[n] = r[k]
  BY DEF Known
<1> DEFINE winners == FirstOnes(r, style)
<1>1. Renamed(r, style) = [m \in {Style(style, k) : k \in winners} |->
                             r[CHOOSE k \in winners : Style(style, k) = m]]
  BY DEF Renamed
<1>2. winners \subseteq DOMAIN r
  BY DEF FirstOnes
<1> HIDE DEF winners
<1>3. PICK k \in winners : Style(style, k) = n
  BY <1>1
<1>4. (CHOOSE l \in winners : Style(style, l) = n) \in winners
  BY <1>3
<1>5. QED
  BY <1>1, <1>2, <1>4

(* No transformer makes a text the lexicon does not tell of. *)
LEMMA TextsStayKnown ==
  ASSUME HeapOK, NEW t \in Transforms[setup], NEW r, r # Nil, Known(r), ~Apply(t, r).err
  PROVE  Known(Apply(t, r).rec)
<1>1. \A s : Cloned(s).rec = s /\ Failed(s).err /\ Same(s).rec = s /\ Panics(s).err
  BY DEF Cloned, Failed, Same, Panics
<1>2. \A g, v : (IsText(v) => v[2] \in DOMAIN Lexicon) => Known(With(r, g, v))
  BY DEF Known, With
<1>3. \A F : Known(Without(r, F))
  BY DEF Known, Without
<1>4. t.op \in Operations
  BY OperationsAssumption DEF HeapOK
<1>5. ASSUME NEW g, NEW type, type # "text", NEW reading, ~Parse(r, g, type, reading).err
      PROVE  Known(Parse(r, g, type, reading).rec)
  <2>1. ~IsText(<<type, reading[1]>>)
    BY <1>5 DEF IsText
  <2>2. CASE g \notin DOMAIN r \/ ~IsText(r[g])
    BY <1>1, <2>2 DEF Parse
  <2>3. CASE g \in DOMAIN r /\ IsText(r[g]) /\ Trimmed(r, g) = ""
    BY <1>1, <1>3, <2>3 DEF Parse, Cleared
  <2>4. CASE g \in DOMAIN r /\ IsText(r[g]) /\ Trimmed(r, g) # ""
    <3>1. Parse(r, g, type, reading).rec = With(r, g, <<type, reading[1]>>)
      BY <1>1, <1>5, <2>4 DEF Parse
    <3>2. QED
      BY <1>2, <2>1, <3>1
  <2>5. QED
    BY <2>2, <2>3, <2>4
<1>6. CASE t.op \in {"ParseFloat", "ParseInt", "ParseBool"}
  BY <1>5, <1>6, ApplyCases DEF ParseFloat, ParseInt, ParseBool
<1>7. CASE t.op = "ParseDate"
  <2>1. \A g, layouts : ~ParseDate(r, g, layouts).err => Known(ParseDate(r, g, layouts).rec)
    BY <1>1, <1>5 DEF ParseDate
  <2>2. QED
    BY <1>7, <2>1, ApplyCases
<1>8. CASE t.op = "Rename"
  <2>1. \A g, h : g \in DOMAIN r => Known(With(Without(r, {g}), h, r[g]))
    BY DEF Known, With, Without
  <2>2. \A g, h : Known(Rename(r, g, h).rec)
    BY <1>1, <2>1 DEF Rename
  <2>3. QED
    BY <1>8, <2>2, ApplyCases
<1>9. CASE t.op \in {"Drop", "Keep"}
  <2>1. \A F : Known(Drop(r, F).rec) /\ Known(Keep(r, F).rec)
    BY <1>1, <1>3 DEF Drop, Keep
  <2>2. QED
    BY <1>9, <2>1, ApplyCases
<1>10. CASE t.op \in {"AddField", "MapField"}
  <2>1. CASE t.op = "AddField"
    <3>1. IsText(t.value) => t.value[2] \in DOMAIN Lexicon
      BY <2>1, TextsAssumption DEF HeapOK, Known
    <3>2. QED
      BY <1>1, <1>2, <2>1, <3>1, ApplyCases DEF AddField
  <2>2. CASE t.op = "MapField"
    <3>1. t.fn # <<>> => (IsText(t.fn[1]) => t.fn[1][2] \in DOMAIN Lexicon)
      BY <2>2, TextsAssumption DEF HeapOK, Known
    <3>2. QED
      BY <1>1, <1>2, <2>2, <3>1, ApplyCases DEF MapField
  <2>3. QED
    BY <1>10, <2>1, <2>2
<1>11. CASE t.op = "Copy"
  <2>1. t.from \in DOMAIN r => Known(With(r, t.to, r[t.from]))
    BY <1>2 DEF Known
  <2>2. QED
    BY <1>1, <1>11, <2>1, ApplyCases DEF Copy
<1>12. CASE t.op \in {"TrimStrings", "LowerStrings", "UpperStrings"}
  <2>1. \A F : /\ Known(TrimStrings(r, F).rec) /\ Known(LowerStrings(r, F).rec)
               /\ Known(UpperStrings(r, F).rec)
    BY LexiconAssumption DEF Known, TrimStrings, LowerStrings, UpperStrings, OnStrings, Cloned, IsText
  <2>2. QED
    BY <1>12, <2>1, ApplyCases
<1>13. CASE t.op = "NormalizeHeaders"
  BY <1>1, <1>13, RenamedKnown, ApplyCases DEF NormalizeHeaders
<1>14. CASE t.op = "CacheLookup"
  <2> DEFINE entry == t.cache[Shown(r[t.field])]
  <2>1. Apply(t, r) = CacheLookup(r, t.field, t.cache)
    BY <1>14, ApplyCases
  <2>2. CASE t.field \notin DOMAIN r \/ Shown(r[t.field]) \notin DOMAIN t.cache
    BY <1>1, <2>1, <2>2 DEF CacheLookup
  <2>3. CASE t.field \in DOMAIN r /\ Shown(r[t.field]) \in DOMAIN t.cache
    <3>1. entry[1] = "map" /\ Apply(t, r).rec = Overlay(r, entry[2])
      BY <1>1, <2>1, <2>3 DEF CacheLookup
    <3>2. Known(entry[2])
      BY <1>14, <2>3, <3>1, TextsAssumption DEF HeapOK
    <3> HIDE DEF entry
    <3>3. Known(Overlay(r, entry[2]))
      BY <3>2 DEF Known, Overlay
    <3>4. QED
      BY <3>1, <3>3
  <2>4. QED
    BY <2>2, <2>3
<1>15. CASE t.op = "StaticMapEnrich"
  <2> DEFINE text == t.mapping[Shown(r[t.field])]
  <2>1. Apply(t, r) = StaticMapEnrich(r, t.field, t.to, t.mapping)
    BY <1>15, ApplyCases
  <2>2. CASE t.field \notin DOMAIN r \/ Shown(r[t.field]) \notin DOMAIN t.mapping
    BY <1>1, <2>1, <2>2 DEF StaticMapEnrich
  <2>3. CASE t.field \in DOMAIN r /\ Shown(r[t.field]) \in DOMAIN t.mapping
    <3>1. Apply(t, r).rec = With(r, t.to, <<"text", text>>)
      BY <1>1, <2>1, <2>3 DEF StaticMapEnrich
    <3>2. text \in DOMAIN Lexicon
      BY <1>15, <2>3, TextsAssumption DEF HeapOK
    <3> HIDE DEF text
    <3>3. Known(With(r, t.to, <<"text", text>>))
      BY <1>2, <3>2
    <3>4. QED
      BY <3>1, <3>3
  <2>4. QED
    BY <2>2, <2>3
<1>16. QED
  BY <1>4, <1>6, <1>7, <1>8, <1>9, <1>10, <1>11, <1>12, <1>13, <1>14, <1>15 DEF Operations

(* Every transformer leaves finitely many names over the alphabet. *)
LEMMA NamesStayKnown ==
  ASSUME HeapOK, NEW t \in Transforms[setup], NEW r, r # Nil, Named(r), ~Apply(t, r).err
  PROVE  Named(Apply(t, r).rec)
<1>1. \A s : Cloned(s).rec = s /\ Failed(s).err /\ Same(s).rec = s /\ Panics(s).err
  BY DEF Cloned, Failed, Same, Panics
<1>2. IsFiniteSet(DOMAIN r) /\ DOMAIN r \subseteq Seq(Chars)
  BY DEF Named
<1>3. \A s : DOMAIN s \subseteq DOMAIN r => Named(s)
  BY <1>2, FS_Subset DEF Named
<1>4. \A g \in Seq(Chars) : \A v, s : DOMAIN s \subseteq DOMAIN r => Named(With(s, g, v))
  <2> SUFFICES ASSUME NEW g \in Seq(Chars), NEW v, NEW s, DOMAIN s \subseteq DOMAIN r
               PROVE  Named(With(s, g, v))
    OBVIOUS
  <2>1. DOMAIN With(s, g, v) = DOMAIN s \cup {g}
    BY DEF With
  <2>2. IsFiniteSet(DOMAIN s \cup {g})
    BY <1>2, FS_Subset, FS_AddElement
  <2>3. QED
    BY <1>2, <2>1, <2>2 DEF Named
<1>5. \A F : DOMAIN Without(r, F) \subseteq DOMAIN r
  BY DEF Without
<1>6. \A g \in DOMAIN r : \A v : Named(With(r, g, v))
  BY <1>2, <1>4
<1>7. t.op \in Operations
  BY OperationsAssumption DEF HeapOK
<1>8. ASSUME NEW g, NEW type, NEW reading, ~Parse(r, g, type, reading).err
      PROVE  Named(Parse(r, g, type, reading).rec)
  <2>1. CASE g \notin DOMAIN r \/ ~IsText(r[g])
    BY <1>1, <2>1 DEF Parse
  <2>2. CASE g \in DOMAIN r /\ IsText(r[g]) /\ Trimmed(r, g) = ""
    BY <1>1, <1>3, <1>5, <2>2 DEF Parse, Cleared
  <2>3. CASE g \in DOMAIN r /\ IsText(r[g]) /\ Trimmed(r, g) # ""
    <3>1. Parse(r, g, type, reading).rec = With(r, g, <<type, reading[1]>>)
      BY <1>1, <1>8, <2>3 DEF Parse
    <3>2. QED
      BY <1>6, <2>3, <3>1
  <2>4. QED
    BY <2>1, <2>2, <2>3
<1>9. CASE t.op \in {"ParseFloat", "ParseInt", "ParseBool"}
  BY <1>8, <1>9, ApplyCases DEF ParseFloat, ParseInt, ParseBool
<1>10. CASE t.op = "ParseDate"
  <2>1. \A g, layouts : ~ParseDate(r, g, layouts).err => Named(ParseDate(r, g, layouts).rec)
    BY <1>1, <1>8 DEF ParseDate
  <2>2. QED
    BY <1>10, <2>1, ApplyCases
<1>11. CASE t.op = "Rename"
  <2>1. t.to \in Seq(Chars)
    BY <1>11, NamesAssumption DEF HeapOK
  <2>2. Named(With(Without(r, {t.from}), t.to, r[t.from]))
    BY <1>4, <1>5, <2>1
  <2>3. Named(Rename(r, t.from, t.to).rec)
    BY <1>1, <2>2 DEF Rename
  <2>4. QED
    BY <1>11, <2>3, ApplyCases
<1>12. CASE t.op \in {"Drop", "Keep"}
  <2>1. \A F : Named(Without(r, F))
    BY <1>3, <1>5
  <2>2. \A F : Named(Drop(r, F).rec) /\ Named(Keep(r, F).rec)
    BY <1>1, <2>1 DEF Drop, Keep
  <2>3. QED
    BY <1>12, <2>2, ApplyCases
<1>13. CASE t.op = "AddField"
  <2>1. t.field \in Seq(Chars)
    BY <1>13, NamesAssumption DEF HeapOK
  <2>2. Named(With(r, t.field, t.value))
    BY <1>4, <2>1
  <2>3. QED
    BY <1>1, <1>13, <2>2, ApplyCases DEF AddField
<1>14. CASE t.op = "MapField"
  <2>1. \A f, fn : ~MapField(r, f, fn).err => Named(MapField(r, f, fn).rec)
    BY <1>1, <1>6 DEF MapField
  <2>2. QED
    BY <1>14, <2>1, ApplyCases
<1>15. CASE t.op = "Copy"
  <2>1. t.to \in Seq(Chars)
    BY <1>15, NamesAssumption DEF HeapOK
  <2>2. Named(With(r, t.to, r[t.from]))
    BY <1>4, <2>1
  <2>3. QED
    BY <1>1, <1>15, <2>2, ApplyCases DEF Copy
<1>16. CASE t.op \in {"TrimStrings", "LowerStrings", "UpperStrings"}
  <2>1. \A F : /\ DOMAIN TrimStrings(r, F).rec = DOMAIN r /\ DOMAIN LowerStrings(r, F).rec = DOMAIN r
               /\ DOMAIN UpperStrings(r, F).rec = DOMAIN r
    BY DEF TrimStrings, LowerStrings, UpperStrings, OnStrings, Cloned
  <2>2. DOMAIN Apply(t, r).rec = DOMAIN r
    BY <1>16, <2>1, ApplyCases
  <2>3. QED
    BY <1>3, <2>2
<1>17. CASE t.op = "NormalizeHeaders"
  <2>1. t.style \in Styles
    BY <1>17, NamesAssumption DEF HeapOK
  <2>2. QED
    BY <1>1, <1>17, <2>1, RenamedNamed, ApplyCases DEF NormalizeHeaders
<1>18. CASE t.op = "CacheLookup"
  <2> DEFINE entry == t.cache[Shown(r[t.field])]
  <2>1. Apply(t, r) = CacheLookup(r, t.field, t.cache)
    BY <1>18, ApplyCases
  <2>2. CASE t.field \notin DOMAIN r \/ Shown(r[t.field]) \notin DOMAIN t.cache
    BY <1>1, <2>1, <2>2 DEF CacheLookup
  <2>3. CASE t.field \in DOMAIN r /\ Shown(r[t.field]) \in DOMAIN t.cache
    <3>1. entry[1] = "map" /\ Apply(t, r).rec = Overlay(r, entry[2])
      BY <1>1, <2>1, <2>3 DEF CacheLookup
    <3>2. Named(entry[2])
      BY <1>18, <2>3, <3>1, NamesAssumption DEF HeapOK
    <3> HIDE DEF entry
    <3>3. DOMAIN Overlay(r, entry[2]) = DOMAIN r \cup DOMAIN entry[2]
      BY DEF Overlay
    <3>4. Named(Overlay(r, entry[2]))
      BY <1>2, <3>2, <3>3, FS_Union DEF Named
    <3>5. QED
      BY <3>1, <3>4
  <2>4. QED
    BY <2>2, <2>3
<1>19. CASE t.op = "StaticMapEnrich"
  <2>1. t.to \in Seq(Chars)
    BY <1>19, NamesAssumption DEF HeapOK
  <2>2. \A v : Named(With(r, t.to, v))
    BY <1>4, <2>1
  <2>3. \A f, mapping : Named(StaticMapEnrich(r, f, t.to, mapping).rec)
    BY <1>1, <2>2 DEF StaticMapEnrich
  <2>4. QED
    BY <1>19, <2>3, ApplyCases
<1>20. QED
  BY <1>7, <1>9, <1>10, <1>11, <1>12, <1>13, <1>14, <1>15, <1>16, <1>17, <1>18, <1>19 DEF Operations

(* the texts known, *)
LEMMA TransformTexts ==
  ASSUME IInv, NEW t \in Transforms[setup], Transform(t)
  PROVE  TextsKnown'
<1>1. HeapOK /\ TextsKnown
  BY DEF IInv
<1>2. /\ Apply(t, Current).new \/ Apply(t, Current).rec = Current
      /\ heap' = IF Apply(t, Current).err THEN heap ELSE Place(Apply(t, Current))
  BY <1>1, TransformFacts
<1>3. CASE Apply(t, Current).err
  BY <1>1, <1>2, <1>3 DEF TextsKnown, Known, Current
<1>4. CASE ~Apply(t, Current).err
  <2>1. Current' = Apply(t, Current).rec
    BY <1>1, <1>2, <1>4, PlaceKeeps DEF Current
  <2>2. CASE Current = Nil
    BY <2>1, <2>2 DEF Apply, Same, TextsKnown
  <2>3. CASE Current # Nil
    <3>1. Known(Apply(t, Current).rec)
      BY <1>1, <1>4, <2>3, TextsStayKnown DEF TextsKnown
    <3>2. QED
      BY <2>1, <3>1 DEF TextsKnown, Known
  <2>4. QED
    BY <2>2, <2>3
<1>5. QED
  BY <1>3, <1>4

(* the names known, *)
LEMMA TransformNames ==
  ASSUME IInv, NEW t \in Transforms[setup], Transform(t)
  PROVE  NamesKnown'
<1>1. HeapOK /\ NamesKnown
  BY DEF IInv
<1>2. /\ Apply(t, Current).new \/ Apply(t, Current).rec = Current
      /\ heap' = IF Apply(t, Current).err THEN heap ELSE Place(Apply(t, Current))
  BY <1>1, TransformFacts
<1>3. CASE Apply(t, Current).err
  BY <1>1, <1>2, <1>3 DEF NamesKnown, Named, Current
<1>4. CASE ~Apply(t, Current).err
  <2>1. Current' = Apply(t, Current).rec
    BY <1>1, <1>2, <1>4, PlaceKeeps DEF Current
  <2>2. CASE Current = Nil
    BY <2>1, <2>2 DEF Apply, Same, NamesKnown
  <2>3. CASE Current # Nil
    <3>1. Named(Apply(t, Current).rec)
      BY <1>1, <1>4, <2>3, NamesStayKnown DEF NamesKnown
    <3>2. QED
      BY <2>1, <3>1 DEF NamesKnown, Named
  <2>4. QED
    BY <2>2, <2>3
<1>5. QED
  BY <1>3, <1>4

(* A NormalizeHeaders that returns leaves the record it was given below its *)
(* own on the heap.                                                        *)
LEMMA NormalizedHeap ==
  ASSUME IInv, NEW t \in Transforms[setup], Transform(t), verdict' = "transforming",
         t.op = "NormalizeHeaders", Current' # Nil
  PROVE  /\ t.style \in Styles /\ Named(Current)
         /\ Current' = Renamed(Current, t.style) /\ (heap[Len(heap) - 1])' = Current
<1>1. HeapOK /\ NamesKnown
  BY DEF IInv
<1>2. t.style \in Styles
  BY <1>1, NamesAssumption DEF HeapOK
<1>3. ~Apply(t, Current).err
  BY DEF Transform
<1>4. heap' = Place(Apply(t, Current))
  BY <1>1, <1>3, TransformFacts
<1>5. Current' = Apply(t, Current).rec
  BY <1>1, <1>4, TransformFacts, PlaceKeeps DEF Current
<1>6. Current # Nil
  BY <1>5 DEF Apply, Same
<1>7. Apply(t, Current) = Cloned(Renamed(Current, t.style))
  BY <1>6 DEF Apply, NormalizeHeaders
<1>8. Apply(t, Current).new /\ Apply(t, Current).rec = Renamed(Current, t.style)
  BY <1>7 DEF Cloned
<1>9. heap' = Append(heap, Renamed(Current, t.style))
  BY <1>4, <1>8 DEF Place
<1>10. Len(heap') - 1 = Len(heap) /\ heap'[Len(heap)] = heap[Len(heap)]
  <2>1. Len(heap) \in Nat \ {0} /\ heap \in Seq({heap[i] : i \in DOMAIN heap})
    BY <1>1, HeapFacts DEF HeapOK
  <2>2. QED
    BY <1>9, <2>1
<1>11. (heap[Len(heap) - 1])' = Current
  BY <1>10 DEF Current
<1>12. QED
  BY <1>1, <1>2, <1>5, <1>6, <1>8, <1>11 DEF NamesKnown

(* and HeadersSettled. *)
LEMMA TransformHeaders ==
  ASSUME IInv, NEW t \in Transforms[setup], Transform(t)
  PROVE  HeadersSettled'
<1>1. Last(chain)' = t
  <2>1. chain' = Append(chain, t) /\ chain \in Seq(Transforms[setup])
    BY TransformFacts DEF IInv, HeapOK
  <2>2. QED
    BY <2>1 DEF Last
<1> SUFFICES ASSUME verdict' = "transforming", t.op = "NormalizeHeaders", Current' # Nil
             PROVE  Settled(heap[Len(heap) - 1], Current, t.style)'
  BY <1>1 DEF HeadersSettled
<1>2. /\ t.style \in Styles /\ Named(Current)
      /\ Current' = Renamed(Current, t.style) /\ (heap[Len(heap) - 1])' = Current
  BY NormalizedHeap
<1>3. Settled(Current, Renamed(Current, t.style), t.style)
  BY <1>2, RenamedSettles
<1>4. QED
  BY <1>2, <1>3

(* Every step keeps the invariant, and what is on the heap. *)
LEMMA StepIInv == ASSUME IInv, [Next]_vars PROVE IInv' /\ \A i \in DOMAIN heap : heap'[i] = heap[i]
<1>1. ASSUME NEW t \in Transforms[setup], Transform(t)
      PROVE  IInv' /\ \A i \in DOMAIN heap : heap'[i] = heap[i]
  <2>1. HeapOK
    BY DEF IInv
  <2>2. HeapOK' /\ \A i \in DOMAIN heap : heap'[i] = heap[i]
    BY <1>1, <2>1, TransformFacts
  <2>3. TypedOnceParsed' /\ TextsKnown' /\ NamesKnown' /\ HeadersSettled'
    BY <1>1, TransformTyped, TransformTexts, TransformNames, TransformHeaders
  <2>4. QED
    BY <2>2, <2>3 DEF IInv
<1>2. ASSUME NEW suite \in Suites[setup], ValidateAll(suite)
      PROVE  IInv' /\ \A i \in DOMAIN heap : heap'[i] = heap[i]
  <2>1. verdict = "transforming" /\ UNCHANGED <<setup, heap, chain>>
    BY <1>2 DEF ValidateAll
  <2>2. QED
    <3>1. HeapOK' /\ TypedOnceParsed' /\ TextsKnown' /\ NamesKnown'
      BY <2>1 DEF IInv, HeapOK, TypedOnceParsed, TextsKnown, NamesKnown, Known, Named, Current
    <3>2. verdict' # "transforming"
      BY <1>2 DEF ValidateAll
    <3>3. HeadersSettled'
      BY <3>2 DEF HeadersSettled
    <3>4. QED
      BY <2>1, <3>1, <3>3 DEF IInv
<1>3. ASSUME UNCHANGED vars
      PROVE  IInv' /\ \A i \in DOMAIN heap : heap'[i] = heap[i]
  <2>1. HeapOK' /\ TypedOnceParsed' /\ TextsKnown' /\ NamesKnown'
    BY <1>3 DEF vars, IInv, HeapOK, TypedOnceParsed, TextsKnown, NamesKnown, Known, Named, Current
  <2>2. HeadersSettled'
    <3>1. HeadersSettled
      BY DEF IInv
    <3>2. chain' = chain /\ heap' = heap /\ verdict' = verdict
      BY <1>3 DEF vars
    <3>3. QED
      BY <3>1, <3>2 DEF HeadersSettled, Current
  <2>3. QED
    BY <1>3, <2>1, <2>2 DEF vars, IInv
<1>4. QED
  BY <1>1, <1>2, <1>3 DEF Next

(* No transformer of the packages writes to the record it is given          *)
(* (fields.go:18, headers.go, strings.go, lookup.go): in a chain of any     *)
(* length every map keeps its contents, so the one a quarantine is handed   *)
(* is the one the source delivered.                                        *)
THEOREM SourceRecordKept == Spec => InputUntouched
<1>1. IInv /\ [Next]_vars => IInv'
  BY StepIInv
<1>2. IInv /\ [Next]_vars => [\A i \in DOMAIN heap : heap'[i] = heap[i]]_vars
  BY StepIInv
<1>3. QED
  BY <1>1, <1>2, InitIInv, PTL DEF Spec, InputUntouched

(* A field that was parsed (fields.go) is missing or no text however the    *)
(* chain goes on, until a stage writes it, whatever the lexicon says of     *)
(* trimming, letter case and numbers.                                      *)
THEOREM ParsedStaysTyped == Spec => []TypedOnceParsed
<1>1. IInv /\ [Next]_vars => IInv'
  BY StepIInv
<1>2. IInv => TypedOnceParsed
  BY DEF IInv
<1>3. QED
  BY <1>1, <1>2, InitIInv, PTL DEF Spec

(* NormalizeHeaders (headers.go) gives the record it returns one name for    *)
(* each that its style makes of a key, but for the empty one, and under it   *)
(* the value of the first key in sort.Strings' order that comes to it.  The  *)
(* letters and digits of that key survive in their order (in camelCase if    *)
(* splitWords gets its words right), and a second pass leaves every Steady   *)
(* name as it is: under lower and upper every one, under snake and kebab     *)
(* those of keys without a line end within, in camelCase those in which      *)
(* every capital comes right after a small letter.  It holds for names of    *)
(* every length, records of any finite number of fields, and wherever in a   *)
(* chain the transformer stands.                                             *)
THEOREM HeadersAreSettled == Spec => []HeadersSettled
<1>1. IInv /\ [Next]_vars => IInv'
  BY StepIInv
<1>2. IInv => HeadersSettled
  BY DEF IInv
<1>3. QED
  BY <1>1, <1>2, InitIInv, PTL DEF Spec

-----------------------------------------------------------------------------
(* The validators.                                                         *)

(* The wrappers about numbers. *)
LEMMA RangesAgree ==
  ASSUME NEW r, NEW f, NEW lo, NEW hi
  PROVE  /\ Between(r, f, lo, hi) = "" <=> AtLeast(r, f, lo) = "" /\ AtMost(r, f, hi) = ""
         /\ ExclusiveRange(r, f, lo, hi) = "" <=>
               Between(r, f, lo, hi) = "" /\ ToFloat(r[f]) \notin {lo, hi}
<1> DEFINE numeric == Has(r, f, {"int", "float"})
           x == ToFloat(r[f])
<1>1. Between(r, f, lo, hi) = "" <=> numeric /\ ~Below(x, lo) /\ ~Below(hi, x)
  BY DEF Between, NumericCheck, InRange, OnBound
<1>2. AtLeast(r, f, lo) = "" <=> numeric /\ ~Below(x, lo)
  BY DEF AtLeast, NumericCheck, InRange, OnBound
<1>3. AtMost(r, f, hi) = "" <=> numeric /\ ~Below(hi, x)
  BY DEF AtMost, NumericCheck, InRange, OnBound
<1>4. ExclusiveRange(r, f, lo, hi) = "" <=>
        numeric /\ ~Below(x, lo) /\ ~Below(hi, x) /\ x # lo /\ x # hi
  BY DEF ExclusiveRange, NumericCheck, InRange, OnBound
<1> HIDE DEF numeric
<1>5. QED
  BY <1>1, <1>2, <1>3, <1>4

(* The wrapper about lengths. *)
LEMMA LengthsAgree ==
  ASSUME NEW r, NEW f, NEW n \in Int,
         Has(r, f, {"text"}) => r[f][2] \in DOMAIN Lexicon
  PROVE  ExactLen(r, f, n) = "" <=> MinLen(r, f, n) = "" /\ MaxLen(r, f, n) = ""
<1>1. CASE ~Has(r, f, {"text"})
  BY <1>1 DEF ExactLen, MinLen, MaxLen, LengthCheck
<1>2. CASE Has(r, f, {"text"})
  <2>1. PICK runes \in Nat : runes = Lexicon[r[f][2]].runes
    BY <1>2, LexiconAssumption
  <2>2. ExactLen(r, f, n) = "" <=> runes = n
    BY <1>2, <2>1 DEF ExactLen, LengthCheck
  <2>3. MinLen(r, f, n) = "" <=> ~(runes < n)
    BY <1>2, <2>1 DEF MinLen, LengthCheck
  <2>4. MaxLen(r, f, n) = "" <=> ~(runes > n)
    BY <1>2, <2>1 DEF MaxLen, LengthCheck
  <2>5. runes = n <=> ~(runes < n) /\ ~(runes > n)
    BY <2>1
  <2>6. QED
    BY <2>2, <2>3, <2>4, <2>5, Zenon
<1>3. QED
  BY <1>1, <1>2

(* A wrapper of validate/ objects to a record just when the checks do that  *)
(* it is short for, and Forbidden just when Required does not, whatever the *)
(* chain made of the record: for all fields, present or not, all bounds,    *)
(* with NaN among the values and integers of any size, which are compared   *)
(* as the float64s they are rounded to.                                     *)
THEOREM WrappersMatchChecks == Spec => []WrappersAgree
<1>1. ASSUME TextsKnown PROVE WrappersAgree
  <2> SUFFICES ASSUME NEW f \in UNION {Fields(heap[i]) : i \in DOMAIN heap}
      PROVE
        /\ Forbidden(Current, f) = "" <=> Required(Current, f) # ""
        /\ Present(Current, f) # "" => Required(Current, f) # ""
        /\ \A lo, hi \in Bounds :
              /\ Between(Current, f, lo, hi) = "" <=>
                    AtLeast(Current, f, lo) = "" /\ AtMost(Current, f, hi) = ""
              /\ ExclusiveRange(Current, f, lo, hi) = "" <=>
                    Between(Current, f, lo, hi) = "" /\ ToFloat(Current[f]) \notin {lo, hi}
        /\ \A n \in Bounds :
              ExactLen(Current, f, n) = "" <=> MinLen(Current, f, n) = "" /\ MaxLen(Current, f, n) = ""
    BY DEF WrappersAgree
  <2>1. Forbidden(Current, f) = "" <=> Required(Current, f) # ""
    BY DEF Forbidden, Required
  <2>2. Present(Current, f) # "" => Required(Current, f) # ""
    BY DEF Present, Required
  <2>3. Has(Current, f, {"text"}) => Current[f][2] \in DOMAIN Lexicon
    BY <1>1 DEF TextsKnown, Known, Has, IsText, Fields
  <2>4. \A n \in Bounds :
          ExactLen(Current, f, n) = "" <=> MinLen(Current, f, n) = "" /\ MaxLen(Current, f, n) = ""
    BY <2>3, LengthsAgree, BoundsAssumption
  <2>5. QED
    BY <2>1, <2>2, <2>4, RangesAgree
<1>2. IInv /\ [Next]_vars => IInv'
  BY StepIInv
<1>3. IInv => WrappersAgree
  BY <1>1 DEF IInv
<1>4. QED
  BY <1>2, <1>3, InitIInv, PTL DEF Spec
=============================================================================
