---------------------------- MODULE FilesProofs ----------------------------
(***************************************************************************)
(* Theorems about Files for all records, headers and encodings, and for    *)
(* every number of sessions and of Writes: what a closed file vouches for, *)
(* and what comes back of a file, be it a sink's, a quarantine's or one     *)
(* from elsewhere.                                                         *)
(***************************************************************************)
EXTENDS Files, SequenceTheorems, FiniteSetTheorems, FunctionTheorems, WellFoundedInduction,
        TLAPS

(* What a Write is given. *)
Taken == IF kind = "quarantine" THEN Rejections ELSE Records

(* The lines of the records that were taken, without the header. *)
Body == [i \in DOMAIN acked |-> Line(acked[i])]

-----------------------------------------------------------------------------
(* Sequences.                                                              *)

LEMMA PrefixRefl ==
  ASSUME NEW S, NEW s \in Seq(S)
  PROVE  IsPrefix(s, s)
BY DEF IsPrefix

LEMMA PrefixConcat ==
  ASSUME NEW S, NEW s \in Seq(S), NEW f \in Seq(S), NEW t \in Seq(S), IsPrefix(s, f)
  PROVE  IsPrefix(s, f \o t)
<1>1. /\ Len(s) \in Nat /\ Len(f) \in Nat /\ Len(t) \in Nat /\ Len(s) <= Len(f)
      /\ f \o t \in Seq(S) /\ Len(f \o t) = Len(f) + Len(t)
  BY ConcatProperties, LenProperties DEF IsPrefix
<1>2. \A i \in 1..Len(s) : (f \o t)[i] = f[i]
  BY <1>1, ConcatProperties
<1>3. SubSeq(f \o t, 1, Len(s)) = SubSeq(f, 1, Len(s))
  BY <1>1, <1>2
<1>4. QED
  BY <1>1, <1>3 DEF IsPrefix

LEMMA EmptyPrefix ==
  ASSUME NEW S, NEW f \in Seq(S)
  PROVE  IsPrefix(<<>>, f)
<1>1. Len(<<>>) = 0 /\ Len(f) \in Nat /\ <<>> \in Seq(S)
  BY EmptySeq, LenProperties
<1>2. SubSeq(<<>>, 1, 0) = <<>> /\ SubSeq(f, 1, 0) = <<>>
  BY <1>1
<1>3. QED
  BY <1>1, <1>2 DEF IsPrefix

LEMMA ConcatAppend ==
  ASSUME NEW S, NEW s \in Seq(S), NEW t \in Seq(S), NEW x \in S
  PROVE  s \o Append(t, x) = (s \o t) \o <<x>>
OBVIOUS

LEMMA ConcatEmpty ==
  ASSUME NEW S, NEW x \in S, NEW y \in S
  PROVE  <<x>> \o Append(<<>>, y) = <<>> \o Append(<<x>>, y)
OBVIOUS

-----------------------------------------------------------------------------
(* The lines of the file.                                                  *)

LEMMA LineIsSinkLine ==
  ASSUME SinkTypeOK, NEW x \in Taken
  PROVE  Line(x) \in SinkLines
BY DEF SinkTypeOK, Taken, Line, SinkLines, ObjectLines

LEMMA BodyIsSeq ==
  ASSUME SinkTypeOK
  PROVE  Body \in Seq(SinkLines) /\ Len(Body) = Len(acked) /\ Len(acked) \in Nat
<1>1. acked \in Seq(Taken)
  BY DEF SinkTypeOK, Taken
<1>2. Len(acked) \in Nat /\ DOMAIN acked = 1..Len(acked) /\ \A i \in 1..Len(acked) : acked[i] \in Taken
  BY <1>1, LenProperties, ElementOfSeq
<1>3. \A i \in 1..Len(acked) : Line(acked[i]) \in SinkLines
  BY <1>2, LineIsSinkLine
<1>4. Body = [i \in 1..Len(acked) |-> Line(acked[i])]
  BY <1>2 DEF Body
<1>5. Body \in [1..Len(acked) -> SinkLines]
  BY <1>3, <1>4, Zenon
<1>6. Body \in Seq(SinkLines)
  BY <1>2, <1>5, SeqDef
<1>7. Len(Body) = Len(acked)
  BY <1>2, <1>5, <1>6, LenProperties
<1>8. QED
  BY <1>2, <1>6, <1>7

LEMMA WantedIsSeq ==
  ASSUME SinkTypeOK
  PROVE  /\ Wanted \in Seq(SinkLines)
         /\ kind = "csv" /\ acked # <<>> => Wanted = <<<<"row", headers>>>> \o Body
         /\ ~(kind = "csv" /\ acked # <<>>) => Wanted = Body
         /\ acked = <<>> => Wanted = <<>>
<1>1. Body \in Seq(SinkLines) /\ Len(Body) = Len(acked)
  BY BodyIsSeq
<1>2. <<"row", headers>> \in SinkLines
  BY DEF SinkTypeOK, SinkLines
<1>3. <<<<"row", headers>>>> \in Seq(SinkLines)
  BY <1>2
<1>4. <<>> \o Body = Body
  BY <1>1
<1>5. Wanted = (IF kind = "csv" /\ acked # <<>> THEN <<<<"row", headers>>>> ELSE <<>>) \o Body
  BY DEF Wanted, Body
<1>6. acked = <<>> => Body = <<>>
  BY <1>1, EmptySeq
<1>7. <<<<"row", headers>>>> \o Body \in Seq(SinkLines)
  BY <1>1, <1>3, ConcatProperties
<1>8. CASE kind = "csv" /\ acked # <<>>
  BY <1>5, <1>7, <1>8
<1>9. CASE ~(kind = "csv" /\ acked # <<>>)
  BY <1>1, <1>4, <1>5, <1>6, <1>9
<1>10. QED
  BY <1>8, <1>9

(* One record more is one line more. *)
LEMMA BodyGrows ==
  ASSUME SinkTypeOK, NEW x \in Taken, acked' = Append(acked, x), kind' = kind,
         headers' = headers \/ acked = <<>>, SinkTypeOK'
  PROVE  Body' = Append(Body, Line(x)')
<1>1. acked \in Seq(Taken)
  BY DEF SinkTypeOK, Taken
<1>2. Body \in Seq(SinkLines) /\ Len(Body) = Len(acked) /\ Len(acked) \in Nat
  BY BodyIsSeq
<1>3. Body' \in Seq(SinkLines) /\ Len(Body') = Len(acked')
  <2>1. (Body \in Seq(SinkLines) /\ Len(Body) = Len(acked) /\ Len(acked) \in Nat)'
    BY BodyIsSeq, PTL
  <2>2. QED
    BY <2>1
<1>4. /\ Append(acked, x) \in Seq(Taken) /\ Len(acked') = Len(acked) + 1
      /\ \A i \in 1..Len(acked) : acked'[i] = acked[i]
      /\ acked'[Len(acked) + 1] = x
  BY <1>1, <1>2, AppendProperties
<1>5. DOMAIN acked = 1..Len(acked) /\ DOMAIN acked' = 1..Len(acked) + 1
  BY <1>1, <1>4, LenProperties
<1>6. ASSUME NEW i \in 1..Len(acked) + 1 PROVE Body'[i] = Line(acked[i])'
  BY <1>5, <1>6 DEF Body
<1>7. \A i \in 1..Len(acked) : Body[i] = Line(acked[i])
  BY <1>5 DEF Body
<1>8. ASSUME NEW i \in 1..Len(acked) PROVE Body'[i] = Body[i]
  <2>1. headers' = headers
    BY <1>1, <1>2, <1>8, EmptySeq
  <2>2. Line(acked[i])' = Line(acked[i])
    BY <1>4, <1>8, <2>1 DEF Line
  <2>3. Body'[i] = Line(acked[i])'
    BY <1>2, <1>6, <1>8
  <2>4. QED
    BY <1>7, <1>8, <2>2, <2>3
<1>9. Body'[Len(acked) + 1] = Line(x)'
  <2>1. PICK n \in Nat : n = Len(acked) + 1
    BY <1>2
  <2>2. Line(acked[n])' = Line(x)'
    BY <1>4, <2>1 DEF Line
  <2>3. Body'[n] = Line(acked[n])'
    BY <1>2, <1>6, <2>1
  <2>4. QED
    BY <2>1, <2>2, <2>3
<1>10. Line(x)' \in SinkLines
  <2>1. Len(acked) + 1 \in 1..Len(Body')
    BY <1>2, <1>3, <1>4
  <2>2. QED
    BY <1>3, <1>9, <2>1, ElementOfSeq
<1>11. /\ Append(Body, Line(x)') \in Seq(SinkLines)
       /\ Len(Append(Body, Line(x)')) = Len(acked) + 1
       /\ \A i \in 1..Len(acked) : Append(Body, Line(x)')[i] = Body[i]
       /\ Append(Body, Line(x)')[Len(acked) + 1] = Line(x)'
  BY <1>2, <1>10, AppendProperties
<1>12. \A i \in 1..Len(acked) + 1 : Body'[i] = Append(Body, Line(x)')[i]
  BY <1>2, <1>8, <1>9, <1>11
<1>13. QED
  BY <1>3, <1>4, <1>11, <1>12, SeqEqual

-----------------------------------------------------------------------------
(* The invariant.                                                          *)

LEMMA InitIInv == Init => IInv
<1> SUFFICES ASSUME Init PROVE IInv
  OBVIOUS
<1>1. \/ sessions = 0 /\ file = <<>> /\ durable = 0
      \/ sessions = MaxSessions /\ file \in Foreign[kind] /\ durable = 2 * Len(file)
  BY DEF Init
<1>2. kind \in {"csv", "jsonl", "quarantine"} /\ headers \in Columns
  BY DEF Init, Columns
<1>3. open = FALSE /\ wrote = FALSE /\ broken = FALSE /\ acked = <<>> /\ closed = "none"
  BY DEF Init
<1>4. SinkTypeOK
  <2>1. acked \in Seq(IF kind = "quarantine" THEN Rejections ELSE Records)
    BY <1>3, EmptySeq
  <2>2. sessions \in 0..MaxSessions
    BY <1>1, ConstantsAssumption
  <2>3. durable \in Nat
    <3>1. file \in Foreign[kind] => Len(file) \in Nat
      BY <1>2, ConstantsAssumption
    <3>2. QED
      BY <1>1, <3>1
  <2>4. QED
    BY <1>2, <1>3, <2>1, <2>2, <2>3 DEF SinkTypeOK
<1>5. Foreigner => sessions = MaxSessions
  BY <1>1 DEF Foreigner
<1>6. ASSUME ~Foreigner PROVE Written
  <2>1. file = <<>> /\ durable = 0
    BY <1>1, <1>3, <1>6, ConstantsAssumption DEF Foreigner
  <2>2. Wanted = <<>> /\ <<>> \in Seq(SinkLines) /\ Len(<<>>) = 0
    BY <1>3, <1>4, WantedIsSeq, EmptySeq
  <2>3. IsPrefix(<<>>, <<>>)
    BY EmptySeq, EmptyPrefix
  <2>4. QED
    BY <1>3, <2>1, <2>2, <2>3 DEF Written
<1>7. QED
  BY <1>4, <1>5, <1>6 DEF IInv, SinkInv

(* While the sink is open the file is its own. *)
LEMMA OpenIsOurs ==
  ASSUME IInv, open
  PROVE  Written
BY DEF IInv, SinkInv, Foreigner

(* A Write that is acknowledged. *)
LEMMA EmitStep ==
  ASSUME IInv, open, ~broken, NEW x \in Taken, NEW lines \in Seq(SinkLines), Emit(lines, x),
         UNCHANGED <<kind, open, sessions, closed>>, headers' \in Columns, wrote' \in BOOLEAN,
         SinkTypeOK' => Wanted' = Wanted \o lines, kind = "csv" => wrote'
  PROVE  IInv'
<1>1. SinkTypeOK /\ Written /\ file = Wanted
  BY OpenIsOurs DEF IInv, Written
<1>2. /\ Len(file) \in Nat /\ Len(lines) \in Nat
      /\ file' \in Seq(SinkLines) /\ Len(file') = Len(file) + Len(lines)
  BY <1>1, ConcatProperties, LenProperties DEF Emit, Written
<1>3. SinkTypeOK' => file' = Wanted'
  BY <1>1 DEF Emit
<1>4. SinkTypeOK' => IsPrefix(Wanted', file')
  BY <1>2, <1>3, PrefixRefl
<1>5. durable' \in Nat /\ durable' <= 2 * Len(file') /\ (kind # "csv" => durable' = 2 * Len(file'))
  <2>1. Len(file') \in Nat /\ durable \in Nat
    BY <1>1, <1>2 DEF SinkTypeOK
  <2>2. CASE kind = "csv"
    BY <2>1, <2>2 DEF Emit
  <2>3. CASE kind # "csv"
    BY <2>1, <2>3 DEF Emit
  <2>4. QED
    BY <2>2, <2>3
<1>6. acked' \in Seq(Taken) /\ acked' # <<>>
  <2>1. acked \in Seq(Taken)
    BY <1>1 DEF SinkTypeOK, Taken
  <2>2. Append(acked, x) \in Seq(Taken) /\ Len(Append(acked, x)) = Len(acked) + 1 /\ Len(acked) \in Nat
    BY <2>1, AppendProperties, LenProperties
  <2>3. acked' = Append(acked, x)
    BY DEF Emit
  <2>4. QED
    BY <2>2, <2>3, EmptySeq
<1>7. SinkTypeOK'
  BY <1>1, <1>5, <1>6 DEF SinkTypeOK, Taken, Emit
<1>8. open' /\ ~broken' /\ closed' = "none" /\ kind' = kind
  BY <1>1 DEF Emit, Written
<1>9. Written'
  <2>1. Len(Wanted') = Len(file') /\ 2 * Len(file') >= 2 * Len(file')
    BY <1>2, <1>3, <1>7
  <2>2. kind # "csv" => durable' >= 2 * Len(Wanted')
    BY <1>5, <2>1
  <2>3. QED
    BY <1>2, <1>3, <1>4, <1>5, <1>6, <1>7, <1>8, <2>2 DEF Written
<1>10. QED
  BY <1>7, <1>8, <1>9 DEF IInv, SinkInv, Foreigner

(* A Write that fails on the way. *)
LEMMA FaultStep ==
  ASSUME IInv, open, ~broken, NEW lines \in Seq(SinkLines), Fault(lines),
         UNCHANGED <<kind, open, sessions, closed>>, headers' \in Columns, wrote' \in BOOLEAN,
         headers' = headers \/ acked = <<>>
  PROVE  IInv'
<1>1. SinkTypeOK /\ Written /\ file = Wanted
  BY OpenIsOurs DEF IInv, Written
<1>2. /\ Len(file) \in Nat /\ Len(lines) \in Nat
      /\ file' \in Seq(SinkLines) /\ Len(file') = Len(file) + Len(lines)
  BY <1>1, ConcatProperties, LenProperties DEF Fault, Written
<1>3. durable \in Nat /\ durable' \in durable..2 * Len(file') - 1
  BY <1>1 DEF Fault, SinkTypeOK
<1>4. durable' \in Nat /\ durable <= durable' /\ durable' <= 2 * Len(file')
  BY <1>2, <1>3
<1>5. SinkTypeOK'
  BY <1>1, <1>4 DEF SinkTypeOK, Fault
<1>6. Wanted' = Wanted
  <2>1. CASE headers' = headers
    BY <2>1 DEF Wanted, Line, Fault
  <2>2. CASE acked = <<>>
    <3>1. acked' = <<>>
      BY <2>2 DEF Fault
    <3>2. (SinkTypeOK /\ acked = <<>> => Wanted = <<>>)'
      BY WantedIsSeq, PTL
    <3>3. QED
      BY <1>1, <1>5, <2>2, <3>1, <3>2, WantedIsSeq
  <2>3. QED
    BY <2>1, <2>2
<1>7. IsPrefix(Wanted', file')
  BY <1>1, <1>6, PrefixConcat DEF Fault, Written
<1>8. kind # "csv" => durable' >= 2 * Len(Wanted')
  <2>1. kind # "csv" => durable >= 2 * Len(Wanted)
    BY <1>1 DEF Written
  <2>2. Len(Wanted) \in Nat
    BY <1>1, <1>2
  <2>3. QED
    BY <1>4, <1>3, <1>6, <2>1, <2>2
<1>9. open' /\ broken' /\ closed' = "none" /\ kind' = kind
  BY <1>1 DEF Fault, Written
<1>10. Written'
  BY <1>2, <1>4, <1>7, <1>8, <1>9 DEF Written
<1>11. QED
  BY <1>5, <1>9, <1>10 DEF IInv, SinkInv, Foreigner

LEMMA OpenStep ==
  ASSUME IInv, Open
  PROVE  IInv'
<1>1. SinkTypeOK
  BY DEF IInv
<1>2. /\ open' = TRUE /\ wrote' = FALSE /\ file' = <<>> /\ durable' = 0 /\ broken' = FALSE
      /\ acked' = <<>> /\ closed' = "none" /\ UNCHANGED <<kind, headers>>
  BY DEF Open
<1>3. sessions' \in 0..MaxSessions
  <2>1. sessions < MaxSessions /\ sessions' = sessions + 1
    BY DEF Open
  <2>2. sessions \in 0..MaxSessions
    BY <1>1 DEF SinkTypeOK
  <2>3. MaxSessions \in Nat
    BY ConstantsAssumption
  <2>4. QED
    BY <2>1, <2>2, <2>3
<1>4. SinkTypeOK'
  BY <1>1, <1>2, <1>3, EmptySeq DEF SinkTypeOK
<1>5. Wanted' = <<>>
  <2>1. (SinkTypeOK /\ acked = <<>> => Wanted = <<>>)'
    BY WantedIsSeq, PTL
  <2>2. QED
    BY <1>2, <1>4, <2>1
<1>6. Written'
  <2>1. IsPrefix(<<>>, <<>>) /\ <<>> \in Seq(SinkLines) /\ Len(<<>>) = 0
    BY EmptySeq, EmptyPrefix
  <2>2. QED
    BY <1>2, <1>5, <2>1 DEF Written
<1>7. QED
  BY <1>2, <1>4, <1>6 DEF IInv, SinkInv, Foreigner

(* The header goes out with the first row; the columns stay as they are     *)
(* once a row was taken.                                                   *)
LEMMA WriteCSVStep ==
  ASSUME IInv, NEW r \in Records, WriteCSV(r)
  PROVE  IInv'
<1> DEFINE hs == IF headers = <<>> THEN SortedKeys(r) ELSE headers
           head == IF wrote THEN <<>> ELSE <<<<"row", hs>>>>
           row == Row(headers', r)
<1>1. /\ kind = "csv" /\ open /\ ~broken /\ UNCHANGED <<kind, open, sessions, closed>>
      /\ IF wrote THEN UNCHANGED headers ELSE headers' = hs
  BY DEF WriteCSV, CanWrite
<1>2. \/ Emit(Append(head, row), r) /\ wrote' = TRUE
      \/ Fault(Append(head, row)) /\ wrote' = TRUE
      \/ Fault(head) /\ UNCHANGED wrote
  BY DEF WriteCSV
<1>3. SinkTypeOK /\ Written /\ (wrote <=> acked # <<>>) /\ wrote \in BOOLEAN
  BY <1>1, OpenIsOurs DEF IInv, Written, SinkTypeOK
<1>4. headers \in Columns /\ hs \in Columns /\ headers' \in Columns
  BY <1>1, <1>3 DEF SinkTypeOK, Columns
<1>5. headers' = headers \/ acked = <<>>
  BY <1>1, <1>3
<1>6. row \in SinkLines /\ <<"row", hs>> \in SinkLines
  BY <1>4 DEF SinkLines
<1> HIDE DEF row, hs
<1>7. head \in Seq(SinkLines) /\ Append(head, row) \in Seq(SinkLines)
  <2>1. <<>> \in Seq(SinkLines) /\ <<<<"row", hs>>>> \in Seq(SinkLines)
    BY <1>6, EmptySeq
  <2>2. head \in Seq(SinkLines)
    BY <2>1
  <2>3. QED
    BY <1>6, <2>2, AppendProperties
<1> HIDE DEF head
<1>8. CASE Emit(Append(head, row), r) /\ wrote' = TRUE
  <2>1. r \in Taken
    BY <1>1 DEF Taken
  <2>2. acked' = Append(acked, r)
    BY <1>8 DEF Emit
  <2>3. ASSUME SinkTypeOK' PROVE Wanted' = Wanted \o Append(head, row)
    <3>1. Line(r)' = row
      BY <1>1 DEF Line, row
    <3>2. Body' = Append(Body, row)
      BY <1>1, <1>3, <1>5, <2>1, <2>2, <2>3, <3>1, BodyGrows
    <3>3. (kind = "csv" /\ acked # <<>> => Wanted = <<<<"row", headers>>>> \o Body)'
      <4>1. (SinkTypeOK => (kind = "csv" /\ acked # <<>> => Wanted = <<<<"row", headers>>>> \o Body))'
        BY WantedIsSeq, PTL
      <4>2. QED
        BY <2>3, <4>1
    <3>4. acked' # <<>>
      <4>1. acked \in Seq(Taken)
        BY <1>3 DEF SinkTypeOK, Taken
      <4>2. Len(acked') = Len(acked) + 1 /\ Len(acked) \in Nat
        BY <2>1, <2>2, <4>1, AppendProperties, LenProperties
      <4>3. QED
        BY <4>2, EmptySeq
    <3>5. Wanted' = <<<<"row", headers'>>>> \o Append(Body, row)
      BY <1>1, <3>2, <3>3, <3>4
    <3>6. Body \in Seq(SinkLines) /\ <<"row", headers'>> \in SinkLines
      BY <1>3, <1>4, BodyIsSeq DEF SinkLines
    <3>7. CASE wrote
      <4>1. Wanted = <<<<"row", headers'>>>> \o Body
        BY <1>1, <1>3, <3>7, WantedIsSeq
      <4>2. Append(head, row) = <<row>>
        BY <3>7 DEF head
      <4>3. <<<<"row", headers'>>>> \in Seq(SinkLines)
        BY <3>6
      <4>4. Wanted' = (<<<<"row", headers'>>>> \o Body) \o <<row>>
        BY <1>6, <3>5, <3>6, <4>3, ConcatAppend
      <4>5. QED
        BY <4>1, <4>2, <4>4
    <3>8. CASE ~wrote
      <4>1. Wanted = <<>> /\ Body = <<>>
        BY <1>1, <1>3, <3>8, WantedIsSeq, BodyIsSeq, EmptySeq
      <4>2. Append(head, row) = Append(<<<<"row", headers'>>>>, row)
        BY <1>1, <3>8 DEF head
      <4>3. Wanted' = <<>> \o Append(<<<<"row", headers'>>>>, row)
        BY <1>6, <3>5, <3>6, <4>1, ConcatEmpty
      <4>4. QED
        BY <4>1, <4>2, <4>3
    <3>9. QED
      BY <3>7, <3>8
  <2>4. QED
    BY <1>1, <1>4, <1>7, <1>8, <2>1, <2>3, EmitStep
<1>9. CASE Fault(Append(head, row)) /\ wrote' = TRUE
  BY <1>1, <1>4, <1>5, <1>7, <1>9, FaultStep
<1>10. CASE Fault(head) /\ UNCHANGED wrote
  BY <1>1, <1>3, <1>4, <1>5, <1>7, <1>10, FaultStep
<1>11. QED
  BY <1>2, <1>8, <1>9, <1>10

LEMMA WriteJSONStep ==
  ASSUME IInv, NEW x \in Taken, WriteJSON(x, Line(x)), kind # "csv"
  PROVE  IInv'
<1>1. open /\ ~broken /\ UNCHANGED <<kind, open, sessions, headers, wrote, closed>>
  BY DEF WriteJSON, CanWrite
<1>2. SinkTypeOK /\ headers' \in Columns /\ wrote' \in BOOLEAN
  BY <1>1 DEF IInv, SinkTypeOK
<1>3. <<Line(x)>> \in Seq(SinkLines)
  BY <1>2, LineIsSinkLine
<1>4. CASE Emit(<<Line(x)>>, x)
  <2>1. acked' = Append(acked, x)
    BY <1>4 DEF Emit
  <2>2. ASSUME SinkTypeOK' PROVE Wanted' = Wanted \o <<Line(x)>>
    <3>1. Line(x)' = Line(x)
      BY <1>1 DEF Line
    <3>2. Body' = Append(Body, Line(x))
      BY <1>1, <1>2, <2>1, <2>2, <3>1, BodyGrows
    <3>3. (SinkTypeOK => (~(kind = "csv" /\ acked # <<>>) => Wanted = Body))'
      BY WantedIsSeq, PTL
    <3>4. Wanted' = Append(Body, Line(x)) /\ Wanted = Body
      BY <1>1, <1>2, <2>2, <3>2, <3>3, WantedIsSeq
    <3>5. Body \in Seq(SinkLines) /\ Line(x) \in SinkLines
      BY <1>2, BodyIsSeq, LineIsSinkLine
    <3>6. QED
      BY <3>4, <3>5
  <2>3. QED
    BY <1>1, <1>2, <1>3, <1>4, <2>2, EmitStep
<1>5. CASE Fault(<<Line(x)>>)
  BY <1>1, <1>2, <1>3, <1>5, FaultStep
<1>6. QED
  BY <1>4, <1>5 DEF WriteJSON

LEMMA CloseStep ==
  ASSUME IInv, Close
  PROVE  IInv'
<1>1. SinkTypeOK /\ Written
  BY OpenIsOurs DEF IInv, Close
<1>2. open' = FALSE /\ wrote' = FALSE /\ UNCHANGED <<kind, sessions, headers, file, acked>>
  BY DEF Close
<1>3. Len(file) \in Nat /\ durable \in Nat
  BY <1>1, LenProperties DEF Written, SinkTypeOK
<1>4. closed' \in {"ok", "error"} /\ (kind = "csv" /\ broken' => closed' = "error")
  BY <1>2 DEF Close, FlushFails
<1>5. Wanted' = Wanted
  BY <1>2 DEF Wanted, Line
<1>6. durable' \in Nat /\ durable' <= 2 * Len(file) /\ broken' \in BOOLEAN /\ (broken => broken')
  <2>1. CASE kind # "csv" \/ broken
    <3>1. UNCHANGED <<durable, broken>>
      BY <2>1 DEF Close
    <3>2. QED
      BY <1>1, <3>1 DEF Written, SinkTypeOK
  <2>2. CASE ~(kind # "csv" \/ broken)
    <3>1. \/ durable' = 2 * Len(file) /\ UNCHANGED broken
          \/ durable' \in durable..2 * Len(file) - 1 /\ broken' = TRUE
      BY <2>2 DEF Close
    <3>2. durable' \in Nat /\ durable' <= 2 * Len(file)
      BY <1>3, <3>1
    <3>3. broken' \in BOOLEAN /\ (broken => broken')
      BY <1>1, <2>2, <3>1 DEF SinkTypeOK
    <3>4. QED
      BY <3>2, <3>3
  <2>3. QED
    BY <2>1, <2>2
<1>7. kind # "csv" => durable' = durable /\ broken' = broken
  BY DEF Close
<1>8. kind = "csv" /\ ~broken' => durable' = 2 * Len(file)
  BY <1>6 DEF Close
<1>9. SinkTypeOK'
  BY <1>1, <1>2, <1>4, <1>6 DEF SinkTypeOK
<1>10. Written'
  BY <1>1, <1>2, <1>4, <1>5, <1>6, <1>7, <1>8 DEF Written
<1>11. QED
  BY <1>4, <1>9, <1>10 DEF IInv, SinkInv, Foreigner

LEMMA CrashStep ==
  ASSUME IInv, Crash
  PROVE  IInv'
<1>1. SinkTypeOK /\ Written
  BY OpenIsOurs DEF IInv, Crash
<1>2. /\ open' = FALSE /\ wrote' = FALSE /\ closed' = "error"
      /\ UNCHANGED <<kind, sessions, headers, file, durable, broken, acked>>
  BY DEF Crash
<1>3. Wanted' = Wanted
  BY <1>2 DEF Wanted, Line
<1>4. SinkTypeOK'
  BY <1>1, <1>2 DEF SinkTypeOK
<1>5. Written'
  BY <1>1, <1>2, <1>3 DEF Written
<1>6. QED
  BY <1>2, <1>4, <1>5 DEF IInv, SinkInv, Foreigner

(* The sources do not touch the sink. *)
LEMMA SinkUnchanged ==
  ASSUME IInv, UNCHANGED <<kind, sink>>
  PROVE  IInv'
BY DEF IInv, SinkTypeOK, SinkInv, Written, Foreigner, Wanted, Line, sink

LEMMA StepIInv == ASSUME IInv, [Next]_vars PROVE IInv'
<1>1. ASSUME NEW r \in Records, WriteJSONL(r) PROVE IInv'
  <2>1. kind = "jsonl" /\ WriteJSON(r, JSONLine(r))
    BY <1>1 DEF WriteJSONL
  <2>2. r \in Taken /\ Line(r) = JSONLine(r)
    BY <2>1 DEF Taken, Line
  <2>3. QED
    BY <2>1, <2>2, WriteJSONStep
<1>2. ASSUME NEW q \in Rejections, WriteQuarantine(q) PROVE IInv'
  <2>1. kind = "quarantine" /\ WriteJSON(q, JSONLine(Spread(q)))
    BY <1>2 DEF WriteQuarantine
  <2>2. q \in Taken /\ Line(q) = JSONLine(Spread(q))
    BY <2>1 DEF Taken, Line
  <2>3. QED
    BY <2>1, <2>2, WriteJSONStep
<1>3. ASSUME OpenSource \/ Read \/ ReadFails \/ UNCHANGED vars PROVE UNCHANGED <<kind, sink>>
  BY <1>3 DEF OpenSource, Read, ReadFails, vars
<1>4. QED
  BY <1>1, <1>2, <1>3, OpenStep, WriteCSVStep, CloseStep, CrashStep, SinkUnchanged DEF Next

LEMMA IInvVouches == IInv => CloseVouches
<1> SUFFICES ASSUME IInv, ~Foreigner PROVE
       /\ IsPrefix(Wanted, file)
       /\ closed = "ok" => durable >= 2 * Len(Wanted)
       /\ closed = "ok" /\ (kind = "csv" \/ ~broken) => durable = 2 * Len(Wanted) /\ file = Wanted
  BY DEF CloseVouches
<1>1. Written
  BY DEF IInv, SinkInv
<1>2. Len(file) \in Nat
  BY <1>1, LenProperties DEF Written
<1>3. QED
  BY <1>1, <1>2 DEF Written

(* A nil Close vouches for every record a Write took (csv.go, jsonl.go and  *)
(* quarantine/jsonl.go): whatever the records, the columns and the values'  *)
(* texts, however often the sink is opened, and wherever a write, a flush   *)
(* or the process fails, each is one whole line of the file, in order.      *)
THEOREM ClosedFilesComplete == Spec => []CloseVouches
<1>1. Init => IInv
  BY InitIInv
<1>2. IInv /\ [Next]_vars => IInv'
  BY StepIInv
<1>3. IInv => CloseVouches
  BY IInvVouches
<1>4. QED
  BY <1>1, <1>2, <1>3, PTL DEF Spec

-----------------------------------------------------------------------------
(* What comes back of a rejected record.                                   *)

(* The float64 next to a whole number of at most 64 bits is off by half its *)
(* distance to the next at most.                                           *)
LEMMA SpacingFits ==
  ASSUME NEW a \in Nat, a <= Wide
  PROVE  /\ Spacing(a) \in Spacings /\ a <= Mantissa * Spacing(a)
         /\ \A t \in Spacings : t < Spacing(a) => Mantissa * t < a
<1> DEFINE Fits(u) == a <= Mantissa * u /\ \A t \in Spacings : t < u => Mantissa * t < a
<1>1. Mantissa \in Nat /\ a <= Mantissa * 2048
  BY MantissaAssumption DEF Wide
<1>2. \E u \in Spacings : Fits(u)
  BY <1>1, SMTT(60) DEF Spacings
<1>3. Spacing(a) = CHOOSE u \in Spacings : Fits(u)
  BY DEF Spacing
<1>4. QED
  BY <1>2, <1>3

LEMMA RoundedNear ==
  ASSUME NEW a \in Nat, NEW u \in Spacings
  PROVE  RoundEven(a, u) \in Nat /\ 2 * Magnitude(RoundEven(a, u) - a) <= u
<1>1. PICK q, r \in Nat : q = a \div u /\ r = a % u /\ r < u /\ a = q * u + r
  BY SMTT(60) DEF Spacings
<1>2. RoundEven(a, u) = IF 2 * r < u \/ (2 * r = u /\ q % 2 = 0) THEN q * u ELSE (q + 1) * u
  BY <1>1 DEF RoundEven
<1>3. (q + 1) * u = q * u + u /\ q * u \in Nat /\ u \in Nat
  BY <1>1 DEF Spacings
<1>4. QED
  BY <1>1, <1>2, <1>3 DEF Magnitude

LEMMA Float64Near ==
  ASSUME NEW n \in Int, Magnitude(n) <= Wide
  PROVE  Nearly(Float64(n), n)
<1> DEFINE a == Magnitude(n)
           u == Spacing(a)
           f == RoundEven(a, u)
           d == Magnitude(f - a)
<1>1. a \in Nat /\ Mantissa \in Nat
  BY MantissaAssumption DEF Magnitude
<1>2. u \in Spacings /\ a <= Mantissa * u /\ \A t \in Spacings : t < u => Mantissa * t < a
  BY <1>1, SpacingFits
<1>3. Float64(n) = IF n < 0 THEN -f ELSE f
  BY DEF Float64
<1> HIDE DEF u
<1>4. f \in Nat /\ 2 * d <= u
  BY <1>1, <1>2, RoundedNear
<1>5. d = Magnitude(Float64(n) - n) /\ d \in Nat /\ (d = 0 => Float64(n) = n)
  BY <1>3, <1>4 DEF Magnitude
<1> HIDE DEF f, d, a
<1>6. CASE u = 1
  <2>1. d = 0
    BY <1>4, <1>5, <1>6
  <2>2. d * Mantissa = 0
    BY <1>1, <2>1
  <2>3. QED
    BY <1>1, <1>5, <2>1, <2>2 DEF Nearly, a
<1>7. ASSUME u # 1 PROVE \E t \in Spacings : u = 2 * t /\ t < u
  BY <1>2, <1>7 DEF Spacings
<1>8. CASE u # 1
  <2>1. PICK t \in Spacings : u = 2 * t /\ t < u
    BY <1>7, <1>8
  <2>2. t \in Nat /\ d <= t /\ t >= 1
    BY <1>4, <1>5, <2>1 DEF Spacings
  <2>3. Mantissa * t < a /\ Mantissa * t >= Mantissa
    BY <1>1, <1>2, <2>1, <2>2
  <2>4. d * Mantissa <= Mantissa * t
    BY <1>1, <1>5, <2>2
  <2>5. ~(a <= Mantissa) /\ d * Mantissa <= a
    <3>1. Mantissa * t \in Nat /\ d * Mantissa \in Nat
      BY <1>1, <1>5, <2>2
    <3>2. QED
      BY <1>1, <2>3, <2>4, <3>1
  <2>6. QED
    BY <1>5, <2>5 DEF Nearly, a
<1>9. QED
  BY <1>6, <1>8

LEMMA SameAfterJSON ==
  ASSUME NEW v, Storable(v)
  PROVE  SameValue(JSON(v), v)
<1>1. CASE v[1] = "int"
  <2>1. JSON(v) = <<"float", Float64(v[2])>> /\ Nearly(Float64(v[2]), v[2])
    BY <1>1, Float64Near DEF JSON, Storable
  <2>2. QED
    BY <1>1, <2>1 DEF SameValue
<1>2. CASE v[1] \in {"text", "time", "bytes"}
  BY <1>2 DEF JSON, SameValue
<1>3. CASE v[1] = "float32"
  BY <1>3 DEF JSON, SameValue
<1>4. CASE v[1] \notin {"int", "text", "time", "bytes", "float32"}
  BY <1>4 DEF JSON, SameValue
<1>5. QED
  BY <1>1, <1>2, <1>3, <1>4

LEMMA LineKeepsRecord ==
  ASSUME NEW r \in Records
  PROVE  SameJSON(JSONLine(r)[2], r)
<1>1. JSONLine(r)[2] = [f \in DOMAIN r |-> JSON(r[f])]
  BY DEF JSONLine
<1>2. QED
  BY <1>1, SameAfterJSON, ValuesAssumption DEF SameJSON

LEMMA LineKeepsEvidence ==
  ASSUME NEW q \in Rejections
  PROVE  Evidence(JSONLine(Spread(q))[2], q)
<1> DEFINE out == JSONLine(Spread(q))[2]
           told == Told(q.errors)
           meta == [f \in Reserved |->
                      CASE f = "_errors"    -> <<"list", EncodeErrors(q.errors)>>
                        [] f = "_stage"     -> <<"text", IF q.stage = "" THEN "transform" ELSE q.stage>>
                        [] f = "_timestamp" -> <<"text", IF q.stamp = "zero" THEN "now" ELSE q.stamp>>]
<1>1. Spread(q) = Override(q.record, meta)
  BY DEF Spread
<1>2. /\ DOMAIN meta = Reserved
      /\ meta["_errors"] = <<"list", EncodeErrors(q.errors)>>
      /\ meta["_stage"] = <<"text", IF q.stage = "" THEN "transform" ELSE q.stage>>
      /\ meta["_timestamp"] = <<"text", IF q.stamp = "zero" THEN "now" ELSE q.stamp>>
  BY DEF Reserved
<1> HIDE DEF meta
<1>3. /\ DOMAIN out = DOMAIN q.record \cup Reserved
      /\ \A f \in Reserved : out[f] = JSON(meta[f])
      /\ \A f \in DOMAIN q.record \ Reserved : out[f] = JSON(q.record[f])
  BY <1>1, <1>2 DEF JSONLine, Override
<1> HIDE DEF out
<1>4. /\ out["_errors"] = <<"list", EncodeErrors(q.errors)>>
      /\ out["_stage"] = <<"text", IF q.stage = "" THEN "transform" ELSE q.stage>>
      /\ out["_timestamp"] = <<"text", IF q.stamp = "zero" THEN "now" ELSE q.stamp>>
  <2>1. \A x : JSON(<<"list", x>>) = <<"list", x>> /\ JSON(<<"text", x>>) = <<"text", Encoded(<<"text", x>>)>>
    BY DEF JSON
  <2>2. /\ out["_errors"] = JSON(meta["_errors"]) /\ out["_stage"] = JSON(meta["_stage"])
        /\ out["_timestamp"] = JSON(meta["_timestamp"])
    BY <1>3 DEF Reserved
  <2>3. \A t \in {"transform", "now", q.stage, q.stamp} : Encoded(<<"text", t>>) = t
    BY StagesAssumption
  <2>4. \A t \in {"transform", "now", q.stage, q.stamp} : JSON(<<"text", t>>) = <<"text", t>>
    BY <2>1, <2>3
  <2>5. /\ (IF q.stage = "" THEN "transform" ELSE q.stage) \in {"transform", "now", q.stage, q.stamp}
        /\ (IF q.stamp = "zero" THEN "now" ELSE q.stamp) \in {"transform", "now", q.stage, q.stamp}
    OBVIOUS
  <2>6. QED
    BY <1>2, <2>1, <2>2, <2>4, <2>5, Zenon
<1>5. out["_timestamp"] # <<"text", "zero">>
  <2>1. (IF q.stamp = "zero" THEN "now" ELSE q.stamp) # "zero"
    OBVIOUS
  <2>2. \A x : x # "zero" => <<"text", x>> # <<"text", "zero">>
    OBVIOUS
  <2>3. QED
    BY <1>4, <2>1, <2>2
<1>6. /\ Len(EncodeErrors(q.errors)) = Len(told)
      /\ \A j \in DOMAIN told : Entry(EncodeErrors(q.errors)[j], told[j])
  <2>1. EncodeErrors(q.errors) =
          [j \in DOMAIN told |-> IF told[j][1] = "rule" THEN <<"rule", told[j][2], told[j][3], JSON(told[j][4])>>
                                 ELSE <<"message", JSON(told[j][2])>>]
    BY DEF EncodeErrors
  <2>2. \A j \in DOMAIN told : Storable(IF told[j][1] = "rule" THEN told[j][4] ELSE told[j][2])
    BY ValuesAssumption
  <2> HIDE DEF told
  <2>3. ASSUME NEW j \in DOMAIN told PROVE Entry(EncodeErrors(q.errors)[j], told[j])
    <3>1. CASE told[j][1] = "rule"
      <4>1. EncodeErrors(q.errors)[j] = <<"rule", told[j][2], told[j][3], JSON(told[j][4])>>
        BY <2>1, <2>3, <3>1
      <4>2. SameValue(JSON(told[j][4]), told[j][4])
        BY <2>2, <2>3, <3>1, SameAfterJSON
      <4>3. QED
        BY <3>1, <4>1, <4>2 DEF Entry
    <3>2. CASE told[j][1] # "rule"
      <4>1. EncodeErrors(q.errors)[j] = <<"message", JSON(told[j][2])>>
        BY <2>1, <2>3, <3>2
      <4>2. SameValue(JSON(told[j][2]), told[j][2])
        BY <2>2, <2>3, <3>2, SameAfterJSON
      <4>3. QED
        BY <3>2, <4>1, <4>2 DEF Entry
    <3>3. QED
      BY <3>1, <3>2
  <2>4. Len(EncodeErrors(q.errors)) = Len(told)
    BY <2>1
  <2>5. QED
    BY <2>3, <2>4
<1> HIDE DEF told
<1>7. SameJSON([f \in DOMAIN out \ Reserved |-> out[f]], [f \in DOMAIN q.record \ Reserved |-> q.record[f]])
  <2>1. DOMAIN out \ Reserved = DOMAIN q.record \ Reserved
    BY <1>3
  <2>2. ASSUME NEW f \in DOMAIN q.record \ Reserved
        PROVE  SameValue(out[f], q.record[f])
    <3>1. Storable(q.record[f]) /\ out[f] = JSON(q.record[f])
      BY <1>3, <2>2, ValuesAssumption
    <3>2. QED
      BY <3>1, SameAfterJSON
  <2>3. QED
    BY <2>1, <2>2 DEF SameJSON
<1>8. Evidence(out, q)
  <2>1. out["_errors"][2] = EncodeErrors(q.errors)
    <3>1. out["_errors"] = <<"list", EncodeErrors(q.errors)>>
      BY <1>4
    <3>2. \A e : <<"list", e>>[2] = e
      OBVIOUS
    <3>3. <<"list", EncodeErrors(q.errors)>>[2] = EncodeErrors(q.errors)
      BY <3>2
    <3>4. QED
      BY <3>1, <3>3, Zenon
  <2>2. Len(out["_errors"][2]) = Len(told) /\ \A j \in DOMAIN told : Entry(out["_errors"][2][j], told[j])
    BY <1>6, <2>1
  <2>3. QED
    BY <1>4, <1>5, <1>7, <2>2 DEF Evidence, told
<1>9. QED
  BY <1>8 DEF out

-----------------------------------------------------------------------------
(* Sets of numbers, and sequences one element longer.                      *)

LEMMA NothingYet ==
  ASSUME NEW S
  PROVE  <<>> \in Seq(S) /\ Len(<<>>) = 0
BY EmptySeq

LEMMA OneMore ==
  ASSUME NEW s, s \in Seq(ToSet(s)), NEW x
  PROVE  /\ Append(s, x) \in Seq(ToSet(Append(s, x)))
         /\ Len(s) \in Nat /\ Len(Append(s, x)) = Len(s) + 1
         /\ \A i \in 1..Len(s) : Append(s, x)[i] = s[i]
         /\ Append(s, x)[Len(s) + 1] = x
<1> DEFINE S == ToSet(s) \cup {x}
           t == Append(s, x)
<1>1. s \in Seq(S)
  <2>1. Len(s) \in Nat /\ s \in [1..Len(s) -> ToSet(s)]
    BY LenProperties
  <2>2. s \in [1..Len(s) -> S]
    BY <2>1
  <2>3. QED
    BY <2>1, <2>2, SeqDef
<1>2. /\ t \in Seq(S) /\ Len(s) \in Nat /\ Len(t) = Len(s) + 1
      /\ \A i \in 1..Len(s) : t[i] = s[i]
      /\ t[Len(s) + 1] = x
  BY <1>1, AppendProperties, LenProperties
<1> HIDE DEF S, t
<1>3. DOMAIN t = 1..Len(t) /\ Len(t) \in Nat /\ t \in [1..Len(t) -> S]
  BY <1>2, LenProperties
<1>4. t \in [1..Len(t) -> ToSet(t)]
  BY <1>3 DEF ToSet
<1>5. t \in Seq(ToSet(t))
  BY <1>3, <1>4, SeqDef
<1>6. QED
  BY <1>2, <1>5 DEF t

(* Every set of numbers has a least one, and a greatest if it is bounded. *)
LEMMA Least ==
  ASSUME NEW S, S \subseteq Nat, S # {}
  PROVE  Min(S) \in S /\ \A y \in S : Min(S) <= y
<1> DEFINE R == {ss \in Nat \X Nat : ss[1] < ss[2]}
<1>1. IsWellFoundedOn(R, Nat)
  BY NatLessThanWellFounded DEF OpToRel
<1>2. \A x, y \in Nat : <<y, x>> \notin R => x <= y
  OBVIOUS
<1> HIDE DEF R
<1>3. \E x \in S : \A y \in S : <<y, x>> \notin R
  BY <1>1, WFMin
<1>4. \E x \in S : \A y \in S : x <= y
  BY <1>2, <1>3
<1>5. QED
  BY <1>4 DEF Min

LEMMA Greatest ==
  ASSUME NEW n \in Nat, NEW S, S \subseteq 0..n, S # {}
  PROVE  Max(S) \in S /\ \A y \in S : y <= Max(S)
<1> DEFINE T == {n - x : x \in S}
<1>1. T \subseteq Nat /\ T # {}
  <2>1. \A x \in S : x \in Nat /\ x <= n
    OBVIOUS
  <2>2. \A x \in Nat : x <= n => n - x \in Nat
    OBVIOUS
  <2>3. QED
    BY <2>1, <2>2
<1> HIDE DEF T
<1>2. PICK t \in T : \A y \in T : t <= y
  BY <1>1, Least
<1>3. PICK x \in S : t = n - x
  BY DEF T
<1>4. \A y \in S : y <= x
  <2>1. \A y \in S : n - y \in T /\ y \in 0..n /\ x \in 0..n
    BY DEF T
  <2>2. QED
    BY <1>2, <1>3, <2>1
<1>5. QED
  BY <1>4 DEF Max

-----------------------------------------------------------------------------
(* The rows up to a line.                                                  *)

LEMMA WholeLines ==
  ASSUME durable \in Nat
  PROVE  Whole \in Nat /\ durable = IF Torn THEN 2 * Whole + 1 ELSE 2 * Whole
BY DEF Whole, Torn

LEMMA RowsFinite == ASSUME NEW n \in Nat PROVE IsFiniteSet(Rows(n))
<1>1. IsFiniteSet(1..n) /\ Rows(n) \in SUBSET (1..n)
  BY FS_Interval DEF Rows
<1>2. QED
  BY <1>1, FS_Subset

LEMMA NoRows == Rows(0) = {} /\ Cardinality(Rows(0)) = 0
<1>1. Rows(0) = {}
  BY DEF Rows
<1>2. QED
  BY <1>1, FS_EmptySet

LEMMA RowsSame ==
  ASSUME NEW n \in Nat, NEW m \in Nat, n <= m, \A i \in n + 1..m : i \notin Rows(m)
  PROVE  Rows(m) = Rows(n)
<1>1. \A i \in 1..m : i \in 1..n \/ i \in n + 1..m
  OBVIOUS
<1>2. 1..n \subseteq 1..m
  OBVIOUS
<1>3. QED
  BY <1>1, <1>2 DEF Rows

LEMMA OneRowMore ==
  ASSUME NEW n \in Nat, NEW m \in Nat, n < m, \A i \in n + 1..m - 1 : i \notin Rows(m), m \in Rows(m)
  PROVE  Cardinality(Rows(m)) = Cardinality(Rows(n)) + 1
<1>1. \A i \in 1..m : i \in 1..n \/ i \in n + 1..m - 1 \/ i = m
  OBVIOUS
<1>2. 1..n \subseteq 1..m /\ m \notin 1..n
  OBVIOUS
<1>3. Rows(m) = Rows(n) \cup {m} /\ m \notin Rows(n)
  BY <1>1, <1>2 DEF Rows
<1>4. QED
  BY <1>3, RowsFinite, FS_AddElement

LEMMA RowHasPlace ==
  ASSUME NEW n \in Nat, NEW i \in Rows(n)
  PROVE  i \in Nat /\ Rows(i) \subseteq Rows(n) /\ Cardinality(Rows(i)) \in 1..Cardinality(Rows(n))
<1>1. i \in 1..n
  BY DEF Rows
<1>2. i \in 1..i /\ 1..i \subseteq 1..n
  BY <1>1
<1>3. Rows(i) \subseteq Rows(n) /\ i \in Rows(i)
  BY <1>2 DEF Rows
<1>4. IsFiniteSet(Rows(n)) /\ IsFiniteSet(Rows(i))
  BY <1>1, RowsFinite
<1>5. /\ Cardinality(Rows(i)) <= Cardinality(Rows(n))
      /\ Cardinality(Rows(i)) \in Nat /\ Cardinality(Rows(n)) \in Nat /\ Cardinality(Rows(i)) # 0
  BY <1>3, <1>4, FS_Subset, FS_CardinalityType, FS_EmptySet
<1>6. QED
  BY <1>1, <1>3, <1>5

-----------------------------------------------------------------------------
(* The reading invariant.                                                  *)

LEMMA NoneIsFewer ==
  ASSUME NEW w \in Nat
  PROVE  /\ 0 \in Nat /\ ~(0 > 0) /\ 0 <= w + 1 /\ 0 <= w /\ ~(0 > w)
         /\ \A i \in 1..w : ~(i <= 0)
OBVIOUS

LEMMA NotReadYet ==
  ASSUME Whole \in Nat, reading = "not yet", at = 0, produced = <<>>
  PROVE  ReadSoFar
<1>1. produced \in Seq(ToSet(produced)) /\ Len(produced) = 0
  BY NothingYet
<1>2. at \in Nat /\ at <= Whole + 1 /\ at <= Whole /\ ~(at > Whole) /\ ~(at > 0)
  BY NoneIsFewer, Zenon
<1>3. Len(produced) = Cardinality(Rows(at))
  BY <1>1, NoRows, Zenon
<1>4. \A i \in 1..Whole : ~(i <= at)
  BY NoneIsFewer, Zenon
<1>5. \A i \in Rows(Whole) : ~(i <= at)
  BY <1>4 DEF Rows
<1>6. QED
  BY <1>1, <1>2, <1>3, <1>4, <1>5 DEF ReadSoFar

LEMMA SameLines ==
  ASSUME UNCHANGED <<kind, file, durable, skipEmpty>>
  PROVE  /\ Whole' = Whole /\ Torn' = Torn
         /\ \A n : Rows(n)' = Rows(n) /\ Behind(n)' = Behind(n)
         /\ \A line : Skipped(line)' = Skipped(line) /\ Bad(line)' = Bad(line)
BY DEF Whole, Torn, Rows, Behind, Skipped, EmptyLine, EmptyRow, Cells, Bad, TooLong

LEMMA SkippedNotBad == \A line : (Skipped(line) \/ (kind = "csv" /\ EmptyLine(line))) => ~Bad(line)
BY DEF Skipped, EmptyLine, EmptyRow, Bad, TooLong

(* Nothing of a file of rows is read as long as no line of columns is found; *)
(* behind it, no row was passed yet.                                       *)
LEMMA OpenSourceReads ==
  ASSUME ReadSoFar, durable \in Nat, OpenSource
  PROVE  ReadSoFar'
<1>1. /\ reading = "not yet" /\ UNCHANGED <<kind, file, durable, skipEmpty, produced>>
      /\ IF kind = "csv" THEN Advance(EmptyLine, Header, reading' = "open" /\ UNCHANGED columns)
         ELSE reading' = "open" /\ UNCHANGED <<columns, at>>
  BY DEF OpenSource, sink
<1>2. /\ Whole' = Whole /\ Torn' = Torn
      /\ \A n : Rows(n)' = Rows(n)
      /\ \A line : Skipped(line)' = Skipped(line) /\ Bad(line)' = Bad(line)
  BY <1>1, SameLines
<1>3. at = 0 /\ produced = <<>> /\ produced' = <<>> /\ Whole \in Nat
  BY <1>1, WholeLines DEF ReadSoFar
<1>4. produced' \in Seq(ToSet(produced')) /\ Len(produced') = 0
  BY <1>3, NothingYet
<1>5. CASE kind # "csv"
  <2>1. at' = 0 /\ reading' = "open"
    BY <1>1, <1>3, <1>5
  <2>2. at' \in Nat /\ at' <= Whole + 1 /\ at' <= Whole /\ ~(at' > Whole)
    BY <1>3, <2>1
  <2>3. Len(produced') = Cardinality(Rows(at'))
    BY <1>4, <2>1, NoRows
  <2>4. (\A i \in Rows(Whole) : ~(i <= at')) /\ (\A i \in 1..Whole : ~(i <= at'))
    BY <1>3, <2>1 DEF Rows
  <2>5. QED
    BY <1>1, <1>2, <1>4, <1>5, <2>1, <2>2, <2>3, <2>4 DEF ReadSoFar
<1>6. CASE kind = "csv" /\ Ahead(EmptyLine) # {}
  <2>1. PICK m \in Ahead(EmptyLine) : m = Min(Ahead(EmptyLine)) /\ \A i \in Ahead(EmptyLine) : m <= i
    <3>1. Ahead(EmptyLine) \subseteq Nat
      BY <1>3 DEF Ahead
    <3>2. QED
      BY <1>6, <3>1, Least
  <2>2. at' = m /\ Header(file[m])
    BY <1>1, <1>6, <2>1 DEF Advance
  <2>3. m \in Nat /\ 0 < m /\ m <= Whole /\ ~EmptyLine(file[m])
    BY <1>3, <2>1 DEF Ahead
  <2>4. \A i \in 1..m - 1 : EmptyLine(file[i])
    <3>1. \A i \in 1..m - 1 : i \in at + 1..Whole /\ ~(m <= i)
      BY <1>3, <2>3
    <3>2. QED
      BY <2>1, <3>1 DEF Ahead
  <2>5. \A i \in 1..m : i \in 1..m - 1 \/ i = m
    BY <2>3
  <2>6. \A i \in 1..m : ~Behind(i)
    <3>1. \A i \in 1..m : 1..i - 1 \subseteq 1..m - 1
      BY <2>3
    <3>2. QED
      BY <1>6, <2>4, <3>1 DEF Behind
  <2>7. Rows(m) = {} /\ \A i \in Rows(Whole) : ~(i <= m)
    <3>1. \A i \in 1..Whole : i <= m => i \in 1..m
      OBVIOUS
    <3>2. QED
      BY <2>6, <3>1 DEF Rows
  <2>8. Len(produced') = Cardinality(Rows(m))
    BY <1>4, <2>7, FS_EmptySet
  <2>9. \A line : EmptyLine(line) => ~Bad(line)
    BY <1>6, SkippedNotBad
  <2>10. \A i \in 1..Whole : i <= m /\ Bad(file[i]) => i = m
    <3>1. \A i \in 1..Whole : i <= m => i \in 1..m
      OBVIOUS
    <3>2. QED
      BY <2>4, <2>5, <2>9, <3>1
  <2>11. m <= Whole + 1 /\ ~(m > Whole) /\ m # 0 /\ m > 0 /\ m \in 1..m
    BY <1>3, <2>3
  <2>12. /\ reading' \in {"open", "error"} /\ (reading' = "error" <=> Bad(file[m]))
         /\ HeaderAt(m)'
    BY <1>1, <2>2, <2>3, <2>4 DEF Header, HeaderAt, EmptyLine, Cells, Bad, TooLong
  <2>13. QED
    BY <1>1, <1>2, <1>4, <2>2, <2>3, <2>7, <2>8, <2>10, <2>11, <2>12 DEF ReadSoFar
<1>7. CASE kind = "csv" /\ Ahead(EmptyLine) = {}
  <2>1. \A i \in 1..Whole : EmptyLine(file[i])
    <3>1. \A i \in 1..Whole : i \in at + 1..Whole
      BY <1>3
    <3>2. QED
      BY <1>7, <3>1 DEF Ahead
  <2>2. Rows(Whole) = {} /\ Rows(0) = {} /\ Cardinality({}) = 0
    <3>1. \A i \in 1..Whole : 1..i - 1 \subseteq 1..Whole
      BY <1>3
    <3>2. \A i \in 1..Whole : ~Behind(i)
      BY <1>7, <2>1, <3>1 DEF Behind
    <3>3. QED
      BY <3>2, NoRows, FS_EmptySet DEF Rows
  <2>3. \A i \in 1..Whole : ~Bad(file[i])
    BY <1>7, <2>1, SkippedNotBad
  <2>4. CASE Torn
    <3>1. at' = Whole + 1 /\ reading' \in {"open", "error"}
      <4>1. at <= Whole
        BY <1>3
      <4>2. QED
        BY <1>1, <1>7, <2>4, <4>1 DEF Advance, Header
    <3>2. at' \in Nat /\ at' <= Whole + 1 /\ at' > Whole /\ ~(at' <= Whole) /\ at' # 0
      BY <1>3, <3>1
    <3>3. Len(produced') - Cardinality(Rows(Whole)) \in {0, 1}
      BY <1>4, <2>2
    <3>4. QED
      BY <1>1, <1>2, <1>4, <2>1, <2>2, <2>3, <2>4, <3>1, <3>2, <3>3 DEF ReadSoFar
  <2>5. CASE ~Torn
    <3>1. at' = 0 /\ reading' = "open"
      BY <1>1, <1>3, <1>7, <2>5 DEF Advance
    <3>2. at' \in Nat /\ at' <= Whole + 1 /\ at' <= Whole /\ ~(at' > Whole)
      BY <1>3, <3>1
    <3>3. Len(produced') = Cardinality(Rows(at'))
      BY <1>4, <2>2, <3>1
    <3>4. QED
      BY <1>1, <1>2, <1>4, <2>1, <2>2, <2>3, <3>1, <3>2, <3>3 DEF ReadSoFar
  <2>6. QED
    BY <2>4, <2>5
<1>8. QED
  BY <1>5, <1>6, <1>7

(* Read takes the next line that is not passed over; it is a row, because   *)
(* the line of the columns was found.                                      *)
LEMMA NextLine ==
  ASSUME ReadSoFar, durable \in Nat, reading = "open", NEW m \in Ahead(Skipped),
         \A i \in Ahead(Skipped) : m <= i
  PROVE  /\ m \in Nat /\ at < m /\ m <= Whole
         /\ \A i \in at + 1..m - 1 : i \notin Rows(Whole) /\ i \notin Rows(m) /\ ~Bad(file[i])
         /\ m \in Rows(m) <=> ~Bad(file[m])
<1>1. at \in Nat /\ Whole \in Nat
  BY WholeLines DEF ReadSoFar
<1>2. m \in Nat /\ at < m /\ m <= Whole /\ ~Skipped(file[m])
  BY <1>1 DEF Ahead
<1>3. \A i \in at + 1..m - 1 : Skipped(file[i])
  <2>1. \A i \in at + 1..m - 1 : i \in at + 1..Whole /\ ~(m <= i)
    BY <1>1, <1>2
  <2>2. QED
    BY <2>1 DEF Ahead
<1>4. \A line : Skipped(line) => ~Bad(line)
  BY SkippedNotBad
<1>5. ASSUME kind = "csv" PROVE Behind(m)
  <2>1. m \in 1..Whole /\ ~EmptyLine(file[m])
    BY <1>1, <1>2, <1>5 DEF Skipped
  <2>2. PICK h \in 1..at : HeaderAt(h)
    BY <1>5, <2>1 DEF ReadSoFar
  <2>3. h \in 1..m - 1 /\ at > 0
    BY <1>1, <1>2
  <2>4. QED
    BY <2>2, <2>3 DEF HeaderAt, Behind
<1>6. Behind(m)
  BY <1>5 DEF Behind
<1>7. m \in 1..m
  BY <1>1, <1>2
<1>8. QED
  BY <1>2, <1>3, <1>4, <1>5, <1>6, <1>7 DEF Rows

(* What was read keeps its place when one record more is. *)
LEMMA PlacesKept ==
  ASSUME NEW n \in Nat, produced \in Seq(ToSet(produced)), Len(produced) = Cardinality(Rows(n)), NEW x,
         NEW i \in Rows(n), produced[Cardinality(Rows(i))] = Record(file[i])
  PROVE  Append(produced, x)[Cardinality(Rows(i))] = Record(file[i])
<1>1. Cardinality(Rows(i)) \in 1..Len(produced)
  BY RowHasPlace
<1>2. QED
  BY <1>1, OneMore

LEMMA ReadReads ==
  ASSUME ReadSoFar, durable \in Nat, Read
  PROVE  ReadSoFar'
<1>1. /\ reading = "open" /\ UNCHANGED <<kind, file, durable, skipEmpty, columns>>
      /\ Advance(Skipped, Produce, reading' = "eof" /\ UNCHANGED produced)
  BY DEF Read, sink
<1>2. /\ Whole' = Whole /\ Torn' = Torn
      /\ \A n : Rows(n)' = Rows(n)
      /\ \A line : Skipped(line)' = Skipped(line) /\ Bad(line)' = Bad(line)
  BY <1>1, SameLines
<1>3. /\ \A line : Record(line)' = Record(line)
      /\ \A i : HeaderAt(i)' = HeaderAt(i)
  BY <1>1 DEF Record, HeaderAt, EmptyLine, Cells, Bad, TooLong
<1>4. /\ at \in Nat /\ Whole \in Nat /\ at <= Whole + 1 /\ (at > Whole => Torn)
      /\ produced \in Seq(ToSet(produced)) /\ Len(produced) \in Nat
      /\ at <= Whole => Len(produced) = Cardinality(Rows(at))
      /\ at > Whole => Len(produced) - Cardinality(Rows(Whole)) \in {0, 1}
      /\ \A i \in Rows(Whole) : i <= at => produced[Cardinality(Rows(i))] = Record(file[i])
      /\ \A i \in 1..Whole : i <= at => ~Bad(file[i])
      /\ kind = "csv" => \/ \A i \in 1..Whole : EmptyLine(file[i])
                         \/ \E i \in 1..at : HeaderAt(i)
  BY <1>1, WholeLines, LenProperties DEF ReadSoFar
<1>5. CASE Ahead(Skipped) # {}
  <2>1. PICK m \in Ahead(Skipped) : m = Min(Ahead(Skipped)) /\ \A i \in Ahead(Skipped) : m <= i
    <3>1. Ahead(Skipped) \subseteq Nat
      BY <1>4 DEF Ahead
    <3>2. QED
      BY <1>5, <3>1, Least
  <2>2. at' = m /\ Produce(file[m])
    BY <1>1, <1>5, <2>1 DEF Advance
  <2>3. /\ m \in Nat /\ at < m /\ m <= Whole
        /\ \A i \in at + 1..m - 1 : i \notin Rows(Whole) /\ i \notin Rows(m) /\ ~Bad(file[i])
        /\ m \in Rows(m) <=> ~Bad(file[m])
    BY <1>1, <2>1, NextLine
  <2>4. /\ \A i \in 1..Whole : i <= m => i <= at \/ i \in at + 1..m - 1 \/ i = m
        /\ at <= Whole /\ m <= Whole + 1 /\ ~(m > Whole) /\ m # 0 /\ m > 0 /\ 1..at \subseteq 1..m
    BY <1>4, <2>3
  <2>5. \A i \in 1..Whole : i <= m /\ Bad(file[i]) => i = m
    BY <1>4, <2>3, <2>4
  <2>6. kind = "csv" =>
          (\A i \in 1..Whole : EmptyLine(file[i])) \/ (\E i \in 1..m : HeaderAt(i))
    BY <1>4, <2>3, <2>4
  <2>7. \A i \in Rows(Whole) : i <= m => (i \in Rows(at) /\ i <= at) \/ i = m
    <3>1. \A i \in Rows(Whole) : i \in 1..Whole
      BY DEF Rows
    <3>2. \A i \in Rows(Whole) : i <= at => i \in Rows(at)
      BY <1>4 DEF Rows
    <3>3. QED
      BY <2>3, <2>4, <3>1, <3>2
  <2>8. CASE Bad(file[m])
    <3>1. reading' = "error" /\ produced' = produced
      BY <2>2, <2>8 DEF Produce
    <3>2. Rows(m) = Rows(at)
      <4>1. (\A i \in at + 1..m : i \in at + 1..m - 1 \/ i = m) /\ at <= m
        BY <1>4, <2>3
      <4>2. \A i \in at + 1..m : i \notin Rows(m)
        BY <2>3, <2>8, <4>1
      <4>3. QED
        BY <1>4, <2>3, <4>1, <4>2, RowsSame
    <3>3. \A i \in Rows(Whole) : i <= m => produced'[Cardinality(Rows(i))] = Record(file[i])
      <4>1. m \notin Rows(Whole)
        BY <2>8 DEF Rows
      <4>2. QED
        BY <1>4, <2>7, <3>1, <4>1
    <3>4. Len(produced') = Cardinality(Rows(m))
      BY <1>4, <2>4, <3>1, <3>2
    <3>5. QED
      BY <1>1, <1>2, <1>3, <1>4, <2>2, <2>3, <2>4, <2>5, <2>6, <2>8, <3>1, <3>3, <3>4 DEF ReadSoFar
  <2>9. CASE ~Bad(file[m])
    <3>1. produced' = Append(produced, Record(file[m])) /\ reading' = "open"
      BY <1>1, <2>2, <2>9 DEF Produce
    <3>2. Cardinality(Rows(m)) = Cardinality(Rows(at)) + 1
      BY <1>4, <2>3, <2>9, OneRowMore
    <3>3. /\ produced' \in Seq(ToSet(produced')) /\ Len(produced') = Cardinality(Rows(m))
          /\ produced'[Cardinality(Rows(m))] = Record(file[m])
      BY <1>4, <2>4, <3>1, <3>2, OneMore
    <3>4. ASSUME NEW i \in Rows(Whole), i <= m
          PROVE  produced'[Cardinality(Rows(i))] = Record(file[i])
      <4>1. CASE i \in Rows(at) /\ i <= at
        BY <1>4, <2>4, <3>1, <4>1, PlacesKept
      <4>2. CASE i = m
        BY <3>3, <4>2
      <4>3. QED
        BY <2>7, <3>4, <4>1, <4>2
    <3>5. \A i \in 1..Whole : i <= m => ~Bad(file[i])
      BY <2>5, <2>9
    <3>6. \A i \in Rows(Whole) : i <= m => produced'[Cardinality(Rows(i))] = Record(file[i])
      BY <3>4
    <3>7. reading' # "error" /\ reading' # "eof" /\ reading' # "not yet"
      BY <3>1
    <3>8. m \in Nat /\ m <= Whole + 1 /\ ~(m > Whole) /\ m # 0
      BY <2>3, <2>4
    <3>9. QED
      BY <1>1, <1>2, <1>3, <2>2, <2>6, <3>3, <3>5, <3>6, <3>7, <3>8 DEF ReadSoFar
  <2>10. QED
    BY <2>8, <2>9
<1>6. CASE Ahead(Skipped) = {}
  <2>1. \A i \in at + 1..Whole : Skipped(file[i])
    BY <1>6 DEF Ahead
  <2>2. \A line : Skipped(line) => ~Bad(line)
    BY SkippedNotBad
  <2>3. \A i \in 1..Whole : ~Bad(file[i])
    <3>1. \A i \in 1..Whole : i <= at \/ i \in at + 1..Whole
      BY <1>4
    <3>2. QED
      BY <1>4, <2>1, <2>2, <3>1
  <2>4. ASSUME at <= Whole
        PROVE  Rows(Whole) = Rows(at) /\ \A i \in Rows(Whole) : i <= at
    <3>1. \A i \in at + 1..Whole : i \notin Rows(Whole)
      BY <2>1 DEF Rows
    <3>2. Rows(Whole) = Rows(at)
      BY <1>4, <2>4, <3>1, RowsSame
    <3>3. \A i \in Rows(at) : i <= at
      BY DEF Rows
    <3>4. QED
      BY <3>2, <3>3
  <2>5. CASE Torn /\ at <= Whole
    <3>1. /\ at' = Whole + 1
          /\ \E line \in Cuts(file[at']) :
                IF Skipped(line) THEN reading' = "eof" /\ UNCHANGED produced ELSE Produce(line)
      BY <1>1, <1>6, <2>5 DEF Advance
    <3>2. at' \in Nat /\ at' <= Whole + 1 /\ at' > Whole /\ ~(at' <= Whole) /\ at' # 0
      BY <1>4, <3>1
    <3>3. reading' \in {"eof", "open", "error"} /\ \A i \in at' + 1..Whole : FALSE
      <4>1. reading' \in {"eof", "open", "error"}
        BY <1>1, <3>1 DEF Produce
      <4>2. QED
        BY <1>4, <3>1, <4>1
    <3>4. produced' = produced \/ \E x : produced' = Append(produced, x)
      BY <3>1 DEF Produce
    <3>5. /\ produced' \in Seq(ToSet(produced'))
          /\ Len(produced') - Cardinality(Rows(Whole)) \in {0, 1}
      <4>1. Len(produced) = Cardinality(Rows(Whole))
        BY <1>4, <2>4, <2>5
      <4>2. Len(produced') \in {Len(produced), Len(produced) + 1} /\ produced' \in Seq(ToSet(produced'))
        <5>1. CASE produced' = produced
          BY <1>4, <5>1
        <5>2. ASSUME NEW x, produced' = Append(produced, x)
              PROVE  Len(produced') = Len(produced) + 1 /\ produced' \in Seq(ToSet(produced'))
          BY <1>4, <5>2, OneMore
        <5>3. QED
          BY <3>4, <5>1, <5>2
      <4>3. QED
        BY <1>4, <4>1, <4>2
    <3>6. ASSUME NEW i \in Rows(Whole)
          PROVE  produced'[Cardinality(Rows(i))] = Record(file[i])
      <4>1. /\ i \in Rows(at) /\ Len(produced) = Cardinality(Rows(at))
            /\ produced[Cardinality(Rows(i))] = Record(file[i])
        BY <1>4, <2>4, <2>5
      <4>2. CASE produced' = produced
        BY <4>1, <4>2
      <4>3. ASSUME NEW x, produced' = Append(produced, x)
            PROVE  produced'[Cardinality(Rows(i))] = Record(file[i])
        BY <1>4, <4>1, <4>3, <2>5, PlacesKept
      <4>4. QED
        BY <3>4, <4>2, <4>3
    <3>7. 1..at \subseteq 1..at'
      BY <1>4, <3>1
    <3>8. kind = "csv" => \/ \A i \in 1..Whole : EmptyLine(file[i])
                          \/ \E i \in 1..at' : HeaderAt(i)
      BY <1>4, <3>7
    <3>9. QED
      BY <1>1, <1>2, <1>3, <2>3, <2>5, <3>2, <3>3, <3>5, <3>6, <3>8 DEF ReadSoFar
  <2>6. CASE ~(Torn /\ at <= Whole)
    <3>1. reading' = "eof" /\ produced' = produced /\ at' = at
      BY <1>1, <1>6, <2>6 DEF Advance
    <3>2. QED
      BY <1>1, <1>2, <1>3, <1>4, <2>1, <2>3, <3>1 DEF ReadSoFar
  <2>7. QED
    BY <2>5, <2>6
<1>7. QED
  BY <1>5, <1>6

LEMMA InitReadInv == Init => ReadInv
<1> SUFFICES ASSUME Init PROVE ReadInv
  OBVIOUS
<1>1. acked = <<>> /\ open = FALSE /\ closed = "none" /\ reading = "not yet"
  BY DEF Init
<1>2. at = 0
  BY DEF Init
<1>3. produced = <<>>
  BY DEF Init
<1>4. \/ sessions = 0 /\ file = <<>> /\ durable = 0
      \/ sessions = MaxSessions /\ file \in Foreign[kind] /\ durable = 2 * Len(file)
  BY DEF Init
<1>5. durable \in Nat
  BY InitIInv DEF IInv, SinkTypeOK
<1>6. ReadSoFar
  <2>1. Whole \in Nat
    BY <1>5, WholeLines
  <2>2. QED
    BY <1>1, <1>2, <1>3, <2>1, NotReadYet, Zenon
<1>7. ASSUME Foreigner PROVE file \in Foreign[kind] /\ durable = 2 * Len(file)
  <2>1. sessions > 0 /\ ~(0 > 0)
    BY <1>7 DEF Foreigner
  <2>2. sessions # 0
    BY <2>1
  <2>3. QED
    BY <1>4, <2>2
<1>8. ASSUME ~Foreigner PROVE durable <= 2 * (Len(acked) + Above) + 1
  <2>1. ~(sessions > 0)
    BY <1>1, <1>8 DEF Foreigner
  <2>2. sessions # MaxSessions
    BY <2>1, ConstantsAssumption
  <2>3. durable = 0
    BY <1>4, <2>2
  <2>4. Len(acked) = 0
    BY <1>1, NothingYet
  <2>5. Above \in {0, 1}
    BY DEF Above
  <2>6. \A a \in {0, 1} : 0 <= 2 * (0 + a) + 1
    OBVIOUS
  <2>7. QED
    BY <2>3, <2>4, <2>5, <2>6, Zenon
<1>9. QED
  BY <1>1, <1>6, <1>7, <1>8 DEF ReadInv

(* While the sink is at work the source was not opened. *)
LEMMA SinkStepReads ==
  ASSUME IInv', reading = "not yet", ReadInv, ~Foreigner', UNCHANGED <<reading, at, produced>>,
         durable' <= 2 * (Len(acked) + Above)' + 1
  PROVE  ReadInv'
<1>1. at = 0 /\ produced = <<>>
  BY DEF ReadInv, ReadSoFar
<1>2. at' = 0 /\ produced' = <<>> /\ reading' = "not yet"
  BY <1>1
<1>3. durable' \in Nat
  BY DEF IInv, SinkTypeOK
<1>4. (durable \in Nat => Whole \in Nat)'
  BY WholeLines, PTL
<1>5. (Whole \in Nat /\ reading = "not yet" /\ at = 0 /\ produced = <<>> => ReadSoFar)'
  BY NotReadYet, PTL
<1>6. ReadSoFar'
  BY <1>2, <1>3, <1>4, <1>5, Zenon
<1>7. QED
  BY <1>2, <1>6 DEF ReadInv

(* The file of a sink that is at work has a line for every record that was *)
(* taken, and a header above them unless that is still to be written.      *)
LEMMA LinesSoFar ==
  ASSUME SinkTypeOK
  PROVE  /\ Len(acked) \in Nat /\ Above \in {0, 1}
         /\ Wanted \in Seq(SinkLines)
         /\ Len(Wanted) = IF acked # <<>> THEN Len(acked) + Above ELSE 0
         /\ acked # <<>> <=> Len(acked) > 0
<1>1. Body \in Seq(SinkLines) /\ Len(Body) = Len(acked) /\ Len(acked) \in Nat /\ Above \in {0, 1}
  BY BodyIsSeq DEF Above
<1>2. acked # <<>> <=> Len(acked) > 0
  BY <1>1, EmptySeq DEF SinkTypeOK
<1>3. CASE kind = "csv" /\ acked # <<>>
  <2>1. Wanted = <<<<"row", headers>>>> \o Body
    BY <1>3, WantedIsSeq
  <2>2. <<<<"row", headers>>>> \in Seq(SinkLines) /\ Len(<<<<"row", headers>>>>) = 1
    BY DEF SinkTypeOK, SinkLines
  <2>3. Len(Wanted) = 1 + Len(acked)
    BY <1>1, <2>1, <2>2, ConcatProperties
  <2>4. QED
    BY <1>1, <1>2, <1>3, <2>3, WantedIsSeq DEF Above
<1>4. CASE ~(kind = "csv" /\ acked # <<>>)
  <2>1. Wanted = Body
    BY <1>4, WantedIsSeq
  <2>2. QED
    BY <1>1, <1>2, <1>4, <2>1, WantedIsSeq DEF Above
<1>5. QED
  BY <1>3, <1>4

LEMMA EmitReads ==
  ASSUME IInv, IInv', ReadInv, open, open', UNCHANGED <<kind, reading, at, produced>>, ~broken,
         NEW lines, NEW x, Emit(lines, x)
  PROVE  ReadInv'
<1>1. reading = "not yet" /\ ~Foreigner /\ ~Foreigner'
  BY DEF ReadInv, Foreigner
<1>2. SinkTypeOK' /\ Written' /\ ~broken'
  BY <1>1 DEF IInv, SinkInv, Emit
<1>3. durable' <= 2 * Len(file') /\ file' = Wanted'
  BY <1>2 DEF Written
<1>4. /\ Len(acked') \in Nat /\ Above' \in {0, 1}
      /\ Len(Wanted') = IF acked' # <<>> THEN Len(acked') + Above' ELSE 0
  <2>1. (SinkTypeOK => /\ Len(acked) \in Nat /\ Above \in {0, 1}
                       /\ Len(Wanted) = IF acked # <<>> THEN Len(acked) + Above ELSE 0)'
    <3>1. SinkTypeOK => /\ Len(acked) \in Nat /\ Above \in {0, 1}
                        /\ Len(Wanted) = IF acked # <<>> THEN Len(acked) + Above ELSE 0
      BY LinesSoFar
    <3>2. QED
      BY LinesSoFar, PTL
  <2>2. QED
    BY <1>2, <2>1
<1>5. durable' \in Nat
  BY <1>2 DEF SinkTypeOK
<1>6. durable' <= 2 * (Len(acked') + Above') + 1
  BY <1>3, <1>4, <1>5
<1>7. QED
  BY <1>1, <1>6, SinkStepReads

LEMMA FaultReads ==
  ASSUME IInv, IInv', ReadInv, open, open', UNCHANGED <<kind, reading, at, produced>>, ~broken,
         NEW lines \in Seq(SinkLines), Fault(lines), Len(lines) <= IF acked # <<>> THEN 1 ELSE Above + 1
  PROVE  ReadInv'
<1>1. reading = "not yet" /\ ~Foreigner /\ ~Foreigner'
  BY DEF ReadInv, Foreigner
<1>2. SinkTypeOK /\ Written /\ SinkTypeOK'
  BY <1>1 DEF IInv, SinkInv
<1>3. file \in Seq(SinkLines) /\ file = Wanted
  BY <1>2 DEF Written
<1>4. /\ Len(acked) \in Nat /\ Above \in {0, 1}
      /\ Len(Wanted) = IF acked # <<>> THEN Len(acked) + Above ELSE 0
      /\ acked # <<>> <=> Len(acked) > 0
  BY <1>2, LinesSoFar
<1>5. Len(file') = Len(file) + Len(lines) /\ Len(lines) \in Nat
  BY <1>3, ConcatProperties, LenProperties DEF Fault
<1>6. durable' \in durable..2 * Len(file') - 1 /\ acked' = acked /\ Above' = Above
  BY DEF Fault, Above
<1>7. durable' <= 2 * (Len(acked) + Above) + 1
  <2>1. Len(file) + Len(lines) <= Len(acked) + Above + 1
    BY <1>3, <1>4, <1>5
  <2>2. durable \in Nat /\ Len(file) \in Nat
    BY <1>2, <1>3, LenProperties DEF SinkTypeOK
  <2>3. QED
    BY <1>4, <1>5, <1>6, <2>1, <2>2
<1>8. QED
  BY <1>1, <1>6, <1>7, SinkStepReads

LEMMA WriteCSVReads ==
  ASSUME IInv, IInv', ReadInv, NEW r \in Records, WriteCSV(r)
  PROVE  ReadInv'
<1> DEFINE hs == IF headers = <<>> THEN SortedKeys(r) ELSE headers
           head == IF wrote THEN <<>> ELSE <<<<"row", hs>>>>
           row == Row(headers', r)
<1>1. /\ kind = "csv" /\ open /\ ~broken /\ UNCHANGED <<kind, open, reading, at, produced>>
      /\ IF wrote THEN UNCHANGED headers ELSE headers' = hs
  BY DEF WriteCSV, CanWrite, source
<1>2. \/ Emit(Append(head, row), r)
      \/ Fault(Append(head, row))
      \/ ~wrote /\ Fault(head)
  BY DEF WriteCSV
<1>3. Written /\ SinkTypeOK /\ (wrote <=> acked # <<>>) /\ wrote \in BOOLEAN
  BY <1>1, OpenIsOurs DEF IInv, Written, SinkTypeOK
<1>4. row \in SinkLines /\ <<"row", hs>> \in SinkLines
  <2>1. hs \in Columns /\ headers' \in Columns
    BY <1>1, <1>3 DEF SinkTypeOK, Columns
  <2>2. QED
    BY <2>1 DEF SinkLines
<1> HIDE DEF row, hs
<1>5. head \in Seq(SinkLines) /\ Len(head) = IF wrote THEN 0 ELSE 1
  BY <1>4
<1> HIDE DEF head
<1>6. Append(head, row) \in Seq(SinkLines) /\ Len(Append(head, row)) = Len(head) + 1
  BY <1>4, <1>5, AppendProperties
<1>7. Above = 1
  BY <1>1 DEF Above
<1>8. CASE Emit(Append(head, row), r)
  BY <1>1, <1>8, EmitReads
<1>9. CASE Fault(Append(head, row))
  <2>1. Len(Append(head, row)) <= IF acked # <<>> THEN 1 ELSE Above + 1
    BY <1>3, <1>5, <1>6, <1>7
  <2>2. QED
    BY <1>1, <1>6, <1>9, <2>1, FaultReads
<1>10. CASE ~wrote /\ Fault(head)
  <2>1. Len(head) <= IF acked # <<>> THEN 1 ELSE Above + 1
    BY <1>3, <1>5, <1>7, <1>10
  <2>2. QED
    BY <1>1, <1>5, <1>10, <2>1, FaultReads
<1>11. QED
  BY <1>2, <1>8, <1>9, <1>10

LEMMA WriteJSONReads ==
  ASSUME IInv, IInv', ReadInv, kind # "csv", NEW x \in Taken, Line(x) \in SinkLines, WriteJSON(x, Line(x))
  PROVE  ReadInv'
<1>1. /\ open /\ ~broken /\ UNCHANGED <<kind, open, reading, at, produced>>
      /\ Emit(<<Line(x)>>, x) \/ Fault(<<Line(x)>>)
  BY DEF WriteJSON, CanWrite, source
<1>2. <<Line(x)>> \in Seq(SinkLines) /\ Len(<<Line(x)>>) = 1
  OBVIOUS
<1>3. Len(<<Line(x)>>) <= IF acked # <<>> THEN 1 ELSE Above + 1
  BY <1>2 DEF Above
<1>4. QED
  BY <1>1, <1>2, <1>3, EmitReads, FaultReads

LEMMA StepReadInv ==
  ASSUME IInv, IInv', ReadInv, [Next]_vars
  PROVE  ReadInv'
<1>1. CASE Open
  <2>1. ~Foreigner' /\ reading = "not yet" /\ UNCHANGED <<reading, at, produced>>
    BY <1>1 DEF Open, Foreigner, source
  <2>2. durable' = 0 /\ acked' = <<>>
    BY <1>1 DEF Open
  <2>3. Len(acked') = 0
    BY <2>2, NothingYet
  <2>4. Above' \in {0, 1} /\ \A a \in {0, 1} : 0 <= 2 * (0 + a) + 1
    BY DEF Above
  <2>5. durable' <= 2 * (Len(acked') + Above') + 1
    BY <2>2, <2>3, <2>4, Zenon
  <2>6. QED
    BY <2>1, <2>5, SinkStepReads
<1>2. ASSUME NEW r \in Records, WriteCSV(r) PROVE ReadInv'
  BY <1>2, WriteCSVReads
<1>3. ASSUME NEW r \in Records, WriteJSONL(r) PROVE ReadInv'
  <2>1. kind = "jsonl" /\ WriteJSON(r, JSONLine(r)) /\ Line(r) = JSONLine(r)
    BY <1>3 DEF WriteJSONL, Line
  <2>2. r \in Taken /\ Line(r) \in SinkLines
    BY <2>1, LineIsSinkLine DEF IInv, Taken
  <2>3. QED
    BY <2>1, <2>2, WriteJSONReads
<1>4. ASSUME NEW q \in Rejections, WriteQuarantine(q) PROVE ReadInv'
  <2>1. kind = "quarantine" /\ WriteJSON(q, JSONLine(Spread(q))) /\ Line(q) = JSONLine(Spread(q))
    BY <1>4 DEF WriteQuarantine, Line
  <2>2. q \in Taken /\ Line(q) \in SinkLines
    BY <2>1, LineIsSinkLine DEF IInv, Taken
  <2>3. QED
    BY <2>1, <2>2, WriteJSONReads
<1>5. CASE Close \/ Crash
  <2>1. /\ open /\ UNCHANGED <<kind, reading, at, produced, file, acked>> /\ closed' # "none"
        /\ \/ durable' = durable
           \/ ~broken /\ (durable' = 2 * Len(file) \/ durable' \in durable..2 * Len(file) - 1)
    <3>1. CASE Close
      BY <3>1 DEF Close, source
    <3>2. CASE Crash
      BY <3>2 DEF Crash, source
    <3>3. QED
      BY <1>5, <3>1, <3>2
  <2>2. reading = "not yet" /\ ~Foreigner /\ ~Foreigner' /\ Above' = Above /\ acked' = acked
    BY <2>1 DEF ReadInv, Foreigner, Above
  <2>3. durable <= 2 * (Len(acked) + Above) + 1
    BY <2>2 DEF ReadInv
  <2>4. durable' <= 2 * (Len(acked) + Above) + 1
    <3>1. CASE durable' = durable
      BY <2>3, <3>1
    <3>2. CASE ~broken /\ (durable' = 2 * Len(file) \/ durable' \in durable..2 * Len(file) - 1)
      <4>1. SinkTypeOK /\ Written /\ file = Wanted
        BY <2>2, <3>2 DEF IInv, SinkInv, Written
      <4>2. /\ Len(acked) \in Nat /\ Above \in {0, 1} /\ durable \in Nat
            /\ Len(file) = IF acked # <<>> THEN Len(acked) + Above ELSE 0
        BY <4>1, LinesSoFar DEF SinkTypeOK
      <4>3. QED
        BY <3>2, <4>2
    <3>3. QED
      BY <2>1, <3>1, <3>2
  <2>5. QED
    BY <2>1, <2>2, <2>4, SinkStepReads
<1>6. ASSUME OpenSource \/ Read PROVE ReadInv'
  <2>1. UNCHANGED <<kind, open, sessions, closed, acked, file, durable>>
        /\ (open => reading' = "not yet")
    BY <1>6 DEF OpenSource, Read, sink, ReadInv
  <2>2. durable \in Nat /\ ReadSoFar
    BY DEF IInv, SinkTypeOK, ReadInv
  <2>3. ReadSoFar'
    BY <1>6, <2>2, OpenSourceReads, ReadReads
  <2>4. QED
    BY <2>1, <2>3 DEF ReadInv, Foreigner, Above
<1>7. CASE ReadFails
  <2>1. /\ UNCHANGED <<kind, open, sessions, closed, acked, file, durable>>
        /\ UNCHANGED <<skipEmpty, columns, at, produced>>
    BY <1>7 DEF ReadFails, sink
  <2>2. /\ Whole' = Whole /\ Torn' = Torn
        /\ \A n : Rows(n)' = Rows(n)
        /\ \A line : Skipped(line)' = Skipped(line) /\ Record(line)' = Record(line) /\ Bad(line)' = Bad(line)
        /\ \A i : HeaderAt(i)' = HeaderAt(i)
    BY <2>1, SameLines DEF Record, HeaderAt, EmptyLine, Cells, Bad, TooLong
  <2>3. reading' = "failed" /\ reading \in {"not yet", "open"} /\ ~open
    BY <1>7 DEF ReadFails
  <2>4. reading = "not yet" => ~(at > 0)
    <3>1. reading = "not yet" => at = 0
      BY DEF ReadInv, ReadSoFar
    <3>2. QED
      BY <3>1, NoneIsFewer, Zenon
  <2>5. ReadSoFar => ReadSoFar'
    BY <2>1, <2>2, <2>3, <2>4 DEF ReadSoFar
  <2>6. QED
    BY <2>1, <2>3, <2>5 DEF ReadInv, Foreigner, Above
<1>8. CASE UNCHANGED vars
  <2>1. /\ UNCHANGED <<kind, open, sessions, closed, acked, file, durable>>
        /\ UNCHANGED <<skipEmpty, reading, columns, at, produced>>
    BY <1>8 DEF vars, sink, source
  <2>2. /\ Whole' = Whole /\ Torn' = Torn
        /\ \A n : Rows(n)' = Rows(n)
        /\ \A line : Skipped(line)' = Skipped(line) /\ Record(line)' = Record(line) /\ Bad(line)' = Bad(line)
        /\ \A i : HeaderAt(i)' = HeaderAt(i)
    BY <2>1, SameLines DEF Record, HeaderAt, EmptyLine, Cells, Bad, TooLong
  <2>3. ReadSoFar => ReadSoFar'
    BY <2>1, <2>2 DEF ReadSoFar
  <2>4. QED
    BY <2>1, <2>3 DEF ReadInv, Foreigner, Above
<1>9. QED
  BY <1>1, <1>2, <1>3, <1>4, <1>5, <1>6, <1>7, <1>8 DEF Next

LEMMA ReadingInv == Spec => [](IInv /\ ReadInv)
<1>1. Init => IInv /\ ReadInv
  BY InitIInv, InitReadInv
<1>2. IInv /\ ReadInv /\ [Next]_vars => IInv' /\ ReadInv'
  BY StepIInv, StepReadInv
<1>3. QED
  BY <1>1, <1>2, PTL DEF Spec

-----------------------------------------------------------------------------
(* What a row gives.                                                       *)

LEMMA NothingIn == \A j \in DOMAIN <<>> : FALSE
<1>1. DOMAIN <<>> = 1..0
  BY NothingYet, LenProperties
<1>2. QED
  BY <1>1

LEMMA HeadersAreTexts ==
  ASSUME SinkTypeOK
  PROVE  headers \in Seq(STRING) /\ Len(headers) \in Nat /\ DOMAIN headers = 1..Len(headers)
<1>1. <<>> \in Seq(STRING)
  BY NothingYet
<1>2. headers \in Seq(STRING)
  BY <1>1, HeadersAssumption DEF SinkTypeOK, Columns
<1>3. QED
  BY <1>2, LenProperties

LEMMA FewCells ==
  ASSUME NEW n \in Nat, NEW c, c = [i \in 1..n |-> c[i]]
  PROVE  c \in {<<>>, <<"">>} <=> n = 0 \/ (n = 1 /\ c[1] = "")
<1>1. c \in Seq({c[i] : i \in 1..n}) /\ Len(c) = n /\ DOMAIN c = 1..n
  <2>1. DOMAIN c = 1..n /\ c \in [1..n -> {c[i] : i \in 1..n}]
    OBVIOUS
  <2>2. c \in Seq({c[i] : i \in 1..n})
    BY <2>1, SeqDef
  <2>3. QED
    BY <2>1, <2>2, LenProperties
<1>2. c = <<>> <=> n = 0
  BY <1>1, EmptySeq
<1>3. <<"">> \in Seq({""}) /\ Len(<<"">>) = 1 /\ <<"">>[1] = ""
  OBVIOUS
<1>4. ASSUME n = 1, c[1] = "" PROVE c = <<"">>
  <2>1. c \in Seq({""})
    <3>1. 1..1 = {1}
      OBVIOUS
    <3>2. 1..n = {1}
      BY <1>4, <3>1, Zenon
    <3>3. {c[i] : i \in {1}} = {""}
      BY <1>4, Zenon
    <3>4. {c[i] : i \in 1..n} = {""}
      BY <3>2, <3>3, Zenon
    <3>5. QED
      BY <1>1, <3>4
  <2>2. \A i \in 1..1 : c[i] = <<"">>[i]
    <3>1. \A i \in 1..1 : i = 1
      OBVIOUS
    <3>2. QED
      BY <1>3, <1>4, <3>1
  <2>3. QED
    BY <1>1, <1>3, <1>4, <2>1, <2>2, SeqEqual
<1>5. ASSUME c = <<"">> PROVE n = 1 /\ c[1] = ""
  BY <1>1, <1>3, <1>5
<1>6. QED
  BY <1>2, <1>4, <1>5

(* The line of a record is passed over exactly if the record is not visible. *)
LEMMA SkippedIsInvisible ==
  ASSUME SinkTypeOK, kind = "csv", NEW r
  PROVE  Skipped(Row(headers, r)) <=> ~Visible(r)
<1> DEFINE cells == [i \in DOMAIN headers |-> CellOf(Get(r, headers[i]))]
<1>1. Len(headers) \in Nat /\ DOMAIN headers = 1..Len(headers)
  BY HeadersAreTexts
<1>2. Row(headers, r)[1] = "row" /\ Row(headers, r)[2] = cells
  BY DEF Row
<1>3. /\ DOMAIN cells = 1..Len(headers)
      /\ \A i \in 1..Len(headers) : cells[i] = CellOf(Get(r, headers[i]))
      /\ ToSet(headers) = {headers[i] : i \in 1..Len(headers)}
  BY <1>1 DEF ToSet
<1>4. cells \in {<<>>, <<"">>} <=> Len(headers) = 0 \/ (Len(headers) = 1 /\ cells[1] = "")
  <2>1. cells = [i \in 1..Len(headers) |-> cells[i]]
    BY <1>1
  <2> HIDE DEF cells
  <2>2. QED
    BY <1>1, <2>1, FewCells
<1> HIDE DEF cells
<1>5. EmptyLine(Row(headers, r)) <=> Len(headers) = 0 \/ (Len(headers) = 1 /\ cells[1] = "")
  BY <1>2, <1>4 DEF EmptyLine
<1>6. EmptyRow(Row(headers, r)) <=> \A i \in 1..Len(headers) : Trim(NewLines(cells[i])) = ""
  BY <1>2, <1>3 DEF EmptyRow, Cells
<1>7. Visible(r) <=> \/ \E i \in 1..Len(headers) : Trim(NewLines(cells[i])) # ""
                     \/ ~skipEmpty /\ (Len(headers) > 1 \/ \E i \in 1..Len(headers) : cells[i] # "")
  <2>1. /\ (\E h \in ToSet(headers) : Trim(NewLines(CellOf(Get(r, h)))) # "") <=>
              \E i \in 1..Len(headers) : Trim(NewLines(cells[i])) # ""
        /\ (\E h \in ToSet(headers) : CellOf(Get(r, h)) # "") <=>
              \E i \in 1..Len(headers) : cells[i] # ""
    BY <1>3
  <2>2. QED
    BY <2>1 DEF Visible
<1>8. /\ Len(headers) = 0 <=> 1..Len(headers) = {}
      /\ Len(headers) = 1 => 1..Len(headers) = {1}
      /\ Len(headers) > 1 <=> Len(headers) # 0 /\ Len(headers) # 1
  BY <1>1
<1>9. Trim(NewLines("")) = ""
  BY HeadersAssumption
<1>10. Skipped(Row(headers, r)) <=>
         EmptyLine(Row(headers, r)) \/ (skipEmpty /\ EmptyRow(Row(headers, r)))
  BY DEF Skipped
<1>11. CASE Len(headers) = 0
  BY <1>5, <1>7, <1>8, <1>10, <1>11
<1>12. CASE Len(headers) = 1
  BY <1>5, <1>6, <1>7, <1>8, <1>9, <1>10, <1>12
<1>13. CASE Len(headers) > 1
  BY <1>5, <1>6, <1>7, <1>8, <1>10, <1>13
<1>14. QED
  BY <1>8, <1>11, <1>12, <1>13

(* A row of a sink fills all columns. *)
LEMMA RowIsText ==
  ASSUME SinkTypeOK, kind = "csv", NEW r, columns = [i \in DOMAIN headers |-> Name(headers[i])]
  PROVE  SameText(Record(Row(headers, r)), r)
<1> DEFINE cells == [i \in DOMAIN headers |-> NewLines(CellOf(Get(r, headers[i])))]
           out == Record(Row(headers, r))
           Of(h) == {i \in 1..Len(headers) : columns[i] = h}
<1>1. Len(headers) \in Nat /\ DOMAIN headers = 1..Len(headers)
  BY HeadersAreTexts
<1>2. /\ Cells(Row(headers, r)) = cells /\ DOMAIN Row(headers, r)[2] = 1..Len(headers)
      /\ DOMAIN columns = 1..Len(headers)
  BY <1>1 DEF Row, Cells
<1>3. out = [h \in {columns[i] : i \in 1..Len(headers)} |-> <<"text", cells[Max(Of(h))]>>]
  BY <1>2 DEF Record
<1>4. ToSet(headers) = {headers[i] : i \in 1..Len(headers)}
  BY <1>1 DEF ToSet
<1>5. \A i \in 1..Len(headers) : columns[i] = Name(headers[i]) /\ cells[i] = NewLines(CellOf(Get(r, headers[i])))
  BY <1>1
<1> HIDE DEF out, cells
<1>6. DOMAIN out = {Name(h) : h \in ToSet(headers)}
  BY <1>3, <1>4, <1>5
<1>7. ASSUME NEW h \in DOMAIN out
      PROVE  \E g \in ToSet(headers) : Name(g) = h /\ out[h] = <<"text", NewLines(CellOf(Get(r, g)))>>
  <2>1. Of(h) \subseteq 0..Len(headers) /\ Of(h) # {}
    BY <1>1, <1>3, <1>7
  <2>2. Max(Of(h)) \in Of(h)
    BY <1>1, <2>1, Greatest
  <2>3. PICK i \in 1..Len(headers) : i = Max(Of(h)) /\ columns[i] = h
    BY <2>2
  <2>4. out[h] = <<"text", cells[i]>>
    BY <1>3, <1>7, <2>3
  <2>5. headers[i] \in ToSet(headers) /\ Name(headers[i]) = h /\ out[h] = <<"text", NewLines(CellOf(Get(r, headers[i])))>>
    BY <1>4, <1>5, <2>3, <2>4
  <2>6. QED
    BY <2>5
<1>8. SameText(out, r)
  BY <1>6, <1>7 DEF SameText
<1>9. QED
  BY <1>8 DEF out

(* A row from elsewhere fills the columns it reaches. *)
LEMMA RaggedRow ==
  ASSUME kind = "csv", Len(columns) \in Nat, DOMAIN columns = 1..Len(columns),
         NEW line, Len(line[2]) \in Nat, DOMAIN line[2] = 1..Len(line[2]),
         NEW w, w = Min({Len(columns), Len(line[2])})
  PROVE  /\ DOMAIN Record(line) = {columns[k] : k \in 1..w}
         /\ w > 0 => Record(line)[columns[w]] = <<"text", Cells(line)[w]>>
<1> DEFINE filled == DOMAIN columns \cap DOMAIN line[2]
           Of(h) == {i \in filled : columns[i] = h}
<1>1. w \in {Len(columns), Len(line[2])} /\ w <= Len(columns) /\ w <= Len(line[2])
  <2>1. {Len(columns), Len(line[2])} \subseteq Nat /\ {Len(columns), Len(line[2])} # {}
    OBVIOUS
  <2>2. QED
    BY <2>1, Least
<1>2. w \in Nat /\ filled = 1..w
  <2>1. \A a, b, c \in Nat : c \in {a, b} /\ c <= a /\ c <= b => 1..a \cap 1..b = 1..c
    OBVIOUS
  <2>2. w \in Nat /\ filled = 1..Len(columns) \cap 1..Len(line[2])
    BY <1>1
  <2> HIDE DEF filled
  <2>3. QED
    BY <1>1, <2>1, <2>2
<1>3. Record(line) = [h \in {columns[i] : i \in filled} |-> <<"text", Cells(line)[Max(Of(h))]>>]
  BY DEF Record
<1> HIDE DEF filled
<1>4. DOMAIN Record(line) = {columns[k] : k \in 1..w}
  BY <1>2, <1>3
<1>5. ASSUME w > 0 PROVE Record(line)[columns[w]] = <<"text", Cells(line)[w]>>
  <2>1. w \in 1..w
    BY <1>2, <1>5
  <2>2. Of(columns[w]) \subseteq 0..w /\ w \in Of(columns[w])
    BY <1>2, <2>1
  <2>3. Max(Of(columns[w])) \in Of(columns[w]) /\ w <= Max(Of(columns[w]))
    BY <1>2, <2>2, Greatest
  <2>4. \A i \in 0..w : w <= i => i = w
    BY <1>2
  <2>5. Max(Of(columns[w])) = w
    BY <2>2, <2>3, <2>4
  <2>6. columns[w] \in {columns[i] : i \in filled}
    BY <1>2, <2>1
  <2>7. QED
    BY <1>3, <2>5, <2>6
<1>6. QED
  BY <1>4, <1>5

-----------------------------------------------------------------------------
(* What comes back of what was acknowledged.                               *)

(* The lines that left the process whole are of the header and of records   *)
(* that were acknowledged, in their order.                                 *)
LEMMA OwnLines ==
  ASSUME IInv, ReadInv, ~Foreigner
  PROVE  /\ Len(acked) \in Nat /\ DOMAIN acked = 1..Len(acked) /\ Above \in {0, 1}
         /\ Whole \in Nat /\ Whole <= Len(acked) + Above
         /\ \A i \in 1..Whole : file[i][1] # "bad"
         /\ \A k \in 1..Len(acked) : file[k + Above] = Line(acked[k])
         /\ kind = "csv" /\ acked # <<>> => file[1] = <<"row", headers>>
<1>1. SinkTypeOK /\ Written /\ durable <= 2 * (Len(acked) + Above) + 1 /\ durable \in Nat
  BY DEF IInv, SinkInv, ReadInv, SinkTypeOK
<1>2. /\ Len(acked) \in Nat /\ DOMAIN acked = 1..Len(acked) /\ Above \in {0, 1}
      /\ Len(Wanted) = IF acked # <<>> THEN Len(acked) + Above ELSE 0
      /\ acked # <<>> <=> Len(acked) > 0
  BY <1>1, LinesSoFar, LenProperties DEF SinkTypeOK
<1>3. Whole \in Nat /\ Whole <= Len(acked) + Above
  BY <1>1, <1>2, WholeLines
<1>4. file \in Seq(SinkLines) /\ Len(file) \in Nat /\ durable <= 2 * Len(file) /\ IsPrefix(Wanted, file)
  BY <1>1, LenProperties DEF Written
<1>5. \A i \in 1..Whole : file[i][1] # "bad"
  <2>1. \A i \in 1..Whole : i \in 1..Len(file)
    BY <1>1, <1>3, <1>4, WholeLines
  <2>2. \A i \in 1..Whole : file[i] \in SinkLines
    BY <1>4, <2>1, ElementOfSeq
  <2>3. \A line \in SinkLines : line[1] # "bad"
    BY DEF SinkLines, ObjectLines, Row, JSONLine
  <2>4. QED
    BY <2>2, <2>3
<1>6. Wanted \in Seq(SinkLines) /\ \A i \in 1..Len(Wanted) : file[i] = Wanted[i]
  <2>1. Wanted \in Seq(SinkLines) /\ Len(Wanted) <= Len(file) /\ Len(Wanted) \in Nat
    BY <1>1, <1>4, LinesSoFar, LenProperties DEF IsPrefix
  <2>2. SubSeq(Wanted, 1, Len(Wanted)) = SubSeq(file, 1, Len(Wanted))
    BY <1>4 DEF IsPrefix
  <2>3. ASSUME NEW i \in 1..Len(Wanted) PROVE file[i] = Wanted[i]
    <3>1. SubSeq(Wanted, 1, Len(Wanted))[i] = Wanted[i] /\ SubSeq(file, 1, Len(Wanted))[i] = file[i]
      BY <1>4, <2>1, <2>3
    <3>2. QED
      BY <2>2, <3>1
  <2>4. QED
    BY <2>1, <2>3
<1>7. Body \in Seq(SinkLines) /\ Len(Body) = Len(acked) /\ \A k \in 1..Len(acked) : Body[k] = Line(acked[k])
  BY <1>1, <1>2, BodyIsSeq DEF Body
<1>8. ASSUME NEW k \in 1..Len(acked) PROVE file[k + Above] = Line(acked[k])
  <2>1. acked # <<>> /\ k + Above \in 1..Len(Wanted)
    BY <1>2, <1>8
  <2>2. CASE kind = "csv"
    <3>1. Wanted = <<<<"row", headers>>>> \o Body /\ Above = 1
      BY <1>1, <2>1, <2>2, WantedIsSeq DEF Above
    <3>2. <<<<"row", headers>>>> \in Seq(SinkLines) /\ Len(<<<<"row", headers>>>>) = 1
      BY <1>1 DEF SinkTypeOK, SinkLines
    <3>3. Wanted[k + 1] = Body[k]
      BY <1>2, <1>7, <3>1, <3>2, ConcatProperties
    <3>4. QED
      BY <1>6, <1>7, <2>1, <3>1, <3>3
  <2>3. CASE kind # "csv"
    <3>1. Wanted = Body /\ k + Above = k
      BY <1>1, <2>3, WantedIsSeq DEF Above
    <3>2. QED
      BY <1>6, <1>7, <2>1, <3>1
  <2>4. QED
    BY <2>2, <2>3
<1>9. ASSUME kind = "csv", acked # <<>> PROVE file[1] = <<"row", headers>>
  <2>1. Wanted = <<<<"row", headers>>>> \o Body
    BY <1>1, <1>9, WantedIsSeq
  <2>2. <<<<"row", headers>>>> \in Seq(SinkLines) /\ Len(<<<<"row", headers>>>>) = 1
    BY <1>1, <1>9 DEF SinkTypeOK, SinkLines
  <2>3. Wanted[1] = <<"row", headers>>
    BY <1>7, <2>1, <2>2, ConcatProperties
  <2>4. 1 \in 1..Len(Wanted)
    BY <1>2, <1>9
  <2>5. QED
    BY <1>6, <2>3, <2>4
<1>10. QED
  BY <1>2, <1>3, <1>5, <1>8, <1>9

(* A line of one empty name would be taken for an empty line. *)
Nameable == kind = "csv" => headers # <<"">>

(* The line of a record is a row of the file exactly if the record is to    *)
(* come back.                                                              *)
LEMMA RowOfRecord ==
  ASSUME IInv, ReadInv, ~Foreigner, Nameable,
         NEW k \in 1..Len(acked), k + Above <= Whole
  PROVE  k + Above \in Rows(Whole) <=> k \in Back
<1>1. /\ Len(acked) \in Nat /\ DOMAIN acked = 1..Len(acked) /\ Above \in {0, 1} /\ Whole \in Nat
      /\ \A i \in 1..Whole : file[i][1] # "bad"
      /\ file[k + Above] = Line(acked[k])
      /\ kind = "csv" => file[1] = <<"row", headers>>
  BY OwnLines, NothingYet
<1>2. k + Above \in 1..Whole /\ file[k + Above][1] # "bad"
  BY <1>1
<1>3. /\ k \in Back <=> ~Unreadable(k) /\ (kind = "csv" => Visible(acked[k]))
      /\ Unreadable(k) <=> Bad(file[k + Above])
      /\ Unreadable(k) => kind # "csv"
  BY <1>1, <1>2 DEF Back, Unreadable, Bad, TooLong
<1>4. CASE kind # "csv"
  <2>1. Line(acked[k])[1] = "json"
    <3>1. kind \in {"jsonl", "quarantine"}
      BY <1>4 DEF IInv, SinkTypeOK
    <3>2. QED
      BY <3>1 DEF Line, JSONLine
  <2>2. ~Skipped(file[k + Above])
    BY <1>1, <1>4, <2>1 DEF Skipped
  <2>3. QED
    BY <1>2, <1>3, <1>4, <2>2 DEF Rows, Behind
<1>5. CASE kind = "csv"
  <2>1. Line(acked[k]) = Row(headers, acked[k]) /\ Above = 1
    BY <1>5 DEF Line, Above
  <2>2. Skipped(file[k + Above]) <=> ~Visible(acked[k])
    BY <1>1, <1>5, <2>1, SkippedIsInvisible DEF IInv
  <2>3. Visible(acked[k]) => Behind(k + Above)
    <3>1. 1 \in 1..(k + Above) - 1
      BY <1>1, <2>1
    <3>2. CASE headers = <<>>
      <4>1. ToSet(headers) = {} /\ Len(headers) = 0
        BY <3>2, NothingIn, NothingYet DEF ToSet
      <4>2. ~Visible(acked[k])
        BY <4>1 DEF Visible
      <4>3. QED
        BY <4>2
    <3>3. CASE headers # <<>>
      <4>1. headers # <<"">>
        BY <1>5 DEF Nameable
      <4>2. file[1] = <<"row", headers>>
        BY <1>1, <1>5
      <4>3. file[1][2] = headers
        BY <4>2
      <4>4. ~EmptyLine(file[1])
        BY <3>3, <4>1, <4>3 DEF EmptyLine
      <4>5. QED
        BY <3>1, <4>4 DEF Behind
    <3>4. QED
      BY <3>2, <3>3
  <2>4. QED
    BY <1>2, <1>3, <1>5, <2>2, <2>3 DEF Rows
<1>6. QED
  BY <1>4, <1>5

(* So up to every line there are as many rows as records to come back. *)
LEMMA RowsAreBack ==
  ASSUME IInv, ReadInv, ~Foreigner, Nameable, NEW n \in Nat, n <= Whole
  PROVE  /\ IsFiniteSet(Back) /\ Back \subseteq 1..Len(acked)
         /\ Cardinality(Rows(n)) = Cardinality({k \in Back : k + Above <= n})
<1> DEFINE S == {k \in Back : k + Above <= n}
<1>1. /\ Len(acked) \in Nat /\ DOMAIN acked = 1..Len(acked) /\ Above \in {0, 1}
      /\ Whole \in Nat /\ Whole <= Len(acked) + Above
  BY OwnLines
<1>2. Back \subseteq 1..Len(acked) /\ S \subseteq 1..Len(acked) /\ Above \in Nat
  BY <1>1 DEF Back
<1>3. IsFiniteSet(Back)
  <2>1. IsFiniteSet(1..Len(acked)) /\ Back \in SUBSET (1..Len(acked))
    BY <1>1, <1>2, FS_Interval
  <2>2. QED
    BY <2>1, FS_Subset
<1>4. \A i \in Rows(n) : \E k \in S : i = k + Above
  <2>1. SUFFICES ASSUME NEW i \in Rows(n) PROVE \E k \in S : i = k + Above
    OBVIOUS
  <2>2. i \in 1..n /\ i \in 1..Whole /\ i \in Rows(Whole)
    <3>1. i \in 1..n
      BY DEF Rows
    <3>2. i \in 1..Whole
      BY <1>1, <3>1
    <3>3. QED
      BY <3>1, <3>2 DEF Rows
  <2>3. kind = "csv" => i # 1
    <3>1. 1..1 - 1 = {}
      OBVIOUS
    <3>2. QED
      BY <3>1 DEF Rows, Behind
  <2>4. i - Above \in 1..Len(acked) /\ (i - Above) + Above = i /\ i <= n /\ i <= Whole
    BY <1>1, <2>2, <2>3 DEF Above
  <2>5. PICK k \in 1..Len(acked) : k + Above = i
    BY <2>4
  <2>6. k \in Back
    BY <2>2, <2>4, <2>5, RowOfRecord
  <2>7. QED
    BY <2>4, <2>5, <2>6
<1>5. \A k \in S : k + Above \in Rows(n)
  <2>1. SUFFICES ASSUME NEW k \in S PROVE k + Above \in Rows(n)
    OBVIOUS
  <2>2. k \in 1..Len(acked) /\ k \in Back /\ k + Above <= n /\ k + Above <= Whole
    BY <1>1, <1>2
  <2>3. k + Above \in Rows(Whole)
    BY <2>2, RowOfRecord
  <2>4. k + Above \in 1..n
    BY <1>1, <2>2
  <2>5. QED
    BY <2>3, <2>4 DEF Rows
<1>6. Cardinality(Rows(n)) = Cardinality(S)
  <2> DEFINE f == [k \in S |-> k + Above]
  <2>1. \A j, k \in S : j + Above = k + Above => j = k
    <3>1. \A j, k \in Nat, a \in {0, 1} : j + a = k + a => j = k
      OBVIOUS
    <3>2. \A k \in S : k \in Nat
      BY <1>1, <1>2
    <3>3. QED
      BY <1>1, <3>1, <3>2
  <2> HIDE DEF S
  <2>2. f \in [S -> Rows(n)] /\ (\A j, k \in S : f[j] = f[k] => j = k) /\ \A i \in Rows(n) : \E k \in S : f[k] = i
    BY <1>4, <1>5, <2>1
  <2>3. ExistsBijection(S, Rows(n))
    BY <2>2, Fun_IsBij DEF ExistsBijection
  <2>4. IsFiniteSet(S)
    <3>1. S \in SUBSET Back
      BY DEF S
    <3>2. QED
      BY <1>3, <3>1, FS_Subset
  <2>5. QED
    BY <2>3, <2>4, FS_Bijection
<1>7. QED
  BY <1>2, <1>3, <1>6

(* A record that is beyond the lines that were read has no place yet. *)
LEMMA PlaceBeyond ==
  ASSUME IsFiniteSet(Back), Back \subseteq Nat, NEW n \in Nat, NEW a \in {0, 1}, NEW k \in Back, n < k + a
  PROVE  Place(k) > Cardinality({j \in Back : j + a <= n})
<1> DEFINE S == {j \in Back : j + a <= n}
           T == {j \in Back : j <= k}
<1>1. k \notin S /\ S \cup {k} \subseteq T /\ k \in Nat
  <2>1. k \in Nat /\ ~(k + a <= n) /\ k <= k
    OBVIOUS
  <2>2. \A j \in Nat : j + a <= n => j <= k
    BY <2>1
  <2>3. QED
    BY <2>1, <2>2
<1>2. IsFiniteSet(S) /\ IsFiniteSet(T)
  <2>1. S \in SUBSET Back /\ T \in SUBSET Back
    OBVIOUS
  <2>2. QED
    BY <2>1, FS_Subset
<1> HIDE DEF S, T
<1>3. Cardinality(S \cup {k}) = Cardinality(S) + 1 /\ IsFiniteSet(S \cup {k})
  BY <1>1, <1>2, FS_AddElement
<1>4. Cardinality(S \cup {k}) <= Cardinality(T)
  BY <1>1, <1>2, FS_Subset
<1>5. Cardinality(S) \in Nat /\ Cardinality(T) \in Nat
  BY <1>2, FS_CardinalityType
<1>6. Place(k) = Cardinality(T)
  BY DEF Place, T
<1>7. QED
  BY <1>3, <1>4, <1>5, <1>6 DEF S

(* What came back is, at the place of every record, what its line gives. *)
LEMMA RecordsComeBack ==
  ASSUME IInv, ReadInv, ~Foreigner, Nameable
  PROVE  /\ \A k \in Back : Place(k) <= Len(produced) /\ (Place(k) < Len(produced) \/ ~Torn) =>
               /\ produced[Place(k)] = Record(Line(acked[k]))
               /\ k + Above \in Rows(Whole) /\ k + Above <= at
         /\ Len(produced) <= Cardinality(Back) + IF Torn THEN 1 ELSE 0
         /\ reading = "eof" /\ closed = "ok" => Len(produced) >= Cardinality(Back)
         /\ reading = "eof" /\ kind # "csv" => Len(produced) >= Cardinality(Back)
         /\ reading = "eof" /\ closed = "ok" => \A k \in DOMAIN acked : ~Unreadable(k)
         /\ reading = "error" => Torn \/ \E k \in DOMAIN acked : Unreadable(k) /\ Len(produced) = k - 1
<1>1. /\ Len(acked) \in Nat /\ DOMAIN acked = 1..Len(acked) /\ Above \in {0, 1}
      /\ Whole \in Nat /\ Whole <= Len(acked) + Above
  BY OwnLines
<1>2. /\ \A i \in 1..Whole : file[i][1] # "bad"
      /\ \A k \in 1..Len(acked) : file[k + Above] = Line(acked[k])
  BY OwnLines
<1>3. at \in Nat /\ at <= Whole + 1 /\ (at > Whole => Torn) /\ Len(produced) \in Nat
  BY LenProperties DEF ReadInv, ReadSoFar
<1>4. /\ at <= Whole => Len(produced) = Cardinality(Rows(at))
      /\ at > Whole => Len(produced) - Cardinality(Rows(Whole)) \in {0, 1}
  BY DEF ReadInv, ReadSoFar
<1>5. /\ \A i \in Rows(Whole) : i <= at => produced[Cardinality(Rows(i))] = Record(file[i])
      /\ reading = "error" => at > Whole \/ (at > 0 /\ Bad(file[at]))
      /\ reading = "eof" => \A i \in at + 1..Whole : Skipped(file[i])
      /\ \A i \in 1..Whole : i <= at /\ Bad(file[i]) => i = at /\ reading = "error"
  BY DEF ReadInv, ReadSoFar
<1>6. PICK n \in Nat : n = IF at <= Whole THEN at ELSE Whole
  BY <1>1, <1>3
<1>7. n <= Whole /\ n <= at /\ \A i \in Nat : i <= Whole /\ i <= at => i <= n
  BY <1>1, <1>3, <1>6
<1>8. PICK c \in Nat : c = Cardinality(Rows(n))
  BY <1>6, RowsFinite, FS_CardinalityType
<1>9. IsFiniteSet(Back) /\ Back \subseteq 1..Len(acked) /\ c = Cardinality({k \in Back : k + Above <= n})
  BY <1>6, <1>7, <1>8, RowsAreBack
<1>10. Len(produced) = c \/ (Torn /\ Len(produced) = c + 1)
  <2>1. CASE at <= Whole
    BY <1>4, <1>6, <1>8, <2>1
  <2>2. CASE ~(at <= Whole)
    <3>1. at > Whole /\ Torn /\ n = Whole
      BY <1>1, <1>3, <1>6, <2>2
    <3>2. Len(produced) - c \in {0, 1}
      BY <1>4, <1>8, <3>1
    <3>3. QED
      BY <1>3, <1>8, <3>1, <3>2
  <2>3. QED
    BY <2>1, <2>2
<1>11. c <= Cardinality(Back) /\ Cardinality(Back) \in Nat
  <2>1. {k \in Back : k + Above <= n} \in SUBSET Back
    OBVIOUS
  <2>2. QED
    BY <1>9, <2>1, FS_Subset, FS_CardinalityType
<1>12. \A k \in Back : k \in 1..Len(acked) /\ k \in Nat /\ k + Above \in Nat /\ k + Above > 0
  BY <1>1, <1>9
<1>13. ASSUME NEW k \in Back, Place(k) <= Len(produced), Place(k) < Len(produced) \/ ~Torn
       PROVE  /\ produced[Place(k)] = Record(Line(acked[k]))
              /\ k + Above \in Rows(Whole) /\ k + Above <= at
  <2>1. Place(k) \in Nat
    <3>1. {j \in Back : j <= k} \in SUBSET Back
      OBVIOUS
    <3>2. QED
      BY <1>9, <3>1, FS_Subset, FS_CardinalityType DEF Place
  <2>2. ~(Place(k) > c)
    BY <1>8, <1>10, <1>13, <2>1
  <2>3. Back \subseteq Nat
    BY <1>12
  <2>4. ~(n < k + Above)
    BY <1>1, <1>6, <1>9, <1>13, <2>2, <2>3, PlaceBeyond
  <2>5. k + Above <= n /\ k + Above \in Nat
    BY <1>6, <1>12, <1>13, <2>4
  <2>6. k + Above <= Whole /\ k + Above <= at
    BY <1>1, <1>3, <1>6, <1>7, <2>5
  <2>7. k + Above \in Rows(Whole)
    BY <1>12, <1>13, <2>6, RowOfRecord
  <2>8. Cardinality(Rows(k + Above)) = Place(k)
    <3>1. Cardinality(Rows(k + Above)) = Cardinality({j \in Back : j + Above <= k + Above})
      BY <2>5, <2>6, RowsAreBack
    <3>2. \A j, m \in Nat, a \in {0, 1} : j + a <= m + a <=> j <= m
      OBVIOUS
    <3>3. {j \in Back : j + Above <= k + Above} = {j \in Back : j <= k}
      BY <1>1, <1>12, <1>13, <3>2
    <3>4. QED
      BY <3>1, <3>3 DEF Place
  <2>9. file[k + Above] = Line(acked[k])
    BY <1>2, <1>12, <1>13
  <2>10. QED
    BY <1>5, <2>6, <2>7, <2>8, <2>9
<1>14. Len(produced) <= Cardinality(Back) + IF Torn THEN 1 ELSE 0
  BY <1>8, <1>10, <1>11
<1>15. ASSUME reading = "eof", closed = "ok" \/ kind # "csv"
       PROVE  Len(produced) >= Cardinality(Back) /\ \A k \in DOMAIN acked : ~Unreadable(k)
  <2>1. ASSUME NEW k \in 1..Len(acked) PROVE k + Above \in 1..Whole
    <3>1. k + Above \in Nat /\ k + Above > 0
      BY <1>1, <2>1
    <3>2. k + Above <= Whole
      <4>1. SinkTypeOK /\ Written /\ Len(acked) > 0
        BY <1>1, <3>1 DEF IInv, SinkInv
      <4>2. acked # <<>> /\ Len(Wanted) = Len(acked) + Above
        BY <4>1, LinesSoFar
      <4>3. durable >= 2 * Len(Wanted) /\ durable \in Nat
        <5>1. CASE kind # "csv"
          BY <4>1, <5>1 DEF Written, SinkTypeOK
        <5>2. CASE kind = "csv"
          <6>1. closed = "ok" /\ durable = 2 * Len(file) /\ file = Wanted
            BY <1>15, <4>1, <5>2 DEF Written
          <6>2. Len(Wanted) \in Nat
            BY <1>1, <4>2
          <6>3. QED
            BY <6>1, <6>2
        <5>3. QED
          BY <5>1, <5>2
      <4>4. PICK w \in Nat : w = Len(acked) + Above
        BY <1>1
      <4>5. durable >= 2 * w /\ durable = IF Torn THEN 2 * Whole + 1 ELSE 2 * Whole
        BY <4>2, <4>3, <4>4, WholeLines
      <4>6. Whole >= w
        BY <1>1, <4>4, <4>5
      <4>7. k + Above <= w
        BY <1>1, <2>1, <4>4
      <4>8. QED
        BY <1>1, <3>1, <4>4, <4>6, <4>7
    <3>3. QED
      BY <1>1, <3>1, <3>2
  <2>2. ASSUME NEW k \in 1..Len(acked), ~Skipped(file[k + Above]) PROVE k + Above <= at
    <3>1. k + Above \in 1..Whole
      BY <2>1, <2>2
    <3>2. k + Above \notin at + 1..Whole
      BY <1>5, <1>15, <2>2
    <3>3. QED
      BY <1>1, <1>3, <3>1, <3>2
  <2>3. ASSUME NEW k \in Back PROVE k + Above <= n
    <3>1. k \in 1..Len(acked) /\ k + Above \in 1..Whole
      BY <1>12, <2>1, <2>3
    <3>2. k + Above \in Rows(Whole)
      BY <1>1, <2>3, <3>1, RowOfRecord
    <3>3. k + Above <= at
      BY <2>2, <3>1, <3>2 DEF Rows
    <3>4. QED
      BY <1>1, <1>7, <3>1, <3>3
  <2>4. {k \in Back : k + Above <= n} = Back
    BY <2>3
  <2>5. c = Cardinality(Back)
    BY <1>9, <2>4
  <2>6. ASSUME NEW k \in 1..Len(acked), Unreadable(k) PROVE FALSE
    <3>1. Bad(file[k + Above]) /\ k + Above \in 1..Whole
      BY <1>2, <2>1, <2>6 DEF Unreadable, Bad, TooLong
    <3>2. ~Skipped(file[k + Above])
      BY <3>1, SkippedNotBad
    <3>3. k + Above <= at
      BY <2>2, <2>6, <3>2
    <3>4. QED
      BY <1>5, <1>15, <3>1, <3>3
  <2>7. QED
    BY <1>1, <1>8, <1>10, <2>5, <2>6
<1>16. ASSUME reading = "error", ~Torn PROVE \E k \in DOMAIN acked : Unreadable(k) /\ Len(produced) = k - 1
  <2>1. ~(at > Whole) /\ at <= Whole
    BY <1>1, <1>3, <1>16
  <2>2. Bad(file[at]) /\ at \in 1..Whole
    BY <1>1, <1>3, <1>5, <1>16, <2>1
  <2>3. TooLong(file[at]) /\ kind # "csv" /\ Above = 0
    BY <1>2, <2>2 DEF Bad, TooLong, Above
  <2>4. at \in 1..Len(acked) /\ at + Above = at
    BY <1>1, <2>2, <2>3
  <2>5. Unreadable(at)
    BY <1>2, <2>3, <2>4 DEF TooLong, Unreadable
  <2>6. \A k \in 1..at - 1 : k \in Back
    <3>1. SUFFICES ASSUME NEW k \in 1..at - 1 PROVE k \in Back
      OBVIOUS
    <3>2. k \in 1..Len(acked) /\ k \in 1..Whole /\ k <= at /\ k # at /\ k + Above = k
      BY <1>1, <2>2, <2>3, <2>4
    <3>3. ~Bad(file[k]) /\ file[k] = Line(acked[k])
      BY <1>2, <1>5, <3>2
    <3>4. ~Unreadable(k)
      BY <3>3 DEF Unreadable, Bad, TooLong
    <3>5. QED
      BY <1>1, <2>3, <3>2, <3>4 DEF Back
  <2>7. {k \in Back : k + Above <= at} = 1..at - 1
    <3>1. at \notin Back
      BY <2>5 DEF Back
    <3>2. \A k \in Back : k \in Nat /\ k >= 1 /\ k # at
      BY <1>1, <1>12, <2>3, <3>1
    <3>3. \A k \in Nat : k >= 1 /\ k # at /\ k + Above <= at <=> k \in 1..at - 1
      BY <2>2, <2>3
    <3>4. \A k \in 1..at - 1 : k \in Nat
      OBVIOUS
    <3>5. QED
      BY <2>6, <3>2, <3>3, <3>4
  <2>8. Cardinality(1..at - 1) = at - 1
    <3>1. 1 \in Int /\ at - 1 \in Int /\ (IF 1 > at - 1 THEN 0 ELSE at - 1 - 1 + 1) = at - 1
      BY <1>3, <2>2
    <3>2. QED
      BY <3>1, FS_Interval
  <2>9. n = at /\ Len(produced) = at - 1
    BY <1>6, <1>9, <1>10, <1>16, <2>1, <2>7, <2>8
  <2>10. QED
    BY <1>1, <2>4, <2>5, <2>9
<1>17. QED
  BY <1>13, <1>14, <1>15, <1>16

LEMMA InRange == \A n \in Nat : \A k \in 1..n : k \in Nat
OBVIOUS

LEMMA NotNone == \A n \in Nat : \A k \in 1..n : n > 0
OBVIOUS

LEMMA FirstBelow == \A n \in Nat : \A h \in 1..n : h # 1 => 1 \in 1..h - 1
OBVIOUS

LEMMA Halves == \A n \in Nat : (2 * n) \div 2 = n /\ (2 * n) % 2 # 1
OBVIOUS

(* Every row of a sink is read under the sink's columns. *)
LEMMA ColumnsRead ==
  ASSUME IInv, ReadInv, ~Foreigner, Nameable, kind = "csv",
         NEW k \in Back, k + Above \in Rows(Whole), k + Above <= at
  PROVE  columns = [i \in DOMAIN headers |-> Name(headers[i])]
<1>1. /\ k \in 1..Len(acked) /\ Len(acked) \in Nat /\ Above = 1 /\ Whole \in Nat /\ Visible(acked[k])
  BY OwnLines DEF Back, Above
<1>2. file[1] = <<"row", headers>>
  <2>1. acked # <<>>
    BY <1>1, NothingYet
  <2>2. QED
    BY <2>1, OwnLines
<1>3. at \in Nat /\ at # 0 /\ reading # "not yet"
  <2>1. at \in Nat /\ (reading = "not yet" => at = 0)
    BY DEF ReadInv, ReadSoFar
  <2>2. at # 0
    <3>1. \A j, n \in Nat : n = 0 => ~(j + 1 <= n)
      OBVIOUS
    <3>2. k \in Nat
      BY <1>1, InRange
    <3>3. k + 1 <= at
      BY <1>1
    <3>4. QED
      BY <2>1, <3>1, <3>2, <3>3
  <2>3. QED
    BY <2>1, <2>2
<1>4. ~EmptyLine(file[1])
  <2>1. headers # <<>>
    <3>1. ASSUME headers = <<>> PROVE FALSE
      <4>1. ToSet(headers) = {} /\ Len(headers) = 0
        BY <3>1, NothingIn, NothingYet DEF ToSet
      <4>2. QED
        BY <1>1, <4>1 DEF Visible
    <3>2. QED
      BY <3>1
  <2>2. headers # <<"">>
    BY DEF Nameable
  <2>3. file[1][2] = headers
    BY <1>2
  <2>4. QED
    BY <2>1, <2>2, <2>3 DEF EmptyLine
<1>5. 1 \in 1..Whole
  <2>1. k + Above \in 1..Whole
    BY DEF Rows
  <2>2. QED
    BY <1>1, <2>1
<1>6. PICK h \in 1..at : HeaderAt(h)
  <2>1. at > 0
    <3>1. \A j \in Nat : j # 0 => j > 0
      OBVIOUS
    <3>2. QED
      BY <1>3, <3>1
  <2>2. QED
    BY <1>4, <1>5, <2>1 DEF ReadInv, ReadSoFar
<1>7. h = 1
  <2>1. h # 1 => 1 \in 1..h - 1
    BY <1>3, FirstBelow
  <2>2. QED
    BY <1>4, <1>6, <2>1 DEF HeaderAt
<1>8. HeaderAt(1) /\ ~Bad(file[1]) /\ file[1][2] = headers
  BY <1>2, <1>6, <1>7 DEF Bad, TooLong
<1>9. QED
  BY <1>8 DEF HeaderAt, Cells, Name

LEMMA ReadInvRoundTrip == IInv /\ ReadInv => RoundTrip
<1> SUFFICES ASSUME IInv, ReadInv, kind # "quarantine", ~Foreigner, Nameable
             PROVE
               /\ \A k \in Back : Place(k) <= Len(produced) /\ (Place(k) < Len(produced) \/ ~Torn) =>
                     Same(produced[Place(k)], acked[k])
               /\ Len(produced) <= Cardinality(Back) + IF Torn THEN 1 ELSE 0
               /\ reading = "eof" /\ closed = "ok" =>
                     Len(produced) >= Cardinality(Back) /\ \A i \in DOMAIN acked : ~Unreadable(i)
               /\ reading = "error" =>
                     Torn \/ \E i \in DOMAIN acked : Unreadable(i) /\ Len(produced) = i - 1
  BY DEF RoundTrip, Nameable
<1>1. ASSUME NEW k \in Back, Place(k) <= Len(produced), Place(k) < Len(produced) \/ ~Torn
      PROVE  Same(produced[Place(k)], acked[k])
  <2>1. /\ produced[Place(k)] = Record(Line(acked[k]))
        /\ k + Above \in Rows(Whole) /\ k + Above <= at
    BY <1>1, RecordsComeBack
  <2>2. CASE kind = "csv"
    <3>1. columns = [i \in DOMAIN headers |-> Name(headers[i])]
      BY <1>1, <2>1, <2>2, ColumnsRead
    <3>2. Line(acked[k]) = Row(headers, acked[k])
      BY <2>2 DEF Line
    <3>3. SameText(Record(Row(headers, acked[k])), acked[k])
      BY <2>2, <3>1, RowIsText DEF IInv
    <3>4. QED
      BY <2>1, <2>2, <3>2, <3>3 DEF Same
  <2>3. CASE kind = "jsonl"
    <3>1. acked[k] \in Records
      <4>1. acked \in Seq(Records) /\ k \in DOMAIN acked
        BY <1>1, <2>3 DEF IInv, SinkTypeOK, Back
      <4>2. QED
        BY <4>1, ElementOfSeq, LenProperties
    <3>2. Line(acked[k]) = JSONLine(acked[k]) /\ Record(Line(acked[k])) = Line(acked[k])[2]
      BY <2>3 DEF Line, Record
    <3>3. SameJSON(JSONLine(acked[k])[2], acked[k])
      BY <3>1, LineKeepsRecord
    <3>4. QED
      BY <2>1, <2>3, <3>2, <3>3 DEF Same
  <2>4. QED
    BY <2>2, <2>3 DEF IInv, SinkTypeOK
<1>2. QED
  BY <1>1, RecordsComeBack

(* Of objects every record that comes back has its own place: none of those *)
(* before it has a line that is too long.                                  *)
LEMMA PlaceOfObject ==
  ASSUME IInv, ReadInv, ~Foreigner, kind # "csv", NEW i \in DOMAIN acked,
         i <= Len(produced), i < Len(produced) \/ ~Torn
  PROVE  i \in Back /\ Place(i) = i
<1>1. /\ Len(acked) \in Nat /\ DOMAIN acked = 1..Len(acked) /\ Above = 0
      /\ Whole \in Nat /\ Whole <= Len(acked)
      /\ \A k \in 1..Whole : file[k] = Line(acked[k])
  <2>1. Len(acked) \in Nat /\ Above = 0 /\ Whole \in Nat /\ Whole <= Len(acked) + Above
    BY OwnLines DEF Above
  <2>2. \A k \in 1..Len(acked) : file[k + Above] = Line(acked[k])
    BY OwnLines
  <2>3. \A k \in 1..Whole : k \in 1..Len(acked) /\ k + Above = k
    BY <2>1
  <2>4. \A k \in 1..Whole : file[k] = Line(acked[k])
    BY <2>2, <2>3
  <2>5. QED
    BY <2>1, <2>4, OwnLines
<1>2. /\ at \in Nat /\ at <= Whole + 1 /\ (at > Whole => Torn) /\ Len(produced) \in Nat
      /\ at <= Whole => Len(produced) = Cardinality(Rows(at))
      /\ at > Whole => Len(produced) - Cardinality(Rows(Whole)) \in {0, 1}
  BY LenProperties DEF ReadInv, ReadSoFar
<1>3. \A k \in 1..Whole : k <= at /\ Bad(file[k]) => k = at
  BY DEF ReadInv, ReadSoFar
<1>4. PICK n \in Nat : n = IF at <= Whole THEN at ELSE Whole
  BY <1>1, <1>2
<1>5. PICK c \in Nat : c = Cardinality(Rows(n))
  BY RowsFinite, FS_CardinalityType
<1>6. Len(produced) = c \/ (Torn /\ Len(produced) = c + 1)
  BY <1>1, <1>2, <1>4, <1>5
<1>7. i \in Nat /\ i >= 1 /\ i <= c
  BY <1>1, <1>2, <1>6
<1>8. ASSUME NEW m \in Nat, Rows(n) \subseteq 1..m PROVE c <= m
  <2>1. IsFiniteSet(1..m) /\ Cardinality(1..m) = m
    <3>1. 1 \in Int /\ m \in Int /\ (IF 1 > m THEN 0 ELSE m - 1 + 1) = m
      BY <1>8
    <3>2. QED
      BY <3>1, FS_Interval
  <2>2. QED
    BY <1>5, <1>8, <2>1, FS_Subset
<1>9. Rows(n) \subseteq 1..n
  BY DEF Rows
<1>10. i <= n /\ n <= Whole /\ n <= at
  <2>1. c <= n
    BY <1>8, <1>9
  <2>2. QED
    BY <1>1, <1>2, <1>4, <1>7, <2>1
<1>11. ~Bad(file[i])
  <2>1. SUFFICES ASSUME Bad(file[i]) PROVE FALSE
    OBVIOUS
  <2>2. i = n
    <3>1. i \in 1..Whole /\ i <= at
      BY <1>1, <1>2, <1>7, <1>10
    <3>2. i = at
      BY <1>3, <2>1, <3>1
    <3>3. QED
      BY <1>2, <1>10, <3>2
  <2>3. n \notin Rows(n)
    BY <2>1, <2>2 DEF Rows
  <2>4. \A k \in 1..n : k # n => k \in 1..n - 1
    BY <1>4
  <2>5. Rows(n) \subseteq 1..n - 1 /\ n - 1 \in Nat
    BY <1>7, <1>9, <2>2, <2>3, <2>4
  <2>6. QED
    BY <1>7, <1>8, <2>2, <2>5
<1>12. ASSUME NEW k \in 1..i PROVE k \in Back
  <2>1. k \in 1..Whole /\ k \in 1..Len(acked) /\ k <= at /\ (k = at => k = i)
    BY <1>1, <1>2, <1>7, <1>10
  <2>2. ~Bad(file[k])
    BY <1>3, <1>11, <2>1
  <2>3. ~Unreadable(k)
    BY <1>1, <2>1, <2>2 DEF Unreadable, Bad, TooLong
  <2>4. QED
    BY <1>1, <2>1, <2>3 DEF Back
<1>13. {k \in Back : k <= i} = 1..i
  <2>1. \A k \in Back : k \in 1..Len(acked)
    BY <1>1 DEF Back
  <2>2. \A k \in 1..Len(acked) : k <= i => k \in 1..i
    BY <1>1, <1>7
  <2>3. \A k \in 1..i : k <= i
    OBVIOUS
  <2>4. QED
    BY <1>12, <2>1, <2>2, <2>3
<1>14. Cardinality(1..i) = i
  <2>1. 1 \in Int /\ i \in Int /\ (IF 1 > i THEN 0 ELSE i - 1 + 1) = i
    BY <1>7
  <2>2. QED
    BY <2>1, FS_Interval
<1>15. i \in 1..i
  BY <1>7
<1>16. QED
  BY <1>12, <1>13, <1>14, <1>15 DEF Place

LEMMA ReadInvKeepsEvidence == IInv /\ ReadInv => QuarantineKeepsEvidence
<1> SUFFICES ASSUME IInv, ReadInv, kind = "quarantine",
                    NEW i \in DOMAIN produced \cap DOMAIN acked, i < Len(produced) \/ ~Torn
             PROVE  Evidence(produced[i], acked[i])
  BY DEF QuarantineKeepsEvidence
<1>1. ~Foreigner
  BY NothingIn DEF ReadInv
<1>2. i <= Len(produced)
  <2>1. produced \in Seq(ToSet(produced))
    BY DEF ReadInv, ReadSoFar
  <2>2. DOMAIN produced = 1..Len(produced) /\ Len(produced) \in Nat
    BY <2>1, LenProperties
  <2>3. QED
    BY <2>2
<1>3. i \in Back /\ Place(i) = i
  BY <1>1, <1>2, PlaceOfObject
<1>4. produced[i] = Record(Line(acked[i]))
  <2>1. Nameable
    BY DEF Nameable
  <2>2. QED
    BY <1>1, <1>2, <1>3, <2>1, RecordsComeBack
<1>5. acked[i] \in Rejections
  <2>1. acked \in Seq(Rejections) /\ i \in DOMAIN acked
    BY DEF IInv, SinkTypeOK
  <2>2. QED
    BY <2>1, ElementOfSeq, LenProperties
<1>6. Record(Line(acked[i])) = JSONLine(Spread(acked[i]))[2]
  BY DEF Line, Record
<1>7. QED
  BY <1>4, <1>5, <1>6, LineKeepsEvidence

-----------------------------------------------------------------------------
(* What is read of a file from elsewhere.                                  *)

LEMMA ForeignLines ==
  ASSUME IInv, ReadInv, Foreigner
  PROVE  /\ DOMAIN file = 1..Len(file) /\ Len(file) \in Nat
         /\ Whole = Len(file) /\ ~Torn /\ at \in Nat /\ at <= Len(file)
<1>1. file \in Foreign[kind] /\ kind \in DOMAIN Foreign
  BY ConstantsAssumption DEF IInv, SinkTypeOK, ReadInv
<1>2. DOMAIN file = 1..Len(file) /\ Len(file) \in Nat
  BY <1>1, ConstantsAssumption, ForeignAssumption
<1>3. durable = 2 * Len(file)
  BY DEF ReadInv
<1>4. Whole = Len(file) /\ ~Torn
  BY <1>2, <1>3, Halves DEF Whole, Torn
<1>5. at \in Nat /\ at <= Whole + 1 /\ (at > Whole => Torn)
  BY DEF ReadInv, ReadSoFar
<1>6. QED
  BY <1>2, <1>4, <1>5

LEMMA CellsOfRow ==
  ASSUME NEW line \in {<<"bad">>} \cup ({"row"} \X Seq(STRING)), line[1] # "bad"
  PROVE  line[2] \in Seq(STRING)
<1>1. line # <<"bad">>
  OBVIOUS
<1>2. line \in {"row"} \X Seq(STRING)
  BY <1>1
<1>3. QED
  BY <1>2

LEMMA WithinBounds ==
  ASSUME NEW n \in Nat, NEW m \in Nat, m <= n, NEW i \in 1..m
  PROVE  /\ i \in 1..n /\ i <= m /\ (i < m => i # m)
         /\ \A j \in 1..i - 1 : j \in 1..n
         /\ \A j \in 1..i - 1, h \in 1..m : j \notin 1..h - 1 => h < m
OBVIOUS

(* Behind the line of the columns there is a number of them. *)
LEMMA ForeignColumns ==
  ASSUME IInv, ReadInv, kind = "csv", Foreigner, reading # "not yet", NEW i \in Rows(at)
  PROVE  /\ Len(columns) \in Nat /\ DOMAIN columns = 1..Len(columns)
         /\ Len(file[i][2]) \in Nat /\ DOMAIN file[i][2] = 1..Len(file[i][2])
<1>1. file \in Foreign["csv"] /\ "csv" \in DOMAIN Foreign
  BY ConstantsAssumption DEF ReadInv
<1>2. PICK n \in Nat : DOMAIN file = 1..n /\ Whole = n /\ at <= n
  BY ForeignLines
<1>3. at \in Nat
  BY ForeignLines
<1>4. \A j \in DOMAIN file : file[j][1] # "bad" => file[j][2] \in Seq(STRING)
  <2>1. \A j \in DOMAIN file : file[j] \in {<<"bad">>} \cup ({"row"} \X Seq(STRING))
    BY <1>1, ForeignAssumption
  <2>2. QED
    BY <2>1, CellsOfRow
<1>5. Behind(i) /\ file[i][1] # "bad"
  BY DEF Rows, Bad
<1>6. i \in 1..at
  BY DEF Rows
<1>7. PICK j \in 1..i - 1 : ~EmptyLine(file[j])
  BY <1>5 DEF Behind
<1>8. PICK h \in 1..at : HeaderAt(h)
  <2>1. j \in 1..Whole
    BY <1>2, <1>3, <1>6, <1>7, WithinBounds
  <2>2. at > 0
    BY <1>3, <1>6, NotNone, Zenon
  <2>3. QED
    BY <1>7, <2>1, <2>2 DEF ReadInv, ReadSoFar
<1>9. h < at /\ h \in DOMAIN file
  <2>1. j \notin 1..h - 1
    BY <1>7, <1>8 DEF HeaderAt
  <2>2. QED
    BY <1>2, <1>3, <1>6, <1>7, <1>8, <2>1, WithinBounds
<1>10. ~Bad(file[h]) /\ file[h][1] # "bad"
  <2>1. h \in 1..Whole /\ h <= at
    BY <1>2, <1>3, <1>8, WithinBounds
  <2>2. h # at
    BY <1>2, <1>3, <1>8, <1>9, WithinBounds
  <2>3. ~Bad(file[h])
    BY <2>1, <2>2 DEF ReadInv, ReadSoFar
  <2>4. QED
    BY <2>3 DEF Bad
<1>11. file[i][2] \in Seq(STRING)
  <2>1. i \in DOMAIN file
    BY <1>2, <1>3, <1>6, WithinBounds
  <2>2. QED
    BY <1>4, <1>5, <2>1
<1>12. file[h][2] \in Seq(STRING) /\ columns = [k \in DOMAIN file[h][2] |-> Trim(Cells(file[h])[k])]
  BY <1>4, <1>8, <1>9, <1>10 DEF HeaderAt
<1>13. PICK w \in Nat : w = Len(file[h][2]) /\ DOMAIN file[h][2] = 1..w
  BY <1>12, LenProperties
<1>14. columns \in [1..w -> {columns[k] : k \in 1..w}]
  BY <1>12, <1>13
<1>15. columns \in Seq({columns[k] : k \in 1..w})
  BY <1>14, SeqDef
<1>16. QED
  BY <1>11, <1>15, LenProperties

(* At the end all its rows were read; of one with a line that is not        *)
(* well-formed, those before the first such line.                          *)
LEMMA ReadInvForeign == IInv /\ ReadInv => ForeignRead
<1> DEFINE bad    == {i \in DOMAIN file : Bad(file[i])}
           header == {i \in DOMAIN file : kind = "csv" /\ \A j \in 1..i - 1 : EmptyLine(file[j])}
           rows   == {i \in DOMAIN file \ header : (\A j \in bad : i < j) /\ ~Skipped(file[i])}
           width(i) == Min({Len(columns), Len(file[i][2])})
<1> SUFFICES ASSUME IInv, ReadInv, Foreigner, reading \in {"eof", "error"}
             PROVE  /\ reading = "error" <=> bad # {}
                    /\ Len(produced) = Cardinality(rows)
                    /\ kind = "csv" => \A i \in rows :
                          LET out == produced[Cardinality({j \in rows : j <= i})]
                          IN  /\ DOMAIN out = {columns[k] : k \in 1..width(i)}
                              /\ width(i) > 0 => out[columns[width(i)]] = <<"text", Cells(file[i])[width(i)]>>
  BY DEF ForeignRead
<1>1. DOMAIN file = 1..Len(file) /\ Len(file) \in Nat
  BY ForeignLines
<1>2. Whole = Len(file) /\ ~Torn
  BY ForeignLines
<1>3. /\ at \in Nat /\ at <= Len(file)
      /\ Len(produced) = Cardinality(Rows(at))
      /\ \A i \in Rows(Len(file)) : i <= at => produced[Cardinality(Rows(i))] = Record(file[i])
      /\ \A i \in 1..Len(file) : i <= at /\ Bad(file[i]) => i = at /\ reading = "error"
      /\ reading = "error" => at > 0 /\ Bad(file[at])
      /\ reading = "eof" => \A i \in at + 1..Len(file) : Skipped(file[i])
  <2>1. at \in Nat /\ at <= Len(file)
    BY ForeignLines
  <2>2. ~(at > Whole)
    BY <1>1, <1>2, <2>1
  <2>3. Len(produced) = Cardinality(Rows(at))
    BY <1>2, <2>1 DEF ReadInv, ReadSoFar
  <2>4. \A i \in Rows(Len(file)) : i <= at => produced[Cardinality(Rows(i))] = Record(file[i])
    BY <1>2 DEF ReadInv, ReadSoFar
  <2>5. \A i \in 1..Len(file) : i <= at /\ Bad(file[i]) => i = at /\ reading = "error"
    BY <1>2 DEF ReadInv, ReadSoFar
  <2>6. reading = "error" => at > 0 /\ Bad(file[at])
    BY <2>2 DEF ReadInv, ReadSoFar
  <2>7. reading = "eof" => \A i \in at + 1..Len(file) : Skipped(file[i])
    BY <1>2 DEF ReadInv, ReadSoFar
  <2>8. QED
    BY <2>1, <2>3, <2>4, <2>5, <2>6, <2>7
<1>4. \A line : Skipped(line) => ~Bad(line)
  BY SkippedNotBad
<1>5. \A i \in 1..Len(file) : i \notin header <=> Behind(i)
  BY <1>1 DEF Behind
<1>6. (reading = "error" <=> bad # {}) /\ rows = Rows(at)
  <2>1. CASE reading = "eof"
    <3>1. \A i \in 1..Len(file) : i <= at \/ i \in at + 1..Len(file)
      BY <1>1, <1>3
    <3>2. bad = {}
      BY <1>1, <1>3, <1>4, <2>1, <3>1
    <3>3. \A i \in rows : i \in 1..Len(file) /\ Behind(i) /\ ~Skipped(file[i]) /\ i <= at /\ ~Bad(file[i])
      BY <1>1, <1>3, <1>5, <2>1, <3>1, <3>2
    <3>4. \A i \in 1..Len(file) : i <= at => i \in 1..at
      BY <1>1
    <3>5. \A i \in Rows(at) : i \in 1..Len(file) /\ Behind(i) /\ ~Skipped(file[i])
      BY <1>1, <1>3 DEF Rows
    <3>6. rows \subseteq Rows(at)
      BY <3>3, <3>4 DEF Rows
    <3>7. Rows(at) \subseteq rows
      BY <1>1, <1>5, <3>2, <3>5
    <3>8. QED
      BY <2>1, <3>2, <3>6, <3>7
  <2>2. CASE reading = "error"
    <3>1. at \in bad
      BY <1>1, <1>3, <2>2
    <3>2. \A j \in bad : j \in 1..Len(file) /\ (j <= at => j = at)
      BY <1>1, <1>3
    <3>3. \A j \in bad : at <= j
      BY <1>3, <3>2
    <3>4. \A i \in rows : i \in 1..Len(file) /\ i \in 1..at /\ i < at /\ Behind(i) /\ ~Skipped(file[i])
      BY <1>1, <1>3, <1>5, <3>1
    <3>5. rows \subseteq Rows(at)
      <4>1. \A i \in rows : ~Bad(file[i])
        BY <1>1, <3>2, <3>4
      <4>2. QED
        BY <3>4, <4>1 DEF Rows
    <3>6. \A i \in Rows(at) : i \in 1..Len(file) /\ Behind(i) /\ ~Skipped(file[i]) /\ i < at
      <4>1. at \notin Rows(at)
        BY <1>3, <2>2 DEF Rows
      <4>2. \A i \in 1..at : i = at \/ i < at
        BY <1>3
      <4>3. \A i \in Rows(at) : i \in 1..at /\ i \in 1..Len(file) /\ Behind(i) /\ ~Skipped(file[i])
        BY <1>1, <1>3 DEF Rows
      <4>4. QED
        BY <4>1, <4>2, <4>3
    <3>7. \A i \in Rows(at) : \A j \in bad : i < j
      BY <1>3, <3>2, <3>3, <3>6
    <3>8. Rows(at) \subseteq rows
      BY <1>1, <1>5, <3>6, <3>7
    <3>9. QED
      BY <2>2, <3>1, <3>5, <3>8
  <2>3. QED
    BY <2>1, <2>2
<1> HIDE DEF bad, header, rows
<1>7. ASSUME kind = "csv", NEW i \in rows
      PROVE  LET out == produced[Cardinality({j \in rows : j <= i})]
             IN  /\ DOMAIN out = {columns[k] : k \in 1..width(i)}
                 /\ width(i) > 0 => out[columns[width(i)]] = <<"text", Cells(file[i])[width(i)]>>
  <2>1. i \in Rows(at) /\ i \in 1..at /\ i \in Rows(Len(file)) /\ i <= at
    BY <1>1, <1>3, <1>6, <1>7 DEF Rows
  <2>2. {j \in rows : j <= i} = Rows(i)
    <3>1. \A j \in 1..at : j <= i <=> j \in 1..i
      BY <1>3, <2>1
    <3>2. 1..i \subseteq 1..at
      BY <1>3, <2>1
    <3>3. QED
      BY <1>6, <3>1, <3>2 DEF Rows
  <2>3. produced[Cardinality({j \in rows : j <= i})] = Record(file[i])
    BY <1>3, <2>1, <2>2
  <2>4. /\ Len(columns) \in Nat /\ DOMAIN columns = 1..Len(columns)
        /\ Len(file[i][2]) \in Nat /\ DOMAIN file[i][2] = 1..Len(file[i][2])
    BY <1>7, <2>1, ForeignColumns
  <2>5. PICK w : w = width(i)
    OBVIOUS
  <2>6. /\ DOMAIN Record(file[i]) = {columns[k] : k \in 1..w}
        /\ w > 0 => Record(file[i])[columns[w]] = <<"text", Cells(file[i])[w]>>
    BY <1>7, <2>4, <2>5, RaggedRow
  <2>7. QED
    BY <2>3, <2>5, <2>6
<1>8. QED
  BY <1>3, <1>6, <1>7

-----------------------------------------------------------------------------
(* The line of a rejected record names every error that is not nil in the  *)
(* order of the pipeline, with the field, the rule and the value of a       *)
(* validation error, and the stage and the time, and beside them the record *)
(* (quarantine/jsonl.go Write): as far as JSON has its values, integers as  *)
(* floats that differ in no more than the digits a float64 does not have,   *)
(* times and bytes as texts.  That holds for all records, those among them  *)
(* that bring the reserved keys along, and wherever a write or the process  *)
(* fails.                                                                  *)
THEOREM EvidenceKept == Spec => []QuarantineKeepsEvidence
BY ReadingInv, ReadInvKeepsEvidence, PTL

(* What a sink acknowledged (sink/csv.go, sink/jsonl.go Write) its source   *)
(* reads back (source/csv.go, source/jsonl.go Read) as far as the format    *)
(* has its values: every record once and in order, whatever the buffer let  *)
(* out and wherever a write, a Close, a read or the process fails.  An      *)
(* error or a record too many comes only from a torn line; but the JSONL    *)
(* source ends at the first line that is too long for it, acknowledged or   *)
(* not, with an error and never with the end of the stream.  A file from    *)
(* elsewhere is read to its end, or to the first line that is too long or   *)
(* not well-formed; a ragged row fills the columns it reaches.             *)
THEOREM FilesReadBack == Spec => []ReadBack
<1>1. IInv /\ ReadInv => ReadBack
  BY ReadInvRoundTrip, ReadInvForeign DEF ReadBack
<1>2. QED
  BY <1>1, ReadingInv, PTL
=============================================================================
