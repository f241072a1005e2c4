--------------------------- MODULE FileTailProofs ---------------------------
(***************************************************************************)
(* Theorems about FileTail for files of every length and every limit on a  *)
(* line.                                                                   *)
(***************************************************************************)
EXTENDS FileTail, SequenceTheorems, WellFoundedInduction, TLAPS

(* A set of naturals has a least element. *)
LEMMA LeastNatural ==
  ASSUME NEW T, T \subseteq Nat, T # {}
  PROVE  \E x \in T : \A y \in T : x <= y
<1> DEFINE R == {ss \in Nat \X Nat : ss[1] < ss[2]}
<1>1. IsWellFoundedOn(R, Nat)
  BY NatLessThanWellFounded DEF OpToRel
<1>2. \A x, y \in Nat : y < x => <<y, x>> \in R
  OBVIOUS
<1> HIDE DEF R
<1>3. PICK x \in T : \A y \in T : ~(<<y, x>> \in R)
  BY <1>1, WFMin
<1>4. \A y \in T : ~(y < x)
  BY <1>2, <1>3, Zenon
<1>5. \A y \in T : x <= y
  BY <1>4
<1>6. QED
  BY <1>5

(* The scanner's next line ends at the first newline it holds. *)
LEMMA NextNewlineIsFirst ==
  ASSUME TypeOK, Newlines # {}
  PROVE  /\ NextNewline \in start + 1..pos /\ file[NextNewline] = "newline"
         /\ \A i \in start + 1..NextNewline - 1 : file[i] # "newline"
<1>1. start \in Nat /\ pos \in Nat
  BY DEF TypeOK
<1>2. Newlines \subseteq Nat /\ Newlines \subseteq start + 1..pos
  BY <1>1 DEF Newlines
<1>3. \E i \in Newlines : \A j \in Newlines : i <= j
  BY <1>2, LeastNatural
<1>4. NextNewline \in Newlines /\ \A j \in Newlines : NextNewline <= j
  BY <1>3 DEF NextNewline
<1>5. ASSUME NEW i \in start + 1..NextNewline - 1 PROVE file[i] # "newline"
  <2>1. i \in start + 1..pos /\ ~(NextNewline <= i)
    BY <1>1, <1>2, <1>4, <1>5
  <2>2. i \notin Newlines
    BY <1>4, <2>1
  <2>3. QED
    BY <2>1, <2>2 DEF Newlines
<1>6. QED
  BY <1>2, <1>4, <1>5 DEF Newlines

LEMMA LineTypes ==
  ASSUME TypeOK, NEW k \in DOMAIN lines
  PROVE  lines[k].from \in Nat /\ lines[k].to \in Nat
<1>1. lines[k] \in [from: Nat, to: Nat]
  BY ElementOfSeq, LenProperties DEF TypeOK
<1>2. QED
  BY <1>1

(* What one more record does to those returned. *)
LEMMA ReturnStep ==
  ASSUME TypeOK, NEW to \in Nat, to > start, Return(to)
  PROVE  /\ lines' \in Seq([from: Nat, to: Nat]) /\ Len(lines) \in Nat
         /\ DOMAIN lines = 1..Len(lines) /\ DOMAIN lines' = 1..Len(lines) + 1
         /\ \A k \in 1..Len(lines) : lines'[k] = lines[k]
         /\ lines'[Len(lines) + 1] = [from |-> start + 1, to |-> to]
         /\ Len(lines') = Len(lines) + 1
<1>1. lines \in Seq([from: Nat, to: Nat]) /\ [from |-> start + 1, to |-> to] \in [from: Nat, to: Nat]
  BY DEF TypeOK
<1>2. lines' = Append(lines, [from |-> start + 1, to |-> to])
  BY DEF Return
<1>3. QED
  BY <1>1, <1>2, AppendProperties, LenProperties

(* The two actions that return a record, as far as the invariant goes. *)
LEMMA ReturnsLine ==
  ASSUME TypeOK, ReturnLine \/ ReturnRest
  PROVE  \E to \in start + 1..pos :
            /\ Return(to)
            /\ \A i \in start + 1..to - 1 : file[i] # "newline"
            /\ file[to] # "newline" => latch # "none" /\ to = pos
<1>1. start \in Nat /\ pos \in Nat /\ pos <= Len(file) /\ Len(file) \in Nat
  BY LenProperties DEF TypeOK
<1>2. CASE ReturnLine
  BY <1>2, NextNewlineIsFirst DEF ReturnLine
<1>3. CASE ReturnRest
  <2>1. \A i \in start + 1..pos : file[i] # "newline"
    BY <1>3 DEF ReturnRest, Newlines
  <2>2. QED
    BY <1>1, <1>3, <2>1 DEF ReturnRest, AtEOF
<1>4. QED
  BY <1>2, <1>3

LEMMA InitIInv == Init => IInv
<1> SUFFICES ASSUME Init PROVE IInv
  OBVIOUS
<1>1. PICK n \in 0..MaxUnits : file \in [1..n -> Units]
  BY DEF Init
<1>2. n \in Nat
  BY ConstantsAssumption
<1>3. file \in Seq(Units) /\ Len(file) \in Nat
  BY <1>1, <1>2
<1>4. TypeOK
  BY <1>3, ConstantsAssumption DEF Init, TypeOK
<1>5. QED
  BY <1>4 DEF Init, IInv, Gapless, Behind, TornIsLast, Returned

(* Every step keeps the state well typed, and the file only grows. *)
LEMMA TypeStep ==
  ASSUME TypeOK, [Next]_vars
  PROVE  /\ TypeOK' /\ Len(file) \in Nat /\ Len(file') \in Nat /\ Len(file) <= Len(file')
         /\ \A i \in 1..Len(file) : file'[i] = file[i]
<1> USE ConstantsAssumption DEF TypeOK, scanner
<1>1. Len(file) \in Nat /\ DOMAIN file = 1..Len(file)
  BY LenProperties
<1>2. CASE Open BY <1>1, <1>2 DEF Open, FirstOffset
<1>3. CASE CallRead BY <1>1, <1>3 DEF CallRead
<1>4. CASE Select BY <1>1, <1>4 DEF Select
<1>5. CASE ReturnLine \/ ReturnRest
  <2>1. PICK to \in start + 1..pos : Return(to)
    BY <1>5, ReturnsLine
  <2>2. to \in Nat /\ to > start
    BY <1>1, <2>1
  <2>3. lines' \in Seq([from: Nat, to: Nat])
    BY <2>1, <2>2, ReturnStep
  <2>4. QED
    BY <1>1, <1>5, <2>1, <2>2, <2>3 DEF ReturnLine, ReturnRest, Return
<1>6. CASE ScanFails BY <1>1, <1>6 DEF ScanFails
<1>7. CASE Fetch
  <2>1. /\ start \in Nat /\ pos \in Nat /\ MaxLine \in Nat
        /\ start <= pos /\ pos <= Len(file) /\ pos <= start + MaxLine
    BY <1>1
  <2>2. pos' \in Nat /\ pos <= pos' /\ pos' <= Len(file) /\ pos' <= start + MaxLine
    <3>1. CASE pos' \in {k \in pos + 1..Len(file) : k <= BufferEnd}
      BY <1>1, <2>1, <3>1 DEF BufferEnd
    <3>2. CASE pos' = pos
      BY <2>1, <3>2
    <3>3. QED
      BY <1>7, <3>1, <3>2 DEF Fetch
  <2>3. UNCHANGED <<file, atOpen, start, pc, ctx, lines>>
    BY <1>7 DEF Fetch
  <2>4. start' \in 0..pos' /\ pos' \in 0..Len(file') /\ pos' <= start' + MaxLine
    BY <2>1, <2>2, <2>3
  <2>5. latch' \in {"none", "eof", "error", "tooLong"}
    BY <1>7 DEF Fetch
  <2>6. QED
    BY <1>1, <2>3, <2>4, <2>5
<1>8. CASE TooLong BY <1>1, <1>8 DEF TooLong
<1>9. CASE Wake BY <1>1, <1>9 DEF Wake
<1>10. CASE Close BY <1>1, <1>10 DEF Close
<1>11. CASE Grow
  <2>1. PICK u \in Units : file' = Append(file, u)
    BY <1>11 DEF Grow
  <2>2. /\ file' \in Seq(Units) /\ Len(file') = Len(file) + 1
        /\ \A i \in 1..Len(file) : file'[i] = file[i]
    BY <2>1, AppendProperties
  <2>3. QED
    BY <1>1, <1>11, <2>2 DEF Grow
<1>12. CASE Cancel BY <1>1, <1>12 DEF Cancel
<1>13. CASE UNCHANGED vars BY <1>1, <1>13 DEF vars
<1>14. QED
  BY <1>2, <1>3, <1>4, <1>5, <1>6, <1>7, <1>8, <1>9, <1>10, <1>11, <1>12, <1>13
     DEF Next, ReadStep

(* A step either returns a record or leaves those returned as they are; the *)
(* scanner's start only moves with a record, or when Open sets it to zero.  *)
LEMMA LinesStep ==
  ASSUME IInv, [Next]_vars, ~(ReturnLine \/ ReturnRest)
  PROVE  lines' = lines /\ Returned' = start' /\ start' \in Nat /\ start <= start'
<1> USE DEF IInv, TypeOK, Gapless, Behind, scanner
<1>1. CASE Open BY <1>1 DEF Open, FirstOffset, Returned
<1>2. CASE ~Open
  BY <1>2 DEF Next, ReadStep, CallRead, Select, ScanFails, Fetch, TooLong, Wake, Close, Grow, Cancel,
              vars, Returned
<1>3. QED
  BY <1>1, <1>2

LEMMA BehindStep == ASSUME IInv, [Next]_vars PROVE Behind'
<1>1. start \in Nat
  BY DEF IInv, TypeOK
<1>2. CASE ReturnLine \/ ReturnRest
  <2>1. PICK to \in start + 1..pos : Return(to)
    BY <1>2, ReturnsLine DEF IInv
  <2>2. to \in Nat /\ to > start
    BY <1>1, <2>1 DEF IInv, TypeOK
  <2>3. /\ DOMAIN lines = 1..Len(lines) /\ DOMAIN lines' = 1..Len(lines) + 1 /\ Len(lines) \in Nat
        /\ \A k \in 1..Len(lines) : lines'[k] = lines[k]
        /\ lines'[Len(lines) + 1] = [from |-> start + 1, to |-> to]
    BY <2>1, <2>2, ReturnStep DEF IInv
  <2>4. \A k \in 1..Len(lines) : lines[k].to \in Nat
    BY <2>3, LineTypes DEF IInv
  <2>5. start' = to /\ pc' = "idle"
    BY <2>1 DEF Return
  <2>6. QED
    BY <1>1, <2>2, <2>3, <2>4, <2>5 DEF IInv, Behind
<1>3. CASE ~(ReturnLine \/ ReturnRest)
  <2>1. lines' = lines /\ start' \in Nat /\ start <= start'
    BY <1>3, LinesStep
  <2>2. \A k \in DOMAIN lines : lines[k].to \in Nat
    BY LineTypes DEF IInv
  <2>3. pc' = "new" => pc = "new"
    BY <1>3 DEF IInv, TypeOK, Next, ReadStep, Open, CallRead, Select, ScanFails, Fetch, TooLong, Wake,
                Close, Grow, Cancel, vars
  <2>4. QED
    BY <1>1, <2>1, <2>2, <2>3 DEF IInv, Behind
<1>4. QED
  BY <1>2, <1>3

(* What the records cover of the file does not change as the file grows.   *)
LEMMA CoveredStep ==
  ASSUME IInv, [Next]_vars, NEW k \in DOMAIN lines
  PROVE  \A i \in lines[k].from..lines[k].to : file'[i] = file[i]
<1>1. lines[k].from \in Nat /\ lines[k].to \in Nat /\ 1 <= lines[k].from /\ lines[k].to <= start
  BY LineTypes DEF IInv, Behind
<1>2. start <= Len(file) /\ Len(file) \in Nat /\ start \in Nat
  BY TypeStep DEF IInv, TypeOK
<1>3. QED
  BY <1>1, <1>2, TypeStep DEF IInv

LEMMA GaplessStep == ASSUME IInv, [Next]_vars PROVE Gapless'
<1>1. start \in Nat /\ pos \in Nat /\ pos <= Len(file) /\ Len(file) \in Nat
  BY TypeStep DEF IInv, TypeOK
<1>2. CASE ReturnLine \/ ReturnRest
  <2>1. PICK to \in start + 1..pos : Return(to) /\ \A i \in start + 1..to - 1 : file[i] # "newline"
    BY <1>2, ReturnsLine DEF IInv
  <2>2. to \in Nat /\ to > start
    BY <1>1, <2>1
  <2>3. /\ DOMAIN lines = 1..Len(lines) /\ DOMAIN lines' = 1..Len(lines) + 1 /\ Len(lines) \in Nat
        /\ \A k \in 1..Len(lines) : lines'[k] = lines[k]
        /\ lines'[Len(lines) + 1] = [from |-> start + 1, to |-> to] /\ Len(lines') = Len(lines) + 1
    BY <2>1, <2>2, ReturnStep DEF IInv
  <2>4. start' = to /\ file' = file
    BY <1>2, <2>1 DEF Return, ReturnLine, ReturnRest
  <2>5. Returned' = to
    <3>1. lines' # <<>> /\ lines'[Len(lines')].to = to
      BY <2>3
    <3>2. QED
      BY <3>1 DEF Returned
  <2>6. ASSUME NEW k \in DOMAIN lines'
        PROVE  /\ lines'[k].from = IF k = 1 THEN 1 ELSE lines'[k - 1].to + 1
               /\ lines'[k].from <= lines'[k].to
               /\ \A i \in lines'[k].from..lines'[k].to - 1 : file'[i] # "newline"
    <3>1. CASE k \in 1..Len(lines)
      <4>1. lines'[k] = lines[k] /\ (k # 1 => lines'[k - 1] = lines[k - 1])
        BY <2>3, <3>1
      <4>2. QED
        BY <2>3, <2>4, <3>1, <4>1 DEF IInv, Gapless
    <3>2. CASE k = Len(lines) + 1
      <4>1. lines'[k].from = start + 1 /\ lines'[k].to = to
        BY <2>3, <3>2
      <4>2. start = IF k = 1 THEN 0 ELSE lines'[k - 1].to
        <5>1. CASE Len(lines) = 0
          <6>1. lines = <<>>
            BY <2>3, <5>1, EmptySeq DEF IInv, TypeOK
          <6>2. QED
            BY <3>2, <5>1, <6>1 DEF IInv, Gapless, Returned
        <5>2. CASE Len(lines) # 0
          <6>1. lines # <<>> /\ lines'[k - 1] = lines[Len(lines)] /\ k # 1
            BY <2>3, <3>2, <5>2
          <6>2. QED
            BY <6>1 DEF IInv, Gapless, Returned
        <5>3. QED
          BY <5>1, <5>2
      <4>3. QED
        BY <1>1, <2>1, <2>2, <2>4, <4>1, <4>2
    <3>3. QED
      BY <2>3, <3>1, <3>2
  <2>7. QED
    BY <2>4, <2>5, <2>6 DEF Gapless
<1>3. CASE ~(ReturnLine \/ ReturnRest)
  <2>1. lines' = lines /\ Returned' = start'
    BY <1>3, LinesStep
  <2>2. ASSUME NEW k \in DOMAIN lines, NEW i \in lines[k].from..lines[k].to - 1
        PROVE  file'[i] # "newline"
    <3>1. file[i] # "newline"
      BY <2>2 DEF IInv, Gapless
    <3>2. i \in lines[k].from..lines[k].to
      BY <2>2, LineTypes DEF IInv
    <3>3. QED
      BY <3>1, <3>2, CoveredStep
  <2>3. QED
    BY <2>1, <2>2 DEF IInv, Gapless
<1>4. QED
  BY <1>2, <1>3

LEMMA TornStep == ASSUME IInv, [Next]_vars PROVE TornIsLast'
<1>1. start \in Nat /\ pos \in Nat /\ pos <= Len(file) /\ Len(file) \in Nat
  BY TypeStep DEF IInv, TypeOK
<1>2. CASE ReturnLine \/ ReturnRest
  <2>1. PICK to \in start + 1..pos : Return(to) /\ (file[to] # "newline" => latch # "none" /\ to = pos)
    BY <1>2, ReturnsLine DEF IInv
  <2>2. to \in Nat /\ to > start
    BY <1>1, <2>1
  <2>3. /\ DOMAIN lines = 1..Len(lines) /\ DOMAIN lines' = 1..Len(lines) + 1 /\ Len(lines) \in Nat
        /\ \A k \in 1..Len(lines) : lines'[k] = lines[k]
        /\ lines'[Len(lines) + 1] = [from |-> start + 1, to |-> to] /\ Len(lines') = Len(lines) + 1
    BY <2>1, <2>2, ReturnStep DEF IInv
  <2>4. start' = to /\ UNCHANGED <<file, pos, latch>>
    BY <1>2, <2>1 DEF Return, ReturnLine, ReturnRest
  <2>5. ASSUME NEW k \in DOMAIN lines', file'[lines'[k].to] # "newline"
        PROVE  k = Len(lines') /\ latch' # "none" /\ start' = pos'
    <3>1. CASE k = Len(lines) + 1
      BY <2>1, <2>3, <2>4, <2>5, <3>1
    <3>2. CASE k \in 1..Len(lines)
      <4>1. file[lines[k].to] # "newline"
        BY <2>3, <2>4, <2>5, <3>2
      <4>2. start = pos
        BY <2>3, <3>2, <4>1 DEF IInv, TornIsLast
      <4>3. QED
        BY <1>1, <2>1, <4>2
    <3>3. QED
      BY <2>3, <3>1, <3>2
  <2>6. QED
    BY <2>5 DEF TornIsLast
<1>3. CASE ~(ReturnLine \/ ReturnRest)
  <2>1. lines' = lines
    BY <1>3, LinesStep
  <2>2. ASSUME NEW k \in DOMAIN lines, file'[lines[k].to] # "newline"
        PROVE  k = Len(lines) /\ latch' # "none" /\ start' = pos'
    <3>1. lines[k].to \in lines[k].from..lines[k].to
      BY LineTypes DEF IInv, Gapless
    <3>2. file[lines[k].to] # "newline"
      BY <2>2, <3>1, CoveredStep
    <3>3. k = Len(lines) /\ latch # "none" /\ start = pos
      BY <3>2 DEF IInv, TornIsLast
    <3>4. pc # "new"
      BY DEF IInv, Behind
    <3>5. QED
      BY <1>3, <3>3, <3>4 DEF Next, ReadStep, Open, CallRead, Select, ScanFails, Fetch, NeedsData, TooLong,
                              Wake, Close, Grow, Cancel, vars, scanner
  <2>3. QED
    BY <2>1, <2>2 DEF TornIsLast
<1>4. QED
  BY <1>2, <1>3

LEMMA Inductive == Spec => []IInv
<1>1. IInv /\ [Next]_vars => IInv'
  BY TypeStep, BehindStep, GaplessStep, TornStep DEF IInv
<1>2. QED
  BY InitIInv, <1>1, PTL DEF Spec

(* The records are the lines of the file one after the other, with no gap   *)
(* and no overlap, however the file grows between the reads: see Gapless.   *)
THEOREM LinesInOrder == Spec => []Gapless
BY Inductive, PTL DEF IInv

(* Half of a line is returned as the last record or not at all.             *)
THEOREM TornLineIsLast == Spec => []TornIsLast
BY Inductive, PTL DEF IInv
=============================================================================
