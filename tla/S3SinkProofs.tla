---------------------------- MODULE S3SinkProofs ----------------------------
(***************************************************************************)
(* Theorems about S3Sink for every capacity of the channel and any number  *)
(* of records.                                                             *)
(***************************************************************************)
EXTENDS S3Sink, SequenceTheorems, TLAPS

LEMMA InitIInv == Init => IInv
BY ConstantsAssumption DEF Init, IInv, TypeOK, ProtocolInv, Conserved, Collected

(* A step of either goroutine keeps the state well typed. *)
LEMMA TypeStep == ASSUME TypeOK, [Next]_vars PROVE TypeOK'
<1> USE ConstantsAssumption DEF TypeOK, upload
<1>1. CASE Open BY <1>1 DEF Open
<1>2. CASE CallWrite BY <1>2 DEF CallWrite
<1>3. CASE CallClose BY <1>3 DEF CallClose, AfterCloseCall
<1>4. CASE Send BY <1>4 DEF Send, Room
<1>5. CASE GiveUp BY <1>5 DEF GiveUp
<1>6. CASE CloseReturns BY <1>6 DEF CloseReturns
<1>7. CASE Take BY <1>7 DEF Take, WriteRecord
<1>8. CASE SeeCancel BY <1>8 DEF SeeCancel, StopSilently
<1>9. CASE StartFlush
  <2>1. /\ Append(puts, buffer) \in Seq(Seq(Nat))
        /\ Len(Append(puts, buffer)) = Len(puts) + 1
    BY AppendProperties
  <2>2. object' = object /\ Len(puts) \in Nat /\ (puts' = puts \/ puts' = Append(puts, buffer))
    BY <1>9, LenProperties DEF StartFlush, StopSilently
  <2>3. Len(puts') >= Len(puts) /\ Len(puts') \in Nat
    BY <2>1, <2>2
  <2>4. object' \in 0..Len(puts')
    BY <2>2, <2>3
  <2>5. puts' \in Seq(Seq(Nat))
    BY <2>1, <2>2
  <2>6. QED
    BY <1>9, <2>4, <2>5 DEF StartFlush, StopSilently
<1>10. CASE FinishFlush BY <1>10 DEF FinishFlush, UploaderDone
<1>11. CASE Cancel BY <1>11 DEF Cancel
<1>12. CASE UNCHANGED vars BY <1>12 DEF vars
<1>13. QED
  BY <1>1, <1>2, <1>3, <1>4, <1>5, <1>6, <1>7, <1>8, <1>9, <1>10, <1>11, <1>12
     DEF Next, WriterStep, UploaderStep

(* How far the goroutines can be from each other does not change. *)
LEMMA ProtocolStep == ASSUME IInv, [Next]_vars PROVE ProtocolInv'
<1> USE DEF IInv, TypeOK, ProtocolInv, upload
<1>1. CASE Open BY <1>1 DEF Open
<1>2. CASE CallWrite BY <1>2 DEF CallWrite
<1>3. CASE CallClose BY <1>3 DEF CallClose, AfterCloseCall
<1>4. CASE Send BY <1>4 DEF Send
<1>5. CASE GiveUp BY <1>5 DEF GiveUp
<1>6. CASE CloseReturns BY <1>6 DEF CloseReturns
<1>7. CASE Take BY <1>7 DEF Take
<1>8. CASE SeeCancel BY <1>8 DEF SeeCancel, StopSilently
<1>9. CASE StartFlush
  <2>1. puts = <<>> /\ Append(puts, buffer) # <<>> /\ Len(Append(puts, buffer)) = 1
    BY <1>9, AppendProperties DEF StartFlush
  <2>2. QED
    BY <1>9, <2>1 DEF StartFlush, StopSilently
<1>10. CASE FinishFlush BY <1>10 DEF FinishFlush, UploaderDone
<1>11. CASE Cancel BY <1>11 DEF Cancel
<1>12. CASE UNCHANGED vars BY <1>12 DEF vars
<1>13. QED
  BY <1>1, <1>2, <1>3, <1>4, <1>5, <1>6, <1>7, <1>8, <1>9, <1>10, <1>11, <1>12
     DEF Next, WriterStep, UploaderStep

(* Three steps move records: Send puts one in the channel, Take moves the  *)
(* oldest to the buffer, and StartFlush the buffer to the request.         *)
LEMMA ConservedStep == ASSUME IInv, [Next]_vars PROVE Conserved'
<1> USE DEF IInv, upload
<1>1. CASE Send
  <2>1. puts = <<>> /\ UNCHANGED <<Collected, header>>
    BY <1>1 DEF Send, ProtocolInv, Collected
  <2>2. Collected \in Seq(Nat) /\ Len(Collected) \in Nat
    BY <2>1 DEF TypeOK, Collected
  <2>3. /\ Len(records') = Len(records) + 1 /\ Len(records) \in Nat
        /\ DOMAIN records' = 1..Len(records) + 1
        /\ \A i \in 1..Len(records) : records'[i] = records[i]
        /\ records'[Len(records) + 1] = sent + 1
    BY <1>1 DEF Send, TypeOK
  <2>4. \A i \in DOMAIN records' : records'[i] = Len(Collected) + i
    <3> TAKE i \in DOMAIN records'
    <3>1. CASE i = Len(records) + 1
      BY <2>2, <2>3, <3>1 DEF Conserved
    <3>2. CASE i \in 1..Len(records)
      BY <2>3, <3>2 DEF TypeOK, Conserved
    <3>3. QED
      BY <2>3, <3>1, <3>2
  <2>5. Collected' = Collected /\ header' = header /\ sent' = sent + 1
    BY <1>1, <2>1 DEF Send
  <2>6. sent' = Len(Collected) + Len(records')
    BY <2>2, <2>3, <2>5 DEF Conserved
  <2>7. QED
    BY <2>4, <2>5, <2>6 DEF Conserved
<1>2. CASE Take
  <2>1. puts = <<>> /\ puts' = <<>> /\ records[1] = Len(buffer) + 1
    BY <1>2 DEF Take, ProtocolInv, TypeOK, Conserved, Collected
  <2>2. /\ Len(buffer') = Len(buffer) + 1 /\ buffer' # <<>>
        /\ \A i \in DOMAIN buffer' : buffer'[i] = i
    BY <1>2, <2>1 DEF Take, TypeOK, Conserved, Collected, WriteRecord
  <2>3. /\ Len(records') = Len(records) - 1
        /\ \A i \in DOMAIN records' : records'[i] = records[i + 1] /\ i + 1 \in DOMAIN records
    BY <1>2 DEF Take, TypeOK
  <2>4. header' = 1
    BY <1>2, <2>1 DEF Take, TypeOK, Conserved, Collected
  <2>5. Collected = buffer /\ Collected' = buffer'
    BY <2>1 DEF Collected
  <2>6. \A i \in DOMAIN records' : records'[i] = Len(buffer') + i
    <3> TAKE i \in DOMAIN records'
    <3>1. i \in Nat /\ records[i + 1] = Len(buffer) + (i + 1)
      BY <1>2, <2>3, <2>5 DEF Take, TypeOK, Conserved
    <3>2. QED
      BY <2>2, <2>3, <3>1 DEF TypeOK
  <2>7. sent' = Len(buffer') + Len(records')
    BY <1>2, <2>2, <2>3, <2>5 DEF Take, TypeOK, Conserved
  <2>8. QED
    BY <2>2, <2>4, <2>5, <2>6, <2>7 DEF Conserved
<1>3. CASE StartFlush
  <2>1. puts = <<>>
    BY <1>3 DEF StartFlush, ProtocolInv
  <2>2. Collected' = Collected
    BY <1>3, <2>1 DEF StartFlush, StopSilently, Collected, TypeOK
  <2>3. QED
    BY <1>3, <2>2 DEF StartFlush, Conserved
<1>4. CASE UNCHANGED <<buffer, puts, records, header, sent>>
  BY <1>4 DEF Conserved, Collected
<1>5. QED
  BY <1>1, <1>2, <1>3, <1>4
     DEF Next, WriterStep, UploaderStep, vars, Open, CallWrite, CallClose, GiveUp, CloseReturns,
         SeeCancel, StopSilently, FinishFlush, Cancel

LEMMA Inductive == Spec => []IInv
<1>1. IInv /\ [Next]_vars => IInv'
  BY TypeStep, ProtocolStep, ConservedStep DEF IInv
<1>2. QED
  BY InitIInv, <1>1, PTL DEF Spec

(* What Write accepted was collected or waits in the channel, once and in  *)
(* order, under the header of the first record: see Conserved.             *)
THEOREM NothingLost == Spec => []Conserved
BY Inductive, PTL DEF IInv

(* The one request the sink sends carries every record that was ever       *)
(* accepted: see WholeObject.                                              *)
THEOREM OneWholeObject == Spec => []WholeObject
<1>1. IInv => WholeObject
  <2> SUFFICES ASSUME IInv PROVE WholeObject
    OBVIOUS
  <2>1. CASE puts = <<>>
    BY <2>1 DEF IInv, TypeOK, WholeObject
  <2>2. CASE puts # <<>>
    <3>1. Len(puts) = 1 /\ records = <<>> /\ closed = "yes"
      BY <2>2 DEF IInv, ProtocolInv
    <3>2. puts[1] \in Seq(Nat) /\ sent = Len(puts[1]) + 0
      BY <2>2, <3>1 DEF IInv, TypeOK, Conserved, Collected
    <3>3. QED
      BY <3>1, <3>2 DEF IInv, TypeOK, WholeObject
  <2>3. QED
    BY <2>1, <2>2
<1>2. QED
  BY Inductive, <1>1, PTL
=============================================================================
