---------------------------- MODULE WindowProofs ----------------------------
(***************************************************************************)
(* Theorems about SlidingWindow for any number of adders and records and   *)
(* every capacity of the channel, and about CountWindow for every count.   *)
(***************************************************************************)
EXTENDS Windows, SequenceTheorems, TLAPS

LEMMA AppendGrows ==
  ASSUME NEW S, NEW s \in Seq(S), NEW x \in S
  PROVE  /\ Append(s, x) # <<>>
         /\ Len(Append(s, x)) = Len(s) + 1 /\ Len(s) \in Nat
         /\ DOMAIN Append(s, x) = 1..Len(s) + 1 /\ DOMAIN s = 1..Len(s)
         /\ \A k \in 1..Len(s) : Append(s, x)[k] = s[k]
         /\ Append(s, x)[Len(s) + 1] = x
BY AppendProperties, LenProperties

LEMMA InitIInv == Init => IInv
<1> SUFFICES ASSUME Init PROVE IInv
  OBVIOUS
<1>1. TypeOK
  BY ConstantsAssumption DEF Init, TypeOK
<1>2. Conserved
  BY DEF Init, Conserved, Consecutive, LastSent, Unsent
<1>3. QED
  BY <1>1, <1>2 DEF Init, IInv

(* Every step keeps the state well typed. *)
LEMMA TypeStep == ASSUME TypeOK, [Next]_vars PROVE TypeOK'
<1> USE ConstantsAssumption DEF TypeOK, window, channel
<1>1. ASSUME NEW a \in Adders, CallAdd(a) PROVE TypeOK'
  BY <1>1 DEF CallAdd
<1>2. ASSUME NEW a \in Adders, Add(a) PROVE TypeOK'
  BY <1>2 DEF Add
<1>3. CASE Start BY <1>3 DEF Start
<1>4. CASE Tick BY <1>4 DEF Tick
<1>5. CASE TakeTick BY <1>5 DEF TakeTick
<1>6. CASE SeeHalt BY <1>6 DEF SeeHalt
<1>7. CASE Lock BY <1>7 DEF Lock, AfterLock, Unlocked
<1>8. CASE Send
  <2>1. Append(sent, records) \in Seq(Seq(Nat)) /\ Len(Append(sent, records)) = Len(sent) + 1
    BY AppendProperties
  <2>2. QED
    BY <1>8, <2>1 DEF Send, Room
<1>9. CASE Clear BY <1>9 DEF Clear, NoRecords, Unlocked
<1>10. CASE Receive BY <1>10 DEF Receive
<1>11. CASE Leave BY <1>11 DEF Leave
<1>12. CASE Halt BY <1>12 DEF Halt
<1>13. CASE UNCHANGED vars BY <1>13 DEF vars
<1>14. QED
  BY <1>1, <1>2, <1>3, <1>4, <1>5, <1>6, <1>7, <1>8, <1>9, <1>10, <1>11, <1>12, <1>13
     DEF Next, Flush

(* While the flusher waits for room, nothing leaves the window. *)
LEMMA SendingStep ==
  ASSUME IInv, [Next]_vars
  PROVE  flusher' = "sending" => records' # <<>>
<1> USE DEF IInv, TypeOK, window, channel
<1>1. ASSUME NEW a \in Adders, Add(a) PROVE flusher' = "sending" => records' # <<>>
  BY <1>1 DEF Add, LockFree
<1>2. CASE Lock BY <1>2 DEF Lock, AfterLock, Unlocked
<1>3. CASE Clear BY <1>3 DEF Clear, Unlocked
<1>4. QED
  BY <1>1, <1>2, <1>3
     DEF Next, Flush, CallAdd, Start, Tick, TakeTick, SeeHalt, Send, Receive, Leave, Halt, vars

(* Two steps move records: Add appends the next one to the window, Send    *)
(* makes the whole window the next batch.                                  *)
LEMMA ConservedStep == ASSUME IInv, [Next]_vars PROVE Conserved'
<1> USE DEF IInv, window, channel
<1>1. ASSUME NEW a \in Adders, Add(a) PROVE Conserved'
  <2>1. flusher \notin {"sending", "clearing"} /\ UNCHANGED <<flusher, sent>> /\ added' = added + 1
    BY <1>1 DEF Add, LockFree
  <2>2. Unsent = records /\ Unsent' = records' /\ LastSent' = LastSent
    BY <2>1 DEF Unsent, LastSent
  <2>3. /\ Len(records') = Len(records) + 1 /\ Len(records) \in Nat
        /\ DOMAIN records = 1..Len(records) /\ DOMAIN records' = 1..Len(records) + 1
        /\ \A i \in 1..Len(records) : records'[i] = records[i]
        /\ records'[Len(records) + 1] = added + 1 /\ records' # <<>>
    BY <1>1 DEF Add, TypeOK
  <2>4. added = LastSent + Len(records) /\ added \in Nat
    BY <2>2 DEF Conserved, TypeOK
  <2>5. LastSent \in Nat
    <3>1. CASE sent = <<>>
      BY <3>1 DEF LastSent
    <3>2. CASE sent # <<>>
      <4>1. Len(sent) \in DOMAIN sent /\ sent[Len(sent)] \in Seq(Nat) /\ sent[Len(sent)] # <<>>
        BY <3>2, LenProperties, EmptySeq DEF TypeOK, Conserved
      <4>2. QED
        BY <3>2, <4>1 DEF LastSent
    <3>3. QED
      BY <3>1, <3>2
  <2>6. records'[1] = LastSent + 1
    <3>1. CASE records = <<>>
      BY <2>3, <2>4, <2>5, <3>1
    <3>2. CASE records # <<>>
      <4>1. 1 \in 1..Len(records)
        BY <2>3, <3>2 DEF TypeOK
      <4>2. QED
        BY <2>2, <2>3, <3>2, <4>1 DEF Conserved
    <3>3. QED
      BY <3>1, <3>2
  <2>7. Consecutive(records')
    <3> SUFFICES ASSUME NEW i \in DOMAIN records' PROVE records'[i] = records'[1] + (i - 1)
      BY DEF Consecutive
    <3>1. CASE i = Len(records) + 1
      BY <2>3, <2>4, <2>5, <2>6, <3>1
    <3>2. CASE i \in 1..Len(records)
      BY <2>2, <2>3, <3>2 DEF Conserved, Consecutive
    <3>3. QED
      BY <2>3, <3>1, <3>2
  <2>8. added' = LastSent + Len(records')
    BY <2>1, <2>3, <2>4, <2>5
  <2>9. QED
    BY <2>1, <2>2, <2>6, <2>7, <2>8 DEF Conserved, Consecutive
<1>2. CASE Send
  <2>1. records # <<>> /\ Unsent = records /\ Unsent' = <<>>
    BY <1>2 DEF Send, Unsent
  <2>2. /\ sent' = Append(sent, records) /\ sent' # <<>>
        /\ Len(sent') = Len(sent) + 1 /\ Len(sent) \in Nat
        /\ DOMAIN sent' = 1..Len(sent) + 1 /\ DOMAIN sent = 1..Len(sent)
        /\ \A k \in 1..Len(sent) : sent'[k] = sent[k]
        /\ sent'[Len(sent) + 1] = records
    <3>1. sent' = Append(sent, records)
      BY <1>2 DEF Send
    <3>2. sent \in Seq(Seq(Nat)) /\ records \in Seq(Nat)
      BY DEF TypeOK
    <3>3. QED
      BY <3>1, <3>2, AppendGrows
  <2>3. records[1] = LastSent + 1 /\ Consecutive(records)
    BY <2>1 DEF Conserved
  <2>4. LastSent' = records[Len(records)]
    BY <2>2 DEF LastSent
  <2>5. added' = LastSent' + Len(Unsent')
    <3>1. Len(records) \in DOMAIN records /\ records \in Seq(Nat)
      BY <2>1 DEF TypeOK
    <3>2. records[Len(records)] = records[1] + (Len(records) - 1) /\ records[1] \in Nat
      BY <2>1, <2>3, <3>1 DEF Consecutive
    <3>3. added' = LastSent + Len(records) /\ added \in Nat /\ added' = added
      BY <1>2, <2>1 DEF Send, Conserved, TypeOK
    <3>4. LastSent = records[1] - 1
      <4>1. LastSent \in Nat
        <5>1. CASE sent = <<>>
          BY <5>1 DEF LastSent
        <5>2. CASE sent # <<>>
          <6>1. Len(sent) \in DOMAIN sent /\ sent[Len(sent)] \in Seq(Nat) /\ sent[Len(sent)] # <<>>
            BY <5>2, LenProperties, EmptySeq DEF TypeOK, Conserved
          <6>2. QED
            BY <5>2, <6>1 DEF LastSent
        <5>3. QED
          BY <5>1, <5>2
      <4>2. QED
        BY <2>3, <4>1
    <3>5. QED
      BY <2>1, <2>4, <3>1, <3>2, <3>3, <3>4
  <2>6. ASSUME NEW k \in DOMAIN sent'
        PROVE  /\ sent'[k] # <<>> /\ Consecutive(sent'[k])
               /\ sent'[k][1] = IF k = 1 THEN 1 ELSE sent'[k - 1][Len(sent'[k - 1])] + 1
    <3>1. CASE k = Len(sent) + 1
      <4>1. CASE sent = <<>>
        BY <2>1, <2>2, <2>3, <3>1, <4>1 DEF LastSent
      <4>2. CASE sent # <<>>
        <5>1. k # 1 /\ k - 1 = Len(sent) /\ Len(sent) \in 1..Len(sent)
          BY <2>2, <3>1, <4>2, EmptySeq DEF TypeOK
        <5>2. sent'[k - 1] = sent[Len(sent)]
          BY <2>2, <5>1
        <5>3. QED
          BY <2>1, <2>2, <2>3, <3>1, <4>2, <5>1, <5>2 DEF LastSent
      <4>3. QED
        BY <4>1, <4>2
    <3>2. CASE k \in 1..Len(sent)
      <4>1. sent'[k] = sent[k] /\ (k # 1 => sent'[k - 1] = sent[k - 1])
        BY <2>2, <3>2
      <4>2. QED
        BY <2>2, <3>2, <4>1 DEF Conserved
    <3>3. QED
      BY <2>2, <3>1, <3>2
  <2>7. QED
    BY <2>1, <2>5, <2>6 DEF Conserved, Consecutive
<1>3. CASE Clear
  BY <1>3 DEF Clear, NoRecords, Unlocked, Conserved, Unsent, LastSent, Consecutive
<1>4. CASE Lock
  BY <1>4 DEF Lock, AfterLock, Unlocked, Conserved, Unsent, LastSent, Consecutive
<1>5. CASE UNCHANGED <<records, added, sent>> /\ (flusher = "clearing" <=> flusher' = "clearing")
  BY <1>5 DEF Conserved, Unsent, LastSent, Consecutive
<1>6. QED
  BY <1>1, <1>2, <1>3, <1>4, <1>5
     DEF Next, Flush, CallAdd, Start, Tick, TakeTick, SeeHalt, Receive, Leave, Halt, vars

LEMMA Inductive == Spec => []IInv
<1>1. IInv /\ [Next]_vars => IInv'
  BY TypeStep, SendingStep, ConservedStep DEF IInv
<1>2. QED
  BY InitIInv, <1>1, PTL DEF Spec

(* Every record added is in exactly one batch or still in the window, in   *)
(* the order they were added: see Conserved.  The window is emptied at      *)
(* every tick, since the code never reads the duration it is given.        *)
THEOREM NothingLost == Spec => []Conserved
BY Inductive, PTL DEF IInv

-----------------------------------------------------------------------------
(* CountWindow.                                                            *)

LEMMA SizeIsPositive == CW!Size \in Nat \ {0} /\ (CW!Size # 1 => CW!Size = Count)
BY CountAssumption DEF CW!Size

LEMMA CountInit == CW!Init => CW!IInv
<1> SUFFICES ASSUME CW!Init PROVE CW!IInv
  OBVIOUS
<1> DEFINE N == CW!Size
<1>1. batch = <<>> /\ counted = 0 /\ call = "idle" /\ passed = <<>>
  BY DEF CW!Init
<1>2. N \in Nat \ {0}
  BY SizeIsPositive
<1> HIDE DEF N
<1>3. Len(batch) = 0 /\ Len(passed) = 0 /\ N * 0 = 0 /\ DOMAIN passed = {}
  BY <1>1, <1>2
<1>4. batch = [i \in 1..counted - N * Len(passed) |-> N * Len(passed) + i]
  BY <1>1, <1>2, <1>3
<1>5. CW!TypeOK
  BY <1>1 DEF CW!TypeOK
<1>6. QED
  BY <1>1, <1>2, <1>3, <1>4, <1>5 DEF CW!IInv, CW!BatchesExact, N

(* A record joins the window, which is handed over when it is complete.    *)
LEMMA CountAdd == ASSUME CW!IInv, CW!AddRecord PROVE CW!IInv'
<1> DEFINE N == CW!Size
           B == N * Len(passed)
<1>1. N \in Nat \ {0} /\ (N # 1 => N = Count)
  BY SizeIsPositive
<1>2. /\ batch \in Seq(Nat) /\ counted \in Nat /\ passed \in Seq(Seq(Nat)) /\ Len(passed) \in Nat
      /\ Len(batch) \in Nat /\ DOMAIN batch = 1..Len(batch)
  BY LenProperties DEF CW!IInv, CW!TypeOK
<1>3. B \in Nat /\ counted = B + Len(batch)
  <2>1. counted = B + Len(batch)
    BY DEF CW!IInv
  <2> HIDE DEF N
  <2>2. B \in Nat
    BY <1>1, <1>2
  <2>3. QED
    BY <2>1, <2>2
<1>4. /\ call = "idle" /\ counted' = counted + 1 /\ batch' = Append(batch, counted + 1)
      /\ call' = IF Len(batch') >= Count THEN "full" ELSE "idle"
      /\ passed' = passed
  BY DEF CW!AddRecord, CW!Complete
<1>5. Len(batch) < N /\ \A i \in DOMAIN batch : batch[i] = B + i
  BY <1>4 DEF CW!IInv, CW!BatchesExact
<1> HIDE DEF B, N
<1>6. /\ batch' \in Seq(Nat) /\ Len(batch') = Len(batch) + 1 /\ DOMAIN batch' = 1..Len(batch) + 1
      /\ \A i \in 1..Len(batch) : batch'[i] = batch[i]
      /\ batch'[Len(batch) + 1] = counted + 1
  BY <1>2, <1>4, AppendProperties
<1>7. batch' = [i \in 1..counted' - B |-> B + i]
  <2>1. counted' - B = Len(batch) + 1
    BY <1>2, <1>3, <1>4
  <2>2. ASSUME NEW i \in 1..Len(batch) + 1 PROVE batch'[i] = B + i
    <3>1. CASE i = Len(batch) + 1
      BY <1>2, <1>3, <1>6, <3>1
    <3>2. CASE i \in 1..Len(batch)
      BY <1>2, <1>5, <1>6, <3>2
    <3>3. QED
      BY <1>2, <3>1, <3>2
  <2>3. batch' = [i \in 1..Len(batch) + 1 |-> batch'[i]]
    BY <1>6
  <2>4. QED
    BY <2>1, <2>2, <2>3
<1>8. Len(batch') <= N /\ (call' = "idle" => Len(batch') < N) /\ (call' = "full" => Len(batch') = N)
  BY <1>1, <1>2, <1>4, <1>5, <1>6, CountAssumption DEF N, CW!Size
<1>9. CW!BatchesExact'
  BY <1>4, <1>7, <1>8 DEF CW!IInv, CW!BatchesExact, B, N, CW!Size
<1>10. CW!TypeOK'
  BY <1>2, <1>4, <1>6 DEF CW!TypeOK
<1>11. counted' = B + Len(batch')
  BY <1>2, <1>3, <1>4, <1>6
<1>12. QED
  BY <1>4, <1>8, <1>9, <1>10, <1>11 DEF CW!IInv, B, N, CW!Size

(* The complete window becomes a batch.                                    *)
LEMMA CountSend == ASSUME CW!IInv, CW!Send PROVE CW!IInv'
<1> DEFINE N == CW!Size
           L == Len(passed)
<1>1. N \in Nat \ {0}
  BY SizeIsPositive
<1>2. /\ batch \in Seq(Nat) /\ counted \in Nat /\ passed \in Seq(Seq(Nat)) /\ L \in Nat
      /\ DOMAIN passed = 1..L
  BY LenProperties DEF CW!IInv, CW!TypeOK
<1>3. /\ passed' = Append(passed, batch) /\ batch' = <<>> /\ call' = "idle" /\ counted' = counted
      /\ Len(batch) = N
  BY DEF CW!Send, CW!IInv
<1>4. counted = N * L + N
  BY <1>3 DEF CW!IInv
<1>5. batch = [i \in 1..counted - N * L |-> N * L + i]
  BY DEF CW!IInv, CW!BatchesExact
<1>6. \A k \in 1..L : passed[k] = [i \in 1..N |-> (k - 1) * N + i]
  BY <1>2 DEF CW!IInv, CW!BatchesExact
<1>7. /\ passed' \in Seq(Seq(Nat)) /\ Len(passed') = L + 1 /\ DOMAIN passed' = 1..L + 1
      /\ \A k \in 1..L : passed'[k] = passed[k]
      /\ passed'[L + 1] = batch
  BY <1>2, <1>3, AppendProperties
<1> HIDE DEF N, L
<1>8. N * L \in Nat /\ N * (L + 1) = N * L + N /\ ((L + 1) - 1) * N = N * L
  BY <1>1, <1>2
<1>9. batch = [i \in 1..N |-> ((L + 1) - 1) * N + i]
  BY <1>1, <1>4, <1>5, <1>8
<1>10. \A k \in DOMAIN passed' : passed'[k] = [i \in 1..N |-> (k - 1) * N + i]
  <2> SUFFICES ASSUME NEW k \in 1..L + 1 PROVE passed'[k] = [i \in 1..N |-> (k - 1) * N + i]
    BY <1>7
  <2>1. CASE k = L + 1
    BY <1>7, <1>9, <2>1
  <2>2. CASE k \in 1..L
    BY <1>6, <1>7, <2>2
  <2>3. QED
    BY <1>2, <2>1, <2>2
<1>11. counted' - N * Len(passed') = 0 /\ Len(batch') = 0 /\ N * Len(passed') \in Nat
  BY <1>1, <1>2, <1>3, <1>4, <1>7, <1>8
<1>12. batch' = [i \in 1..counted' - N * Len(passed') |-> N * Len(passed') + i]
  <2>1. 1..counted' - N * Len(passed') = {}
    BY <1>11
  <2>2. QED
    BY <1>3, <2>1
<1>13. CW!BatchesExact'
  BY <1>1, <1>10, <1>11, <1>12 DEF CW!BatchesExact, N, CW!Size
<1>14. CW!TypeOK'
  BY <1>2, <1>3, <1>7 DEF CW!TypeOK
<1>15. counted' = N * Len(passed') + Len(batch')
  BY <1>3, <1>4, <1>7, <1>8, <1>11
<1>16. QED
  BY <1>3, <1>13, <1>14, <1>15 DEF CW!IInv, N, CW!Size

(* Every batch of a count window is exact, and so is what it keeps.        *)
THEOREM CountsExact == WindowsSpec => []BatchesExact
<1>1. WindowsInit => CW!IInv
  BY CountInit DEF WindowsInit
<1>2. CW!IInv /\ [WindowsNext]_<<kind, vars, counting>> => CW!IInv'
  <2> SUFFICES ASSUME CW!IInv, [WindowsNext]_<<kind, vars, counting>> PROVE CW!IInv'
    OBVIOUS
  <2>1. CASE CW!Next
    <3>1. CASE CW!Receive
      BY <3>1 DEF CW!Receive, CW!IInv, CW!TypeOK, CW!BatchesExact, CW!Size
    <3>2. QED
      BY <2>1, <3>1, CountAdd, CountSend DEF CW!Next
  <2>2. CASE UNCHANGED counting
    BY <2>2 DEF counting, CW!IInv, CW!TypeOK, CW!BatchesExact, CW!Size
  <2>3. QED
    BY <2>1, <2>2 DEF WindowsNext
<1>3. CW!IInv => BatchesExact
  BY DEF CW!IInv, BatchesExact
<1>4. QED
  BY <1>1, <1>2, <1>3, PTL DEF WindowsSpec
=============================================================================
