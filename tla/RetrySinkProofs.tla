--------------------------- MODULE RetrySinkProofs ---------------------------
(***************************************************************************)
(* Theorems about RetrySink over SQLiteSink for any number of records, any *)
(* limit on the retries and every width of a duration.                     *)
(***************************************************************************)
EXTENDS RetrySink, SequenceTheorems, FiniteSetTheorems, FunctionTheorems, TLAPS

(* A duration that wrapped around is a duration. *)
LEMMA WrapType ==
  ASSUME NEW d \in Int
  PROVE  Wrap(d) \in -(Modulus \div 2)..(Modulus \div 2 - 1)
<1> DEFINE half == Modulus \div 2
<1>1. half \in Nat /\ Modulus = 2 * half
  BY ConstantsAssumption
<1>2. d % Modulus \in 0..Modulus - 1
  BY ConstantsAssumption
<1> HIDE DEF half
<1>3. QED
  BY <1>1, <1>2 DEF Wrap, half

(* What a Write of the inner sink does to its state, by its answer.        *)
LEMMA WriteStep ==
  ASSUME TypeOK, NEW r \in Nat, NEW answer \in {"nil", "error"}, Write(r, answer)
  PROVE  /\ SinkTypeOK' /\ headers' = "set"
         /\ headers = "set" => table' = table
         /\ \/ rows' = rows /\ (answer = "nil" => headers = "nil")
            \/ rows' = Append(rows, r) /\ headers = "set" /\ table = "present"
         /\ headers = "nil" /\ answer = "nil" => table' = "present"
<1>1. CASE WriteFirst(answer)
  BY <1>1 DEF TypeOK, SinkTypeOK, WriteFirst, CreateTable
<1>2. CASE WriteNext(r, answer)
  <2>1. rows \in Seq(Nat) /\ Append(rows, r) \in Seq(Nat)
    BY AppendProperties DEF TypeOK, SinkTypeOK
  <2>2. rows' \in {rows, Append(rows, r)} /\ (rows' = rows \/ table = "present")
    BY <1>2 DEF WriteNext, Insert
  <2>3. QED
    BY <1>2, <2>1, <2>2 DEF TypeOK, SinkTypeOK, WriteNext, Insert
<1>3. QED
  BY <1>1, <1>2 DEF Write

LEMMA InitIInv == Init => IInv
<1> SUFFICES ASSUME Init PROVE IInv
  OBVIOUS
<1>1. Modulus \div 2 \in Nat \ 0..1
  BY ConstantsAssumption
<1>2. TypeOK
  BY <1>1, ConstantsAssumption DEF Init, SinkInit, TypeOK, SinkTypeOK
<1>3. QED
  BY <1>2 DEF Init, SinkInit, IInv, CallerInv, SinkInv, AttemptInv,
              AckedAreRows, TableOrNothing, RowsInOrder

(* Every step keeps the state well typed. *)
LEMMA TypeStep == ASSUME IInv, [Next]_vars PROVE TypeOK'
<1> USE ConstantsAssumption DEF IInv, TypeOK, SinkTypeOK, sink, policy
<1>1. CASE Open BY <1>1 DEF Open
<1>2. CASE CallWrite BY <1>2 DEF CallWrite, CallerInv
<1>3. CASE Succeed
  <2>1. SinkTypeOK'
    BY <1>3, WriteStep DEF Succeed
  <2>2. QED
    BY <1>3, <2>1 DEF Succeed, KeepBackoff, CallerInv
<1>4. CASE Retry
  <2>1. SinkTypeOK'
    BY <1>4, WriteStep DEF Retry
  <2>2. 2 * backoff \in Int
    <3>1. Modulus \div 2 \in Int
      OBVIOUS
    <3>2. QED
      BY <3>1
  <2>3. backoff' \in -(Modulus \div 2)..(Modulus \div 2 - 1)
    BY <1>4, <2>2, WrapType DEF Retry
  <2>4. QED
    BY <1>4, <2>1, <2>3 DEF Retry, AttemptsLeft
<1>5. CASE WaitEnds BY <1>5 DEF WaitEnds, AfterWait
<1>6. CASE WaitCancelled BY <1>6 DEF WaitCancelled
<1>7. CASE Close BY <1>7 DEF Close
<1>8. CASE Cancel BY <1>8 DEF Cancel
<1>9. CASE UNCHANGED vars BY <1>9 DEF vars
<1>10. QED
  BY <1>1, <1>2, <1>3, <1>4, <1>5, <1>6, <1>7, <1>8, <1>9 DEF Next, DoStep

(* Where the caller is, and what is there before the first Write.          *)
LEMMA CallerStep == ASSUME IInv, [Next]_vars PROVE CallerInv' /\ SinkInv'
<1> USE DEF IInv, TypeOK, CallerInv, SinkInv, sink, policy
<1>1. CASE Open BY <1>1 DEF Open
<1>2. CASE CallWrite BY <1>2 DEF CallWrite
<1>3. CASE Succeed
  <2>1. headers' = "set"
    BY <1>3, WriteStep DEF Succeed
  <2>2. QED
    BY <1>3, <2>1 DEF Succeed
<1>4. CASE Retry
  <2>1. headers' = "set"
    BY <1>4, WriteStep DEF Retry
  <2>2. QED
    BY <1>4, <2>1 DEF Retry
<1>5. CASE WaitEnds BY <1>5 DEF WaitEnds, AfterWait
<1>6. CASE WaitCancelled BY <1>6 DEF WaitCancelled
<1>7. CASE Close BY <1>7 DEF Close
<1>8. CASE Cancel BY <1>8 DEF Cancel
<1>9. CASE UNCHANGED vars BY <1>9 DEF vars
<1>10. QED
  BY <1>1, <1>2, <1>3, <1>4, <1>5, <1>6, <1>7, <1>8, <1>9 DEF Next, DoStep

(* Only a Write of the inner sink adds a row, the one of the current record. *)
LEMMA RowsStep ==
  ASSUME IInv, [Next]_vars, rows' # rows
  PROVE  /\ rows' = Append(rows, cur) /\ headers = "set" /\ table = "present"
         /\ cur' = cur /\ cur \in Nat /\ cur > 0 /\ maxRetries' = maxRetries /\ pc = "attempt"
         /\ \/ Succeed /\ acked' = acked + 1 /\ failures' = failures
            \/ Retry /\ acked' = acked /\ failures' = failures + 1
<1> USE DEF IInv, TypeOK, CallerInv, sink, policy
<1>1. Succeed \/ Retry
  BY DEF Next, DoStep, Open, CallWrite, WaitEnds, WaitCancelled, Close, Cancel, vars
<1>2. CASE Succeed BY <1>2, WriteStep DEF Succeed
<1>3. CASE Retry BY <1>3, WriteStep DEF Retry
<1>4. QED
  BY <1>1, <1>2, <1>3

(* The rows after such a step, one by one.                                 *)
LEMMA OneMoreRow ==
  ASSUME IInv, [Next]_vars, rows' # rows
  PROVE  /\ Len(rows') = Len(rows) + 1 /\ Len(rows) \in Nat
         /\ DOMAIN rows = 1..Len(rows) /\ DOMAIN rows' = 1..Len(rows) + 1
         /\ \A k \in 1..Len(rows) : rows'[k] = rows[k]
         /\ rows'[Len(rows) + 1] = cur
<1>1. rows \in Seq(Nat) /\ cur \in Nat /\ rows' = Append(rows, cur)
  BY RowsStep DEF IInv, TypeOK, SinkTypeOK
<1>2. QED
  BY <1>1

(* The rows of the current record are the last ones. *)
LEMMA AttemptStep == ASSUME IInv, [Next]_vars PROVE AttemptInv'
<1> USE DEF IInv, TypeOK, SinkTypeOK, CallerInv, AttemptInv, policy
<1>1. CASE rows' # rows
  <2>1. /\ Len(rows') = Len(rows) + 1 /\ Len(rows) \in Nat
        /\ DOMAIN rows = 1..Len(rows) /\ DOMAIN rows' = 1..Len(rows) + 1
        /\ \A k \in 1..Len(rows) : rows'[k] = rows[k]
        /\ rows'[Len(rows) + 1] = cur
    BY <1>1, OneMoreRow
  <2>2. \A k \in DOMAIN rows' : rows'[k] <= cur'
    BY <1>1, <2>1, RowsStep
  <2>3. pc' \in {"attempt", "wait"} => i' = i + 1 /\ pc = "attempt"
    <3>1. CASE Succeed BY <3>1 DEF Succeed
    <3>2. CASE Retry BY <3>2 DEF Retry
    <3>3. QED BY <1>1, <3>1, <3>2, RowsStep
  <2>4. pc' \in {"attempt", "wait"} => \A k \in DOMAIN rows' : rows'[k] = cur' => Len(rows') - k < i'
    <3>1. cur' = cur /\ pc = "attempt" /\ i \in Nat
      BY <1>1, RowsStep
    <3>2. \A k \in 1..Len(rows) : rows[k] = cur => Len(rows) - k < i
      BY <2>1, <3>1
    <3>3. ASSUME pc' \in {"attempt", "wait"}, NEW k \in 1..Len(rows) + 1, rows'[k] = cur'
          PROVE  Len(rows') - k < i'
      <4>1. i' = i + 1 /\ i \in Nat /\ Len(rows') = Len(rows) + 1 /\ Len(rows) \in Nat
        BY <2>1, <2>3, <3>1, <3>3
      <4>2. CASE k = Len(rows) + 1
        BY <4>1, <4>2
      <4>3. CASE k \in 1..Len(rows)
        <5>1. Len(rows) - k < i
          BY <2>1, <3>1, <3>2, <3>3, <4>3
        <5>2. QED
          BY <4>1, <4>3, <5>1
      <4>4. QED
        BY <4>1, <4>2, <4>3
    <3>4. QED
      BY <2>1, <3>3
  <2>5. QED
    BY <2>2, <2>4
<1>2. CASE rows' = rows
  <2>1. CASE CallWrite BY <1>2, <2>1 DEF CallWrite, sink
  <2>2. CASE ~CallWrite
    <3>1. cur' = cur
      BY <2>2 DEF Next, DoStep, Open, Succeed, Retry, WaitEnds, WaitCancelled, Close, Cancel, vars
    <3>2. pc' \in {"attempt", "wait"} => pc \in {"attempt", "wait"} /\ i' \in Nat /\ i' >= i
      BY <2>2 DEF Next, DoStep, Open, Succeed, Retry, WaitEnds, AfterWait, WaitCancelled, Close, Cancel, vars
    <3>3. DOMAIN rows \subseteq Nat /\ Len(rows) \in Nat
      BY LenProperties
    <3>4. QED
      BY <1>2, <3>1, <3>2, <3>3
  <2>3. QED
    BY <2>1, <2>2
<1>3. QED
  BY <1>1, <1>2

LEMMA AckedStep == ASSUME IInv, [Next]_vars PROVE AckedAreRows'
<1> USE DEF IInv, TypeOK, SinkTypeOK, CallerInv, SinkInv, policy
<1> SUFFICES ASSUME maxRetries' >= 0, NEW r \in 2..acked'
             PROVE  r \in Stored'
  BY DEF AckedAreRows
<1>1. maxRetries' = maxRetries
  BY DEF Next, DoStep, Open, CallWrite, Succeed, Retry, WaitEnds, WaitCancelled, Close, Cancel, vars
<1>2. Stored \subseteq Stored'
  <2>1. CASE rows' = rows BY <2>1 DEF Stored
  <2>2. CASE rows' # rows
    <3>1. /\ DOMAIN rows = 1..Len(rows) /\ DOMAIN rows' = 1..Len(rows) + 1 /\ Len(rows) \in Nat
          /\ \A k \in 1..Len(rows) : rows'[k] = rows[k]
      BY <2>2, OneMoreRow
    <3>2. \A k \in DOMAIN rows : k \in DOMAIN rows' /\ rows'[k] = rows[k]
      BY <3>1
    <3>3. QED
      BY <3>2 DEF Stored
  <2>3. QED BY <2>1, <2>2
<1>3. CASE acked' = acked
  BY <1>1, <1>2, <1>3 DEF AckedAreRows
<1>4. CASE acked' # acked
  <2>1. Succeed
    BY <1>1, <1>4 DEF Next, DoStep, Open, CallWrite, Retry, WaitEnds, WaitCancelled, Close, Cancel, vars
  <2>2. acked' = acked + 1 /\ acked' = cur
    BY <2>1 DEF Succeed
  <2>3. headers = "set"
    BY <1>1, <2>2
  <2>4. rows' = Append(rows, cur)
    BY <2>1, <2>3, WriteStep DEF Succeed
  <2>5. Len(rows) + 1 \in DOMAIN rows' /\ rows'[Len(rows) + 1] = cur
    BY <2>4, AppendProperties, LenProperties
  <2>6. CASE r = cur
    BY <2>5, <2>6 DEF Stored
  <2>7. CASE r # cur
    BY <1>1, <1>2, <2>2, <2>7 DEF AckedAreRows
  <2>8. QED
    BY <2>6, <2>7
<1>5. QED
  BY <1>3, <1>4

LEMMA TableStep == ASSUME IInv, [Next]_vars PROVE TableOrNothing'
<1> USE DEF IInv, TypeOK, SinkTypeOK, CallerInv, SinkInv, TableOrNothing, policy, sink
<1>1. CASE Succeed
  <2>1. headers = "nil" => table' = "present"
    BY <1>1, WriteStep DEF Succeed
  <2>2. headers = "set" => table' = table /\ table = "present"
    BY <1>1, WriteStep DEF Succeed
  <2>3. QED
    BY <2>1, <2>2
<1>2. CASE Retry
  <2>1. headers = "set" => table' = table
    BY <1>2, WriteStep DEF Retry
  <2>2. rows' # rows => table = "present" /\ headers = "set"
    BY <1>2, RowsStep
  <2>3. QED
    BY <1>2, <2>1, <2>2 DEF Retry
<1>3. CASE ~(Succeed \/ Retry)
  BY <1>3 DEF Next, DoStep, Open, CallWrite, WaitEnds, WaitCancelled, Close, Cancel, vars
<1>4. QED
  BY <1>1, <1>2, <1>3

LEMMA OrderStep == ASSUME IInv, [Next]_vars PROVE RowsInOrder'
<1> USE DEF IInv, TypeOK, SinkTypeOK, CallerInv, policy
<1>1. maxRetries' = maxRetries
  BY DEF Next, DoStep, Open, CallWrite, Succeed, Retry, WaitEnds, WaitCancelled, Close, Cancel, vars
<1>2. CASE rows' = rows
  <2>1. acked' >= acked /\ failures' >= failures
    BY DEF Next, DoStep, Open, CallWrite, Succeed, Retry, WaitEnds, WaitCancelled, Close, Cancel, vars
  <2>2. acked' \in Int /\ failures' \in Int
    BY TypeStep
  <2>3. Len(rows) <= acked' + failures'
    <3>1. Len(rows) \in Nat /\ Len(rows) <= acked + failures /\ acked \in Int /\ failures \in Int
      BY LenProperties DEF RowsInOrder
    <3>2. QED
      BY <2>1, <2>2, <3>1
  <2>4. QED
    BY <1>1, <1>2, <2>3 DEF RowsInOrder
<1>3. CASE rows' # rows
  <2>1. /\ Len(rows') = Len(rows) + 1 /\ Len(rows) \in Nat
        /\ DOMAIN rows = 1..Len(rows) /\ DOMAIN rows' = 1..Len(rows) + 1
        /\ \A k \in 1..Len(rows) : rows'[k] = rows[k]
        /\ rows'[Len(rows) + 1] = cur
    BY <1>3, OneMoreRow
  <2>2. \A j, k \in DOMAIN rows' : j <= k => rows'[j] <= rows'[k]
    <3>1. \A k \in 1..Len(rows) : rows[k] \in Nat /\ rows[k] <= cur
      <4>1. \A k \in 1..Len(rows) : rows[k] \in Nat
        BY ElementOfSeq
      <4>2. QED
        BY <2>1, <4>1 DEF AttemptInv
    <3>2. cur \in Nat
      BY <1>3, RowsStep
    <3>3. \A j, k \in 1..Len(rows) : j <= k => rows[j] <= rows[k]
      BY <2>1 DEF RowsInOrder
    <3> TAKE j, k \in DOMAIN rows'
    <3>4. CASE j = Len(rows) + 1 /\ k \in 1..Len(rows)
      BY <2>1, <3>4
    <3>5. CASE k = Len(rows) + 1
      BY <2>1, <3>1, <3>2, <3>5
    <3>6. CASE j \in 1..Len(rows) /\ k \in 1..Len(rows)
      BY <2>1, <3>3, <3>6
    <3>7. QED
      BY <2>1, <3>4, <3>5, <3>6
  <2>3. \A k \in DOMAIN rows : rows[k] = cur => Len(rows) - k < i
    BY <1>3, RowsStep DEF AttemptInv
  <2>4. i <= maxRetries /\ i \in Nat /\ maxRetries \in Int /\ maxRetries >= 0
    BY <1>3, RowsStep
  <2>5. ASSUME NEW j \in DOMAIN rows', NEW k \in DOMAIN rows', rows'[j] = rows'[k]
        PROVE  k - j <= maxRetries
    <3>1. CASE j = Len(rows) + 1
      BY <2>1, <2>4, <3>1
    <3>2. CASE j # Len(rows) + 1 /\ k = Len(rows) + 1
      <4>1. j \in DOMAIN rows /\ rows[j] = cur
        BY <2>1, <2>5, <3>2
      <4>2. Len(rows) - j < i
        BY <2>3, <4>1
      <4>3. QED
        BY <2>1, <2>4, <3>2, <4>1, <4>2
    <3>3. CASE j \in DOMAIN rows /\ k \in DOMAIN rows
      BY <2>1, <2>5, <3>3 DEF RowsInOrder
    <3>4. QED
      BY <2>1, <3>1, <3>2, <3>3
  <2>6. Len(rows') <= acked' + failures'
    <3>1. Len(rows) <= acked + failures /\ acked \in Int /\ failures \in Int
      BY DEF RowsInOrder
    <3>2. QED
      BY <1>3, <2>1, <3>1, RowsStep
  <2>7. QED
    BY <1>1, <2>2, <2>5, <2>6 DEF RowsInOrder
<1>4. QED
  BY <1>2, <1>3

LEMMA Inductive == Spec => []IInv
<1>1. IInv /\ [Next]_vars => IInv'
  BY TypeStep, CallerStep, AttemptStep, AckedStep, TableStep, OrderStep DEF IInv
<1>2. QED
  BY InitIInv, <1>1, PTL DEF Spec

(* Behind a policy that allows an attempt no acknowledged record but the    *)
(* first is missing from the table, however often Writes were repeated.     *)
THEOREM NoAckedRecordLost == Spec => []AckedAreRows
BY Inductive, PTL DEF IInv

(* A table that could not be created is never written to, and no Write      *)
(* succeeds any more.                                                       *)
THEOREM NoTableNoRows == Spec => []TableOrNothing
BY Inductive, PTL DEF IInv

(* The rows are in the order of the records, and a retry repeats only the   *)
(* record being written, at most maxRetries times.                          *)
THEOREM DuplicatesAreRetries == Spec => []RowsInOrder
BY Inductive, PTL DEF IInv

-----------------------------------------------------------------------------
(* The back-off.  A power of two is the number of the subsets of an         *)
(* interval, and one number more doubles them: with it or without it.       *)
LEMMA PowersOfTwo ==
  /\ 2 ^ 0 = 1
  /\ \A n \in Nat : 2 ^ n \in Nat /\ 2 ^ (n + 1) = 2 * 2 ^ n
<1> DEFINE Sets(n) == SUBSET (1..n)
<1>1. ASSUME NEW n \in Nat
      PROVE  IsFiniteSet(Sets(n)) /\ Cardinality(Sets(n)) = 2 ^ n /\ 2 ^ n \in Nat
  <2>1. IsFiniteSet(1..n) /\ Cardinality(1..n) = n
    BY FS_Interval
  <2>2. IsFiniteSet(Sets(n)) /\ Cardinality(Sets(n)) = 2 ^ n
    BY <2>1, FS_SUBSET
  <2>3. QED
    BY <2>2, FS_CardinalityType
<1>2. 2 ^ 0 = 1
  <2>1. Sets(0) = {{}}
    OBVIOUS
  <2>2. Cardinality({{}}) = 1
    BY FS_Singleton
  <2>3. QED
    BY <1>1, <2>1, <2>2
<1>3. ASSUME NEW n \in Nat PROVE 2 ^ (n + 1) = 2 * 2 ^ n
  <2> DEFINE Wider == {s \cup {n + 1} : s \in Sets(n)}
             f == [s \in Sets(n) |-> s \cup {n + 1}]
  <2>1. n + 1 \in Nat /\ n + 1 \notin 1..n /\ 1..(n + 1) = (1..n) \cup {n + 1}
    OBVIOUS
  <2>2. Sets(n + 1) = Sets(n) \cup Wider
    <3>1. ASSUME NEW s \in Sets(n + 1), s \notin Sets(n) PROVE s \in Wider
      <4>1. n + 1 \in s /\ s \ {n + 1} \in Sets(n) /\ s = (s \ {n + 1}) \cup {n + 1}
        BY <2>1, <3>1
      <4>2. QED
        BY <4>1
    <3>2. QED
      BY <2>1, <3>1
  <2>3. Sets(n) \cap Wider = {}
    BY <2>1
  <2>4. f \in Bijection(Sets(n), Wider)
    <3>1. f \in [Sets(n) -> Wider] /\ \A w \in Wider : \E s \in Sets(n) : f[s] = w
      OBVIOUS
    <3>2. ASSUME NEW s \in Sets(n), NEW t \in Sets(n), f[s] = f[t] PROVE s = t
      <4>1. s = f[s] \ {n + 1} /\ t = f[t] \ {n + 1}
        BY <2>1
      <4>2. QED
        BY <3>2, <4>1
    <3>3. QED
      BY <3>1, <3>2, Fun_IsBij
  <2>5. IsFiniteSet(Wider) /\ Cardinality(Wider) = Cardinality(Sets(n))
    <3>1. ExistsBijection(Sets(n), Wider)
      BY <2>4, Zenon DEF ExistsBijection
    <3>2. IsFiniteSet(Sets(n))
      BY <1>1
    <3> HIDE DEF Wider, Sets
    <3>3. QED
      BY <3>1, <3>2, FS_Bijection
  <2>6. Cardinality(Sets(n + 1)) = Cardinality(Sets(n)) + Cardinality(Wider) - Cardinality({})
    <3>1. IsFiniteSet(Sets(n))
      BY <1>1
    <3> HIDE DEF Wider, Sets
    <3>2. QED
      BY <2>2, <2>3, <2>5, <3>1, FS_Union
  <2>7. Cardinality(Sets(n + 1)) = 2 ^ (n + 1) /\ Cardinality(Sets(n)) = 2 ^ n /\ 2 ^ n \in Nat
    BY <1>1, <2>1
  <2>8. Cardinality({}) = 0
    BY FS_EmptySet
  <2> HIDE DEF Wider, Sets
  <2>9. QED
    BY <2>5, <2>6, <2>7, <2>8
<1>4. QED
  BY <1>1, <1>2, <1>3

LEMMA Division ==
  ASSUME NEW m \in Nat \ {0}, NEW a \in Int
  PROVE  (a % m) \in 0..m - 1 /\ \E q \in Int : a = q * m + (a % m)
<1>1. (a \div m) \in Int /\ a = m * (a \div m) + (a % m) /\ (a % m) \in 0..m - 1
  OBVIOUS
<1>2. m * (a \div m) = (a \div m) * m
  BY <1>1
<1>3. QED
  BY <1>1, <1>2

(* There is one quotient and one remainder. *)
LEMMA ModUnique ==
  ASSUME NEW m \in Nat \ {0}, NEW a \in Int, NEW k \in Int, NEW r \in 0..m - 1, a = k * m + r
  PROVE  a % m = r
<1>1. PICK q \in Int : a = q * m + (a % m)
  BY Division
<1>2. (a % m) \in 0..m - 1
  BY Division
<1>3. (q - k) * m = r - (a % m)
  BY <1>1, <1>2
<1>4. CASE q - k >= 1
  <2>1. (q - k) * m >= m
    BY <1>4
  <2>2. QED
    BY <1>2, <1>3, <2>1
<1>5. CASE q - k <= -1
  <2>1. (q - k) * m <= -m
    BY <1>5
  <2>2. QED
    BY <1>2, <1>3, <2>1
<1>6. CASE q = k
  BY <1>1, <1>2, <1>6
<1>7. QED
  BY <1>4, <1>5, <1>6

LEMMA ModShift ==
  ASSUME NEW m \in Nat \ {0}, NEW a \in Int, NEW k \in Int
  PROVE  (a + k * m) % m = a % m
<1>1. PICK q \in Int : a = q * m + (a % m)
  BY Division
<1>2. (a % m) \in 0..m - 1
  BY Division
<1>3. a + k * m = (q + k) * m + (a % m)
  BY <1>1, <1>2
<1>4. a + k * m \in Int /\ q + k \in Int
  OBVIOUS
<1>5. QED
  BY <1>2, <1>3, <1>4, ModUnique

(* Doubling what wrapped around is wrapping the double. *)
LEMMA WrapDoubles ==
  ASSUME NEW d \in Int
  PROVE  Wrap(2 * Wrap(d)) = Wrap(2 * d)
<1>1. Modulus \in Nat \ {0}
  BY ConstantsAssumption
<1>2. PICK q \in Int : d = q * Modulus + (d % Modulus)
  BY <1>1, Division
<1>3. (d % Modulus) \in Int
  BY <1>1, Division
<1>4. Wrap(d) = d % Modulus \/ Wrap(d) = (d % Modulus) - Modulus
  BY DEF Wrap
<1>5. PICK k \in Int : 2 * Wrap(d) = 2 * d + k * Modulus
  <2>1. CASE Wrap(d) = d % Modulus
    <3>1. 2 * Wrap(d) = 2 * d + (-2 * q) * Modulus
      BY <1>1, <1>2, <1>3, <2>1
    <3>2. QED
      BY <3>1
  <2>2. CASE Wrap(d) = (d % Modulus) - Modulus
    <3>1. 2 * Wrap(d) = 2 * (d % Modulus) - 2 * Modulus
      BY <1>1, <1>3, <2>2
    <3>2. (-2 * q - 2) * Modulus = -2 * (q * Modulus) - 2 * Modulus
      BY <1>1
    <3>3. 2 * Wrap(d) = 2 * d + (-2 * q - 2) * Modulus
      BY <1>1, <1>2, <1>3, <3>1, <3>2
    <3>4. QED
      BY <3>3
  <2>3. QED
    BY <1>4, <2>1, <2>2
<1>6. 2 * d \in Int
  OBVIOUS
<1>7. (2 * Wrap(d)) % Modulus = (2 * d) % Modulus
  BY <1>1, <1>5, <1>6, ModShift
<1>8. QED
  BY <1>7 DEF Wrap

(* The wait doubles with every failure in the life of the policy, whatever  *)
(* the width of a duration (policy.go:58).                                  *)
THEOREM WaitsDouble == Spec => []BackoffCountsFailures
<1>1. Init => BackoffCountsFailures
  <2> SUFFICES ASSUME Init PROVE BackoffCountsFailures
    OBVIOUS
  <2>1. backoff = 1 /\ 2 ^ failures = 1
    BY PowersOfTwo DEF Init
  <2>2. Modulus \in Nat /\ Modulus >= 4 /\ 1 < Modulus \div 2
    BY ConstantsAssumption
  <2>3. 1 % Modulus = 1
    <3>1. 1 = 0 * Modulus + 1 /\ 1 \in 0..Modulus - 1
      BY <2>2
    <3>2. QED
      BY <2>2, <3>1, ModUnique
  <2>4. Wrap(1) = 1
    BY <2>2, <2>3 DEF Wrap
  <2>5. QED
    BY <2>1, <2>4 DEF BackoffCountsFailures
<1>2. ASSUME IInv, BackoffCountsFailures, [Next]_vars PROVE BackoffCountsFailures'
  <2>1. CASE Retry
    <3>1. failures \in Nat
      BY <1>2 DEF IInv, TypeOK
    <3>2. 2 ^ failures \in Int /\ 2 ^ (failures + 1) = 2 * 2 ^ failures
      BY <3>1, PowersOfTwo
    <3>3. failures' = failures + 1 /\ backoff' = Wrap(2 * Wrap(2 ^ failures))
      BY <1>2, <2>1 DEF Retry, BackoffCountsFailures
    <3>4. backoff' = Wrap(2 * 2 ^ failures)
      BY <3>2, <3>3, WrapDoubles
    <3>5. QED
      BY <3>2, <3>3, <3>4 DEF BackoffCountsFailures
  <2>2. CASE ~Retry
    <3>1. UNCHANGED <<backoff, failures>>
      BY <1>2, <2>2 DEF Next, DoStep, Open, CallWrite, Succeed, KeepBackoff, WaitEnds, WaitCancelled,
                  Close, Cancel, policy, vars
    <3>2. QED
      BY <1>2, <3>1 DEF BackoffCountsFailures
  <2>3. QED
    BY <2>1, <2>2
<1>3. QED
  BY <1>1, <1>2, Inductive, PTL DEF Spec
=============================================================================
