--------------------------- MODULE PipelineProofs ---------------------------
(***************************************************************************)
(* Theorems about Pipeline for every value of its constants: streams of    *)
(* any length, any number of transformers and validators, any number of    *)
(* calls of Run.                                                           *)
(***************************************************************************)
EXTENDS Pipeline, TLAPS

(* The state is well typed: see TypeOK. *)
THEOREM TypeCorrect == Spec => []TypeOK
<1>1. Init => TypeOK
  <2>1. Init => ControlTypes
    BY ConstantsAssumption DEF Init, ControlTypes, PCs, ClosePoints
  <2>2. Init => StageTypes
    BY DEF Init, StageTypes
  <2>3. Init => CountTypes /\ DataTypes
    BY DEF Init, StatsZero, CountTypes, DataTypes
  <2>4. QED
    BY <2>1, <2>2, <2>3 DEF TypeOK
<1>2. TypeOK /\ [Next]_vars => TypeOK'
  <2> SUFFICES ASSUME ControlTypes, StageTypes, CountTypes, DataTypes, [Next]_vars PROVE TypeOK'
    BY DEF TypeOK
  <2> USE ConstantsAssumption DEF TypeOK, stats, given, hand, flow, building, caller,
           stages, sinkSide, badSide,
          PCs, LoopPoints, OpenPoints, ClosePoints, Components, Outcomes, Misuses
  <2>1. ASSUME NEW c \in Components, Attach(c) PROVE TypeOK'
    BY <2>1 DEF ControlTypes, StageTypes, CountTypes, DataTypes,
           Attach, Building, run
  <2>2. CASE AddTransform
    BY <2>2 DEF ControlTypes, StageTypes, CountTypes, DataTypes,
           AddTransform, Building, run
  <2>3. CASE AddValidator
    BY <2>3 DEF ControlTypes, StageTypes, CountTypes, DataTypes,
           AddValidator, Building, run
  <2>4. CASE RunAgain
    BY <2>4 DEF ControlTypes, StageTypes, CountTypes, DataTypes,
           RunAgain, KeepStats, run
  <2>5. CASE RunMisconfigured
    BY <2>5 DEF ControlTypes, StageTypes, CountTypes, DataTypes,
           RunMisconfigured, run, StatsReset
  <2>6. CASE RunStart
    BY <2>6 DEF ControlTypes, StageTypes, CountTypes, DataTypes,
           RunStart, run, StatsReset
  <2>7. CASE OpenSource
    BY <2>7 DEF ControlTypes, StageTypes, CountTypes, DataTypes,
           OpenSource, Open, Fail, Panics, Unwind
  <2>8. CASE OpenSink
    BY <2>8 DEF ControlTypes, StageTypes, CountTypes, DataTypes,
           OpenSink, Open, Fail, Panics, Unwind
  <2>9. CASE OpenQuarantine
    BY <2>9 DEF ControlTypes, StageTypes, CountTypes, DataTypes,
           OpenQuarantine, Open, Fail, Panics, Unwind
  <2>10. CASE CheckContext
    BY <2>10 DEF ControlTypes, StageTypes, CountTypes, DataTypes,
           CheckContext, ContextErr, Fail, Unwind
  <2>11. CASE ReadRecord
    <3>1. Content \subseteq Contents
      BY DEF ControlTypes, Content, Contents
    <3>2. QED
      BY <2>11, <3>1 DEF ControlTypes, StageTypes, CountTypes, DataTypes,
                           ReadRecord
  <2>12. CASE ReadEOF
    BY <2>12 DEF ControlTypes, StageTypes, CountTypes, DataTypes,
           ReadEOF, EOFEndsRun, Unwind
  <2>13. CASE ReadError
    BY <2>13 DEF ControlTypes, StageTypes, CountTypes, DataTypes,
           ReadError, Fail, Unwind
  <2>14. ASSUME NEW style \in Styles, ApplyTransform(style) PROVE TypeOK'
    <3>1. ControlTypes' /\ CountTypes'
      BY <2>14 DEF ControlTypes, CountTypes, ApplyTransform, Reject, AfterReject
    <3>2. StageTypes'
      BY <2>14 DEF ControlTypes, StageTypes, ApplyTransform, Reject, AfterReject, TransformsLeft
    <3>3. PICK r \in InvalidRecords : refused' = Append(refused, r) \/ refused' = refused
      <4>1. [id |-> rec, version |-> raw', stage |-> "transform", errors |-> <<step>>]
               \in InvalidRecords
        BY <3>2 DEF StageTypes, DataTypes, InvalidRecords
      <4>2. QED
        BY <2>14, <4>1 DEF ApplyTransform, Reject, AfterReject
    <3>4. DataTypes'
      <4>1. refused \in Seq(InvalidRecords)
        BY DEF DataTypes
      <4>2. refused' \in Seq(InvalidRecords)
        BY <3>3, <4>1
      <4>3. QED
        BY <2>14, <4>2 DEF DataTypes, ApplyTransform, Reject, AfterReject
    <3>5. QED
      BY <3>1, <3>2, <3>4
  <2>15. CASE TransformsDone
    BY <2>15 DEF ControlTypes, StageTypes, CountTypes, DataTypes,
           TransformsDone
  <2>16. CASE ApplyValidator
    BY <2>16 DEF ControlTypes, StageTypes, CountTypes, DataTypes,
           ApplyValidator, NextValidator, ValidatorsLeft
  <2>17. CASE ValidatorsDone
    <3>1. ControlTypes' /\ StageTypes' /\ CountTypes'
      BY <2>17 DEF ControlTypes, StageTypes, CountTypes, ValidatorsDone, Reject, AfterReject
    <3>2. PICK r \in InvalidRecords : refused' = Append(refused, r) \/ refused' = refused
      <4>1. [id |-> rec, version |-> out, stage |-> "validation", errors |-> errs]
               \in InvalidRecords
        BY DEF StageTypes, DataTypes, InvalidRecords
      <4>2. QED
        BY <2>17, <4>1 DEF ValidatorsDone, Reject, AfterReject
    <3>3. DataTypes'
      <4>1. refused \in Seq(InvalidRecords)
        BY DEF DataTypes
      <4>2. refused' \in Seq(InvalidRecords)
        BY <3>2, <4>1
      <4>3. QED
        BY <2>17, <4>2 DEF DataTypes, ValidatorsDone, Reject, AfterReject
    <3>4. QED
      BY <3>1, <3>3
  <2>18. CASE QuarantineWrite
    <3>1. ControlTypes' /\ StageTypes'
      BY <2>18 DEF ControlTypes, StageTypes, QuarantineWrite, QuarantineFails, Fail, Unwind
    <3>2. CountTypes' /\ DataTypes'
      BY <2>18 DEF CountTypes, DataTypes, QuarantineWrite, QuarantineFails, Fail
    <3>3. QED
      BY <3>1, <3>2
  <2>19. CASE SinkWrite
    <3>1. ControlTypes' /\ StageTypes' /\ CountTypes'
      BY <2>19 DEF ControlTypes, StageTypes, CountTypes, SinkWrite, SinkFails, Fail, Unwind
    <3>2. PICK d \in Deliveries : accepted' = Append(accepted, d) \/ accepted' = accepted
      <4>1. [id |-> rec, version |-> out] \in Deliveries
        BY DEF StageTypes, DataTypes, Deliveries
      <4>2. \/ accepted' = Append(accepted, [id |-> rec, version |-> out])
            \/ accepted' = accepted
        BY <2>19 DEF SinkWrite, SinkFails
      <4>3. QED
        BY <4>1, <4>2
    <3>3. DataTypes'
      <4>1. accepted \in Seq(Deliveries)
        BY DEF DataTypes
      <4>2. accepted' \in Seq(Deliveries)
        BY <3>2, <4>1
      <4>3. QED
        BY <2>19, <4>2 DEF DataTypes, SinkWrite, SinkFails
    <3>4. QED
      BY <3>1, <3>3
  <2>20. CASE CallPanics
    BY <2>20 DEF ControlTypes, StageTypes, CountTypes, DataTypes,
           CallPanics, Panics, Unwind
  <2>21. CASE CloseQuarantine
    BY <2>21 DEF ControlTypes, StageTypes, CountTypes, DataTypes,
           CloseQuarantine
  <2>22. CASE CloseSink
    BY <2>22 DEF ControlTypes, StageTypes, CountTypes, DataTypes,
           CloseSink
  <2>23. CASE CloseSource
    BY <2>23 DEF ControlTypes, StageTypes, CountTypes, DataTypes,
           CloseSource
  <2>24. CASE Cancel
    BY <2>24 DEF ControlTypes, StageTypes, CountTypes, DataTypes,
           Cancel
  <2>25. CASE UNCHANGED vars
    BY <2>25 DEF ControlTypes, StageTypes, CountTypes, DataTypes,
           vars
  <2>26. QED
    BY <2>1, <2>2, <2>3, <2>4, <2>5, <2>6, <2>7, <2>8, <2>9, <2>10, <2>11, <2>12,
       <2>13, <2>14, <2>15, <2>16, <2>17, <2>18, <2>19, <2>20, <2>21, <2>22, <2>23,
       <2>24, <2>25 DEF Next, RunStep, Opening, Looping, Closing
<1>3. QED
  BY <1>1, <1>2, PTL DEF Spec

(* Where Run stands determines what is wired and that no result is settled   *)
(* yet: the facts every later proof starts from.                             *)
LEMMA ControlHolds == Spec => []ControlInv
<1>1. Init => ControlInv
  BY DEF Init, ControlInv, CallsUserCode, run, PCs, CallsUserCode, OpenPoints,
           LoopPoints, ClosePoints, Outcomes, Misuses
<1>2. TypeOK /\ ControlInv /\ [Next]_vars => ControlInv'
  <2> SUFFICES ASSUME TypeOK, ControlInv, [Next]_vars PROVE ControlInv'
    OBVIOUS
  <2> USE DEF stats, given, hand, flow, building, caller,
           stages, sinkSide, badSide, ControlInv, run,
           PCs, CallsUserCode, OpenPoints, LoopPoints, ClosePoints, Outcomes,
           Misuses
  <2>1. ASSUME NEW c \in Components, Attach(c) PROVE ControlInv'
    BY <2>1 DEF Attach, Building, run
  <2>2. CASE AddTransform
    BY <2>2 DEF AddTransform, Building, run
  <2>3. CASE AddValidator
    BY <2>3 DEF AddValidator, Building, run
  <2>4. CASE RunAgain
    BY <2>4 DEF RunAgain, KeepStats, run
  <2>5. CASE RunMisconfigured
    BY <2>5 DEF RunMisconfigured, StatsReset, run
  <2>6. CASE RunStart
    BY <2>6 DEF RunStart, StatsReset, run
  <2>7. CASE OpenSource
    BY <2>7 DEF OpenSource, Open, Fail, Panics, Unwind
  <2>8. CASE OpenSink
    BY <2>8 DEF OpenSink, Open, Fail, Panics, Unwind
  <2>9. CASE OpenQuarantine
    BY <2>9 DEF OpenQuarantine, Open, Fail, Panics, Unwind
  <2>10. CASE CheckContext
    BY <2>10 DEF CheckContext, ContextErr, Fail, Unwind
  <2>11. CASE ReadRecord
    BY <2>11 DEF ReadRecord
  <2>12. CASE ReadEOF
    BY <2>12 DEF ReadEOF, EOFEndsRun, Unwind
  <2>13. CASE ReadError
    BY <2>13 DEF ReadError, Fail, Unwind
  <2>14. ASSUME NEW style \in Styles, ApplyTransform(style) PROVE ControlInv'
    BY <2>14 DEF ApplyTransform, Reject, AfterReject
  <2>15. CASE TransformsDone
    BY <2>15 DEF TransformsDone
  <2>16. CASE ApplyValidator
    BY <2>16 DEF ApplyValidator, NextValidator
  <2>17. CASE ValidatorsDone
    BY <2>17 DEF ValidatorsDone, Reject, AfterReject
  <2>18. CASE QuarantineWrite
    BY <2>18 DEF QuarantineWrite, QuarantineFails, Fail, Unwind
  <2>19. CASE SinkWrite
    BY <2>19 DEF SinkWrite, SinkFails, Fail, Unwind
  <2>20. CASE CallPanics
    BY <2>20 DEF CallPanics, Panics, Unwind
  <2>21. CASE CloseQuarantine
    BY <2>21 DEF CloseQuarantine
  <2>22. CASE CloseSink
    BY <2>22 DEF CloseSink
  <2>23. CASE CloseSource
    BY <2>23 DEF CloseSource
  <2>24. CASE Cancel
    BY <2>24 DEF Cancel
  <2>25. CASE UNCHANGED vars
    BY <2>25 DEF vars
  <2>26. QED
    BY <2>1, <2>2, <2>3, <2>4, <2>5, <2>6, <2>7, <2>8, <2>9, <2>10, <2>11, <2>12,
           <2>13, <2>14, <2>15, <2>16, <2>17, <2>18, <2>19, <2>20, <2>21, <2>22,
           <2>23, <2>24, <2>25 DEF Next, RunStep, Opening,
       Looping, Closing
<1>3. QED
  BY <1>1, <1>2, TypeCorrect, PTL DEF Spec

(* Failed is 1 when Run returns a fatal error and 0 otherwise, for any stream. *)
THEOREM FailedCounts == Spec => []FailedIffFatal
<1>1. Init => FailedIffFatal
  BY DEF Init, StatsZero, FailedIffFatal, Fatal, Outcomes
<1>2. ControlInv /\ FailedIffFatal /\ [Next]_vars => FailedIffFatal'
  <2> SUFFICES ASSUME ControlInv, FailedIffFatal, [Next]_vars PROVE FailedIffFatal'
    OBVIOUS
  <2> USE DEF stats, given, hand, flow, building, caller,
           stages, sinkSide, badSide, ControlInv,
           FailedIffFatal, Fatal, run, PCs, CallsUserCode, OpenPoints, LoopPoints,
           ClosePoints, Outcomes, Misuses
  <2>1. ASSUME NEW c \in Components, Attach(c) PROVE FailedIffFatal'
    BY <2>1 DEF Attach, Building, run
  <2>2. CASE AddTransform
    BY <2>2 DEF AddTransform, Building, run
  <2>3. CASE AddValidator
    BY <2>3 DEF AddValidator, Building, run
  <2>4. CASE RunAgain
    BY <2>4 DEF RunAgain, KeepStats, run
  <2>5. CASE RunMisconfigured
    BY <2>5 DEF RunMisconfigured, StatsReset, run
  <2>6. CASE RunStart
    BY <2>6 DEF RunStart, StatsReset, run
  <2>7. CASE OpenSource
    BY <2>7 DEF OpenSource, Open, Fail, Panics, Unwind
  <2>8. CASE OpenSink
    BY <2>8 DEF OpenSink, Open, Fail, Panics, Unwind
  <2>9. CASE OpenQuarantine
    BY <2>9 DEF OpenQuarantine, Open, Fail, Panics, Unwind
  <2>10. CASE CheckContext
    BY <2>10 DEF CheckContext, ContextErr, Fail, Unwind
  <2>11. CASE ReadRecord
    BY <2>11 DEF ReadRecord
  <2>12. CASE ReadEOF
    BY <2>12 DEF ReadEOF, EOFEndsRun, Unwind
  <2>13. CASE ReadError
    BY <2>13 DEF ReadError, Fail, Unwind
  <2>14. ASSUME NEW style \in Styles, ApplyTransform(style) PROVE FailedIffFatal'
    BY <2>14 DEF ApplyTransform, Reject, AfterReject
  <2>15. CASE TransformsDone
    BY <2>15 DEF TransformsDone
  <2>16. CASE ApplyValidator
    BY <2>16 DEF ApplyValidator, NextValidator
  <2>17. CASE ValidatorsDone
    BY <2>17 DEF ValidatorsDone, Reject, AfterReject
  <2>18. CASE QuarantineWrite
    BY <2>18 DEF QuarantineWrite, QuarantineFails, Fail, Unwind
  <2>19. CASE SinkWrite
    BY <2>19 DEF SinkWrite, SinkFails, Fail, Unwind
  <2>20. CASE CallPanics
    BY <2>20 DEF CallPanics, Panics, Unwind
  <2>21. CASE CloseQuarantine
    BY <2>21 DEF CloseQuarantine
  <2>22. CASE CloseSink
    BY <2>22 DEF CloseSink
  <2>23. CASE CloseSource
    BY <2>23 DEF CloseSource
  <2>24. CASE Cancel
    BY <2>24 DEF Cancel
  <2>25. CASE UNCHANGED vars
    BY <2>25 DEF vars
  <2>26. QED
    BY <2>1, <2>2, <2>3, <2>4, <2>5, <2>6, <2>7, <2>8, <2>9, <2>10, <2>11, <2>12,
           <2>13, <2>14, <2>15, <2>16, <2>17, <2>18, <2>19, <2>20, <2>21, <2>22,
           <2>23, <2>24, <2>25 DEF Next, RunStep, Opening,
       Looping, Closing
<1>3. QED
  BY <1>1, <1>2, ControlHolds, PTL DEF Spec

(* With a quarantine attached every rejected record reaches it, save one whose *)
(* write failed or panicked.                                                 *)
LEMMA QuarantineHolds == Spec => []QuarantineInv
<1>1. Init => QuarantineInv
  BY DEF Init, QuarantineInv, QuarantineComplete, run
<1>2. TypeOK /\ ControlInv /\ QuarantineInv /\ [Next]_vars => QuarantineInv'
  <2> SUFFICES ASSUME TypeOK, ControlInv, QuarantineInv, [Next]_vars PROVE QuarantineInv'
    OBVIOUS
  <2> USE DEF stats, given, hand, flow, building, caller,
           stages, sinkSide, badSide, TypeOK,
           CountTypes, DataTypes, ControlInv, QuarantineInv, QuarantineComplete,
           run, PCs, CallsUserCode, OpenPoints, LoopPoints, ClosePoints, Outcomes,
           Misuses
  <2>1. ASSUME NEW c \in Components, Attach(c) PROVE QuarantineInv'
    BY <2>1 DEF Attach, Building, run
  <2>2. CASE AddTransform
    BY <2>2 DEF AddTransform, Building, run
  <2>3. CASE AddValidator
    BY <2>3 DEF AddValidator, Building, run
  <2>4. CASE RunAgain
    BY <2>4 DEF RunAgain, KeepStats, run
  <2>5. CASE RunMisconfigured
    BY <2>5 DEF RunMisconfigured, StatsReset, run
  <2>6. CASE RunStart
    BY <2>6 DEF RunStart, StatsReset, run
  <2>7. CASE OpenSource
    BY <2>7 DEF OpenSource, Open, Fail, Panics, Unwind
  <2>8. CASE OpenSink
    BY <2>8 DEF OpenSink, Open, Fail, Panics, Unwind
  <2>9. CASE OpenQuarantine
    BY <2>9 DEF OpenQuarantine, Open, Fail, Panics, Unwind
  <2>10. CASE CheckContext
    BY <2>10 DEF CheckContext, ContextErr, Fail, Unwind
  <2>11. CASE ReadRecord
    BY <2>11 DEF ReadRecord
  <2>12. CASE ReadEOF
    BY <2>12 DEF ReadEOF, EOFEndsRun, Unwind
  <2>13. CASE ReadError
    BY <2>13 DEF ReadError, Fail, Unwind
  <2>14. ASSUME NEW style \in Styles, ApplyTransform(style) PROVE QuarantineInv'
    BY <2>14 DEF ApplyTransform, Reject, AfterReject
  <2>15. CASE TransformsDone
    BY <2>15 DEF TransformsDone
  <2>16. CASE ApplyValidator
    BY <2>16 DEF ApplyValidator, NextValidator
  <2>17. CASE ValidatorsDone
    BY <2>17 DEF ValidatorsDone, Reject, AfterReject
  <2>18. CASE QuarantineWrite
    BY <2>18 DEF QuarantineWrite, QuarantineFails, Fail, Unwind
  <2>19. CASE SinkWrite
    BY <2>19 DEF SinkWrite, SinkFails, Fail, Unwind
  <2>20. CASE CallPanics
    BY <2>20 DEF CallPanics, Panics, Unwind
  <2>21. CASE CloseQuarantine
    BY <2>21 DEF CloseQuarantine
  <2>22. CASE CloseSink
    BY <2>22 DEF CloseSink
  <2>23. CASE CloseSource
    BY <2>23 DEF CloseSource, ControlTypes
  <2>24. CASE Cancel
    BY <2>24 DEF Cancel
  <2>25. CASE UNCHANGED vars
    BY <2>25 DEF vars
  <2>26. QED
    BY <2>1, <2>2, <2>3, <2>4, <2>5, <2>6, <2>7, <2>8, <2>9, <2>10, <2>11, <2>12,
           <2>13, <2>14, <2>15, <2>16, <2>17, <2>18, <2>19, <2>20, <2>21, <2>22,
           <2>23, <2>24, <2>25 DEF Next, RunStep, Opening,
       Looping, Closing
<1>3. QED
  BY <1>1, <1>2, TypeCorrect, ControlHolds, PTL DEF Spec

(* Every attached component is opened before the first record and closed,    *)
(* downstream first, whatever ends the run.                                  *)
LEMMA LifecycleHolds == Spec => []LifecycleInv
<1>1. Init => LifecycleInv
  BY DEF Init, LifecycleInv, Lifecycle, NoneClosed, Components, run, PCs,
           CallsUserCode, OpenPoints, LoopPoints, ClosePoints, Outcomes, Misuses
<1>2. TypeOK /\ ControlInv /\ LifecycleInv /\ [Next]_vars => LifecycleInv'
  <2> SUFFICES ASSUME TypeOK, ControlInv, LifecycleInv, [Next]_vars PROVE LifecycleInv'
    OBVIOUS
  <2> USE DEF stats, given, hand, flow, building, caller,
           stages, sinkSide, badSide, TypeOK,
           ControlTypes, ControlInv, LifecycleInv, Lifecycle, NoneClosed,
           Components, run, PCs, CallsUserCode, OpenPoints, LoopPoints, ClosePoints,
           Outcomes, Misuses
  <2>1. ASSUME NEW c \in Components, Attach(c) PROVE LifecycleInv'
    BY <2>1 DEF Attach, Building, run
  <2>2. CASE AddTransform
    BY <2>2 DEF AddTransform, Building, run
  <2>3. CASE AddValidator
    BY <2>3 DEF AddValidator, Building, run
  <2>4. CASE RunAgain
    BY <2>4 DEF RunAgain, KeepStats, run
  <2>5. CASE RunMisconfigured
    BY <2>5 DEF RunMisconfigured, StatsReset, run
  <2>6. CASE RunStart
    BY <2>6 DEF RunStart, StatsReset, run
  <2>7. CASE OpenSource
    BY <2>7 DEF OpenSource, Open, Fail, Panics, Unwind
  <2>8. CASE OpenSink
    BY <2>8 DEF OpenSink, Open, Fail, Panics, Unwind
  <2>9. CASE OpenQuarantine
    BY <2>9 DEF OpenQuarantine, Open, Fail, Panics, Unwind
  <2>10. CASE CheckContext
    BY <2>10 DEF CheckContext, ContextErr, Fail, Unwind
  <2>11. CASE ReadRecord
    BY <2>11 DEF ReadRecord
  <2>12. CASE ReadEOF
    BY <2>12 DEF ReadEOF, EOFEndsRun, Unwind
  <2>13. CASE ReadError
    BY <2>13 DEF ReadError, Fail, Unwind
  <2>14. ASSUME NEW style \in Styles, ApplyTransform(style) PROVE LifecycleInv'
    BY <2>14 DEF ApplyTransform, Reject, AfterReject
  <2>15. CASE TransformsDone
    BY <2>15 DEF TransformsDone
  <2>16. CASE ApplyValidator
    BY <2>16 DEF ApplyValidator, NextValidator
  <2>17. CASE ValidatorsDone
    BY <2>17 DEF ValidatorsDone, Reject, AfterReject
  <2>18. CASE QuarantineWrite
    BY <2>18 DEF QuarantineWrite, QuarantineFails, Fail, Unwind
  <2>19. CASE SinkWrite
    BY <2>19 DEF SinkWrite, SinkFails, Fail, Unwind
  <2>20. CASE CallPanics
    BY <2>20 DEF CallPanics, Panics, Unwind
  <2>21. CASE CloseQuarantine
    BY <2>21 DEF CloseQuarantine
  <2>22. CASE CloseSink
    BY <2>22 DEF CloseSink
  <2>23. CASE CloseSource
    BY <2>23 DEF CloseSource
  <2>24. CASE Cancel
    BY <2>24 DEF Cancel
  <2>25. CASE UNCHANGED vars
    BY <2>25 DEF vars
  <2>26. QED
    BY <2>1, <2>2, <2>3, <2>4, <2>5, <2>6, <2>7, <2>8, <2>9, <2>10, <2>11, <2>12,
           <2>13, <2>14, <2>15, <2>16, <2>17, <2>18, <2>19, <2>20, <2>21, <2>22,
           <2>23, <2>24, <2>25 DEF Next, RunStep, Opening,
       Looping, Closing
<1>3. QED
  BY <1>1, <1>2, TypeCorrect, ControlHolds, PTL DEF Spec

(* After a cancellation at most one more record is read.                     *)
LEMMA CancelHolds == Spec => []CancelInv
<1>1. Init => CancelInv
  BY DEF Init, CancelInv, CancelStops
<1>2. TypeOK /\ CancelInv /\ [Next]_vars => CancelInv'
  <2> SUFFICES ASSUME TypeOK, CancelInv, [Next]_vars PROVE CancelInv'
    OBVIOUS
  <2> USE DEF stats, given, hand, flow, building, caller,
           stages, sinkSide, badSide, TypeOK,
           CountTypes, DataTypes, CancelInv, CancelStops
  <2>1. ASSUME NEW c \in Components, Attach(c) PROVE CancelInv'
    BY <2>1 DEF Attach, Building, run
  <2>2. CASE AddTransform
    BY <2>2 DEF AddTransform, Building, run
  <2>3. CASE AddValidator
    BY <2>3 DEF AddValidator, Building, run
  <2>4. CASE RunAgain
    BY <2>4 DEF RunAgain, KeepStats, run
  <2>5. CASE RunMisconfigured
    BY <2>5 DEF RunMisconfigured, StatsReset, run
  <2>6. CASE RunStart
    BY <2>6 DEF RunStart, StatsReset, run
  <2>7. CASE OpenSource
    BY <2>7 DEF OpenSource, Open, Fail, Panics, Unwind
  <2>8. CASE OpenSink
    BY <2>8 DEF OpenSink, Open, Fail, Panics, Unwind
  <2>9. CASE OpenQuarantine
    BY <2>9 DEF OpenQuarantine, Open, Fail, Panics, Unwind
  <2>10. CASE CheckContext
    BY <2>10 DEF CheckContext, ContextErr, Fail, Unwind
  <2>11. CASE ReadRecord
    BY <2>11 DEF ReadRecord
  <2>12. CASE ReadEOF
    BY <2>12 DEF ReadEOF, EOFEndsRun, Unwind
  <2>13. CASE ReadError
    BY <2>13 DEF ReadError, Fail, Unwind
  <2>14. ASSUME NEW style \in Styles, ApplyTransform(style) PROVE CancelInv'
    BY <2>14 DEF ApplyTransform, Reject, AfterReject
  <2>15. CASE TransformsDone
    BY <2>15 DEF TransformsDone
  <2>16. CASE ApplyValidator
    BY <2>16 DEF ApplyValidator, NextValidator
  <2>17. CASE ValidatorsDone
    BY <2>17 DEF ValidatorsDone, Reject, AfterReject
  <2>18. CASE QuarantineWrite
    BY <2>18 DEF QuarantineWrite, QuarantineFails, Fail, Unwind
  <2>19. CASE SinkWrite
    BY <2>19 DEF SinkWrite, SinkFails, Fail, Unwind
  <2>20. CASE CallPanics
    BY <2>20 DEF CallPanics, Panics, Unwind
  <2>21. CASE CloseQuarantine
    BY <2>21 DEF CloseQuarantine
  <2>22. CASE CloseSink
    BY <2>22 DEF CloseSink
  <2>23. CASE CloseSource
    BY <2>23 DEF CloseSource
  <2>24. CASE Cancel
    BY <2>24 DEF Cancel
  <2>25. CASE UNCHANGED vars
    BY <2>25 DEF vars
  <2>26. QED
    BY <2>1, <2>2, <2>3, <2>4, <2>5, <2>6, <2>7, <2>8, <2>9, <2>10, <2>11, <2>12,
           <2>13, <2>14, <2>15, <2>16, <2>17, <2>18, <2>19, <2>20, <2>21, <2>22,
           <2>23, <2>24, <2>25 DEF Next, RunStep, Opening,
       Looping, Closing
<1>3. QED
  BY <1>1, <1>2, TypeCorrect, PTL DEF Spec

(* The counters balance against what happened to the records.                *)
LEMMA AccountingHolds == Spec => []AccountingInv
<1>1. Init => AccountingInv
  BY DEF Init, StatsZero, AccountingInv, Accounting, run, PCs, CallsUserCode,
           OpenPoints, LoopPoints, ClosePoints, Outcomes, Misuses
<1>2. TypeOK /\ ControlInv /\ AccountingInv /\ [Next]_vars => AccountingInv'
  <2> SUFFICES ASSUME TypeOK, ControlInv, AccountingInv, [Next]_vars PROVE AccountingInv'
    OBVIOUS
  <2> USE DEF stats, given, hand, flow, building, caller,
           stages, sinkSide, badSide, ControlInv,
           AccountingInv, Accounting, run, PCs, CallsUserCode, OpenPoints,
           LoopPoints, ClosePoints, Outcomes, Misuses
  <2>0. /\ Read \in Nat /\ Written \in Nat /\ Invalid \in Nat /\ rec \in Nat
        /\ accepted \in Seq(Deliveries) /\ refused \in Seq(InvalidRecords)
        /\ Len(input) \in Nat
    BY DEF TypeOK, CountTypes, DataTypes
  <2>1. ASSUME NEW c \in Components, Attach(c) PROVE AccountingInv'
    BY <2>1, <2>0 DEF Attach, Building, run
  <2>2. CASE AddTransform
    BY <2>2, <2>0 DEF AddTransform, Building, run
  <2>3. CASE AddValidator
    BY <2>3, <2>0 DEF AddValidator, Building, run
  <2>4. CASE RunAgain
    BY <2>4, <2>0 DEF RunAgain, KeepStats, run
  <2>5. CASE RunMisconfigured
    <3>1. pc = "idle" /\ err = "none" /\ Len(input) = 0 /\ rec = 0
      BY <2>5 DEF RunMisconfigured
    <3>2. Read = 0 /\ Read = Written + Invalid
      BY <3>1
    <3>3. Written = 0 /\ Invalid = 0
      BY <2>0, <3>2
    <3>4. QED
      BY <2>5, <3>1, <3>2, <3>3 DEF RunMisconfigured, StatsReset
  <2>6. CASE RunStart
    <3>1. pc = "idle" /\ err = "none" /\ Len(input) = 0 /\ rec = 0
      BY <2>6 DEF RunStart
    <3>2. Read = 0 /\ Read = Written + Invalid
      BY <3>1
    <3>3. Written = 0 /\ Invalid = 0
      BY <2>0, <3>2
    <3>4. QED
      BY <2>6, <3>1, <3>2, <3>3 DEF RunStart, StatsReset
  <2>7. CASE OpenSource
    BY <2>7, <2>0 DEF OpenSource, Open, Fail, Panics, Unwind
  <2>8. CASE OpenSink
    BY <2>8, <2>0 DEF OpenSink, Open, Fail, Panics, Unwind
  <2>9. CASE OpenQuarantine
    BY <2>9, <2>0 DEF OpenQuarantine, Open, Fail, Panics, Unwind
  <2>10. CASE CheckContext
    BY <2>10, <2>0 DEF CheckContext, ContextErr, Fail, Unwind
  <2>11. CASE ReadRecord
    <3>1. Len(input') = Len(input) + 1
      <4>1. PICK d \in Content : input' = Append(input, d)
        BY <2>11 DEF ReadRecord
      <4>2. input \in Seq(Contents)
        BY DEF TypeOK, DataTypes
      <4>3. QED
        BY <4>1, <4>2
    <3>2. /\ rec = 0 /\ rec' = Len(input') /\ pc' = "transform" /\ run
          /\ Read' = Read + 1 /\ UNCHANGED <<Written, Invalid, accepted, refused, err>>
      BY <2>11, <3>1 DEF ReadRecord
    <3>3. QED
      BY <2>0, <3>1, <3>2
  <2>12. CASE ReadEOF
    BY <2>12, <2>0 DEF ReadEOF, EOFEndsRun, Unwind
  <2>13. CASE ReadError
    BY <2>13, <2>0 DEF ReadError, Fail, Unwind
  <2>14. ASSUME NEW style \in Styles, ApplyTransform(style) PROVE AccountingInv'
    <3>1. CASE input[rec].bad = step
      <4>1. Len(refused') = Len(refused) + 1
        BY <2>14, <2>0, <3>1 DEF ApplyTransform, Reject, AfterReject
      <4>2. /\ Invalid' = Invalid + 1 /\ rec # 0 /\ rec' = 0
            /\ pc' \in {"quarantineWrite", "top"} /\ run /\ err = "none"
            /\ UNCHANGED <<Read, Written, accepted, input, err>>
        BY <2>14, <3>1 DEF ApplyTransform, Reject, AfterReject
      <4>3. QED
        BY <2>0, <4>1, <4>2
    <3>2. CASE input[rec].bad # step
      BY <2>14, <2>0, <3>2 DEF ApplyTransform
    <3>3. QED
      BY <3>1, <3>2
  <2>15. CASE TransformsDone
    BY <2>15, <2>0 DEF TransformsDone
  <2>16. CASE ApplyValidator
    BY <2>16, <2>0 DEF ApplyValidator, NextValidator
  <2>17. CASE ValidatorsDone
    <3>1. CASE errs # <<>>
      <4>1. Len(refused') = Len(refused) + 1
        BY <2>17, <2>0, <3>1 DEF ValidatorsDone, Reject, AfterReject
      <4>2. /\ Invalid' = Invalid + 1 /\ rec # 0 /\ rec' = 0
            /\ pc' \in {"quarantineWrite", "top"} /\ run /\ err = "none"
            /\ UNCHANGED <<Read, Written, accepted, input, err>>
        BY <2>17, <3>1 DEF ValidatorsDone, Reject, AfterReject
      <4>3. QED
        BY <2>0, <4>1, <4>2
    <3>2. CASE errs = <<>>
      BY <2>17, <2>0, <3>2 DEF ValidatorsDone
    <3>3. QED
      BY <3>1, <3>2
  <2>18. CASE QuarantineWrite
    BY <2>18, <2>0 DEF QuarantineWrite, QuarantineFails, Fail, Unwind
  <2>19. CASE SinkWrite
    <3>1. CASE Failed' = Failed + 1 /\ UNCHANGED <<accepted, rec>>
      BY <2>19, <2>0, <3>1 DEF SinkWrite, SinkFails, Fail, Unwind
    <3>2. CASE rec' = 0 /\ Written' = Written + 1
      <4>1. Len(accepted') = Len(accepted) + 1
        BY <2>19, <2>0, <3>2 DEF SinkWrite, SinkFails, Fail
      <4>2. /\ rec # 0 /\ pc' = "top" /\ err = "none"
            /\ UNCHANGED <<Read, Invalid, refused, input, err>>
        BY <2>19, <3>2 DEF SinkWrite, SinkFails, Fail
      <4>3. QED
        BY <2>0, <3>2, <4>1, <4>2
    <3>3. QED
      BY <2>19, <3>1, <3>2 DEF SinkWrite, SinkFails, Fail
  <2>20. CASE CallPanics
    BY <2>20, <2>0 DEF CallPanics, Panics, Unwind
  <2>21. CASE CloseQuarantine
    BY <2>21, <2>0 DEF CloseQuarantine
  <2>22. CASE CloseSink
    BY <2>22, <2>0 DEF CloseSink
  <2>23. CASE CloseSource
    BY <2>23, <2>0 DEF CloseSource, TypeOK, ControlTypes
  <2>24. CASE Cancel
    BY <2>24, <2>0 DEF Cancel
  <2>25. CASE UNCHANGED vars
    BY <2>25, <2>0 DEF vars
  <2>26. QED
    BY <2>1, <2>2, <2>3, <2>4, <2>5, <2>6, <2>7, <2>8, <2>9, <2>10, <2>11, <2>12,
           <2>13, <2>14, <2>15, <2>16, <2>17, <2>18, <2>19, <2>20, <2>21, <2>22,
           <2>23, <2>24, <2>25 DEF Next, RunStep, Opening,
       Looping, Closing
<1>3. QED
  BY <1>1, <1>2, TypeCorrect, ControlHolds, PTL DEF Spec

(* No counter ever goes back, over every call of Run.                        *)
THEOREM MonotonicStats == Spec => StatsMonotonic
<1> DEFINE Grows == /\ Read' >= Read /\ Written' >= Written
                    /\ Invalid' >= Invalid /\ Failed' >= Failed
<1>1. TypeOK /\ ControlInv /\ AccountingInv /\ FailedIffFatal /\ [Next]_vars => Grows
  <2> SUFFICES ASSUME TypeOK, ControlInv, AccountingInv, FailedIffFatal, [Next]_vars PROVE Grows
    OBVIOUS
  <2> USE DEF stats, given, hand, flow, building, caller,
           stages, sinkSide, badSide
  <2>0. Read \in Nat /\ Written \in Nat /\ Invalid \in Nat /\ Failed \in Nat
    BY DEF TypeOK, CountTypes
  <2>1. ASSUME NEW c \in Components, Attach(c) PROVE Grows
    BY <2>1, <2>0 DEF Attach, Building, run, Grows
  <2>2. CASE AddTransform
    BY <2>2, <2>0 DEF AddTransform, Building, run, Grows
  <2>3. CASE AddValidator
    BY <2>3, <2>0 DEF AddValidator, Building, run, Grows
  <2>4. CASE RunAgain
    BY <2>4, <2>0 DEF RunAgain, KeepStats, run, Grows
  <2>5. CASE RunMisconfigured
    <3>1. pc = "idle" /\ err = "none"
      BY <2>5 DEF RunMisconfigured, run
    <3>2. Read = 0 /\ Read = Written + Invalid /\ Failed = 0
      BY <3>1 DEF AccountingInv, Accounting, FailedIffFatal, Fatal, Outcomes, ClosePoints, run
    <3>3. QED
      BY <2>5, <2>0, <3>2 DEF RunMisconfigured, StatsReset, Grows
  <2>6. CASE RunStart
    <3>1. pc = "idle" /\ err = "none"
      BY <2>6 DEF RunStart, run
    <3>2. Read = 0 /\ Read = Written + Invalid /\ Failed = 0
      BY <3>1 DEF AccountingInv, Accounting, FailedIffFatal, Fatal, Outcomes, ClosePoints, run
    <3>3. QED
      BY <2>6, <2>0, <3>2 DEF RunStart, StatsReset, Grows
  <2>7. CASE OpenSource
    BY <2>7, <2>0 DEF OpenSource, Open, Fail, Panics, Unwind, Grows
  <2>8. CASE OpenSink
    BY <2>8, <2>0 DEF OpenSink, Open, Fail, Panics, Unwind, Grows
  <2>9. CASE OpenQuarantine
    BY <2>9, <2>0 DEF OpenQuarantine, Open, Fail, Panics, Unwind, Grows
  <2>10. CASE CheckContext
    BY <2>10, <2>0 DEF CheckContext, ContextErr, Fail, Unwind, Grows
  <2>11. CASE ReadRecord
    BY <2>11, <2>0 DEF ReadRecord, Grows
  <2>12. CASE ReadEOF
    BY <2>12, <2>0 DEF ReadEOF, EOFEndsRun, Unwind, Grows
  <2>13. CASE ReadError
    BY <2>13, <2>0 DEF ReadError, Fail, Unwind, Grows
  <2>14. ASSUME NEW style \in Styles, ApplyTransform(style) PROVE Grows
    BY <2>14, <2>0 DEF ApplyTransform, Reject, AfterReject, Grows
  <2>15. CASE TransformsDone
    BY <2>15, <2>0 DEF TransformsDone, Grows
  <2>16. CASE ApplyValidator
    BY <2>16, <2>0 DEF ApplyValidator, NextValidator, Grows
  <2>17. CASE ValidatorsDone
    BY <2>17, <2>0 DEF ValidatorsDone, Reject, AfterReject, Grows
  <2>18. CASE QuarantineWrite
    BY <2>18, <2>0 DEF QuarantineWrite, QuarantineFails, Fail, Unwind, Grows
  <2>19. CASE SinkWrite
    BY <2>19, <2>0 DEF SinkWrite, SinkFails, Fail, Unwind, Grows
  <2>20. CASE CallPanics
    BY <2>20, <2>0 DEF CallPanics, Panics, Unwind, Grows
  <2>21. CASE CloseQuarantine
    BY <2>21, <2>0 DEF CloseQuarantine, Grows
  <2>22. CASE CloseSink
    BY <2>22, <2>0 DEF CloseSink, Grows
  <2>23. CASE CloseSource
    BY <2>23, <2>0 DEF CloseSource, Grows
  <2>24. CASE Cancel
    BY <2>24, <2>0 DEF Cancel, Grows
  <2>25. CASE UNCHANGED vars
    BY <2>25, <2>0 DEF vars, Grows
  <2>26. QED
    BY <2>1, <2>2, <2>3, <2>4, <2>5, <2>6, <2>7, <2>8, <2>9, <2>10, <2>11, <2>12,
           <2>13, <2>14, <2>15, <2>16, <2>17, <2>18, <2>19, <2>20, <2>21, <2>22,
           <2>23, <2>24, <2>25 DEF Next, RunStep, Opening,
       Looping, Closing
<1>2. QED
  BY <1>1, TypeCorrect, ControlHolds, AccountingHolds, FailedCounts, PTL
     DEF Spec, StatsMonotonic

(* The ids of a sequence that grows by one grow by one. *)
LEMMA IdsAppend ==
    ASSUME NEW S, NEW s \in Seq(S), NEW d
    PROVE  Ids(Append(s, d)) = Append(Ids(s), d.id) /\ Len(Ids(s)) = Len(s)
<1>1. Ids(s) \in Seq({s[k].id : k \in DOMAIN s})
  BY DEF Ids
<1>2. Len(Ids(s)) = Len(s)
  BY DEF Ids
<1>3. Ids(Append(s, d)) = Append(Ids(s), d.id)
  BY <1>1 DEF Ids
<1>4. QED
  BY <1>2, <1>3

(* Pipeline implements RecordFlow: every step of Run, of the builder and of  *)
(* the caller is a step of the abstract record flow or leaves it alone.      *)
THEOREM Refinement == Spec => ImplementsRecordFlow
<1> DEFINE FlowStep == Flow!Next \/ UNCHANGED Flow!vars
<1>1. Init => Flow!Init
  <2>1. Ids(<<>>) = <<>>
    BY DEF Ids
  <2>2. Init => Verdict = "idle"
    BY DEF Init, Verdict, Misuses
  <2>3. Init => Len(input) = 0 /\ Ids(accepted) = <<>> /\ Ids(refused) = <<>>
    BY <2>1 DEF Init
  <2>4. QED
    BY <2>2, <2>3 DEF Flow!Init
<1>2. TypeOK /\ ControlInv /\ AccountingInv /\ [Next]_vars => FlowStep
  <2> SUFFICES ASSUME TypeOK, ControlInv, AccountingInv, [Next]_vars PROVE FlowStep
    OBVIOUS
  <2> USE DEF stats, given, hand, flow, building, caller,
           stages, sinkSide, badSide, run, PCs,
           CallsUserCode, OpenPoints, LoopPoints, ClosePoints, Outcomes, Misuses
  <2>0. /\ accepted \in Seq(Deliveries) /\ refused \in Seq(InvalidRecords)
        /\ input \in Seq(Contents) /\ Read \in Nat /\ Written \in Nat
        /\ Invalid \in Nat
    BY DEF TypeOK, CountTypes, DataTypes
  <2>a. Flow!Settled = Written + Invalid
    BY <2>0, IdsAppend DEF Flow!Settled, AccountingInv, Accounting
  <2>1. ASSUME NEW c \in Components, Attach(c) PROVE FlowStep
    BY <2>1 DEF Attach, Building, run, FlowStep, Flow!vars, Verdict
  <2>2. CASE AddTransform
    BY <2>2 DEF AddTransform, Building, run, FlowStep, Flow!vars, Verdict
  <2>3. CASE AddValidator
    BY <2>3 DEF AddValidator, Building, run, FlowStep, Flow!vars, Verdict
  <2>4. CASE RunAgain
    BY <2>4 DEF RunAgain, KeepStats, run, FlowStep, Flow!vars, Verdict
  <2>5. CASE RunMisconfigured
    BY <2>5 DEF RunMisconfigured, FlowStep, Flow!Next, Flow!Misuse, Verdict
  <2>6. CASE RunStart
    BY <2>6 DEF RunStart, FlowStep, Flow!Next, Flow!Begin, Verdict
  <2>7. CASE OpenSource
    BY <2>7 DEF OpenSource, Open, Fail, Panics, Unwind, FlowStep, Flow!vars, Verdict
  <2>8. CASE OpenSink
    BY <2>8 DEF OpenSink, Open, Fail, Panics, Unwind, FlowStep, Flow!vars, Verdict
  <2>9. CASE OpenQuarantine
    BY <2>9 DEF OpenQuarantine, Open, Fail, Panics, Unwind, FlowStep, Flow!vars,
           Verdict
  <2>10. CASE CheckContext
    BY <2>10 DEF CheckContext, ContextErr, Fail, Unwind, FlowStep, Flow!vars, Verdict
  <2>11. CASE ReadRecord
    <3>1. Len(input') = Len(input) + 1
      <4>1. PICK d \in Content : input' = Append(input, d)
        BY <2>11 DEF ReadRecord
      <4>2. QED
        BY <2>0, <4>1
    <3>2. Flow!Settled = Len(input)
      <4>1. rec = 0
        BY <2>11 DEF ReadRecord, ControlInv, AccountingInv
      <4>2. Read = Len(input) /\ Read = Written + Invalid
        BY <4>1 DEF AccountingInv, Accounting
      <4>3. QED
        BY <2>a, <4>2
    <3>3. Verdict = "open" /\ Verdict' = "open"
      BY <2>11 DEF ReadRecord, Verdict
    <3>4. QED
      BY <2>11, <3>1, <3>2, <3>3 DEF ReadRecord, Flow!Next, Flow!Offer
  <2>12. CASE ReadEOF
    BY <2>12 DEF ReadEOF, EOFEndsRun, Unwind, FlowStep, Flow!vars, Verdict
  <2>13. CASE ReadError
    BY <2>13 DEF ReadError, Fail, Unwind, FlowStep, Flow!vars, Verdict
  <2>14. ASSUME NEW style \in Styles, ApplyTransform(style) PROVE FlowStep
    <3>1. CASE input[rec].bad = step
      <4>1. rec = Len(input) /\ rec # 0 /\ Verdict = "open" /\ Verdict' = "open"
        BY <2>14, <3>1 DEF ApplyTransform, Reject, AfterReject, Verdict, AccountingInv
      <4>2. Flow!Settled < Len(input)
        BY <2>0, <2>a, <4>1 DEF AccountingInv, Accounting
      <4>3. Ids(refused') = Append(Ids(refused), rec)
        <5>1. PICK r : refused' = Append(refused, r) /\ r.id = rec
          <6> DEFINE info == [id |-> rec, version |-> raw', stage |-> "transform",
                              errors |-> <<step>>]
          <6>1. refused' = Append(refused, info) /\ info.id = rec
            BY <2>14, <3>1 DEF ApplyTransform, Reject, AfterReject
          <6>2. QED
            BY <6>1
        <5>2. QED
          BY <2>0, <5>1, IdsAppend
      <4>4. QED
        BY <2>14, <3>1, <4>1, <4>2, <4>3 DEF ApplyTransform, Reject, AfterReject, Flow!Next, Flow!Refuse
    <3>2. CASE input[rec].bad # step
      BY <2>14, <3>2 DEF ApplyTransform, Flow!vars, Verdict
    <3>3. QED
      BY <3>1, <3>2
  <2>15. CASE TransformsDone
    BY <2>15 DEF TransformsDone, FlowStep, Flow!vars, Verdict
  <2>16. CASE ApplyValidator
    BY <2>16 DEF ApplyValidator, NextValidator, FlowStep, Flow!vars, Verdict
  <2>17. CASE ValidatorsDone
    <3>1. CASE errs # <<>>
      <4>1. rec = Len(input) /\ rec # 0 /\ Verdict = "open" /\ Verdict' = "open"
        BY <2>17, <3>1 DEF ValidatorsDone, Reject, AfterReject, Verdict, AccountingInv
      <4>2. Flow!Settled < Len(input)
        BY <2>0, <2>a, <4>1 DEF AccountingInv, Accounting
      <4>3. Ids(refused') = Append(Ids(refused), rec)
        <5>1. PICK r : refused' = Append(refused, r) /\ r.id = rec
          <6> DEFINE info == [id |-> rec, version |-> out, stage |-> "validation",
                              errors |-> errs]
          <6>1. refused' = Append(refused, info) /\ info.id = rec
            BY <2>17, <3>1 DEF ValidatorsDone, Reject, AfterReject
          <6>2. QED
            BY <6>1
        <5>2. QED
          BY <2>0, <5>1, IdsAppend
      <4>4. QED
        BY <2>17, <3>1, <4>1, <4>2, <4>3 DEF ValidatorsDone, Reject, AfterReject, Flow!Next, Flow!Refuse
    <3>2. CASE errs = <<>>
      BY <2>17, <3>2 DEF ValidatorsDone, Flow!vars, Verdict
    <3>3. QED
      BY <3>1, <3>2
  <2>18. CASE QuarantineWrite
    BY <2>18 DEF QuarantineWrite, QuarantineFails, Fail, Unwind, FlowStep, Flow!vars, Verdict
  <2>19. CASE SinkWrite
    <3>1. CASE rec' = 0
      <4>1. rec = Len(input) /\ rec # 0 /\ Verdict = "open" /\ Verdict' = "open"
        BY <2>19, <3>1 DEF SinkWrite, SinkFails, Fail, Verdict, AccountingInv
      <4>2. Flow!Settled < Len(input)
        BY <2>0, <2>a, <4>1 DEF AccountingInv, Accounting
      <4>3. Ids(accepted') = Append(Ids(accepted), rec)
        <5>1. PICK d : accepted' = Append(accepted, d) /\ d.id = rec
          <6> DEFINE done == [id |-> rec, version |-> out]
          <6>1. accepted' = Append(accepted, done) /\ done.id = rec
            BY <2>19, <3>1, <4>1 DEF SinkWrite, SinkFails
          <6>2. QED
            BY <6>1
        <5>2. QED
          BY <2>0, <5>1, IdsAppend
      <4>4. QED
        BY <2>19, <3>1, <4>1, <4>2, <4>3 DEF SinkWrite, SinkFails, Fail, Flow!Next, Flow!Deliver
    <3>2. CASE rec' # 0
      BY <2>19, <3>2 DEF SinkWrite, SinkFails, Fail, Unwind, Flow!vars, Verdict
    <3>3. QED
      BY <3>1, <3>2
  <2>20. CASE CallPanics
    BY <2>20 DEF CallPanics, Panics, Unwind, FlowStep, Flow!vars, Verdict
  <2>21. CASE CloseQuarantine
    BY <2>21 DEF CloseQuarantine, FlowStep, Flow!vars, Verdict
  <2>22. CASE CloseSink
    BY <2>22 DEF CloseSink, FlowStep, Flow!vars, Verdict
  <2>23. CASE CloseSource
    <3>1. pc # "idle" /\ pc' = "idle" /\ err \in Outcomes
      BY <2>23 DEF CloseSource, TypeOK, ControlTypes
    <3>2. err = "ok" => Flow!Settled = Len(input)
      BY <2>23, <2>0, <2>a DEF CloseSource, AccountingInv, Accounting
    <3>3. Verdict = "open" /\ Verdict' = IF err = "ok" THEN "clean" ELSE "aborted"
      BY <2>23, <3>1 DEF CloseSource, Verdict
    <3>4. QED
      BY <2>23, <3>2, <3>3 DEF CloseSource, Flow!Next, Flow!Finish
  <2>24. CASE Cancel
    BY <2>24 DEF Cancel, FlowStep, Flow!vars, Verdict
  <2>25. CASE UNCHANGED vars
    BY <2>25 DEF vars, FlowStep, Flow!vars, Verdict
  <2>26. QED
    BY <2>1, <2>2, <2>3, <2>4, <2>5, <2>6, <2>7, <2>8, <2>9, <2>10, <2>11, <2>12,
           <2>13, <2>14, <2>15, <2>16, <2>17, <2>18, <2>19, <2>20, <2>21, <2>22,
           <2>23, <2>24, <2>25 DEF Next, RunStep, Opening,
       Looping, Closing
<1>3. QED
  BY <1>1, <1>2, TypeCorrect, ControlHolds, AccountingHolds, PTL
     DEF Spec, ImplementsRecordFlow, Flow!Spec

(* What a sequence holds once an element is appended. *)
LEMMA AppendAt ==
    ASSUME NEW S, NEW s \in Seq(S), NEW d, NEW k \in DOMAIN Append(s, d)
    PROVE  \/ k \in DOMAIN s /\ Append(s, d)[k] = s[k]
           \/ Append(s, d)[k] = d
OBVIOUS

(* Appending a larger number keeps a sequence ascending.                    *)
LEMMA AppendLarger ==
    ASSUME NEW s \in Seq(Nat), NEW n \in Nat, Ascending(s),
           \A i \in DOMAIN s : s[i] < n
    PROVE  /\ Ascending(Append(s, n))
           /\ {Append(s, n)[i] : i \in DOMAIN Append(s, n)} = {s[i] : i \in DOMAIN s} \cup {n}
<1>1. /\ DOMAIN Append(s, n) = 1..(Len(s) + 1) /\ DOMAIN s = 1..Len(s)
      /\ Len(s) \in Nat
  OBVIOUS
<1>2. \A i \in 1..Len(s) : Append(s, n)[i] = s[i]
  OBVIOUS
<1>3. Append(s, n)[Len(s) + 1] = n
  OBVIOUS
<1>4. Ascending(Append(s, n))
  <2>1. SUFFICES ASSUME NEW i \in 1..(Len(s) + 1), NEW j \in 1..(Len(s) + 1), i < j
                 PROVE  Append(s, n)[i] < Append(s, n)[j]
    BY <1>1 DEF Ascending
  <2>2. i \in 1..Len(s)
    BY <1>1, <2>1
  <2>3. CASE j \in 1..Len(s)
    BY <1>1, <1>2, <2>1, <2>2, <2>3 DEF Ascending
  <2>4. CASE j = Len(s) + 1
    BY <1>1, <1>2, <1>3, <2>2, <2>4
  <2>5. QED
    BY <1>1, <2>3, <2>4
<1>5. QED
  BY <1>1, <1>2, <1>3, <1>4

(* A step that leaves the records and the stages attached alone keeps what  *)
(* is known of the records settled so far.                                  *)
LEMMA HistoryKept ==
    ASSUME Routed, HistoryInv,
           UNCHANGED <<input, transforms, validators, accepted, refused>>
    PROVE  Routed' /\ HistoryInv'
BY DEF Routed, HistoryInv, WellDelivered, WellRefused, TransformObjects,
       ValidatorsObject, Content

(* Refusing one more record for good reasons keeps the invariant. *)
LEMMA RefusedMore ==
    ASSUME RoutedInv, refused \in Seq(InvalidRecords),
           NEW info, WellRefused(info), info.id \in DOMAIN input,
           refused' = Append(refused, info),
           UNCHANGED <<input, transforms, validators, accepted>>,
           pc' \in {"quarantineWrite", "top"}
    PROVE  RoutedInv'
<1>1. \A k \in DOMAIN refused' :
          WellRefused(refused'[k]) /\ refused'[k].id \in DOMAIN input
  BY AppendAt DEF RoutedInv, Routed, HistoryInv
<1>2. Routed' /\ HistoryInv'
  BY <1>1 DEF RoutedInv, Routed, HistoryInv, WellDelivered, WellRefused,
              TransformObjects, ValidatorsObject, Content
<1>3. QED
  BY <1>2 DEF RoutedInv, StageInv

(* Delivering one more record as it should be keeps the invariant. *)
LEMMA DeliveredMore ==
    ASSUME RoutedInv, accepted \in Seq(Deliveries),
           NEW done, WellDelivered(done), done.id \in DOMAIN input,
           accepted' = Append(accepted, done),
           UNCHANGED <<input, transforms, validators, refused>>,
           pc' = "top"
    PROVE  RoutedInv'
<1>1. \A k \in DOMAIN accepted' :
          WellDelivered(accepted'[k]) /\ accepted'[k].id \in DOMAIN input
  BY AppendAt DEF RoutedInv, Routed, HistoryInv
<1>2. Routed' /\ HistoryInv'
  BY <1>1 DEF RoutedInv, Routed, HistoryInv, WellDelivered, WellRefused,
              TransformObjects, ValidatorsObject, Content
<1>3. QED
  BY <1>2 DEF RoutedInv, StageInv

(* The sink and the quarantine get the records they should, in the state and *)
(* with the reasons they should.                                             *)
LEMMA RoutedHolds == Spec => []RoutedInv
<1>1. Init => RoutedInv
  BY DEF Init, RoutedInv, Routed, HistoryInv, StageInv
<1>2. TypeOK /\ ControlInv /\ AccountingInv /\ RoutedInv /\ [Next]_vars => RoutedInv'
  <2> SUFFICES ASSUME TypeOK, ControlInv, AccountingInv, RoutedInv, [Next]_vars PROVE RoutedInv'
    OBVIOUS
  <2> USE DEF stats, given, hand, flow, building, caller,
           stages, sinkSide, badSide
  <2>0. /\ accepted \in Seq(Deliveries) /\ refused \in Seq(InvalidRecords)
        /\ transforms \in Nat /\ validators \in Nat /\ input \in Seq(Contents)
        /\ raw \in Nat /\ out \in Nat /\ step \in Nat /\ errs \in Seq(Nat)
        /\ pc = "transform" => step \in 1..(transforms + 1)
        /\ pc = "validate" => step \in 1..(validators + 1)
    BY ConstantsAssumption DEF TypeOK, ControlTypes, StageTypes, DataTypes
  <2>a. ASSUME pc \in {"transform", "validate", "sinkWrite"}
        PROVE  /\ rec \in DOMAIN input
               /\ input[rec].bad \in 0..transforms
               /\ input[rec].flags \subseteq 1..validators
    <3>1. rec \in DOMAIN input
      BY <2>0, <2>a DEF AccountingInv
    <3>2. input[rec] \in Content
      BY <3>1 DEF RoutedInv, HistoryInv
    <3>3. QED
      BY <3>1, <3>2 DEF Content
  <2>1. ASSUME NEW c \in Components, Attach(c) PROVE RoutedInv'
    BY <2>1 DEF Attach, Building, run, RoutedInv, Routed, HistoryInv, StageInv,
           WellDelivered, WellRefused, Content, TransformObjects, ValidatorsObject
  <2>2. CASE AddTransform
    <3>1. Len(input) = 0 /\ Len(accepted) = 0 /\ Len(refused) = 0
      <4>1. Len(input) = 0 /\ rec = 0
        BY <2>2 DEF AddTransform, Building, run, AccountingInv
      <4>2. Read = 0 /\ Read = Written + Invalid
        BY <4>1 DEF AccountingInv, Accounting
      <4>3. QED
        BY <4>1, <4>2 DEF AccountingInv, Accounting, TypeOK, CountTypes
    <3>2. DOMAIN input = {} /\ DOMAIN accepted = {} /\ DOMAIN refused = {}
      BY <2>0, <3>1
    <3>3. QED
      BY <2>2, <3>2 DEF AddTransform, Building, run, RoutedInv, Routed, HistoryInv, StageInv
  <2>3. CASE AddValidator
    <3>1. Len(input) = 0 /\ Len(accepted) = 0 /\ Len(refused) = 0
      <4>1. Len(input) = 0 /\ rec = 0
        BY <2>3 DEF AddValidator, Building, run, AccountingInv
      <4>2. Read = 0 /\ Read = Written + Invalid
        BY <4>1 DEF AccountingInv, Accounting
      <4>3. QED
        BY <4>1, <4>2 DEF AccountingInv, Accounting, TypeOK, CountTypes
    <3>2. DOMAIN input = {} /\ DOMAIN accepted = {} /\ DOMAIN refused = {}
      BY <2>0, <3>1
    <3>3. QED
      BY <2>3, <3>2 DEF AddValidator, Building, run, RoutedInv, Routed, HistoryInv, StageInv
  <2>4. CASE RunAgain
    BY <2>4 DEF RunAgain, KeepStats, run, RoutedInv, Routed, HistoryInv, StageInv,
           WellDelivered, WellRefused, Content, TransformObjects, ValidatorsObject
  <2>5. CASE RunMisconfigured
    BY <2>5 DEF RunMisconfigured, StatsReset, run, RoutedInv, Routed, HistoryInv,
           StageInv, WellDelivered, WellRefused, Content, TransformObjects,
           ValidatorsObject
  <2>6. CASE RunStart
    BY <2>6 DEF RunStart, StatsReset, run, RoutedInv, Routed, HistoryInv, StageInv,
           WellDelivered, WellRefused, Content, TransformObjects, ValidatorsObject
  <2>7. CASE OpenSource
    BY <2>7 DEF OpenSource, Open, Fail, Panics, Unwind, RoutedInv, Routed,
           HistoryInv, StageInv, WellDelivered, WellRefused, Content,
           TransformObjects, ValidatorsObject
  <2>8. CASE OpenSink
    BY <2>8 DEF OpenSink, Open, Fail, Panics, Unwind, RoutedInv, Routed, HistoryInv,
           StageInv, WellDelivered, WellRefused, Content, TransformObjects,
           ValidatorsObject
  <2>9. CASE OpenQuarantine
    BY <2>9 DEF OpenQuarantine, Open, Fail, Panics, Unwind, RoutedInv, Routed,
           HistoryInv, StageInv, WellDelivered, WellRefused, Content,
           TransformObjects, ValidatorsObject
  <2>10. CASE CheckContext
    BY <2>10 DEF CheckContext, ContextErr, Fail, Unwind, RoutedInv, Routed, HistoryInv,
           StageInv, WellDelivered, WellRefused, Content, TransformObjects,
           ValidatorsObject
  <2>11. CASE ReadRecord
    BY <2>11 DEF ReadRecord, RoutedInv, Routed, HistoryInv, StageInv, WellDelivered,
           WellRefused, Content, TransformObjects, ValidatorsObject
  <2>12. CASE ReadEOF
    BY <2>12 DEF ReadEOF, EOFEndsRun, Unwind, RoutedInv, Routed, HistoryInv, StageInv,
           WellDelivered, WellRefused, Content, TransformObjects, ValidatorsObject
  <2>13. CASE ReadError
    BY <2>13 DEF ReadError, Fail, Unwind, RoutedInv, Routed, HistoryInv, StageInv,
           WellDelivered, WellRefused, Content, TransformObjects, ValidatorsObject
  <2>14. ASSUME NEW style \in Styles, ApplyTransform(style) PROVE RoutedInv'
    <3>1. CASE input[rec].bad = step
      <4> DEFINE info == [id |-> rec, version |-> raw', stage |-> "transform",
                          errors |-> <<step>>]
      <4>1. WellRefused(info) /\ info.id \in DOMAIN input
        <5>1. pc = "transform" /\ rec \in DOMAIN input /\ step # 0
          BY <2>14, <2>0, <2>a DEF ApplyTransform
        <5>2. "inPlace" \notin Styles => raw' = 0
          BY <2>14, <5>1 DEF ApplyTransform, RoutedInv, StageInv
        <5>3. QED
          BY <3>1, <5>1, <5>2 DEF WellRefused, TransformObjects
      <4>2. /\ refused' = Append(refused, info)
            /\ UNCHANGED <<input, transforms, validators, accepted>>
            /\ pc' \in {"quarantineWrite", "top"}
        BY <2>14, <3>1 DEF ApplyTransform, Reject, AfterReject
      <4> HIDE DEF info
      <4>3. QED
        BY <2>0, <4>1, <4>2, RefusedMore
    <3>2. CASE input[rec].bad # step
      <4>1. /\ pc = "transform" /\ pc' = "transform" /\ out' = out + 1
            /\ step' = step + 1 /\ errs' = errs
            /\ "inPlace" \notin Styles => raw' = raw
            /\ input' = input /\ rec' = rec
        BY <2>14, <3>2 DEF ApplyTransform
      <4>a. StageInv'
        BY <2>0, <2>a, <3>2, <4>1 DEF RoutedInv, StageInv
      <4>2. UNCHANGED <<input, transforms, validators, accepted, refused>>
        BY <2>14, <3>2 DEF ApplyTransform
      <4>3. QED
        BY <4>a, <4>2, HistoryKept DEF RoutedInv
    <3>3. QED
      BY <3>1, <3>2
  <2>15. CASE TransformsDone
    <3>a. /\ pc = "transform" /\ pc' = "validate" /\ step' = 1 /\ step = transforms + 1
          /\ out' = out /\ errs = <<>> /\ errs' = errs
          /\ UNCHANGED <<input, rec, transforms, validators>>
      BY <2>15, <2>0 DEF TransformsDone, TransformsLeft, RoutedInv, StageInv
    <3>b. out' = transforms' /\ input'[rec'].bad = 0
      BY <2>0, <2>a, <3>a DEF RoutedInv, StageInv
    <3>c. Ascending(errs') /\ {errs'[i] : i \in DOMAIN errs'} = {}
      BY <3>a DEF Ascending
    <3>1. StageInv'
      BY <3>a, <3>b, <3>c DEF StageInv
    <3>2. QED
      BY <2>15, <3>1, HistoryKept DEF TransformsDone, RoutedInv
  <2>16. CASE ApplyValidator
    <3>1. /\ pc = "validate" /\ pc' = "validate" /\ step \in 1..validators
          /\ step' = step + 1 /\ out' = out /\ rec' = rec
          /\ UNCHANGED <<input, transforms, validators, accepted, refused>>
      BY <2>16, <2>0 DEF ApplyValidator, NextValidator, ValidatorsLeft
    <3>2. out = transforms /\ input[rec].bad = 0
      BY <3>1 DEF RoutedInv, StageInv
    <3>3. /\ Ascending(errs')
          /\ {errs'[i] : i \in DOMAIN errs'} = input[rec].flags \cap 1..step
      <4>1. /\ Ascending(errs)
            /\ {errs[i] : i \in DOMAIN errs} = input[rec].flags \cap 1..(step - 1)
        BY <3>1 DEF RoutedInv, StageInv
      <4>2. CASE step \in input[rec].flags
        <5>1. errs' = Append(errs, step)
          BY <2>16, <4>2 DEF ApplyValidator, NextValidator
        <5>2. \A i \in DOMAIN errs : errs[i] < step
          <6>1. TAKE i \in DOMAIN errs
          <6>2. errs[i] \in 1..(step - 1)
            BY <4>1
          <6>3. QED
            BY <2>0, <6>2
        <5>3. /\ Ascending(errs')
              /\ {errs'[i] : i \in DOMAIN errs'} = {errs[i] : i \in DOMAIN errs} \cup {step}
          <6>1. /\ Ascending(Append(errs, step))
                /\ {Append(errs, step)[i] : i \in DOMAIN Append(errs, step)}
                     = {errs[i] : i \in DOMAIN errs} \cup {step}
            BY <2>0, <4>1, <5>2, AppendLarger
          <6>2. QED
            BY <5>1, <6>1, Zenon
        <5>4. QED
          BY <3>1, <4>1, <4>2, <5>3
      <4>3. CASE step \notin input[rec].flags
        <5>1. errs' = errs
          BY <2>16, <4>3 DEF ApplyValidator, NextValidator
        <5>2. QED
          BY <3>1, <4>1, <4>3, <5>1
      <4>4. QED
        BY <4>2, <4>3
    <3>4. StageInv'
      BY <2>0, <3>1, <3>2, <3>3 DEF StageInv
    <3>5. QED
      BY <3>1, <3>4, HistoryKept DEF RoutedInv
  <2>17. CASE ValidatorsDone
    <3>1. /\ pc = "validate" /\ step = validators + 1 /\ out = transforms
          /\ input[rec].bad = 0 /\ rec \in DOMAIN input /\ Ascending(errs)
          /\ {errs[i] : i \in DOMAIN errs} = input[rec].flags \cap 1..(step - 1)
      BY <2>17, <2>0, <2>a DEF ValidatorsDone, ValidatorsLeft, RoutedInv, StageInv
    <3>2. {errs[i] : i \in DOMAIN errs} = input[rec].flags
      BY <2>0, <2>a, <3>1
    <3>3. CASE errs # <<>>
      <4> DEFINE info == [id |-> rec, version |-> out, stage |-> "validation",
                          errors |-> errs]
      <4>1. WellRefused(info) /\ info.id \in DOMAIN input
        BY <3>1, <3>2, <3>3 DEF WellRefused, TransformObjects, ValidatorsObject
      <4>2. /\ refused' = Append(refused, info)
            /\ UNCHANGED <<input, transforms, validators, accepted>>
            /\ pc' \in {"quarantineWrite", "top"}
        BY <2>17, <3>3 DEF ValidatorsDone, Reject, AfterReject
      <4> HIDE DEF info
      <4>3. QED
        BY <2>0, <4>1, <4>2, RefusedMore
    <3>4. CASE errs = <<>>
      <4>1. pc' = "sinkWrite" /\ UNCHANGED <<input, transforms, validators, accepted, refused, rec, out>>
        BY <2>17, <3>4 DEF ValidatorsDone
      <4>2. input[rec].flags = {}
        BY <3>2, <3>4
      <4>3. StageInv'
        BY <3>1, <4>1, <4>2 DEF StageInv
      <4>4. QED
        BY <4>1, <4>3, HistoryKept DEF RoutedInv
    <3>5. QED
      BY <3>3, <3>4
  <2>18. CASE QuarantineWrite
    BY <2>18 DEF QuarantineWrite, QuarantineFails, Fail, Unwind, RoutedInv, Routed, HistoryInv,
           StageInv, WellDelivered, WellRefused, Content, TransformObjects,
           ValidatorsObject
  <2>19. CASE SinkWrite
    <3>1. CASE rec' = 0 /\ rec # 0
      <4> DEFINE done == [id |-> rec, version |-> out]
      <4>1. WellDelivered(done) /\ done.id \in DOMAIN input
        BY <2>19, <2>a DEF SinkWrite, SinkFails, WellDelivered, TransformObjects, ValidatorsObject,
                          RoutedInv, StageInv
      <4>2. /\ accepted' = Append(accepted, done) /\ pc' = "top"
            /\ UNCHANGED <<input, transforms, validators, refused>>
        BY <2>19, <3>1 DEF SinkWrite, SinkFails
      <4> HIDE DEF done
      <4>3. QED
        BY <2>0, <4>1, <4>2, DeliveredMore
    <3>2. CASE rec' = rec
      <4>1. UNCHANGED <<input, transforms, validators, accepted, refused>> /\ pc' \in ClosePoints
        BY <2>19, <2>a, <2>0, <3>2 DEF SinkWrite, SinkFails, Fail, Unwind, ClosePoints
      <4>2. QED
        BY <4>1, HistoryKept DEF RoutedInv, StageInv, ClosePoints
    <3>3. QED
      BY <2>19, <2>0, <2>a, <3>1, <3>2 DEF SinkWrite, SinkFails
  <2>20. CASE CallPanics
    BY <2>20 DEF CallPanics, Panics, Unwind, RoutedInv, Routed, HistoryInv,
           StageInv, WellDelivered, WellRefused, Content, TransformObjects,
           ValidatorsObject
  <2>21. CASE CloseQuarantine
    BY <2>21 DEF CloseQuarantine, RoutedInv, Routed, HistoryInv, StageInv,
           WellDelivered, WellRefused, Content, TransformObjects, ValidatorsObject
  <2>22. CASE CloseSink
    BY <2>22 DEF CloseSink, RoutedInv, Routed, HistoryInv, StageInv, WellDelivered,
           WellRefused, Content, TransformObjects, ValidatorsObject
  <2>23. CASE CloseSource
    BY <2>23 DEF CloseSource, RoutedInv, Routed, HistoryInv, StageInv,
           WellDelivered, WellRefused, Content, TransformObjects, ValidatorsObject
  <2>24. CASE Cancel
    BY <2>24 DEF Cancel, RoutedInv, Routed, HistoryInv, StageInv, WellDelivered,
           WellRefused, Content, TransformObjects, ValidatorsObject
  <2>25. CASE UNCHANGED vars
    BY <2>25 DEF vars, RoutedInv, Routed, HistoryInv, StageInv, WellDelivered,
           WellRefused, Content, TransformObjects, ValidatorsObject
  <2>26. QED
    BY <2>1, <2>2, <2>3, <2>4, <2>5, <2>6, <2>7, <2>8, <2>9, <2>10, <2>11, <2>12,
           <2>13, <2>14, <2>15, <2>16, <2>17, <2>18, <2>19, <2>20, <2>21, <2>22,
           <2>23, <2>24, <2>25 DEF Next, RunStep, Opening,
       Looping, Closing
<1>3. QED
  BY <1>1, <1>2, TypeCorrect, ControlHolds, AccountingHolds, PTL DEF Spec

-----------------------------------------------------------------------------
(* The properties themselves, from the invariants above.                   *)

(* The counters of Stats balance at every moment: see Accounting. *)
THEOREM AccountingCorrect == Spec => []Accounting
BY AccountingHolds, PTL DEF AccountingInv

(* No rejected record is dropped silently: see QuarantineComplete. *)
THEOREM QuarantineCorrect == Spec => []QuarantineComplete
BY QuarantineHolds, PTL DEF QuarantineInv

(* Opening and closing happen in order and completely: see Lifecycle. *)
THEOREM LifecycleCorrect == Spec => []Lifecycle
BY LifecycleHolds, PTL DEF LifecycleInv

(* Cancelling stops the reading: see CancelStops. *)
THEOREM CancelCorrect == Spec => []CancelStops
BY CancelHolds, PTL DEF CancelInv

(* Sink and quarantine get the right records: see Routed. *)
THEOREM RoutingCorrect == Spec => []Routed
BY RoutedHolds, PTL DEF RoutedInv
=============================================================================
