----------------------------- MODULE DriverProofs -----------------------------
(***************************************************************************)
(* That the feedback loop tries no option twice, and that what the         *)
(* estimators judge and the backend compiles is the program of the current *)
(* round, for every number of options and whichever programs fail.         *)
(***************************************************************************)
EXTENDS Driver, TLAPS

(***************************************************************************)
(* The estimator adds the current option to the previous ones, and unless  *)
(* it stops goes on to an option that is not among them.                   *)
(***************************************************************************)
LEMMA AdvanceFresh ==
    ASSUME NEW s \in StateT, NEW pe, NEW ok, NEW t \in Advance(s, pe, ok)
    PROVE  /\ t \in StateT
           /\ t.previous = s.previous \cup {s.option}
           /\ ~t.stop => t.option \notin t.previous
<1> DEFINE tried == s.previous \cup {s.option}
<1>1. tried \subseteq Option
  BY DEF StateT
<1>2. CASE t = [option |-> s.option, previous |-> tried, stop |-> TRUE]
  BY <1>1, <1>2 DEF StateT
<1>3. CASE \E o \in Option :
              /\ Closest(o, tried, s.option + Direction(pe, ok))
              /\ t = [option |-> o, previous |-> tried, stop |-> FALSE]
  BY <1>1, <1>3 DEF StateT, Closest
<1> QED
  BY <1>2, <1>3 DEF Advance

\* The inductive invariant.
IInv == TypeOK /\ OneRound /\ OwnSearch /\ FilesCurrent

(***************************************************************************)
(* It holds when the script is called.                                     *)
(***************************************************************************)
LEMMA InitInv == Init => IInv
<1> SUFFICES ASSUME Init PROVE IInv
  OBVIOUS
<1>1. TypeOK
  <2>1. OldStates \subseteq StateT \cup {Missing}
    BY OptionAssumption DEF OldStates, StateT, Option
  <2> QED
    BY <2>1, OptionAssumption DEF Init, TypeOK, Label, Stage, FileT
<1>2. OneRound
  BY DEF Init, OneRound, Early, Converting
<1>3. OwnSearch /\ FilesCurrent
  BY DEF Init, OwnSearch, FilesCurrent, Round, Converting
<1> QED
  BY <1>1, <1>2, <1>3 DEF IInv

(***************************************************************************)
(* The types are kept where a program fails, a stage writes its file or    *)
(* passes on what it read, and where the script only goes on.              *)
(***************************************************************************)
LEMMA ExitTyped ==
    ASSUME TypeOK, NEW p \in Label, ExitBy(p)
    PROVE  TypeOK'
BY DEF TypeOK, ExitBy, settings, Label

LEMMA WriteTyped ==
    ASSUME TypeOK, NEW s \in Stage, NEW next \in Label, Write(s, next)
    PROVE  TypeOK'
BY DEF TypeOK, Write, settings, FileT

LEMMA PassTyped ==
    ASSUME TypeOK, NEW s \in Stage, NEW from \in Stage, NEW next \in Label,
           Pass(s, from, next)
    PROVE  TypeOK'
BY DEF TypeOK, Pass, settings, FileT

LEMMA ContinueTyped ==
    ASSUME TypeOK, NEW next \in Label, Continue(next)
    PROVE  TypeOK'
BY DEF TypeOK, Continue, settings

(***************************************************************************)
(* Every step keeps the types.                                             *)
(***************************************************************************)
LEMMA TypeOKStep ==
    ASSUME TypeOK, [Next]_vars
    PROVE  TypeOK'
<1>1. CASE Frontend
  BY <1>1, ContinueTyped, ExitTyped DEF Frontend, Label, Stage
<1>2. CASE Initialize
  BY <1>2, WriteTyped, ExitTyped DEF Initialize, Label, Stage
<1>3. CASE RangeAnalysis
  <2> DEFINE next == IF feedback THEN "fe_init" ELSE "loop"
  <2>1. next \in Label
    BY DEF Label
  <2> HIDE DEF next
  <2>2. CASE Write("vra", next)
    BY <2>1, <2>2, WriteTyped DEF Stage
  <2>3. CASE ExitBy("vra")
    BY <2>3, ExitTyped DEF Label, Stage
  <2>4. CASE /\ failed' = failed \cup {"cp"} /\ pc' = next
             /\ UNCHANGED <<settings, file, fe, flags, stop, output, rc, used>>
    BY <2>1, <2>4 DEF TypeOK, settings
  <2> QED
    BY <1>3, <2>2, <2>3, <2>4 DEF RangeAnalysis, next
<1>4. CASE InitFeedback
  <2>1. NewState \in StateT /\ NewState.option \in Option
    BY OptionAssumption DEF NewState, StateT
  <2>2. "loop" \in Label /\ "fe_init" \in Label
    BY DEF Label
  <2> QED
    BY <1>4, <2>1, <2>2 DEF InitFeedback, TypeOK, settings
<1>5. CASE Loop
  BY <1>5, ContinueTyped DEF Loop, Label, Stage
<1>6. CASE DataTypeAlloc
  <2>1. CASE ExitBy("dta")
    BY <2>1, ExitTyped DEF Label, Stage
  <2>2. CASE ~ExitBy("dta")
    <3>1. file' \in [Stage -> FileT]
      BY <1>6, <2>2 DEF DataTypeAlloc, TypeOK, FileT
    <3>2. pc' \in Label /\ used' \subseteq Option
      BY <1>6, <2>2 DEF DataTypeAlloc, TypeOK, Label, Stage
    <3> QED
      BY <1>6, <2>2, <3>1, <3>2 DEF DataTypeAlloc, TypeOK, settings
  <2> QED
    BY <2>1, <2>2
<1>7. CASE Conversion
  BY <1>7, PassTyped, ExitTyped DEF Conversion, AfterConversion, Label, Stage
<1>8. CASE ErrorPropagation
  BY <1>8, PassTyped, ExitTyped DEF ErrorPropagation, Label, Stage
<1>9. CASE Again
  BY <1>9, ContinueTyped DEF Again, Label, Stage
<1>10. CASE BuildFloat
  BY <1>10, WriteTyped, ExitTyped DEF BuildFloat, Label, Stage
<1>11. CASE PerformanceEstimation
  BY <1>11, PassTyped, ExitTyped DEF PerformanceEstimation, Label, Stage
<1>12. CASE FeedbackEstimate
  <2>1. ASSUME fe # Missing, failed' = failed,
               NEW pe \in Prediction, NEW ok \in BOOLEAN, NEW t \in Advance(fe, pe, ok),
               fe' = t, stop' = t.stop, flags' = IF t.stop THEN flags ELSE t.option
        PROVE  TypeOK'
    <3>2. fe \in StateT
      BY <2>1 DEF TypeOK
    <3>3. t \in StateT /\ t.previous = fe.previous \cup {fe.option}
          /\ (~t.stop => t.option \notin t.previous)
      BY <3>2, AdvanceFresh
    <3> QED
      BY FileAssumption, OptionAssumption, <1>12, <2>1, <3>2, <3>3
         DEF TypeOK, Label, Stage, FileT, FeedbackEstimate, settings, StateT
  <2>2. CASE stop' = TRUE /\ failed' = failed \cup {"fe"} /\ fe' = fe /\ flags' = flags
    BY FileAssumption, OptionAssumption, <1>12, <2>2
       DEF TypeOK, Label, Stage, FileT, FeedbackEstimate, settings
  <2> QED
    BY <1>12, <2>1, <2>2 DEF FeedbackEstimate
<1>13. CASE Backend
  BY FileAssumption, OptionAssumption, <1>13
     DEF TypeOK, Label, Stage, FileT, Backend, ExitBy, settings
<1>14. CASE Cleanup
  BY <1>14, ContinueTyped, ExitTyped DEF Cleanup, Label, Stage
<1>15. CASE UNCHANGED vars
  BY <1>15 DEF TypeOK, Label, Stage, FileT, vars, settings
<1> QED
  BY <1>1, <1>2, <1>3, <1>4, <1>5, <1>6, <1>7, <1>8, <1>9, <1>10, <1>11,
     <1>12, <1>13, <1>14, <1>15 DEF Next, Step

(***************************************************************************)
(* Every step keeps OneRound.                                              *)
(***************************************************************************)
LEMMA OneRoundStep ==
    ASSUME TypeOK, OneRound, [Next]_vars
    PROVE  OneRound'
<1>1. CASE Frontend
  BY <1>1 DEF OneRound, Early, Converting, Frontend, ExitBy, Continue, settings
<1>2. CASE Initialize
  BY <1>2 DEF OneRound, Early, Converting, Initialize, ExitBy, Write, settings
<1>3. CASE RangeAnalysis
  BY <1>3
     DEF OneRound, Early, Converting, RangeAnalysis, ExitBy, Write, settings
<1>4. CASE InitFeedback
  BY <1>4
     DEF OneRound, Early, Converting, InitFeedback, NewState, StateT, settings
<1>5. CASE Loop
  BY <1>5 DEF OneRound, Early, Converting, Loop, Continue, settings
<1>6. CASE DataTypeAlloc
  BY <1>6 DEF OneRound, Early, Converting, DataTypeAlloc, ExitBy, settings
<1>7. CASE Conversion
  BY <1>7
     DEF OneRound, Early, Converting, Conversion, AfterConversion, ExitBy, Pass,
         settings
<1>8. CASE ErrorPropagation
  BY <1>8
     DEF OneRound, Early, Converting, ErrorPropagation, ExitBy, Pass, settings
<1>9. CASE Again
  BY <1>9 DEF OneRound, Early, Converting, Again, Continue, settings
<1>10. CASE BuildFloat
  BY <1>10 DEF OneRound, Early, Converting, BuildFloat, ExitBy, Write, settings
<1>11. CASE PerformanceEstimation
  BY <1>11
     DEF OneRound, Early, Converting, PerformanceEstimation, ExitBy, Pass,
         settings
<1>12. CASE FeedbackEstimate
  <2>1. ASSUME fe # Missing, failed' = failed,
               NEW pe \in Prediction, NEW ok \in BOOLEAN, NEW t \in Advance(fe, pe, ok),
               fe' = t, stop' = t.stop, flags' = IF t.stop THEN flags ELSE t.option
        PROVE  OneRound'
    <3>2. fe \in StateT
      BY <2>1 DEF TypeOK
    <3>3. t \in StateT /\ t.previous = fe.previous \cup {fe.option}
          /\ (~t.stop => t.option \notin t.previous)
      BY <3>2, AdvanceFresh
    <3> QED
      BY <1>12, <2>1, <3>2, <3>3
         DEF OneRound, Early, Converting, FeedbackEstimate, settings, StateT
  <2>2. CASE stop' = TRUE /\ failed' = failed \cup {"fe"} /\ fe' = fe /\ flags' = flags
    BY <1>12, <2>2 DEF OneRound, Early, Converting, FeedbackEstimate, settings
  <2> QED
    BY <1>12, <2>1, <2>2 DEF FeedbackEstimate
<1>13. CASE Backend
  BY <1>13 DEF OneRound, Early, Converting, Backend, ExitBy, settings
<1>14. CASE Cleanup
  BY <1>14 DEF OneRound, Early, Converting, Cleanup, ExitBy, Continue, settings
<1>15. CASE UNCHANGED vars
  BY <1>15 DEF OneRound, Early, Converting, vars, settings
<1> QED
  BY <1>1, <1>2, <1>3, <1>4, <1>5, <1>6, <1>7, <1>8, <1>9, <1>10, <1>11,
     <1>12, <1>13, <1>14, <1>15 DEF Next, Step

(***************************************************************************)
(* Every step keeps OwnSearch.                                             *)
(***************************************************************************)
LEMMA OwnSearchStep ==
    ASSUME TypeOK, OneRound, OwnSearch, [Next]_vars
    PROVE  OwnSearch'
<1>1. CASE Frontend
  BY <1>1
     DEF OwnSearch, Early, Converting, Round, Frontend, ExitBy, Continue,
         settings
<1>2. CASE Initialize
  BY <1>2
     DEF OwnSearch, Early, Converting, Round, Initialize, ExitBy, Write, settings
<1>3. CASE RangeAnalysis
  BY <1>3
     DEF OwnSearch, Early, Converting, Round, RangeAnalysis, ExitBy, Write,
         settings
<1>4. CASE InitFeedback
  <2>1. /\ NewState \in StateT /\ NewState.option \notin NewState.previous
        /\ used = {}
    BY <1>4, OptionAssumption
       DEF NewState, StateT, InitFeedback, OneRound, Early
  <2> QED
    BY <1>4, <2>1 DEF InitFeedback, OwnSearch, settings
<1>5. CASE Loop
  BY <1>5 DEF OwnSearch, Early, Converting, Round, Loop, Continue, settings
<1>6. CASE DataTypeAlloc
  BY <1>6
     DEF OwnSearch, Early, Converting, Round, DataTypeAlloc, ExitBy, settings
<1>7. CASE Conversion
  BY <1>7
     DEF OwnSearch, Early, Converting, Round, Conversion, AfterConversion,
         ExitBy, Pass, settings
<1>8. CASE ErrorPropagation
  BY <1>8
     DEF OwnSearch, Early, Converting, Round, ErrorPropagation, ExitBy, Pass,
         settings
<1>9. CASE Again
  BY <1>9 DEF OwnSearch, Early, Converting, Round, Again, Continue, settings
<1>10. CASE BuildFloat
  BY <1>10
     DEF OwnSearch, Early, Converting, Round, BuildFloat, ExitBy, Write, settings
<1>11. CASE PerformanceEstimation
  BY <1>11
     DEF OwnSearch, Early, Converting, Round, PerformanceEstimation, ExitBy,
         Pass, settings
<1>12. CASE FeedbackEstimate
  <2>1. ASSUME fe # Missing, failed' = failed,
               NEW pe \in Prediction, NEW ok \in BOOLEAN, NEW t \in Advance(fe, pe, ok),
               fe' = t, stop' = t.stop, flags' = IF t.stop THEN flags ELSE t.option
        PROVE  OwnSearch'
    <3>2. fe \in StateT
      BY <2>1 DEF TypeOK
    <3>3. t \in StateT /\ t.previous = fe.previous \cup {fe.option}
          /\ (~t.stop => t.option \notin t.previous)
      BY <3>2, AdvanceFresh
    <3> QED
      BY <1>12, <2>1, <3>2, <3>3
         DEF OneRound, OwnSearch, Early, Converting, Round, FeedbackEstimate,
             settings, StateT
  <2>2. CASE stop' = TRUE /\ failed' = failed \cup {"fe"} /\ fe' = fe /\ flags' = flags
    BY <1>12, <2>2
       DEF OwnSearch, Early, Converting, Round, FeedbackEstimate, settings
  <2> QED
    BY <1>12, <2>1, <2>2 DEF FeedbackEstimate
<1>13. CASE Backend
  BY <1>13 DEF OwnSearch, Early, Converting, Round, Backend, ExitBy, settings
<1>14. CASE Cleanup
  BY <1>14 DEF OwnSearch, Early, Converting, Round, Cleanup, ExitBy, Continue, settings
<1>15. CASE UNCHANGED vars
  BY <1>15 DEF OwnSearch, Early, Converting, Round, vars, settings
<1> QED
  BY <1>1, <1>2, <1>3, <1>4, <1>5, <1>6, <1>7, <1>8, <1>9, <1>10, <1>11,
     <1>12, <1>13, <1>14, <1>15 DEF Next, Step

(***************************************************************************)
(* Every step keeps FilesCurrent.                                          *)
(***************************************************************************)
LEMMA FilesCurrentStep ==
    ASSUME TypeOK, OneRound, FilesCurrent, [Next]_vars
    PROVE  FilesCurrent'
<1>1. CASE Frontend
  BY <1>1
     DEF FilesCurrent, Converting, Round, Made, TypeOK, Stage, Frontend, ExitBy,
         Continue, settings
<1>2. CASE Initialize
  BY <1>2 DEF FilesCurrent, Converting, Round, Initialize, ExitBy, Write
<1>3. CASE RangeAnalysis
  <2>1. CASE failed' = failed \cup {"cp"} /\ pc' \in {"fe_init", "loop"} /\ stop' = stop
    <3>1. ~stop
      BY <1>3 DEF RangeAnalysis, OneRound, Early
    <3> QED
      BY <2>1, <3>1 DEF FilesCurrent, Converting, Round
  <2>2. CASE pc' = "exit" /\ rc' = 1
    BY <2>2 DEF FilesCurrent, Converting, Round
  <2>3. CASE Write("vra", IF feedback THEN "fe_init" ELSE "loop")
    <3>1. pc' \in {"fe_init", "loop"} /\ file'["vra"] \in Option
      BY <2>3 DEF Write, TypeOK, Stage
    <3>2. ~stop'
      BY <1>3, <2>3 DEF RangeAnalysis, Write, OneRound, Early
    <3> QED
      BY <2>3, <3>1, <3>2 DEF FilesCurrent, Converting, Round
  <2>4. CASE ExitBy("vra")
    BY <2>2, <2>4 DEF ExitBy
  <2> QED
    BY <1>3, <2>1, <2>3, <2>4 DEF RangeAnalysis
<1>4. CASE InitFeedback
  <2>1. file' = file /\ pc' = "loop" /\ ~stop' /\ ("cp" \in failed => "cp" \in failed')
    BY <1>4 DEF InitFeedback, OneRound, Early
  <2>2. "cp" \notin failed => file["vra"] \in Option
    BY <1>4 DEF InitFeedback, FilesCurrent, Round
  <2> QED
    BY <2>1, <2>2 DEF FilesCurrent, Converting
<1>5. CASE Loop
  BY <1>5
     DEF FilesCurrent, Converting, Round, Made, TypeOK, Stage, Loop, Continue,
         settings
<1>6. CASE DataTypeAlloc
  BY FileAssumption, <1>6
     DEF FilesCurrent, Converting, Round, Made, TypeOK, Stage, DataTypeAlloc,
         ExitBy, settings
<1>7. CASE Conversion
  BY <1>7
     DEF FilesCurrent, Converting, Round, Made, TypeOK, Stage, Conversion,
         AfterConversion, ExitBy, Pass, settings
<1>8. CASE ErrorPropagation
  BY <1>8
     DEF FilesCurrent, Converting, Round, Made, TypeOK, Stage, ErrorPropagation,
         ExitBy, Pass, settings
<1>9. CASE Again
  BY <1>9
     DEF FilesCurrent, Converting, Round, Made, TypeOK, Stage, Again, Continue,
         settings
<1>10. CASE BuildFloat
  BY <1>10
     DEF FilesCurrent, Converting, Round, Made, TypeOK, Stage, BuildFloat,
         ExitBy, Write, settings
<1>11. CASE PerformanceEstimation
  BY <1>11
     DEF FilesCurrent, Converting, Round, Made, TypeOK, Stage,
         PerformanceEstimation, ExitBy, Pass, settings
<1>12. CASE FeedbackEstimate
  <2>1. ASSUME fe # Missing, failed' = failed,
               NEW pe \in Prediction, NEW ok \in BOOLEAN, NEW t \in Advance(fe, pe, ok),
               fe' = t, stop' = t.stop, flags' = IF t.stop THEN flags ELSE t.option
        PROVE  FilesCurrent'
    <3>2. fe \in StateT
      BY <2>1 DEF TypeOK
    <3>3. t \in StateT /\ t.previous = fe.previous \cup {fe.option}
          /\ (~t.stop => t.option \notin t.previous)
      BY <3>2, AdvanceFresh
    <3> QED
      BY <1>12, <2>1, <3>2, <3>3
         DEF FilesCurrent, Converting, Round, Made, TypeOK, Stage,
             FeedbackEstimate, settings, StateT
  <2>2. CASE stop' = TRUE /\ failed' = failed \cup {"fe"} /\ fe' = fe /\ flags' = flags
    BY <1>12, <2>2
       DEF FilesCurrent, Converting, Round, Made, TypeOK, Stage,
           FeedbackEstimate, settings
  <2> QED
    BY <1>12, <2>1, <2>2 DEF FeedbackEstimate
<1>13. CASE Backend
  BY FileAssumption, <1>13
     DEF FilesCurrent, Converting, Round, Made, TypeOK, Stage, Backend, ExitBy,
         settings
<1>14. CASE Cleanup
  BY <1>14
     DEF FilesCurrent, Converting, Round, Made, TypeOK, Stage, Cleanup, ExitBy, Continue,
         settings
<1>15. CASE UNCHANGED vars
  BY <1>15
     DEF FilesCurrent, Converting, Round, Made, TypeOK, Stage, vars, settings
<1> QED
  BY <1>1, <1>2, <1>3, <1>4, <1>5, <1>6, <1>7, <1>8, <1>9, <1>10, <1>11,
     <1>12, <1>13, <1>14, <1>15 DEF Next, Step

(***************************************************************************)
(* The invariant of every run of the script.                               *)
(***************************************************************************)
THEOREM DriverInvariant == Spec => []IInv
<1>1. IInv /\ [Next]_vars => IInv'
  BY TypeOKStep, OneRoundStep, OwnSearchStep, FilesCurrentStep DEF IInv
<1> QED
  BY InitInv, <1>1, PTL DEF Spec

(***************************************************************************)
(* The variables of the script have the types of what they stand for.      *)
(***************************************************************************)
THEOREM DriverTypeCorrect == Spec => []TypeOK
<1>1. IInv => TypeOK
  BY DEF IInv
<1> QED
  BY DriverInvariant, <1>1, PTL

(***************************************************************************)
(* The feedback loop (taffo.sh:404) never allocates types with an option   *)
(* it has tried before.                                                    *)
(***************************************************************************)
THEOREM OptionsStayFresh == Spec => []FreshOption
<1>1. IInv => FreshOption
  BY DEF IInv, FreshOption, OneRound, OwnSearch, Round, Converting
<1> QED
  BY DriverInvariant, <1>1, PTL

(***************************************************************************)
(* The estimates the feedback estimator reads (taffo.sh:445) are those of  *)
(* the current round, unless all rounds go on with the file of an earlier  *)
(* run, over which a copy has failed (taffo.sh:395).                       *)
(***************************************************************************)
THEOREM EstimatesStayCurrent == Spec => []EstimatesCurrent
<1>1. IInv => EstimatesCurrent
  BY DEF IInv, EstimatesCurrent, OneRound, FilesCurrent, Converting, Made
<1> QED
  BY DriverInvariant, <1>1, PTL

(***************************************************************************)
(* A script that succeeds, and whose copies of files did, has compiled the *)
(* program of its last round.                                              *)
(***************************************************************************)
THEOREM OutputStaysCurrent == Spec => []OutputCurrent
<1>1. IInv => OutputCurrent
  BY DEF IInv, OutputCurrent, OneRound, FilesCurrent
<1> QED
  BY DriverInvariant, <1>1, PTL
=============================================================================
