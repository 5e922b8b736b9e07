-------------------------- MODULE ExtractionProofs --------------------------
(***************************************************************************)
(* Proofs about Extraction, for any number of fields, any threshold and    *)
(* any set of replies.                                                     *)
(***************************************************************************)
EXTENDS Extraction, TLAPS

(* Answers *)

\* Every status of an answer but "answered" is a gap.
LEMMA GapOrAnswered == FieldStatus = GapStatuses \cup {"answered"}
BY DEF FieldStatus, GapStatuses

\* Every answer that is built is an answer, and has been unchecked so far;
\* "answered" is left only to one with evidence whose value validation does not
\* reject.
LEMMA BuiltAnswer ==
  ASSUME NEW raw \in RawReply
  PROVE  /\ BuildFieldAnswer(raw) \in FieldAnswer
         /\ BuildFieldAnswer(raw).status = "answered" =>
              /\ BuildFieldAnswer(raw).evidence # "none"
              /\ BuildFieldAnswer(raw).validation # "failed"
         /\ BuildFieldAnswer(raw).doubleCheck = "skipped"
         /\ ~BuildFieldAnswer(raw).checked
<1>1. /\ raw.status \in FieldStatus \cup {"another"} /\ raw.candidate \in Candidates
      /\ raw.evidence \in Evidence /\ raw.confidence \in Int
  BY DEF RawReply
<1>2. ParseFieldStatus(raw.status) \in FieldStatus
  BY <1>1 DEF ParseFieldStatus, FieldStatus
<1>3. ParseConfidence(raw.confidence) \in 0..10
  BY <1>1 DEF ParseConfidence
<1>4. Validated(raw.candidate) \in CheckStatus
  BY <1>1 DEF Validated, Candidates, CheckStatus
<1>5. {"needs_review", "validation_failed", "answered"} \subseteq FieldStatus /\ "skipped" \in CheckStatus
  BY DEF FieldStatus, CheckStatus
<1> QED
  BY <1>1, <1>2, <1>3, <1>4, <1>5 DEF BuildFieldAnswer, FieldAnswer

\* A double check that is skipped changes nothing of a fresh answer.
LEMMA SkippedAnswer ==
  ASSUME NEW a \in FieldAnswer, a.doubleCheck = "skipped"
  PROVE  MarkDoubleCheckSkipped(a) = a
BY DEF MarkDoubleCheckSkipped, FieldAnswer

\* What a double check makes of an answer: checked, and "answered" only if it
\* was and the verdict is not "failed".
LEMMA CheckedAnswer ==
  ASSUME NEW a \in FieldAnswer, NEW verdict \in CheckStatus
  PROVE  LET b == DoubleChecked(a, verdict)
         IN /\ b \in FieldAnswer /\ b.checked
            /\ b.evidence = a.evidence /\ b.validation = a.validation
            /\ b.status = "answered" => a.status = "answered" /\ b.doubleCheck # "failed"
<1>1. "needs_review" \in FieldStatus
  BY DEF FieldStatus
<1> QED
  BY <1>1 DEF DoubleChecked, FieldAnswer

\* An answer may be kept if it is supported and, should it be answered and
\* unchecked, confident enough.
Fit(a) ==
  /\ a \in FieldAnswer
  /\ a.status = "answered" =>
       /\ a.evidence # "none" /\ a.validation # "failed" /\ a.doubleCheck # "failed"
       /\ ~a.checked => \/ mode = "disabled"
                        \/ mode \notin {"answered", "always"} /\ a.confidence >= Threshold

\* An answer more is a gap more or none.
LEMMA GapsGrow ==
  ASSUME TypeOK, NEW a \in FieldAnswer
  PROVE  HasGap(Append(answers, a)) = (HasGap(answers) \/ a.status \in GapStatuses)
<1>1. answers \in Seq(FieldAnswer) /\ Len(answers) \in Nat
  BY DEF TypeOK
<1>2. /\ DOMAIN Append(answers, a) = DOMAIN answers \cup {Len(answers) + 1}
      /\ Append(answers, a)[Len(answers) + 1] = a
      /\ \A i \in DOMAIN answers : Append(answers, a)[i] = answers[i]
  BY <1>1
<1> QED
  BY <1>2 DEF HasGap

\* Exactly the answers that are not "answered" are gaps.
LEMMA NoGapIsAllAnswered ==
  ASSUME TypeOK
  PROVE  ~HasGap(answers) <=> \A i \in DOMAIN answers : answers[i].status = "answered"
<1>1. \A i \in DOMAIN answers : answers[i].status \in FieldStatus
  <2>1. answers \in Seq(FieldAnswer)
    BY DEF TypeOK
  <2>2. \A i \in DOMAIN answers : answers[i] \in FieldAnswer
    BY <2>1
  <2>3. \A b \in FieldAnswer : b.status \in FieldStatus
    BY DEF FieldAnswer
  <2> QED
    BY <2>2, <2>3
<1>2. "answered" \notin GapStatuses
  BY DEF GapStatuses
<1> QED
  BY <1>1, <1>2, GapOrAnswered DEF HasGap

-----------------------------------------------------------------------------
(* The invariant *)

\* No stage has run yet.
LEMMA InitIInv == Init => IInv
BY NumFieldsAssumption
   DEF Init, IInv, TypeOK, Stages, Errors, LastStep, AnsweredIsSupported, UncheckedIsConfident,
       ResponseComplete

\* An error ends the run with what it has.
LEMMA FailIInv ==
  ASSUME IInv, NEW error \in Errors, Fail(error)
  PROVE  IInv'
BY DEF Fail, IInv, TypeOK, Stages, Errors, AnsweredIsSupported, UncheckedIsConfident,
       ResponseComplete

\* A stage before the fields fails or reports.
LEMMA PreliminaryIInv ==
  ASSUME IInv, Validate \/ Convert \/ Chunk
  PROVE  IInv'
<1>1. CASE Fail("AppError")
  BY <1>1, FailIInv DEF Errors
<1>2. CASE ~Fail("AppError")
  <2>1. /\ \/ pc = "validate" /\ pc' = "convert"
           \/ pc = "convert" /\ pc' = "chunk"
           \/ pc = "chunk" /\ pc' = "extract"
        /\ reports' = reports + 1
        /\ UNCHANGED <<mode, answers, pending, outcome>>
    BY <1>2 DEF Validate, Convert, Chunk, Preliminary
  <2>2. reports \in 0..2 /\ reports' \in 0..LastStep /\ answers = <<>> /\ Len(answers) = 0
    BY <2>1, NumFieldsAssumption DEF IInv, TypeOK, LastStep
  <2> QED
    BY <2>1, <2>2, NumFieldsAssumption
       DEF IInv, TypeOK, Stages, AnsweredIsSupported, UncheckedIsConfident, ResponseComplete
<1> QED
  BY <1>1, <1>2

\* An answer that is fit is kept.
LEMMA KeepIInv ==
  ASSUME IInv, pc \in {"extract", "check"}, NEW a, Fit(a), Keep(a)
  PROVE  IInv'
<1>1. /\ answers \in Seq(FieldAnswer) /\ Len(answers) \in Nat
      /\ reports = 3 + Len(answers) /\ Len(answers) < NumFields /\ NumFields \in Nat
      /\ a \in FieldAnswer /\ outcome = "none" /\ mode \in Modes
  BY NumFieldsAssumption DEF IInv, TypeOK, Fit
<1>2. /\ answers' = Append(answers, a) /\ pending' = <<>> /\ reports' = reports + 1
      /\ pc' = (IF Len(answers) + 1 = NumFields THEN "return" ELSE "extract")
      /\ UNCHANGED <<mode, outcome>>
  BY DEF Keep
<1>3. /\ answers' \in Seq(FieldAnswer) /\ Len(answers') = Len(answers) + 1
      /\ answers'[Len(answers) + 1] = a
      /\ \A i \in DOMAIN answers : answers'[i] = answers[i]
      /\ DOMAIN answers' = DOMAIN answers \cup {Len(answers) + 1}
  BY <1>1, <1>2
<1>4. TypeOK'
  BY <1>1, <1>2, <1>3 DEF IInv, TypeOK, Stages, LastStep
<1>5. AnsweredIsSupported' /\ UncheckedIsConfident'
  BY <1>2, <1>3 DEF IInv, AnsweredIsSupported, UncheckedIsConfident, Fit
<1>6. ResponseComplete'
  BY <1>1, <1>2 DEF ResponseComplete
<1> QED
  BY <1>1, <1>2, <1>3, <1>4, <1>5, <1>6 DEF IInv, LastStep

\* A reply: an error, an answer to check, or an answer to keep.
LEMMA ExtractIInv ==
  ASSUME IInv, Extract
  PROVE  IInv'
<1>1. ASSUME NEW error \in {"LLMError", "Unexpected"}, Fail(error) PROVE IInv'
  BY <1>1, FailIInv DEF Errors
<1>2. ASSUME NEW raw \in Replies, ShouldDoubleCheck(BuildFieldAnswer(raw), mode),
             pending' = <<BuildFieldAnswer(raw)>>, pc' = "check",
             UNCHANGED <<mode, reports, answers, outcome>>
      PROVE  IInv'
  <2>1. raw \in RawReply /\ pc = "extract"
    BY RepliesAssumption DEF Extract
  <2> DEFINE a == BuildFieldAnswer(raw)
  <2>2. /\ a \in FieldAnswer
        /\ a.status = "answered" => a.evidence # "none" /\ a.validation # "failed"
    BY <2>1, BuiltAnswer
  <2> HIDE DEF a
  <2>3. pending' = <<a>>
    BY <1>2 DEF a
  <2>4. pending' \in Seq(FieldAnswer) /\ Len(pending') = 1 /\ pending'[1] = a
    BY <2>2, <2>3
  <2> QED
    BY <1>2, <2>1, <2>2, <2>4
       DEF IInv, TypeOK, Stages, AnsweredIsSupported, UncheckedIsConfident, ResponseComplete
<1>3. ASSUME NEW raw \in Replies, ~ShouldDoubleCheck(BuildFieldAnswer(raw), mode),
             Keep(MarkDoubleCheckSkipped(BuildFieldAnswer(raw)))
      PROVE  IInv'
  <2>1. raw \in RawReply /\ pc = "extract"
    BY RepliesAssumption DEF Extract
  <2> DEFINE a == BuildFieldAnswer(raw)
  <2>2. /\ a \in FieldAnswer /\ a.doubleCheck = "skipped"
        /\ a.status = "answered" => a.evidence # "none" /\ a.validation # "failed"
    BY <2>1, BuiltAnswer
  <2> HIDE DEF a
  <2>3. Keep(a)
    BY <1>3, <2>2, SkippedAnswer DEF a
  <2>4. a.status = "answered" =>
          \/ mode = "disabled"
          \/ mode \notin {"answered", "always"} /\ a.confidence >= Threshold
    <3>1. ~ShouldDoubleCheck(a, mode)
      BY <1>3 DEF a
    <3>2. a.confidence \in 0..10 /\ Threshold \in 0..10
      BY <2>2, ThresholdAssumption DEF FieldAnswer
    <3> QED
      BY <3>1, <3>2 DEF ShouldDoubleCheck
  <2> QED
    BY <2>1, <2>2, <2>3, <2>4, KeepIInv DEF Fit
<1> QED
  BY <1>1, <1>2, <1>3 DEF Extract

\* A verdict on the answer at hand, or an error.
LEMMA CheckIInv ==
  ASSUME IInv, Check
  PROVE  IInv'
<1>1. ASSUME NEW error \in {"LLMError", "Unexpected"}, Fail(error) PROVE IInv'
  BY <1>1, FailIInv DEF Errors
<1>2. ASSUME NEW verdict \in CheckStatus, Keep(DoubleChecked(pending[1], verdict)) PROVE IInv'
  <2>1. /\ pc = "check" /\ pending[1] \in FieldAnswer
        /\ pending[1].status = "answered" =>
             pending[1].evidence # "none" /\ pending[1].validation # "failed"
    BY DEF Check, IInv, TypeOK
  <2>2. Fit(DoubleChecked(pending[1], verdict))
    BY <2>1, CheckedAnswer DEF Fit
  <2> QED
    BY <1>2, <2>1, <2>2, KeepIInv
<1> QED
  BY <1>1, <1>2 DEF Check

\* The response.
LEMMA ReturnIInv ==
  ASSUME IInv, Return
  PROVE  IInv'
<1>1. /\ pc = "return" /\ pc' = "done" /\ outcome' = ResolveJobStatus(answers)
      /\ UNCHANGED <<mode, reports, answers, pending>>
      /\ Len(answers) = NumFields /\ reports = LastStep
  BY DEF Return, IInv
<1>2. outcome' = "completed" <=> \A i \in DOMAIN answers : answers[i].status = "answered"
  BY <1>1, NoGapIsAllAnswered DEF IInv, ResolveJobStatus
<1>3. outcome' \in {"completed", "completed_with_gaps"}
  BY <1>1 DEF ResolveJobStatus
<1>4. ResponseComplete'
  BY <1>1, <1>2 DEF ResponseComplete
<1> QED
  BY <1>1, <1>3, <1>4, NumFieldsAssumption
     DEF IInv, TypeOK, Stages, LastStep, AnsweredIsSupported, UncheckedIsConfident

\* No step breaks IInv.
LEMMA NextIInv ==
  ASSUME IInv, [Next]_vars
  PROVE  IInv'
<1>1. CASE UNCHANGED vars
  BY <1>1 DEF vars, IInv, TypeOK, AnsweredIsSupported, UncheckedIsConfident, ResponseComplete
<1> QED
  BY <1>1, PreliminaryIInv, ExtractIInv, CheckIInv, ReturnIInv DEF Next

\* IInv holds in every reachable state.
THEOREM Invariance == Spec => []IInv
BY InitIInv, NextIInv, PTL DEF Spec

\* Every variable stays in its type.
THEOREM TypeCorrect == Spec => []TypeOK
<1>1. IInv => TypeOK
  BY DEF IInv
<1> QED
  BY Invariance, <1>1, PTL

\* Whatever the model replies, an answer is "answered" only with evidence, a
\* value that is not rejected and no failed double check.
THEOREM Supported == Spec => []AnsweredIsSupported
<1>1. IInv => AnsweredIsSupported
  BY DEF IInv
<1> QED
  BY Invariance, <1>1, PTL

\* In every mode, an answer that skips the double check is one that may.
THEOREM Confident == Spec => []UncheckedIsConfident
<1>1. IInv => UncheckedIsConfident
  BY DEF IInv
<1> QED
  BY Invariance, <1>1, PTL

\* A response has every field's answer and the status these add up to.
THEOREM Complete == Spec => []ResponseComplete
<1>1. IInv => ResponseComplete
  BY DEF IInv
<1> QED
  BY Invariance, <1>1, PTL

-----------------------------------------------------------------------------
(* Refinement *)

\* A run starts without reports, answers or an outcome.
LEMMA InitRefines == Init => P!Init
BY DEF Init, P!Init, HasGap

\* An error is one that the stage at work may raise.
LEMMA FailRefines ==
  ASSUME IInv, NEW error, Fail(error), pc \in Stages \ {"return", "done"},
         error \in (IF pc \in {"extract", "check"} THEN {"LLMError", "Unexpected"} ELSE {"AppError"})
  PROVE  P!Raise
<1>1. reports \in Nat /\ Len(answers) \in Nat /\ NumFields \in Nat \ {0}
  BY NumFieldsAssumption DEF IInv, TypeOK
<1>2. outcome = "none" /\ outcome' = error /\ UNCHANGED <<reports, answers>>
  BY DEF Fail, IInv, Stages
<1>3. reports < LastStep /\ error \in RaisedAt(reports + 1)
  BY <1>1 DEF IInv, Stages, LastStep, RaisedAt
<1> QED
  BY <1>2, <1>3 DEF P!Raise, HasGap, P!RaisedAt, P!LastStep, RaisedAt, LastStep

\* An answer that is kept makes the report of its field.
LEMMA KeepRefines ==
  ASSUME IInv, pc \in {"extract", "check"}, NEW a \in FieldAnswer, Keep(a)
  PROVE  P!Report
<1>1. /\ Len(answers) \in Nat /\ NumFields \in Nat /\ reports = 3 + Len(answers)
      /\ Len(answers) < NumFields /\ outcome = "none"
  BY NumFieldsAssumption DEF IInv, TypeOK
<1>2. HasGap(answers)' = (HasGap(answers) \/ a.status \in GapStatuses)
  BY GapsGrow DEF Keep, IInv, HasGap
<1>3. HasGap(answers)' \in {HasGap(answers), TRUE}
  BY <1>2 DEF HasGap
<1>4. reports < P!LastStep /\ ~(reports < 3)
  BY <1>1 DEF P!LastStep
<1>5. reports' = reports + 1 /\ UNCHANGED outcome
  BY DEF Keep
<1> QED
  BY <1>1, <1>3, <1>4, <1>5 DEF P!Report

\* Every step of a run is a step of the pipeline, or none.
LEMMA NextRefines ==
  ASSUME IInv, [Next]_vars
  PROVE  [P!Next]_(P!pipelineVars)
<1>1. CASE Validate \/ Convert \/ Chunk
  <2>1. pc \in {"validate", "convert", "chunk"}
    BY <1>1 DEF Validate, Convert, Chunk, Preliminary
  <2>2. CASE Fail("AppError")
    BY <2>1, <2>2, FailRefines DEF P!Next, Stages
  <2>3. CASE ~Fail("AppError")
    <3>1. reports' = reports + 1 /\ UNCHANGED <<answers, outcome>>
      BY <1>1, <2>3 DEF Validate, Convert, Chunk, Preliminary
    <3>2. reports \in 0..2 /\ outcome = "none"
      BY <2>1 DEF IInv
    <3>3. reports < P!LastStep /\ reports < 3
      BY <3>2, NumFieldsAssumption DEF P!LastStep
    <3>4. HasGap(answers)' = HasGap(answers)
      BY <3>1 DEF HasGap
    <3>5. P!Report
      BY <3>1, <3>2, <3>3, <3>4 DEF P!Report
    <3> QED
      BY <3>5 DEF P!Next
  <2> QED
    BY <2>2, <2>3
<1>2. CASE Extract
  <2>1. pc = "extract"
    BY <1>2 DEF Extract
  <2>2. ASSUME NEW error \in {"LLMError", "Unexpected"}, Fail(error) PROVE P!Next
    BY <2>1, <2>2, FailRefines DEF P!Next, Stages
  <2>3. ASSUME NEW raw \in Replies, Keep(MarkDoubleCheckSkipped(BuildFieldAnswer(raw)))
        PROVE  P!Next
    <3>1. raw \in RawReply
      BY RepliesAssumption
    <3>2. MarkDoubleCheckSkipped(BuildFieldAnswer(raw)) \in FieldAnswer
      BY <3>1, BuiltAnswer, SkippedAnswer
    <3> QED
      BY <2>1, <2>3, <3>2, KeepRefines DEF P!Next
  <2>4. UNCHANGED <<reports, answers, outcome>> => UNCHANGED P!pipelineVars
    BY DEF P!pipelineVars, HasGap
  <2> QED
    BY <1>2, <2>2, <2>3, <2>4 DEF Extract
<1>3. CASE Check
  <2>1. pc = "check" /\ pending[1] \in FieldAnswer
    <3>1. pc = "check"
      BY <1>3 DEF Check
    <3>2. pending \in Seq(FieldAnswer) /\ Len(pending) = 1
      BY <3>1 DEF IInv, TypeOK
    <3> QED
      BY <3>1, <3>2
  <2>2. ASSUME NEW error \in {"LLMError", "Unexpected"}, Fail(error) PROVE P!Next
    BY <2>1, <2>2, FailRefines DEF P!Next, Stages
  <2>3. ASSUME NEW verdict \in CheckStatus, Keep(DoubleChecked(pending[1], verdict)) PROVE P!Next
    BY <2>1, <2>3, CheckedAnswer, KeepRefines DEF P!Next
  <2> QED
    BY <1>3, <2>2, <2>3 DEF Check
<1>4. CASE Return
  <2>1. outcome = "none" /\ reports = LastStep
    BY <1>4 DEF Return, IInv
  <2>2. /\ outcome' = IF HasGap(answers) THEN "completed_with_gaps" ELSE "completed"
        /\ UNCHANGED <<reports, answers>>
    BY <1>4 DEF Return, ResolveJobStatus
  <2> QED
    BY <2>1, <2>2 DEF P!Next, P!Return, P!LastStep, LastStep, HasGap
<1>5. CASE UNCHANGED vars
  BY <1>5 DEF vars, P!pipelineVars, HasGap
<1> QED
  BY <1>1, <1>2, <1>3, <1>4, <1>5 DEF Next

\* A run is a pipeline as _run_job takes it to be, whatever the converter and
\* the model do.
THEOREM Refinement == Spec => ImplementsPipeline
BY InitRefines, NextRefines, Invariance, PTL DEF Spec, ImplementsPipeline, P!Spec

=============================================================================
