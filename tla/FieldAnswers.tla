---------------------------- MODULE FieldAnswers ----------------------------
(***************************************************************************)
(* From the model's reply on one field to the field's answer:              *)
(* _build_field_answer (app/pipeline/extraction.py), the double-check      *)
(* policy (app/pipeline/service.py) and the double check's effect          *)
(* (app/pipeline/double_check.py).                                         *)
(*                                                                         *)
(* Of a reply only this is kept: its status; the candidate value (the      *)
(* normalized value or else the value), told apart by what validation      *)
(* makes of it; whether any of its evidence parses, wherever the quotes    *)
(* come from; the confidence in tenths.                                    *)
(***************************************************************************)
EXTENDS Integers, Sequences

CONSTANT Threshold  \* DOUBLE_CHECK_CONFIDENCE_THRESHOLD, in tenths

ASSUME ThresholdAssumption == Threshold \in 0..10

FieldStatus ==
  {"answered", "not_found", "ambiguous", "validation_failed", "needs_review", "error"}
CheckStatus == {"passed", "failed", "skipped"}

\* "another": a mode no branch knows, treated like "low_confidence".
Modes == {"disabled", "always", "answered", "low_confidence", "another"}

Candidates == {"null", "valid", "invalid"}
Evidence   == {"none", "given"}

\* A confidence float() cannot read, or NaN.
NotANumber == -100

RawReply == [status:     FieldStatus \cup {"another"},
             candidate:  Candidates,
             evidence:   Evidence,
             confidence: Int]

FieldAnswer == [status:      FieldStatus,
                candidate:   Candidates,
                evidence:    Evidence,
                confidence:  0..10,
                validation:  CheckStatus,
                doubleCheck: CheckStatus,
                checked:     BOOLEAN]  \* did the double check run? (the notes say)

-----------------------------------------------------------------------------
ParseFieldStatus(status) == IF status \in FieldStatus THEN status ELSE "needs_review"

ParseConfidence_Unclamped(confidence) ==  \* mutant
  IF confidence = NotANumber THEN 0 ELSE confidence

\* NaN ends up at 0 too: max and min keep their first argument unless the
\* second one compares better.
ParseConfidence(confidence) ==
  IF confidence = NotANumber \/ confidence < 0 THEN 0
  ELSE IF confidence > 10 THEN 10 ELSE confidence

Validated(candidate) ==
  CASE candidate = "null"    -> "skipped"
    [] candidate = "valid"   -> "passed"
    [] candidate = "invalid" -> "failed"

BuildFieldAnswer_NoEvidenceRule(raw) ==  \* mutant: the evidence is not looked at
  LET status == ParseFieldStatus(raw.status)
      validation == Validated(raw.candidate)
  IN [status |-> IF status = "answered" /\ validation = "failed"
                 THEN "validation_failed" ELSE status,
      candidate |-> raw.candidate, evidence |-> raw.evidence,
      confidence |-> ParseConfidence(raw.confidence),
      validation |-> validation, doubleCheck |-> "skipped", checked |-> FALSE]

\* "answered" is only left to a reply with evidence whose value does not fail
\* validation; any other status is taken as it comes.
BuildFieldAnswer(raw) ==
  LET status     == ParseFieldStatus(raw.status)
      supported  == IF status = "answered" /\ raw.evidence = "none"
                    THEN "needs_review" ELSE status
      validation == Validated(raw.candidate)
  IN [status      |-> IF validation = "failed" /\ supported = "answered"
                      THEN "validation_failed" ELSE supported,
      candidate   |-> raw.candidate,
      evidence    |-> raw.evidence,
      confidence  |-> ParseConfidence(raw.confidence),
      validation  |-> validation,
      doubleCheck |-> "skipped",
      checked     |-> FALSE]

ShouldDoubleCheck_KnownModesOnly(answer, mode) ==  \* mutant: no fallback for other modes
  \/ mode = "always"
  \/ answer.status = "answered" /\ mode = "answered"
  \/ answer.status = "answered" /\ mode = "low_confidence" /\ answer.confidence < Threshold

ShouldDoubleCheck(answer, mode) ==
  \/ mode = "always"
  \/ answer.status = "answered" /\ mode = "answered"
  \/ /\ answer.status = "answered"
     /\ mode \notin {"disabled", "always", "answered"}
     /\ answer.confidence < Threshold

MarkDoubleCheckSkipped(answer) == [answer EXCEPT !.doubleCheck = "skipped"]

\* A verdict of "failed" takes "answered" away; no verdict changes any other
\* status.
DoubleChecked(answer, verdict) ==
  [answer EXCEPT !.status = IF verdict = "failed" /\ @ = "answered"
                            THEN "needs_review" ELSE @,
                 !.doubleCheck = verdict,
                 !.checked = TRUE]

GapStatuses == {"not_found", "ambiguous", "validation_failed", "needs_review", "error"}

HasGap(answers) == \E i \in DOMAIN answers : answers[i].status \in GapStatuses

ResolveJobStatus_LastOnly(answers) ==  \* mutant: only the last answer counts
  IF answers[Len(answers)].status \in GapStatuses THEN "completed_with_gaps" ELSE "completed"

ResolveJobStatus(answers) ==
  IF HasGap(answers) THEN "completed_with_gaps" ELSE "completed"

=============================================================================
