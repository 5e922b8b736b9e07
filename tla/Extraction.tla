----------------------------- MODULE Extraction -----------------------------
(***************************************************************************)
(* ExtractionService.run (app/pipeline/service.py): one request from the   *)
(* upload to the response, with the converter and the LLM client as its    *)
(* environment.  The fields are taken one after the other; each asks the   *)
(* LLM once for an answer and, if the policy says so, once more to check   *)
(* it.  The first error ends the run and drops the answers so far.         *)
(***************************************************************************)
EXTENDS Progress, FieldAnswers

CONSTANT Replies  \* the replies on a field that the LLM may give

ASSUME RepliesAssumption == Replies \subseteq RawReply

VARIABLES
  mode,     \* DOUBLE_CHECK_MODE
  pc,       \* the stage at work
  reports,  \* progress reports made
  answers,  \* the answers so far, in the order of the fields
  pending,  \* the answer whose double check is awaited, as a sequence of length 0 or 1
  outcome   \* "none", and then the status of the response or the error

vars == <<mode, pc, reports, answers, pending, outcome>>

Stages == {"validate", "convert", "chunk", "extract", "check", "return", "done"}
Errors == {"AppError", "LLMError", "Unexpected"}

-----------------------------------------------------------------------------
Init ==
  /\ mode \in Modes
  /\ pc = "validate"
  /\ reports = 0
  /\ answers = <<>>
  /\ pending = <<>>
  /\ outcome = "none"

Fail(error) ==
  /\ outcome' = error
  /\ pc' = "done"
  /\ UNCHANGED <<mode, reports, answers, pending>>

\* A stage before the fields: it fails with an AppError or makes its report.
Preliminary(stage, next) ==
  /\ pc = stage
  /\ \/ Fail("AppError")
     \/ /\ pc' = next
        /\ reports' = reports + 1
        /\ UNCHANGED <<mode, answers, pending, outcome>>

\* An upload that is empty, too large or of no supported suffix is refused.
Validate == Preliminary("validate", "convert")

\* The converter wraps every failure of its own, and blank text is one.
Convert == Preliminary("convert", "chunk")

\* The service refuses a text without chunks, which a converter other than
\* MarkItDownDocumentConverter may hand it.
Chunk == Preliminary("chunk", "extract")

\* The field's answer is complete.
Keep(answer) ==
  /\ answers' = Append(answers, answer)
  /\ pending' = <<>>
  /\ reports' = reports + 1
  /\ pc' = IF Len(answers) + 1 = NumFields THEN "return" ELSE "extract"
  /\ UNCHANGED <<mode, outcome>>

\* generate_json fails, or its reply makes an answer.  A number too large for
\* float() raises what is no AppError.
Extract ==
  /\ pc = "extract"
  /\ \/ \E error \in {"LLMError", "Unexpected"} : Fail(error)
     \/ \E raw \in Replies :
          LET answer == BuildFieldAnswer(raw)
          IN IF ShouldDoubleCheck(answer, mode)
             THEN /\ pending' = <<answer>>
                  /\ pc' = "check"
                  /\ UNCHANGED <<mode, reports, answers, outcome>>
             ELSE Keep(MarkDoubleCheckSkipped(answer))

\* generate_json fails, or the reply is no DoubleCheckResult, or it is.
Check ==
  /\ pc = "check"
  /\ \/ \E error \in {"LLMError", "Unexpected"} : Fail(error)
     \/ \E verdict \in CheckStatus : Keep(DoubleChecked(pending[1], verdict))

Return ==
  /\ pc = "return"
  /\ outcome' = ResolveJobStatus(answers)
  /\ pc' = "done"
  /\ UNCHANGED <<mode, reports, answers, pending>>

Next == Validate \/ Convert \/ Chunk \/ Extract \/ Check \/ Return

Spec == Init /\ [][Next]_vars

-----------------------------------------------------------------------------
(* Properties *)

\* Every variable stays in its type.
TypeOK ==
  /\ mode \in Modes
  /\ pc \in Stages
  /\ reports \in 0..LastStep
  /\ answers \in Seq(FieldAnswer)
  /\ pending \in Seq(FieldAnswer)
  /\ outcome \in {"none", "completed", "completed_with_gaps"} \cup Errors

\* An answer that reaches the response as "answered" has evidence, a value
\* that validation does not reject, and no double check that failed: the
\* rules of _build_field_answer and DoubleChecker.check, in whatever order and
\* combination a reply and a verdict trip over them.
AnsweredIsSupported ==
  \A i \in DOMAIN answers : answers[i].status = "answered" =>
    /\ answers[i].evidence # "none"
    /\ answers[i].validation # "failed"
    /\ answers[i].doubleCheck # "failed"

\* An answer of low confidence is "answered" without a double check only if
\* double checks are disabled; in the modes "answered" and "always" none is,
\* of whatever confidence (_should_double_check, also for a mode it does not
\* know).
UncheckedIsConfident ==
  \A i \in DOMAIN answers : answers[i].status = "answered" /\ ~answers[i].checked =>
    \/ mode = "disabled"
    \/ mode \notin {"answered", "always"} /\ answers[i].confidence >= Threshold

\* A run that returns has an answer for every field, and is "completed"
\* exactly if each of them is "answered" (_resolve_job_status).
ResponseComplete ==
  outcome \in {"completed", "completed_with_gaps"} =>
    /\ Len(answers) = NumFields
    /\ outcome = "completed" <=> \A i \in DOMAIN answers : answers[i].status = "answered"

\* The strengthening from which the properties above follow: how far the run is,
\* stage by stage, and that an answer whose double check is awaited is fit to be
\* kept but for the verdict.
IInv ==
  /\ TypeOK
  /\ AnsweredIsSupported
  /\ UncheckedIsConfident
  /\ ResponseComplete
  /\ pc = "done" <=> outcome # "none"
  /\ pc = "validate" => reports = 0
  /\ pc = "convert" => reports = 1
  /\ pc = "chunk" => reports = 2
  /\ reports < 3 => answers = <<>>
  /\ pc \in {"extract", "check"} => reports = 3 + Len(answers) /\ Len(answers) < NumFields
  /\ pc = "return" => reports = LastStep /\ Len(answers) = NumFields
  /\ pc = "check" =>
       /\ Len(pending) = 1
       /\ pending[1].status = "answered" =>
            pending[1].evidence # "none" /\ pending[1].validation # "failed"

\* The run is a pipeline as _run_job takes it to be.
P == INSTANCE Pipeline WITH step <- reports, gaps <- HasGap(answers)

ImplementsPipeline == P!Spec

=============================================================================
