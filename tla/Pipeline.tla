------------------------------ MODULE Pipeline ------------------------------
(***************************************************************************)
(* What _run_job can count on from ExtractionService.run, whatever the     *)
(* document and the model's replies are: progress reports one stage at a   *)
(* time, and then either an error of the kind the stage at work may raise  *)
(* or, once every field is through, a result that is "completed" exactly   *)
(* if no answer along the way was a gap.  The actions Advance, Raise and   *)
(* Return of Jobs are these, between store calls.                          *)
(***************************************************************************)
EXTENDS Progress

VARIABLES step,    \* reports made
          gaps,    \* is one of the answers so far a gap?
          outcome  \* "none" while running, then the status or the error

pipelineVars == <<step, gaps, outcome>>

Init ==
  /\ step = 0
  /\ gaps = FALSE
  /\ outcome = "none"

Report ==
  /\ outcome = "none"
  /\ step < LastStep
  /\ step' = step + 1
  /\ gaps' \in (IF step < 3 THEN {gaps} ELSE {gaps, TRUE})
  /\ UNCHANGED outcome

Raise ==
  /\ outcome = "none"
  /\ step < LastStep
  /\ outcome' \in RaisedAt(step + 1)
  /\ UNCHANGED <<step, gaps>>

Return ==
  /\ outcome = "none"
  /\ step = LastStep
  /\ outcome' = IF gaps THEN "completed_with_gaps" ELSE "completed"
  /\ UNCHANGED <<step, gaps>>

Next == Report \/ Raise \/ Return

Spec == Init /\ [][Next]_pipelineVars

=============================================================================
