------------------------------ MODULE Progress ------------------------------
(***************************************************************************)
(* The progress reports of ExtractionService.run (app/pipeline/service.py) *)
(* and the errors its stages may end with.  Stage s ends with report s:    *)
(* three stages before the fields (validate, convert, chunk), then one for *)
(* each field.                                                             *)
(***************************************************************************)
EXTENDS Integers

CONSTANT NumFields  \* len(request.fields)

ASSUME NumFieldsAssumption == NumFields \in Nat \ {0}

FieldStage(s) == s - 3
LastStep == 3 + NumFields

FieldPercents_FromZero(i) ==  \* mutant: enumerate(..., start=0)
  {20 + r : r \in {k \in 0..(75 * i) : /\ 2 * (k * NumFields - 75 * (i - 1)) <= NumFields
                                       /\ 2 * (75 * (i - 1) - k * NumFields) <= NumFields}}

\* 20 + round((index / total) * 75).  The quotient and the product are floats,
\* so an exact half may land on either side; anything else is the nearest
\* integer.
FieldPercents(i) ==
  {20 + r : r \in {k \in 0..(75 * i) : /\ 2 * (k * NumFields - 75 * i) <= NumFields
                                       /\ 2 * (75 * i - k * NumFields) <= NumFields}}

\* The percents the s-th report may carry.
Percents(s) ==
  CASE s = 1 -> {5}
    [] s = 2 -> {15}
    [] s = 3 -> {20}
    [] OTHER -> FieldPercents(FieldStage(s))

\* What the work of stage s may raise: unsupported or empty input, a failed
\* conversion and no chunks are AppErrors; a field may fail with an LLMError,
\* or with something that is no AppError (a reply pydantic rejects, a number
\* float() cannot hold, a body that is not JSON).
RaisedAt(s) == IF s <= 3 THEN {"AppError"} ELSE {"LLMError", "Unexpected"}

=============================================================================
