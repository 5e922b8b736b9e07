----------------------------- MODULE FormRequest -----------------------------
(***************************************************************************)
(* The form of a request: _parse_payload (app/api/routes/extraction.py)    *)
(* and the validators of FormExtractionRequest                             *)
(* (app/api/schemas/requests.py).  Of a field only its id and its pattern  *)
(* are kept.  An id is a number: 0 for one that is omitted, n > 0 for the  *)
(* name that is generated for the n-th field, less than 0 for other names. *)
(***************************************************************************)
EXTENDS Integers, Sequences

Omitted == 0

\* None, one that compiles, one that re.error is raised for, and one with a
\* count too large to compile, which raises OverflowError.
Patterns == {"none", "good", "bad", "huge"}

FieldRequest == [id: Int, pattern: Patterns]

\* What a client may send: no JSON, JSON that breaks the schema of the form or
\* of a field (with no NaN in it, which a response could not quote), or a form.
Payload ==
  [kind: {"not json", "malformed"}, fields: {<<>>}]
  \cup [kind: {"form"}, fields: Seq(FieldRequest) \ {<<>>}]

-----------------------------------------------------------------------------
NormalizeFields(given) ==
  [i \in DOMAIN given |-> [given[i] EXCEPT !.id = IF @ = Omitted THEN i ELSE @]]

Duplicated_GivenOnly(given) ==  \* mutant: looks at the ids before they are generated
  \E i, j \in DOMAIN given : i # j /\ given[i].id = given[j].id /\ given[i].id # Omitted

Duplicated(given) ==
  LET fields == NormalizeFields(given)
  IN \E i, j \in DOMAIN given : i # j /\ fields[i].id = fields[j].id

\* The first pattern that does not compile decides.
PatternError(given) ==
  IF \E i \in DOMAIN given :
       /\ given[i].pattern = "huge"
       /\ \A j \in 1..(i - 1) : given[j].pattern # "bad"
  THEN "OverflowError"
  ELSE IF \E i \in DOMAIN given : given[i].pattern = "bad" THEN "ValueError"
  ELSE "none"

\* Why a payload is refused, or "none".  The second validator runs only if the
\* first one passes.
Refusal(payload) ==
  CASE payload.kind = "not json"  -> "JSONDecodeError"
    [] payload.kind = "malformed" -> "malformed"
    [] payload.kind = "form"      -> IF Duplicated(payload.fields) THEN "ValueError"
                                     ELSE PatternError(payload.fields)

\* _parse_payload means 422 for every refusal.  But the errors() of a ValueError
\* that a validator raises hold the exception itself, which no JSON response
\* can carry, and pydantic lets other exceptions of a validator through.
RefusalCode(refusal) == IF refusal \in {"JSONDecodeError", "malformed"} THEN 422 ELSE 500

=============================================================================
