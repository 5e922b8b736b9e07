-------------------------------- MODULE Api ---------------------------------
(***************************************************************************)
(* One request to the routes POST /run and GET /llm/health                 *)
(* (app/api/routes/extraction.py), from its dependencies to the status     *)
(* code: the service of Extraction, each of whose questions is put to the  *)
(* model by a generate_json of LLMClient, request by request.  POST /jobs  *)
(* begins in the same way; what follows its response is in Jobs.           *)
(***************************************************************************)
EXTENDS FormRequest, FiniteSets

CONSTANTS
  NumFields, Threshold, Replies,    \* of Extraction
  Attempts, Texts, IsObject(_),     \* of LLMClient
  Payloads                          \* what clients may send to /run

ASSUME PayloadsAssumption ==
  /\ Payloads \subseteq Payload
  /\ \A payload \in Payloads : payload.kind = "form" => Len(payload.fields) = NumFields

VARIABLES
  route,     \* "run" or "health"
  payload,   \* the payload of /run
  stage,     \* where the handler is
  fields,    \* request.fields once the payload is parsed
  health,    \* what health_check returns, as a sequence of length 0 or 1
  code,      \* the status code, 0 before the response
  requests,  \* requests made to the provider so far
  mode, pc, reports, answers, pending, outcome,             \* of the service
  provider, attempts, call, prompt, calls, invalid, raw     \* of the client

serviceVars == <<mode, pc, reports, answers, pending, outcome>>
clientVars  == <<provider, attempts, call, prompt, calls, invalid, raw>>
routeVars   == <<route, payload>>
vars == <<routeVars, stage, fields, health, code, requests, serviceVars, clientVars>>

Service == INSTANCE Extraction
Client  == INSTANCE LLMClient WITH pc <- call

\* What the modules composed assume of their constants.
ASSUME SettingsAssumption ==
  /\ NumFields \in Nat \ {0}
  /\ Threshold \in 0..10
  /\ Attempts \subseteq Int
ASSUME RepliesAssumption ==
  /\ Replies \subseteq Service!RawReply
  /\ Texts \subseteq Seq(Client!Char)

\* "unsupported": a provider that create_llm_client knows no client for.
Unsupported == "unsupported"

\* What comes back from the provider's list of models: a failed request, no
\* JSON, JSON that is no object, an object whose list is null, an object that
\* lists the configured model or does not.
Listings == {"http error", "not json", "no object", "null list", "listed", "not listed"}

-----------------------------------------------------------------------------
Init ==
  /\ route \in {"run", "health"}
  /\ payload \in Payloads
  /\ stage = "dependencies"
  /\ fields = <<>>
  /\ health = <<>>
  /\ code = 0
  /\ requests = 0
  /\ Service!Init
  /\ provider \in Client!Providers \cup {Unsupported}
  /\ attempts \in Attempts
  /\ call = "ask" /\ prompt = Client!Original /\ calls = 0 /\ invalid = {} /\ raw = <<>>

Respond(status) ==
  /\ code' = status
  /\ stage' = "done"

\* create_llm_client, in get_service or in the handler of /llm/health: no
\* handler catches its ConfigurationError.
CreateClient ==
  /\ stage = "dependencies"
  /\ IF provider = Unsupported
     THEN Respond(500)
     ELSE /\ stage' = IF route = "run" THEN "parse" ELSE "health"
          /\ UNCHANGED code
  /\ UNCHANGED <<routeVars, fields, health, requests, serviceVars, clientVars>>

ParsePayload ==
  /\ stage = "parse"
  /\ LET refusal == Refusal(payload)
     IN IF refusal = "none"
        THEN /\ fields' = NormalizeFields(payload.fields)
             /\ stage' = "run"
             /\ UNCHANGED code
        ELSE /\ Respond(RefusalCode(refusal))
             /\ UNCHANGED fields
  /\ UNCHANGED <<routeVars, health, requests, serviceVars, clientVars>>

\* The stages of the service that ask the model nothing.
ServiceStep ==
  /\ stage = "run"
  /\ Service!Validate \/ Service!Convert \/ Service!Chunk \/ Service!Return
  /\ UNCHANGED <<routeVars, stage, fields, health, code, requests, clientVars>>

\* A step of the generate_json that the service awaits.
ClientStep ==
  /\ stage = "run"
  /\ pc \in {"extract", "check"}
  /\ Client!Next
  /\ requests' = requests + (calls' - calls)
  /\ UNCHANGED <<routeVars, stage, fields, health, code, serviceVars>>

\* The service goes on with what generate_json returned or raised; a call that
\* raises ends the run.  The next call begins anew.
ResumeService ==
  /\ stage = "run"
  /\ call \in Client!Ended
  /\ Service!Extract \/ Service!Check
  /\ call = "LLMError" <=> outcome' = "LLMError"
  /\ call = "JSONDecodeError" => outcome' = "Unexpected"
  /\ IF outcome' = "none"
     THEN call' = "ask" /\ prompt' = Client!Original /\ calls' = 0 /\ invalid' = {} /\ raw' = <<>>
     ELSE UNCHANGED <<call, prompt, calls, invalid, raw>>
  /\ UNCHANGED <<routeVars, stage, fields, health, code, requests, provider, attempts>>

\* The classes of core/errors.py that an error belongs to.
Classes(error) ==
  CASE error = "LLMError"   -> {"LLMError", "AppError"}
    [] error = "AppError"   -> {"AppError"}
    [] error = "Unexpected" -> {}

ErrorCode_BaseFirst(error) ==  \* mutant: except AppError stands before except LLMError
  IF "AppError" \in Classes(error) THEN 400
  ELSE IF "LLMError" \in Classes(error) THEN 502 ELSE 500

\* The except clauses of run_extraction, in their order.
ErrorCode(error) ==
  IF "LLMError" \in Classes(error) THEN 502
  ELSE IF "AppError" \in Classes(error) THEN 400 ELSE 500

EndRun ==
  /\ stage = "run"
  /\ pc = "done"
  /\ Respond(IF outcome \in Service!Errors THEN ErrorCode(outcome) ELSE 200)
  /\ UNCHANGED <<routeVars, fields, health, requests, serviceVars, clientVars>>

\* No client catches a list of models that is not JSON or whose list is null;
\* Ollama's takes the JSON for an object unseen.
Crashes(p, listing) ==
  \/ listing \in {"not json", "null list"}
  \/ listing = "no object" /\ p = "ollama"

CheckHealth ==
  /\ stage = "health"
  /\ \E listing \in Listings :
       IF Crashes(provider, listing)
       THEN Respond(500) /\ UNCHANGED health
       ELSE /\ Respond(200)
            /\ health' = <<[available      |-> listing # "http error",
                            modelAvailable |-> listing = "listed",
                            error          |-> listing # "listed"]>>
  /\ UNCHANGED <<routeVars, fields, requests, serviceVars, clientVars>>

Next ==
  \/ CreateClient \/ ParsePayload \/ CheckHealth \/ EndRun
  \/ ServiceStep \/ ClientStep \/ ResumeService

Spec == Init /\ [][Next]_vars

\* httpx ends every request within its timeouts, and the conversion of the
\* document is assumed to return.
FairSpec == Spec /\ WF_vars(Next)

-----------------------------------------------------------------------------
(* Properties *)

\* Every variable stays in its type; those of the service and the client are
\* typed in their modules.
TypeOK ==
  /\ route \in {"run", "health"}
  /\ payload \in Payloads
  /\ stage \in {"dependencies", "parse", "health", "run", "done"}
  /\ fields \in Seq(FieldRequest)
  /\ health \in Seq([available: BOOLEAN, modelAvailable: BOOLEAN, error: BOOLEAN])
  /\ code \in {0, 200, 400, 422, 500, 502}
  /\ requests \in Nat
  /\ Service!TypeOK
  /\ provider \in Client!Providers \cup {Unsupported}
  /\ attempts \in Attempts
  /\ calls \in Nat
  /\ provider = Unsupported \/ Client!TypeOK

\* What a client can conclude from the status code, whatever happened on the
\* way.  From /run, 200 brings an answer for every field.  502 is said exactly
\* when the LLM client raised LLMError (which is an AppError too, so the order of
\* the except clauses decides), and 400 exactly when another AppError ended the
\* run.  Everything else ends as 500, and only that: an unsupported provider, a
\* form that a validator refuses, a body of the provider that is not JSON, an
\* object of the model that cannot be used, a list of models that cannot be
\* read.  Who is told 400 or 422, or has no provider, has cost no request.
CodeTellsCause ==
  stage = "done" =>
    /\ code = 200 /\ route = "run" =>
         /\ Len(answers) = NumFields
         /\ outcome = Service!ResolveJobStatus(answers)
    /\ code = 502 <=> call = "LLMError"
    /\ code = 400 <=> outcome = "AppError"
    /\ code = 422 <=> provider # Unsupported /\ route = "run" /\ payload.kind # "form"
    /\ code = 500 <=>
         \/ provider = Unsupported
         \/ route = "run" /\ payload.kind = "form" /\ fields = <<>>
         \/ outcome = "Unexpected"
         \/ route = "health" /\ health = <<>>
    /\ call = "JSONDecodeError" => code = 500
    /\ code \in {400, 422} \/ provider = Unsupported => requests = 0 /\ answers = <<>>

\* The questions that have been answered so far: one for each field, one for
\* each double check, and one for the field whose double check is awaited.
Questions ==
  Len(answers) + Cardinality({i \in DOMAIN answers : answers[i].checked}) + Len(pending)

PerQuestion == IF attempts < 0 THEN 1 ELSE attempts + 1

QuestionsAllowed == (IF mode = "disabled" THEN 1 ELSE 2) * NumFields

\* What a form can cost at the provider: two questions for each field, one if
\* double checks are disabled, each with all its repairs (service.py:75-92
\* around the loops of generate_json); and no answer and no double check is
\* there without a reply of its own.
RequestsBounded ==
  /\ requests <= QuestionsAllowed * PerQuestion
  /\ requests >= Questions

\* The service runs only on a form it can deal with: its fields have an id each,
\* no two the same and those that the client gave kept, also where a client
\* uses a name like field_002 (normalize_fields); and their patterns compile, so
\* that no validation of an answer raises for them (validate_regex_patterns).
AcceptedFormSound ==
  stage = "run" =>
    /\ DOMAIN fields = 1..NumFields
    /\ \A i, j \in DOMAIN fields : i # j => fields[i].id # fields[j].id
    /\ \A i \in DOMAIN fields :
         /\ fields[i].id # Omitted
         /\ payload.fields[i].id \in {Omitted, fields[i].id}
         /\ fields[i].pattern \in {"none", "good"}

\* Where the handler is: what each stage has found out about the request.
HandlerAtStage ==
  /\ code = 0 <=> stage # "done"
  /\ stage \in {"parse", "health", "run"} => provider # Unsupported
  /\ stage = "health" => route = "health"
  /\ stage \in {"parse", "run"} => route = "run"
  /\ stage = "run" => payload.kind = "form"
  /\ stage \notin {"run", "done"} => pc = "validate" /\ fields = <<>> /\ health = <<>>

\* Where the service is: what it has done, and what the client has for it.
ServiceAtPlace ==
  /\ pc \in {"validate", "convert", "chunk"} =>
       requests = 0 /\ answers = <<>> /\ call = "ask" /\ calls = 0 /\ outcome = "none"
  /\ pc = "validate" => reports = 0
  /\ pc = "convert" => reports = 1
  /\ pc = "chunk" => reports = 2
  /\ pc \in {"extract", "check"} =>
       reports = 3 + Len(answers) /\ Len(answers) < NumFields /\ outcome = "none"
  /\ pc = "check" => Len(pending) = 1 /\ mode # "disabled"
  /\ pc \notin {"check", "done"} => pending = <<>>
  /\ pc = "return" => call = "ask" /\ Len(answers) = NumFields /\ outcome = "none"
  /\ pc = "done" =>
       /\ outcome \in Service!Errors \/ outcome = Service!ResolveJobStatus(answers)
       /\ outcome = "LLMError" <=> call = "LLMError"
       /\ call = "JSONDecodeError" => outcome = "Unexpected"
       /\ outcome \notin Service!Errors => Len(answers) = NumFields
       /\ outcome = "AppError" => requests = 0 /\ answers = <<>>
  /\ mode = "disabled" => \A i \in DOMAIN answers : ~answers[i].checked

\* How the requests made so far add up from the questions answered and the
\* calls of the one at hand.
RequestsAddUp ==
  /\ calls <= PerQuestion
  /\ call \in {"await", "returned"} => calls > 0
  /\ Questions + (IF call = "ask" /\ calls = 0 THEN 0 ELSE 1) <= QuestionsAllowed
  /\ requests \in (Questions + calls)..(Questions * PerQuestion + calls)

\* The strengthening from which these follow.
IInv ==
  /\ TypeOK
  /\ CodeTellsCause
  /\ AcceptedFormSound
  /\ HandlerAtStage
  /\ ServiceAtPlace
  /\ RequestsAddUp

\* Every request is responded to.
Responds == <>(stage = "done")

=============================================================================
