------------------------------ MODULE ApiProofs ------------------------------
(***************************************************************************)
(* Proofs about Api, for any number of fields, any replies, texts and      *)
(* payloads, and any setting of the repair attempts.                       *)
(***************************************************************************)
EXTENDS Api, FiniteSetTheorems, TLAPS

(* Answers and questions *)

FieldAnswer == Service!FieldAnswer

Checked(s) == {i \in DOMAIN s : s[i].checked}

\* What a reply makes is an answer that is not checked yet.
LEMMA BuiltAnswer ==
  ASSUME NEW reply \in Service!RawReply
  PROVE  /\ Service!BuildFieldAnswer(reply) \in FieldAnswer
         /\ ~Service!BuildFieldAnswer(reply).checked
<1>1. /\ reply.status \in Service!FieldStatus \cup {"another"}
      /\ reply.candidate \in Service!Candidates
      /\ reply.evidence \in Service!Evidence /\ reply.confidence \in Int
  BY DEF Service!RawReply
<1>2. Service!ParseFieldStatus(reply.status) \in Service!FieldStatus
  BY <1>1 DEF Service!ParseFieldStatus, Service!FieldStatus
<1>3. Service!ParseConfidence(reply.confidence) \in 0..10
  BY <1>1 DEF Service!ParseConfidence
<1>4. Service!Validated(reply.candidate) \in Service!CheckStatus
  BY <1>1 DEF Service!Validated, Service!Candidates, Service!CheckStatus
<1>5. /\ {"needs_review", "validation_failed", "answered"} \subseteq Service!FieldStatus
      /\ "skipped" \in Service!CheckStatus
  BY DEF Service!FieldStatus, Service!CheckStatus
<1> QED
  BY <1>1, <1>2, <1>3, <1>4, <1>5 DEF Service!BuildFieldAnswer, FieldAnswer, Service!FieldAnswer

\* A double check that is skipped leaves an answer unchecked, one that is made
\* leaves it checked.
LEMMA MarkedAnswer ==
  ASSUME NEW a \in FieldAnswer
  PROVE  /\ Service!MarkDoubleCheckSkipped(a) \in FieldAnswer
         /\ Service!MarkDoubleCheckSkipped(a).checked = a.checked
         /\ \A verdict \in Service!CheckStatus :
              /\ Service!DoubleChecked(a, verdict) \in FieldAnswer
              /\ Service!DoubleChecked(a, verdict).checked
<1>1. "needs_review" \in Service!FieldStatus /\ "skipped" \in Service!CheckStatus
  BY DEF Service!FieldStatus, Service!CheckStatus
<1> QED
  BY <1>1 DEF FieldAnswer, Service!FieldAnswer, Service!MarkDoubleCheckSkipped, Service!DoubleChecked

\* There are as many checked answers as answers at most.
LEMMA CheckedBounded ==
  ASSUME NEW s \in Seq(FieldAnswer)
  PROVE  /\ IsFiniteSet(Checked(s))
         /\ Cardinality(Checked(s)) \in Nat
         /\ Cardinality(Checked(s)) <= Len(s)
<1>1. Len(s) \in Nat /\ DOMAIN s = 1..Len(s)
  OBVIOUS
<1>2. Checked(s) \in SUBSET (1..Len(s))
  BY <1>1 DEF Checked
<1>3. IsFiniteSet(1..Len(s)) /\ Cardinality(1..Len(s)) = Len(s)
  BY <1>1, FS_Interval
<1>4. IsFiniteSet(Checked(s)) /\ Cardinality(Checked(s)) <= Cardinality(1..Len(s))
  BY <1>2, <1>3, FS_Subset
<1> QED
  BY <1>3, <1>4, FS_CardinalityType

\* One more answer is one more checked answer, if it is checked.
LEMMA CheckedAppended ==
  ASSUME NEW s \in Seq(FieldAnswer), NEW a \in FieldAnswer
  PROVE  Cardinality(Checked(Append(s, a))) = Cardinality(Checked(s)) + (IF a.checked THEN 1 ELSE 0)
<1> DEFINE t == Append(s, a)
<1>1. /\ Len(s) \in Nat /\ DOMAIN s = 1..Len(s) /\ DOMAIN t = (DOMAIN s) \cup {Len(s) + 1}
      /\ t[Len(s) + 1] = a
      /\ \A i \in DOMAIN s : t[i] = s[i]
  OBVIOUS
<1>2. Len(s) + 1 \notin Checked(s)
  BY <1>1 DEF Checked
<1>3. IsFiniteSet(Checked(s)) /\ Cardinality(Checked(s)) \in Nat
  BY CheckedBounded
<1> HIDE DEF t
<1>4. CASE a.checked
  <2>1. Checked(t) = Checked(s) \cup {Len(s) + 1}
    BY <1>1, <1>4, Zenon DEF Checked
  <2> QED
    BY <1>2, <1>3, <1>4, <2>1, FS_AddElement DEF t
<1>5. CASE ~a.checked
  <2>1. Checked(t) = Checked(s)
    BY <1>1, <1>5, Zenon DEF Checked
  <2> QED
    BY <1>3, <1>5, <2>1 DEF t
<1> QED
  BY <1>4, <1>5

\* A product of naturals grows with its factor.
LEMMA ProductGrows ==
  ASSUME NEW m \in Nat, NEW n \in Nat, NEW p \in Nat, m <= n
  PROVE  m * p <= n * p /\ m * p \in Nat /\ (m + 1) * p = m * p + p
<1>1. PICK d \in Nat : n = m + d
  BY n - m \in Nat, n = m + (n - m)
<1>2. n * p = m * p + d * p /\ d * p \in Nat /\ m * p \in Nat
  BY <1>1
<1> QED
  BY <1>2

\* Bounds and what is between them, shifted.
LEMMA Shifted ==
  ASSUME NEW m \in Int, NEW n \in Int, NEW c \in Int, NEW d \in Int, NEW r \in Int,
         m + c <= r, r <= n + c
  PROVE  r + (d - c) \in (m + d)..(n + d)
OBVIOUS

-----------------------------------------------------------------------------
(* The inductive invariant *)

\* The types of the service and the client, and the bounds that are settings.
ServiceTyped ==
  /\ mode \in Service!Modes
  /\ pc \in Service!Stages
  /\ reports \in 0..Service!LastStep
  /\ answers \in Seq(FieldAnswer)
  /\ pending \in Seq(FieldAnswer)
  /\ outcome \in {"none", "completed", "completed_with_gaps"} \cup Service!Errors

\* What the types say about the numbers that a request is counted with.
LEMMA Typed ==
  ASSUME TypeOK
  PROVE  /\ ServiceTyped
         /\ attempts \in Int /\ calls \in Nat /\ requests \in Nat
         /\ NumFields \in Nat \ {0}
         /\ Len(answers) \in Nat /\ Len(pending) \in Nat
         /\ PerQuestion \in Nat \ {0} /\ QuestionsAllowed \in Nat
         /\ Questions \in Nat
         /\ Questions = Len(answers) + Cardinality(Checked(answers)) + Len(pending)
<1>1. ServiceTyped
  BY DEF TypeOK, Service!TypeOK, ServiceTyped, FieldAnswer
<1>2. attempts \in Int /\ calls \in Nat /\ requests \in Nat /\ NumFields \in Nat \ {0}
  BY SettingsAssumption DEF TypeOK
<1>3. Len(answers) \in Nat /\ Len(pending) \in Nat
  BY <1>1 DEF ServiceTyped
<1>4. Cardinality(Checked(answers)) \in Nat
  BY <1>1, CheckedBounded DEF ServiceTyped
<1>5. Questions = Len(answers) + Cardinality(Checked(answers)) + Len(pending)
  BY DEF Questions, Checked
<1>6. PerQuestion \in Nat \ {0} /\ QuestionsAllowed \in Nat
  BY <1>2 DEF PerQuestion, QuestionsAllowed
<1> QED
  BY <1>1, <1>2, <1>3, <1>4, <1>5, <1>6

\* No answer, no question.
LEMMA NoQuestion ==
  ASSUME answers = <<>>, pending = <<>>
  PROVE  Questions = 0
<1>1. Checked(answers) = {}
  BY DEF Checked
<1>2. Questions = Len(answers) + Cardinality(Checked(answers)) + Len(pending)
  BY DEF Questions, Checked
<1> QED
  BY <1>1, <1>2, FS_EmptySet

\* At its start a request has cost nothing.
LEMMA InitIInv == Init => IInv
<1> SUFFICES ASSUME Init PROVE IInv
  OBVIOUS
<1> USE DEF Init, Service!Init
<1>1. TypeOK
  <2>1. Service!TypeOK
    BY SettingsAssumption DEF Service!TypeOK, Service!Stages, Service!LastStep
  <2>2. provider = Unsupported \/ Client!TypeOK
    BY DEF Client!TypeOK, Client!Ended, Client!Original
  <2> QED
    BY <2>1, <2>2 DEF TypeOK
<1>2. Questions = 0 /\ PerQuestion \in Nat /\ QuestionsAllowed \in Nat
  BY <1>1, Typed, NoQuestion
<1>3. RequestsAddUp
  BY <1>2 DEF RequestsAddUp
<1>4. ServiceAtPlace
  BY DEF ServiceAtPlace
<1> QED
  BY <1>1, <1>3, <1>4 DEF IInv, CodeTellsCause, AcceptedFormSound, HandlerAtStage

\* What the service and the client have done is as it was when they have done
\* nothing.
LEMMA Untouched ==
  ASSUME IInv, UNCHANGED <<routeVars, requests, serviceVars, clientVars>>
  PROVE  /\ ServiceAtPlace' /\ RequestsAddUp' /\ Service!TypeOK'
         /\ attempts' \in Attempts /\ calls' \in Nat /\ requests' \in Nat
         /\ provider' \in Client!Providers \cup {Unsupported}
         /\ (provider = Unsupported \/ Client!TypeOK)'
         /\ route' \in {"run", "health"} /\ payload' \in Payloads
<1> USE DEF routeVars, serviceVars, clientVars
<1>1. ServiceAtPlace'
  BY DEF IInv, ServiceAtPlace, Service!ResolveJobStatus, Service!HasGap
<1>2. RequestsAddUp'
  BY DEF IInv, RequestsAddUp, Questions, PerQuestion, QuestionsAllowed
<1>3. Service!TypeOK'
  BY DEF IInv, TypeOK, Service!TypeOK
<1>4. (provider = Unsupported \/ Client!TypeOK)'
  BY DEF IInv, TypeOK, Client!TypeOK
<1> QED
  BY <1>1, <1>2, <1>3, <1>4 DEF IInv, TypeOK

\* A client is there, or the response says 500.
LEMMA CreateClientIInv == IInv /\ CreateClient => IInv'
<1> SUFFICES ASSUME IInv, CreateClient PROVE IInv'
  OBVIOUS
<1>1. /\ stage = "dependencies" /\ pc = "validate" /\ fields = <<>> /\ health = <<>>
      /\ UNCHANGED <<routeVars, fields, health, requests, serviceVars, clientVars>>
  BY DEF CreateClient, IInv, HandlerAtStage
<1>2. \/ provider = Unsupported /\ code' = 500 /\ stage' = "done"
      \/ provider # Unsupported /\ stage' \in {"parse", "health"} /\ code' = code
         /\ (stage' = "health" => route # "run") /\ (stage' = "parse" => route = "run")
  BY DEF CreateClient, Respond
<1>3. TypeOK'
  BY <1>1, <1>2, Untouched DEF IInv, TypeOK
<1>4. /\ call = "ask" /\ outcome = "none" /\ requests = 0 /\ answers = <<>>
      /\ UNCHANGED <<pc, call, outcome, requests, answers, route, provider, fields, health>>
  BY <1>1 DEF IInv, ServiceAtPlace, routeVars, serviceVars, clientVars
<1>5. HandlerAtStage' /\ AcceptedFormSound'
  BY <1>1, <1>2, <1>4 DEF IInv, TypeOK, HandlerAtStage, AcceptedFormSound
<1>6. CodeTellsCause'
  BY <1>1, <1>2, <1>4 DEF CodeTellsCause
<1> QED
  BY <1>1, <1>3, <1>5, <1>6, Untouched DEF IInv

\* A payload is of one of three kinds.
LEMMA PayloadKind ==
  ASSUME NEW given \in Payloads
  PROVE  given.kind \in {"not json", "malformed", "form"}
BY PayloadsAssumption DEF Payload

\* A form that is not refused is one the service can deal with.
LEMMA AcceptedIsSound ==
  ASSUME NEW given \in Payloads, Refusal(given) = "none"
  PROVE  LET parsed == NormalizeFields(given.fields)
         IN /\ parsed \in Seq(FieldRequest)
            /\ DOMAIN parsed = 1..NumFields
            /\ \A i, j \in DOMAIN parsed : i # j => parsed[i].id # parsed[j].id
            /\ \A i \in DOMAIN parsed :
                 /\ parsed[i].id # Omitted
                 /\ given.fields[i].id \in {Omitted, parsed[i].id}
                 /\ parsed[i].pattern \in {"none", "good"}
<1> DEFINE fs == given.fields
           parsed == NormalizeFields(fs)
<1>1. given.kind = "form" /\ ~Duplicated(fs) /\ PatternError(fs) = "none"
  BY PayloadKind DEF Refusal
<1>2. fs \in Seq(FieldRequest) /\ Len(fs) = NumFields
  BY <1>1, PayloadsAssumption DEF Payload
<1>3. DOMAIN fs = 1..NumFields /\ \A i \in DOMAIN fs : fs[i] \in FieldRequest
  BY <1>2
<1>4. /\ DOMAIN parsed = DOMAIN fs
      /\ \A i \in DOMAIN fs :
           /\ parsed[i] \in FieldRequest
           /\ parsed[i].id = IF fs[i].id = Omitted THEN i ELSE fs[i].id
           /\ parsed[i].pattern = fs[i].pattern
  <2>1. parsed = [i \in DOMAIN fs |-> [fs[i] EXCEPT !.id = IF @ = Omitted THEN i ELSE @]]
    BY DEF NormalizeFields
  <2> HIDE DEF parsed, fs
  <2> SUFFICES ASSUME NEW i \in DOMAIN fs
               PROVE  /\ parsed[i] \in FieldRequest
                      /\ parsed[i].id = IF fs[i].id = Omitted THEN i ELSE fs[i].id
                      /\ parsed[i].pattern = fs[i].pattern
    BY <2>1
  <2>2. fs[i] \in [id: Int, pattern: Patterns] /\ i \in Int
    BY <1>3, SettingsAssumption DEF FieldRequest
  <2>3. PICK name : name = IF fs[i].id = Omitted THEN i ELSE fs[i].id
    OBVIOUS
  <2>4. name \in Int
    BY <2>2, <2>3
  <2>5. parsed[i] = [fs[i] EXCEPT !.id = name]
    BY <2>1, <2>3
  <2> QED
    BY <2>2, <2>3, <2>4, <2>5 DEF FieldRequest
<1>5. \A i, j \in DOMAIN parsed : i # j => parsed[i].id # parsed[j].id
  BY <1>1, <1>4 DEF Duplicated
<1>6. \A i \in DOMAIN fs : fs[i].pattern # "bad" /\ fs[i].pattern # "huge"
  <2>1. \A i \in DOMAIN fs : fs[i].pattern # "bad"
    BY <1>1 DEF PatternError
  <2>2. \A i \in DOMAIN fs : fs[i].pattern # "huge"
    BY <1>1, <1>3, <2>1, SettingsAssumption DEF PatternError
  <2> QED
    BY <2>1, <2>2
<1>7. parsed \in Seq(FieldRequest)
  <2>1. parsed = [i \in 1..NumFields |-> parsed[i]]
    BY <1>3 DEF NormalizeFields
  <2> HIDE DEF parsed, fs
  <2> QED
    BY <1>3, <1>4, <2>1, SettingsAssumption
<1> HIDE DEF parsed, fs
<1>8. \A i \in DOMAIN parsed :
        /\ parsed[i].id # Omitted
        /\ fs[i].id \in {Omitted, parsed[i].id}
        /\ parsed[i].pattern \in {"none", "good"}
  BY <1>3, <1>4, <1>6, SettingsAssumption DEF FieldRequest, Patterns, Omitted
<1> QED
  BY <1>3, <1>4, <1>5, <1>7, <1>8 DEF parsed, fs

\* The payload is refused before anything is asked, or parsed.
LEMMA ParsePayloadIInv == IInv /\ ParsePayload => IInv'
<1> SUFFICES ASSUME IInv, ParsePayload PROVE IInv'
  OBVIOUS
<1>1. /\ stage = "parse" /\ pc = "validate" /\ provider # Unsupported /\ code = 0
      /\ route = "run" /\ fields = <<>>
      /\ UNCHANGED <<routeVars, health, requests, serviceVars, clientVars>>
  BY DEF ParsePayload, IInv, HandlerAtStage
<1>2. /\ requests = 0 /\ answers = <<>> /\ call = "ask" /\ outcome = "none"
      /\ pc' = pc /\ requests' = requests /\ answers' = answers /\ call' = call /\ outcome' = outcome
      /\ provider' = provider /\ payload' = payload /\ health' = health /\ route' = route
  BY <1>1 DEF IInv, ServiceAtPlace, serviceVars, clientVars, routeVars
<1>3. CASE Refusal(payload) = "none"
  <2>1. fields' = NormalizeFields(payload.fields) /\ stage' = "run" /\ code' = code
    BY <1>3 DEF ParsePayload
  <2>2. payload \in Payloads
    BY DEF IInv, TypeOK
  <2>3. fields' \in Seq(FieldRequest) /\ AcceptedFormSound'
    BY <1>2, <1>3, <2>1, <2>2, AcceptedIsSound DEF AcceptedFormSound
  <2>4. TypeOK'
    BY <1>1, <1>2, <2>1, <2>3, Untouched DEF IInv, TypeOK
  <2>5. payload.kind = "form"
    BY <1>3, <2>2, PayloadKind DEF Refusal
  <2>6. HandlerAtStage' /\ CodeTellsCause'
    BY <1>1, <1>2, <2>1, <2>5 DEF HandlerAtStage, CodeTellsCause
  <2> QED
    BY <1>1, <2>3, <2>4, <2>6, Untouched DEF IInv
<1>4. CASE Refusal(payload) # "none"
  <2>1. code' = RefusalCode(Refusal(payload)) /\ stage' = "done" /\ fields' = fields
    BY <1>4 DEF ParsePayload, Respond
  <2>2. code' = IF payload.kind = "form" THEN 500 ELSE 422
    <3>1. payload.kind \in {"not json", "malformed", "form"}
      BY PayloadKind DEF IInv, TypeOK
    <3>2. payload.kind = "form" => Refusal(payload) \in {"ValueError", "OverflowError"}
      BY <1>4 DEF Refusal, PatternError
    <3>3. payload.kind # "form" => Refusal(payload) \in {"JSONDecodeError", "malformed"}
      BY <3>1 DEF Refusal
    <3> QED
      BY <2>1, <3>2, <3>3 DEF RefusalCode
  <2>3. TypeOK'
    BY <1>1, <1>2, <2>1, <2>2, Untouched DEF IInv, TypeOK
  <2>4. HandlerAtStage' /\ CodeTellsCause' /\ AcceptedFormSound'
    BY <1>1, <1>2, <2>1, <2>2 DEF HandlerAtStage, CodeTellsCause, AcceptedFormSound
  <2> QED
    BY <1>1, <2>3, <2>4, Untouched DEF IInv
<1> QED
  BY <1>3, <1>4

\* A health check responds and asks nothing else.
LEMMA CheckHealthIInv == IInv /\ CheckHealth => IInv'
<1> SUFFICES ASSUME IInv, CheckHealth PROVE IInv'
  OBVIOUS
<1>1. /\ stage = "health" /\ pc = "validate" /\ code = 0 /\ route = "health"
      /\ health = <<>> /\ provider # Unsupported
      /\ UNCHANGED <<routeVars, fields, requests, serviceVars, clientVars>>
  BY DEF CheckHealth, IInv, HandlerAtStage
<1>2. /\ call = "ask" /\ outcome = "none"
      /\ UNCHANGED <<pc, call, outcome, fields, route, provider>>
  BY <1>1 DEF IInv, ServiceAtPlace, serviceVars, clientVars, routeVars
<1>3. /\ code' = (IF health' = <<>> THEN 500 ELSE 200) /\ stage' = "done"
      /\ health' \in Seq([available: BOOLEAN, modelAvailable: BOOLEAN, error: BOOLEAN])
  <2>1. health \in Seq([available: BOOLEAN, modelAvailable: BOOLEAN, error: BOOLEAN])
    BY DEF IInv, TypeOK
  <2>2. PICK listing \in Listings :
          IF Crashes(provider, listing)
          THEN Respond(500) /\ UNCHANGED health
          ELSE /\ Respond(200)
               /\ health' = <<[available      |-> listing # "http error",
                               modelAvailable |-> listing = "listed",
                               error          |-> listing # "listed"]>>
    BY DEF CheckHealth
  <2>3. CASE Crashes(provider, listing)
    BY <1>1, <2>1, <2>2, <2>3 DEF Respond
  <2>4. CASE ~Crashes(provider, listing)
    <3>1. [available |-> listing # "http error", modelAvailable |-> listing = "listed",
           error |-> listing # "listed"] \in [available: BOOLEAN, modelAvailable: BOOLEAN, error: BOOLEAN]
      BY Zenon
    <3>2. PICK r \in [available: BOOLEAN, modelAvailable: BOOLEAN, error: BOOLEAN] :
            Respond(200) /\ health' = <<r>>
      BY <2>2, <2>4, <3>1, Zenon
    <3> QED
      BY <3>2 DEF Respond
  <2> QED
    BY <2>3, <2>4
<1>4. TypeOK'
  BY <1>1, <1>2, <1>3, Untouched DEF IInv, TypeOK
<1>5. HandlerAtStage' /\ CodeTellsCause' /\ AcceptedFormSound'
  BY <1>1, <1>2, <1>3 DEF HandlerAtStage, CodeTellsCause, AcceptedFormSound
<1> QED
  BY <1>1, <1>4, <1>5, Untouched DEF IInv

\* The run's outcome is told by the status code.
LEMMA EndRunIInv == IInv /\ EndRun => IInv'
<1> SUFFICES ASSUME IInv, EndRun PROVE IInv'
  OBVIOUS
<1>1. /\ stage = "run" /\ pc = "done" /\ provider # Unsupported /\ code = 0 /\ stage' = "done"
      /\ route = "run" /\ payload.kind = "form"
      /\ code' = (IF outcome \in Service!Errors THEN ErrorCode(outcome) ELSE 200)
      /\ UNCHANGED <<routeVars, fields, health, requests, serviceVars, clientVars>>
  BY DEF EndRun, Respond, IInv, HandlerAtStage
<1>2. /\ outcome = "LLMError" => code' = 502
      /\ outcome = "AppError" => code' = 400
      /\ outcome = "Unexpected" => code' = 500
      /\ outcome \notin Service!Errors => code' = 200
  BY <1>1 DEF Service!Errors, ErrorCode, Classes
<1>3. /\ code' \in {200, 400, 500, 502}
      /\ code' = 502 <=> outcome = "LLMError"
      /\ code' = 400 <=> outcome = "AppError"
      /\ code' = 500 <=> outcome = "Unexpected"
      /\ code' = 200 => outcome \notin Service!Errors
  BY <1>2 DEF Service!Errors
<1>4. TypeOK'
  BY <1>1, <1>3, Untouched DEF IInv, TypeOK
<1>5. CodeTellsCause'
  <2>1. /\ outcome = "LLMError" <=> call = "LLMError"
        /\ call = "JSONDecodeError" => outcome = "Unexpected"
        /\ outcome \notin Service!Errors =>
             Len(answers) = NumFields /\ outcome = Service!ResolveJobStatus(answers)
        /\ outcome = "AppError" => requests = 0 /\ answers = <<>>
    BY <1>1 DEF IInv, ServiceAtPlace
  <2>2. fields # <<>>
    <3>1. 1 \in DOMAIN fields
      BY <1>1, SettingsAssumption DEF IInv, AcceptedFormSound
    <3>2. DOMAIN <<>> = {}
      OBVIOUS
    <3> QED
      BY <3>1, <3>2, Zenon
  <2>3. /\ UNCHANGED <<route, payload, provider, fields, call, outcome, answers, requests>>
        /\ Service!ResolveJobStatus(answers)' = Service!ResolveJobStatus(answers)
    BY <1>1 DEF routeVars, serviceVars, clientVars, Service!ResolveJobStatus, Service!HasGap
  <2> QED
    BY <1>1, <1>3, <2>1, <2>2, <2>3 DEF CodeTellsCause
<1>6. HandlerAtStage' /\ AcceptedFormSound'
  BY <1>1, <1>3 DEF HandlerAtStage, AcceptedFormSound
<1> QED
  BY <1>1, <1>4, <1>5, <1>6, Untouched DEF IInv

-----------------------------------------------------------------------------
(* The run *)

\* While the service is at work, nothing of the handler changes.
LEMMA HandlerKept ==
  ASSUME IInv, stage = "run", stage' = stage, UNCHANGED <<routeVars, fields, health, code, provider>>
  PROVE  /\ AcceptedFormSound' /\ CodeTellsCause' /\ HandlerAtStage'
         /\ fields' \in Seq(FieldRequest)
         /\ health' \in Seq([available: BOOLEAN, modelAvailable: BOOLEAN, error: BOOLEAN])
         /\ code' = 0 /\ stage' = "run" /\ provider' # Unsupported
         /\ provider' \in Client!Providers \cup {Unsupported}
         /\ route' \in {"run", "health"} /\ payload' \in Payloads
<1>1. AcceptedFormSound'
  BY DEF IInv, AcceptedFormSound, routeVars
<1>2. CodeTellsCause'
  BY DEF CodeTellsCause
<1>3. code = 0 /\ provider # Unsupported /\ route = "run" /\ payload.kind = "form"
  BY DEF IInv, HandlerAtStage
<1>4. HandlerAtStage'
  BY <1>3 DEF HandlerAtStage, routeVars
<1> QED
  BY <1>1, <1>2, <1>3, <1>4 DEF IInv, TypeOK, routeVars

\* The stages without a question leave the client alone.
LEMMA ServiceStepIInv == IInv /\ ServiceStep => IInv'
<1> SUFFICES ASSUME IInv, ServiceStep PROVE IInv'
  OBVIOUS
<1>1. /\ stage = "run" /\ stage' = stage
      /\ UNCHANGED <<routeVars, fields, health, code, requests>>
      /\ UNCHANGED <<provider, attempts, call, prompt, calls, invalid, raw>>
  BY DEF ServiceStep, clientVars
<1>2. /\ ServiceTyped /\ attempts \in Int /\ calls \in Nat /\ requests \in Nat
      /\ NumFields \in Nat \ {0}
  BY Typed DEF IInv
<1>3. UNCHANGED <<mode, answers, pending>>
  BY DEF ServiceStep, Service!Validate, Service!Convert, Service!Chunk, Service!Preliminary,
         Service!Fail, Service!Return
<1>4. \/ /\ pc \in {"validate", "convert", "chunk"} /\ pc' = "done"
         /\ outcome' = "AppError" /\ reports' = reports
      \/ /\ \/ pc = "validate" /\ pc' = "convert"
            \/ pc = "convert" /\ pc' = "chunk"
            \/ pc = "chunk" /\ pc' = "extract"
         /\ reports' = reports + 1 /\ outcome' = outcome
      \/ /\ pc = "return" /\ pc' = "done"
         /\ outcome' = Service!ResolveJobStatus(answers) /\ reports' = reports
  BY DEF ServiceStep, Service!Validate, Service!Convert, Service!Chunk, Service!Preliminary,
         Service!Fail, Service!Return
<1>5. Service!ResolveJobStatus(answers) \in {"completed", "completed_with_gaps"}
  BY DEF Service!ResolveJobStatus
<1>6. Service!ResolveJobStatus(answers)' = Service!ResolveJobStatus(answers)
  BY <1>3 DEF Service!ResolveJobStatus, Service!HasGap
<1>7. Service!TypeOK'
  BY <1>2, <1>3, <1>4, <1>5
     DEF IInv, ServiceAtPlace, ServiceTyped, Service!TypeOK, Service!Stages, Service!Errors,
         Service!LastStep, FieldAnswer
<1>8. ServiceAtPlace'
  <2>1. pc \in {"validate", "convert", "chunk"} => Len(answers) = 0
    BY DEF IInv, ServiceAtPlace
  <2> QED
    BY <1>1, <1>2, <1>3, <1>4, <1>5, <1>6, <2>1 DEF IInv, ServiceAtPlace, Service!Errors
<1>9. RequestsAddUp'
  BY <1>1, <1>3 DEF IInv, RequestsAddUp, Questions, PerQuestion, QuestionsAllowed
<1>10. Client!TypeOK'
  BY <1>1 DEF IInv, TypeOK, HandlerAtStage, Client!TypeOK
<1> QED
  BY <1>1, <1>2, <1>7, <1>8, <1>9, <1>10, HandlerKept DEF IInv, TypeOK

\* While a question is open, there is room for it.
LEMMA RoomForQuestion ==
  ASSUME IInv, pc \in {"extract", "check"}
  PROVE  Questions + 1 <= QuestionsAllowed
<1>1. /\ ServiceTyped /\ NumFields \in Nat \ {0} /\ Len(answers) \in Nat
      /\ Questions = Len(answers) + Cardinality(Checked(answers)) + Len(pending)
  BY Typed DEF IInv
<1>2. Cardinality(Checked(answers)) \in Nat /\ Cardinality(Checked(answers)) <= Len(answers)
  BY <1>1, CheckedBounded DEF ServiceTyped
<1>3. /\ Len(answers) < NumFields
      /\ pc = "check" => Len(pending) = 1 /\ mode # "disabled"
      /\ pc = "extract" => Len(pending) = 0
  BY DEF IInv, ServiceAtPlace
<1>4. mode = "disabled" => Cardinality(Checked(answers)) = 0
  <2>1. mode = "disabled" => Checked(answers) = {}
    BY DEF IInv, ServiceAtPlace, Checked
  <2> QED
    BY <2>1, FS_EmptySet
<1>5. CASE mode = "disabled"
  <2>1. QuestionsAllowed = NumFields /\ Len(pending) = 0
    BY <1>1, <1>3, <1>5 DEF QuestionsAllowed
  <2> QED
    BY <1>1, <1>3, <1>4, <1>5, <2>1
<1>6. CASE mode # "disabled"
  <2>1. QuestionsAllowed = 2 * NumFields /\ Len(pending) \in 0..1
    BY <1>1, <1>3, <1>6 DEF QuestionsAllowed
  <2>2. PICK l \in Int, c \in Int, n \in Int :
          l = Len(answers) /\ c = Cardinality(Checked(answers)) /\ n = NumFields
    BY <1>1, <1>2
  <2>3. c <= l /\ l < n
    BY <1>2, <1>3, <2>2
  <2>4. Questions = l + c + Len(pending) /\ QuestionsAllowed = 2 * n
    BY <1>1, <2>1, <2>2
  <2>5. CASE Len(pending) = 0
    BY ONLY <2>3, <2>4, <2>5
  <2>6. CASE Len(pending) = 1
    BY ONLY <2>3, <2>4, <2>6
  <2> QED
    BY <2>1, <2>5, <2>6
<1> QED
  BY <1>5, <1>6

\* A sequence with one more element in front is a sequence still.
LEMMA PrependType ==
  ASSUME NEW S, NEW head \in S, NEW tail \in Seq(S)
  PROVE  <<head>> \o tail \in Seq(S)
<1>1. <<head>> \in Seq(S)
  OBVIOUS
<1> QED
  BY <1>1

\* A client within its types makes a request if it may, gives up or hears of the
\* one it made, and stays within its types.
LEMMA ClientMoves ==
  ASSUME Client!TypeOK, call = "await" => calls > 0, Client!Next
  PROVE  /\ Client!TypeOK' /\ UNCHANGED <<provider, attempts>>
         /\ \/ /\ call = "ask" /\ Client!MayAsk(provider, calls)
               /\ call' = "await" /\ calls' = calls + 1
            \/ call = "ask" /\ call' = "LLMError" /\ calls' = calls
            \/ /\ call = "await" /\ calls' = calls
               /\ call' \in {"ask", "returned", "LLMError", "JSONDecodeError"}
<1>1. CASE Client!Ask
  <2>1. CASE Client!MayAsk(provider, calls)
    <3>1. /\ call = "ask" /\ call' = "await" /\ calls' = calls + 1 /\ raw' = <<>>
          /\ UNCHANGED <<provider, attempts, prompt, invalid>>
      BY <1>1, <2>1 DEF Client!Ask
    <3>2. calls \in Nat /\ calls' \in Nat /\ 1..calls \subseteq 1..calls'
      BY <3>1 DEF Client!TypeOK
    <3>3. prompt \in {Client!Original} \cup {Client!Repair(n) : n \in 1..calls}
      BY DEF Client!TypeOK
    <3>4. prompt' \in {Client!Original} \cup {Client!Repair(n) : n \in 1..calls'}
      <4>1. prompt \in {Client!Original} \cup {Client!Repair(n) : n \in 1..calls'}
        BY ONLY <3>2, <3>3
      <4> QED
        BY <3>1, <4>1
    <3>5. invalid' \subseteq 1..calls'
      BY <3>1, <3>2 DEF Client!TypeOK
    <3> QED
      BY <2>1, <3>1, <3>2, <3>4, <3>5 DEF Client!TypeOK, Client!Original, Client!Repair
  <2>2. CASE ~Client!MayAsk(provider, calls)
    BY <1>1, <2>2 DEF Client!Ask, Client!TypeOK, Client!Ended
  <2> QED
    BY <2>1, <2>2
<1>2. CASE Client!ReceiveFailure
  BY <1>2 DEF Client!ReceiveFailure, Client!TypeOK, Client!Ended
<1>3. CASE Client!ReceiveText
  <2>1. PICK text \in Texts :
          /\ raw' = Client!RawResponse(provider, text)
          /\ IF Client!ParseJsonObject(Client!RawResponse(provider, text)) = <<>>
             THEN /\ invalid' = invalid \cup {calls}
                  /\ prompt' = Client!RepairPrompt(provider, calls)
                  /\ call' = "ask"
             ELSE call' = "returned" /\ UNCHANGED <<prompt, invalid>>
    BY <1>3 DEF Client!ReceiveText
  <2>2. call = "await" /\ UNCHANGED <<provider, attempts, calls>> /\ calls \in Nat /\ calls > 0
    BY <1>3 DEF Client!ReceiveText, Client!TypeOK
  <2>3. raw' \in Seq(Client!Char)
    <3>1. text \in Seq(Client!Char)
      BY RepliesAssumption
    <3>2. Client!LeftBrace \in Client!Char
      BY ONLY DEF Client!Char
    <3>3. <<Client!LeftBrace>> \o text \in Seq(Client!Char)
      BY ONLY <3>1, <3>2, PrependType
    <3> QED
      BY <2>1, <3>1, <3>3 DEF Client!RawResponse
  <2>4. Client!RepairPrompt(provider, calls) \in {Client!Original} \cup {Client!Repair(n) : n \in 1..calls}
    BY <2>2 DEF Client!RepairPrompt
  <2>5. CASE call' = "ask"
    <3>1. /\ invalid' = invalid \cup {calls}
          /\ prompt' = Client!RepairPrompt(provider, calls)
      BY <2>1, <2>5
    <3>2. invalid' \subseteq 1..calls'
      BY <2>2, <3>1 DEF Client!TypeOK
    <3>3. prompt' \in {Client!Original} \cup {Client!Repair(n) : n \in 1..calls'}
      BY <2>2, <2>4, <3>1
    <3> QED
      BY <2>2, <2>3, <2>5, <3>2, <3>3 DEF Client!TypeOK
  <2>6. CASE call' = "returned"
    BY <2>1, <2>2, <2>3, <2>6 DEF Client!TypeOK, Client!Ended
  <2> QED
    BY <2>1, <2>5, <2>6
<1> QED
  BY <1>1, <1>2, <1>3 DEF Client!Next

\* A request more is one that was allowed, for a question there is room for.
LEMMA ClientStepIInv == IInv /\ ClientStep => IInv'
<1> SUFFICES ASSUME IInv, ClientStep PROVE IInv'
  OBVIOUS
<1>1. /\ stage = "run" /\ stage' = stage /\ pc \in {"extract", "check"} /\ Client!Next
      /\ UNCHANGED <<routeVars, fields, health, code>>
      /\ UNCHANGED <<mode, pc, reports, answers, pending, outcome>>
      /\ requests' = requests + (calls' - calls)
  BY DEF ClientStep, serviceVars
<1>2. /\ attempts \in Int /\ calls \in Nat /\ requests \in Nat
      /\ PerQuestion \in Nat \ {0} /\ QuestionsAllowed \in Nat /\ Questions \in Nat
  BY Typed DEF IInv
<1>3. Client!TypeOK /\ (call = "await" => calls > 0)
  BY <1>1 DEF IInv, TypeOK, HandlerAtStage, RequestsAddUp
<1>4. /\ Client!TypeOK' /\ UNCHANGED <<provider, attempts>>
      /\ \/ /\ call = "ask" /\ Client!MayAsk(provider, calls)
            /\ call' = "await" /\ calls' = calls + 1
         \/ call = "ask" /\ call' = "LLMError" /\ calls' = calls
         \/ /\ call = "await" /\ calls' = calls
            /\ call' \in {"ask", "returned", "LLMError", "JSONDecodeError"}
  BY <1>1, <1>3, ClientMoves
<1>5. Service!TypeOK'
  BY <1>1 DEF IInv, TypeOK, Service!TypeOK
<1>6. ServiceAtPlace'
  BY <1>1 DEF IInv, ServiceAtPlace
<1>7. RequestsAddUp'
  <2>1. Questions' = Questions /\ PerQuestion' = PerQuestion /\ QuestionsAllowed' = QuestionsAllowed
    BY <1>1, <1>4 DEF Questions, PerQuestion, QuestionsAllowed
  <2>2. Client!MayAsk(provider, calls) => calls + 1 <= PerQuestion
    BY <1>2 DEF Client!MayAsk, PerQuestion
  <2>3. calls' <= PerQuestion /\ calls' \in Nat /\ (call' \in {"await", "returned"} => calls' > 0)
    BY <1>2, <1>3, <1>4, <2>2 DEF IInv, RequestsAddUp
  <2>4. Questions + 1 <= QuestionsAllowed
    BY <1>1, RoomForQuestion
  <2>5. Questions * PerQuestion \in Nat
    BY <1>2
  <2>6. requests' \in (Questions + calls')..(Questions * PerQuestion + calls')
    <3>1. requests \in (Questions + calls)..(Questions * PerQuestion + calls)
      BY DEF IInv, RequestsAddUp
    <3>2. PICK q \in Int, m \in Int : q = Questions /\ m = Questions * PerQuestion
      BY <1>2, <2>5
    <3>3. requests >= q + calls /\ requests <= m + calls
      BY <1>2, <3>1, <3>2
    <3>4. PICK r \in Int, c \in Int, d \in Int : r = requests /\ c = calls /\ d = calls'
      BY <1>2, <2>3
    <3>5. requests' = r + (d - c)
      BY <1>1, <3>4
    <3>6. r >= q + c /\ r <= m + c
      BY <3>3, <3>4
    <3>7. r + (d - c) \in (q + d)..(m + d)
      BY <3>6, Shifted
    <3> QED
      BY <3>2, <3>4, <3>5, <3>7
  <2>7. requests' \in (Questions' + calls')..(Questions' * PerQuestion' + calls')
    BY <2>1, <2>6
  <2>8. Questions' + (IF call' = "ask" /\ calls' = 0 THEN 0 ELSE 1) <= QuestionsAllowed'
    <3>1. PICK q \in Int, n \in Int : q = Questions /\ n = QuestionsAllowed
      BY <1>2
    <3>2. q + 1 <= n /\ q + 0 <= n
      BY <2>4, <3>1
    <3> QED
      BY <2>1, <3>1, <3>2
  <2>9. calls' <= PerQuestion'
    BY <2>1, <2>3
  <2> QED
    BY <2>3, <2>7, <2>8, <2>9 DEF RequestsAddUp
<1>8. requests' \in Nat /\ calls' \in Nat /\ attempts' \in Attempts
  BY <1>1, <1>2, <1>4 DEF IInv, TypeOK
<1> QED
  BY <1>1, <1>4, <1>5, <1>6, <1>7, <1>8, HandlerKept DEF IInv, TypeOK

\* What the service makes of a reply: an error, an answer to be checked, or one
\* to be kept, checked if it waited for that.
LEMMA Resumed ==
  ASSUME IInv, Service!Extract \/ Service!Check
  PROVE  /\ pc \in {"extract", "check"}
         /\ \/ \E error \in {"LLMError", "Unexpected"} : Service!Fail(error)
            \/ /\ pc = "extract" /\ pc' = "check" /\ mode # "disabled"
               /\ \E a \in FieldAnswer : pending' = <<a>>
               /\ UNCHANGED <<mode, reports, answers, outcome>>
            \/ \E a \in FieldAnswer : Service!Keep(a) /\ (a.checked <=> pc = "check")
<1>1. CASE Service!Extract
  <2>1. pc = "extract"
    BY <1>1 DEF Service!Extract
  <2>2. CASE \E error \in {"LLMError", "Unexpected"} : Service!Fail(error)
    BY <2>1, <2>2
  <2>3. CASE \E reply \in Replies :
               IF Service!ShouldDoubleCheck(Service!BuildFieldAnswer(reply), mode)
               THEN /\ pending' = <<Service!BuildFieldAnswer(reply)>>
                    /\ pc' = "check"
                    /\ UNCHANGED <<mode, reports, answers, outcome>>
               ELSE Service!Keep(Service!MarkDoubleCheckSkipped(Service!BuildFieldAnswer(reply)))
    <3>1. PICK reply \in Replies :
            IF Service!ShouldDoubleCheck(Service!BuildFieldAnswer(reply), mode)
            THEN /\ pending' = <<Service!BuildFieldAnswer(reply)>>
                 /\ pc' = "check"
                 /\ UNCHANGED <<mode, reports, answers, outcome>>
            ELSE Service!Keep(Service!MarkDoubleCheckSkipped(Service!BuildFieldAnswer(reply)))
      BY <2>3
    <3>2. reply \in Service!RawReply
      BY RepliesAssumption
    <3>3. PICK a \in FieldAnswer : a = Service!BuildFieldAnswer(reply) /\ ~a.checked
      BY <3>2, BuiltAnswer
    <3>4. PICK kept \in FieldAnswer : kept = Service!MarkDoubleCheckSkipped(a) /\ kept.checked = a.checked
      BY MarkedAnswer
    <3>5. CASE Service!ShouldDoubleCheck(a, mode)
      <4>1. mode # "disabled"
        BY <3>5 DEF Service!ShouldDoubleCheck
      <4>2. pending' = <<a>> /\ pc' = "check" /\ UNCHANGED <<mode, reports, answers, outcome>>
        BY <3>1, <3>3, <3>5
      <4> QED
        BY <2>1, <4>1, <4>2
    <3>6. CASE ~Service!ShouldDoubleCheck(a, mode)
      <4>1. Service!Keep(kept)
        BY <3>1, <3>3, <3>4, <3>6
      <4> QED
        BY <2>1, <3>3, <3>4, <4>1
    <3> QED
      BY <3>5, <3>6
  <2> QED
    BY <1>1, <2>2, <2>3 DEF Service!Extract
<1>2. CASE Service!Check
  <2>1. pc = "check" /\ pending[1] \in FieldAnswer
    <3>1. pc = "check"
      BY <1>2 DEF Service!Check
    <3>2. Len(pending) = 1
      BY <3>1 DEF IInv, ServiceAtPlace
    <3>3. pending \in Seq(FieldAnswer)
      BY Typed DEF IInv, ServiceTyped
    <3> QED
      BY ONLY <3>1, <3>2, <3>3
  <2>2. CASE \E error \in {"LLMError", "Unexpected"} : Service!Fail(error)
    BY <2>1, <2>2
  <2>3. CASE \E verdict \in Service!CheckStatus : Service!Keep(Service!DoubleChecked(pending[1], verdict))
    <3>1. PICK verdict \in Service!CheckStatus : Service!Keep(Service!DoubleChecked(pending[1], verdict))
      BY <2>3
    <3>2. PICK a \in FieldAnswer : a = Service!DoubleChecked(pending[1], verdict) /\ a.checked
      BY <2>1, MarkedAnswer
    <3> QED
      BY <2>1, <3>1, <3>2
  <2> QED
    BY <1>2, <2>2, <2>3 DEF Service!Check
<1> QED
  BY <1>1, <1>2

\* An answer is one more question, whose calls move into the sum.
LEMMA QuestionAnswered ==
  ASSUME IInv, pc \in {"extract", "check"}, call = "returned",
         UNCHANGED <<mode, attempts, requests>>, call' = "ask", calls' = 0,
         Questions' = Questions + 1
  PROVE  RequestsAddUp'
<1>1. /\ attempts \in Int /\ calls \in Nat /\ requests \in Nat /\ Questions \in Nat
      /\ PerQuestion \in Nat \ {0} /\ QuestionsAllowed \in Nat
  BY Typed DEF IInv
<1>2. Questions + 1 <= QuestionsAllowed
  BY RoomForQuestion
<1>3. /\ calls > 0 /\ calls <= PerQuestion
      /\ requests \in (Questions + calls)..(Questions * PerQuestion + calls)
  BY DEF IInv, RequestsAddUp
<1>4. (Questions + 1) * PerQuestion = Questions * PerQuestion + PerQuestion /\ Questions * PerQuestion \in Nat
  BY <1>1, ProductGrows
<1>5. PICK q \in Int, p \in Int, m \in Int, n \in Int :
        /\ q = Questions /\ p = PerQuestion /\ m = Questions * PerQuestion
        /\ n = (Questions + 1) * PerQuestion
  BY <1>1, <1>4
<1>6. requests \in (q + 1)..n
  <2>1. n = m + p /\ p \in Int
    BY <1>4, <1>5
  <2>2. requests \in (q + calls)..(m + calls) /\ calls <= p /\ calls > 0
    BY <1>3, <1>5
  <2> QED
    BY ONLY <1>1, <1>5, <2>1, <2>2
<1>7. PerQuestion' = PerQuestion /\ QuestionsAllowed' = QuestionsAllowed
  BY DEF PerQuestion, QuestionsAllowed
<1>8. requests' \in Questions'..(Questions' * PerQuestion')
  BY <1>5, <1>6, <1>7
<1>9. /\ (Questions + calls)' = Questions'
      /\ (Questions * PerQuestion + calls)' = Questions' * PerQuestion'
  <2>1. Questions' \in Nat /\ Questions' * PerQuestion' \in Nat
    BY <1>1, <1>7
  <2> QED
    BY <2>1
<1> QED
  BY <1>1, <1>2, <1>7, <1>8, <1>9 DEF RequestsAddUp

\* The service takes the client's answer, or ends with its error.
LEMMA ResumeServiceIInv == IInv /\ ResumeService => IInv'
<1> SUFFICES ASSUME IInv, ResumeService PROVE IInv'
  OBVIOUS
<1>1. /\ stage = "run" /\ stage' = stage /\ call \in Client!Ended
      /\ UNCHANGED <<routeVars, fields, health, code, requests, provider, attempts>>
      /\ call = "LLMError" <=> outcome' = "LLMError"
      /\ call = "JSONDecodeError" => outcome' = "Unexpected"
  BY DEF ResumeService
<1>2. /\ ServiceTyped /\ attempts \in Int /\ calls \in Nat /\ requests \in Nat
      /\ NumFields \in Nat \ {0} /\ Len(answers) \in Nat /\ Len(pending) \in Nat
      /\ Questions = Len(answers) + Cardinality(Checked(answers)) + Len(pending)
  BY Typed DEF IInv
<1>3. /\ pc \in {"extract", "check"}
      /\ \/ \E error \in {"LLMError", "Unexpected"} : Service!Fail(error)
         \/ /\ pc = "extract" /\ pc' = "check" /\ mode # "disabled"
            /\ \E a \in FieldAnswer : pending' = <<a>>
            /\ UNCHANGED <<mode, reports, answers, outcome>>
         \/ \E a \in FieldAnswer : Service!Keep(a) /\ (a.checked <=> pc = "check")
  BY Resumed DEF ResumeService
<1>4. /\ outcome = "none" /\ reports = 3 + Len(answers) /\ Len(answers) < NumFields
      /\ pc = "check" => Len(pending) = 1 /\ mode # "disabled"
      /\ pc = "extract" => pending = <<>>
      /\ mode = "disabled" => \A i \in DOMAIN answers : ~answers[i].checked
  BY <1>3 DEF IInv, ServiceAtPlace
<1>5. Client!TypeOK
  BY <1>1 DEF IInv, TypeOK, HandlerAtStage
<1>6. Cardinality(Checked(answers)) \in Nat
  BY <1>2, CheckedBounded DEF ServiceTyped
<1>7. CASE \E error \in {"LLMError", "Unexpected"} : Service!Fail(error)
  <2>1. /\ outcome' \in {"LLMError", "Unexpected"} /\ pc' = "done"
        /\ UNCHANGED <<mode, reports, answers, pending>>
    BY <1>7 DEF Service!Fail
  <2>2. UNCHANGED <<call, prompt, calls, invalid, raw>>
    BY <2>1 DEF ResumeService
  <2>3. Service!TypeOK'
    BY <1>2, <2>1 DEF ServiceTyped, Service!TypeOK, Service!Stages, Service!Errors, FieldAnswer
  <2>4. ServiceAtPlace'
    BY <1>1, <1>4, <2>1, <2>2 DEF ServiceAtPlace, Service!Errors
  <2>5. Client!TypeOK'
    BY <1>1, <1>5, <2>2 DEF Client!TypeOK
  <2>6. RequestsAddUp'
    BY <1>1, <2>1, <2>2 DEF IInv, RequestsAddUp, Questions, PerQuestion, QuestionsAllowed
  <2> QED
    BY <1>1, <2>2, <2>3, <2>4, <2>5, <2>6, HandlerKept DEF IInv, TypeOK
<1>8. ASSUME outcome' = outcome
      PROVE  /\ call = "returned" /\ call' = "ask" /\ calls' = 0 /\ Client!TypeOK'
  <2>1. call = "returned"
    BY <1>1, <1>4, <1>8 DEF Client!Ended
  <2>2. call' = "ask" /\ prompt' = Client!Original /\ calls' = 0 /\ invalid' = {} /\ raw' = <<>>
    BY <1>4, <1>8 DEF ResumeService
  <2> QED
    BY <1>1, <1>5, <2>1, <2>2 DEF Client!TypeOK
<1>9. CASE /\ pc = "extract" /\ pc' = "check" /\ mode # "disabled"
           /\ \E a \in FieldAnswer : pending' = <<a>>
           /\ UNCHANGED <<mode, reports, answers, outcome>>
  <2>1. Len(pending) = 0 /\ Len(pending') = 1 /\ pending' \in Seq(FieldAnswer)
    BY <1>4, <1>9
  <2>2. Questions' = Questions + 1
    <3>1. Questions' = Len(answers) + Cardinality(Checked(answers)) + Len(pending')
      BY <1>9 DEF Questions, Checked
    <3> QED
      BY <1>2, <1>6, <2>1, <3>1
  <2>3. RequestsAddUp'
    BY <1>1, <1>8, <1>9, <2>2, QuestionAnswered
  <2>4. Service!TypeOK'
    BY <1>2, <1>9, <2>1 DEF ServiceTyped, Service!TypeOK, Service!Stages, Service!Errors, FieldAnswer
  <2>5. ServiceAtPlace'
    BY <1>4, <1>8, <1>9, <2>1 DEF ServiceAtPlace, Service!Errors
  <2> QED
    BY <1>1, <1>2, <1>8, <1>9, <2>3, <2>4, <2>5, HandlerKept DEF IInv, TypeOK
<1>10. CASE \E a \in FieldAnswer : Service!Keep(a) /\ (a.checked <=> pc = "check")
  <2>1. PICK a \in FieldAnswer : Service!Keep(a) /\ (a.checked <=> pc = "check")
    BY <1>10
  <2>2. /\ answers' = Append(answers, a) /\ pending' = <<>> /\ reports' = reports + 1
        /\ pc' = IF Len(answers) + 1 = NumFields THEN "return" ELSE "extract"
        /\ UNCHANGED <<mode, outcome>>
    BY <2>1 DEF Service!Keep
  <2>3. answers \in Seq(FieldAnswer)
    BY <1>2 DEF ServiceTyped
  <2>4. /\ answers' \in Seq(FieldAnswer) /\ Len(answers') = Len(answers) + 1
        /\ DOMAIN answers' = (DOMAIN answers) \cup {Len(answers) + 1}
        /\ answers'[Len(answers) + 1] = a
        /\ \A i \in DOMAIN answers : answers'[i] = answers[i]
    BY <2>2, <2>3
  <2>5. Cardinality(Checked(answers')) = Cardinality(Checked(answers)) + (IF a.checked THEN 1 ELSE 0)
    BY <2>2, <2>3, CheckedAppended
  <2>6. Questions' = Questions + 1
    <3>1. Questions' = Len(answers') + Cardinality(Checked(answers')) + Len(pending')
      BY DEF Questions, Checked
    <3>2. Len(pending') = 0
      BY <2>2
    <3>3. PICK l \in Int, c \in Int : l = Len(answers) /\ c = Cardinality(Checked(answers))
      BY <1>2, <1>6
    <3>4. Questions = l + c + Len(pending) /\ Questions' = (l + 1) + (c + (IF a.checked THEN 1 ELSE 0)) + 0
      BY <1>2, <2>4, <2>5, <3>1, <3>2, <3>3
    <3>5. Len(pending) = IF a.checked THEN 1 ELSE 0
      BY <1>3, <1>4, <2>1
    <3>6. CASE a.checked
      <4>1. Questions = l + c + 1 /\ Questions' = (l + 1) + (c + 1) + 0
        BY <3>4, <3>5, <3>6
      <4> QED
        BY ONLY <3>3, <4>1
    <3>7. CASE ~a.checked
      <4>1. Questions = l + c + 0 /\ Questions' = (l + 1) + (c + 0) + 0
        BY <3>4, <3>5, <3>7
      <4> QED
        BY ONLY <3>3, <4>1
    <3> QED
      BY <3>6, <3>7
  <2>7. RequestsAddUp'
    BY <1>1, <1>3, <1>8, <2>2, <2>6, QuestionAnswered
  <2>8. Service!TypeOK'
    <3>1. reports' \in 0..Service!LastStep
      BY <1>2, <1>4, <2>2 DEF Service!LastStep
    <3>2. pending' \in Seq(FieldAnswer) /\ pc' \in Service!Stages
      BY <2>2 DEF Service!Stages
    <3> QED
      BY <1>2, <2>2, <2>4, <3>1, <3>2 DEF ServiceTyped, Service!TypeOK, FieldAnswer
  <2>9. ServiceAtPlace'
    <3>1. mode = "disabled" => \A i \in DOMAIN answers' : ~answers'[i].checked
      BY <1>4, <2>1, <2>4, Zenon
    <3>2. pc' \in {"extract", "return"} /\ (pc' = "return" <=> Len(answers') = NumFields)
      BY <1>2, <2>2, <2>4
    <3>3. pc' = "extract" => Len(answers') < NumFields
      BY <1>2, <1>4, <2>4, <3>2
    <3>4. reports' = 3 + Len(answers')
      BY <1>2, <1>4, <2>2, <2>4
    <3>5. outcome' = "none" /\ call' = "ask" /\ pending' = <<>> /\ mode' = mode
      BY <1>4, <1>8, <2>2
    <3> QED
      BY <3>1, <3>2, <3>3, <3>4, <3>5 DEF ServiceAtPlace
  <2> QED
    BY <1>1, <1>2, <1>8, <2>2, <2>7, <2>8, <2>9, HandlerKept DEF IInv, TypeOK
<1> QED
  BY <1>3, <1>7, <1>9, <1>10

-----------------------------------------------------------------------------
(* The theorems *)

\* IInv holds in every reachable state.
THEOREM Invariance == Spec => []IInv
<1>1. ASSUME IInv, UNCHANGED vars PROVE IInv'
  <2>1. /\ UNCHANGED <<routeVars, requests, serviceVars, clientVars>>
        /\ UNCHANGED <<stage, fields, health, code>>
    BY <1>1 DEF vars
  <2>2. CodeTellsCause' /\ HandlerAtStage' /\ AcceptedFormSound'
    BY <1>1, <2>1
       DEF IInv, CodeTellsCause, HandlerAtStage, AcceptedFormSound, routeVars, serviceVars,
           clientVars, Service!ResolveJobStatus, Service!HasGap
  <2>3. TypeOK'
    BY <1>1, <2>1, Untouched DEF IInv, TypeOK
  <2> QED
    BY <1>1, <2>1, <2>2, <2>3, Untouched DEF IInv
<1>2. IInv /\ [Next]_vars => IInv'
  BY <1>1, CreateClientIInv, ParsePayloadIInv, CheckHealthIInv, EndRunIInv, ServiceStepIInv,
     ClientStepIInv, ResumeServiceIInv DEF Next
<1> QED
  BY InitIInv, <1>2, PTL DEF Spec

\* The request, its service and its client stay in their types.
THEOREM TypeCorrect == Spec => []TypeOK
<1>1. IInv => TypeOK
  BY DEF IInv
<1> QED
  BY Invariance, <1>1, PTL

\* Each status code is sent in its own cases and no other, for any number of
\* fields, any replies and any payload: 502 exactly if the client raised LLMError,
\* 500 exactly if no handler's code stands for what went wrong.
THEOREM CodeSound == Spec => []CodeTellsCause
<1>1. IInv => CodeTellsCause
  BY DEF IInv
<1> QED
  BY Invariance, <1>1, PTL

\* The service runs on forms only that it can deal with.
THEOREM FormSound == Spec => []AcceptedFormSound
<1>1. IInv => AcceptedFormSound
  BY DEF IInv
<1> QED
  BY Invariance, <1>1, PTL

\* No form costs more requests than its questions with all their repairs, and
\* no answer comes without one.
THEOREM CostBounded == Spec => []RequestsBounded
<1>1. IInv => RequestsBounded
  <2> SUFFICES ASSUME IInv PROVE RequestsBounded
    OBVIOUS
  <2>1. /\ calls \in Nat /\ requests \in Nat /\ Questions \in Nat
        /\ PerQuestion \in Nat \ {0} /\ QuestionsAllowed \in Nat
    BY Typed DEF IInv
  <2>2. /\ calls <= PerQuestion
        /\ calls > 0 => Questions + 1 <= QuestionsAllowed
        /\ Questions <= QuestionsAllowed
        /\ requests \in (Questions + calls)..(Questions * PerQuestion + calls)
    BY <2>1 DEF IInv, RequestsAddUp
  <2>3. /\ Questions * PerQuestion <= QuestionsAllowed * PerQuestion
        /\ Questions * PerQuestion \in Nat /\ QuestionsAllowed * PerQuestion \in Nat
        /\ (Questions + 1) * PerQuestion = Questions * PerQuestion + PerQuestion
    BY <2>1, <2>2, ProductGrows
  <2>4. calls > 0 => (Questions + 1) * PerQuestion <= QuestionsAllowed * PerQuestion
    BY <2>1, <2>2, ProductGrows
  <2>5. PICK m \in Int, n \in Int :
          m = Questions * PerQuestion /\ n = QuestionsAllowed * PerQuestion
    BY <2>3
  <2>6. requests <= m + calls /\ requests >= Questions + calls /\ m <= n
    BY <2>1, <2>2, <2>3, <2>5
  <2>7. calls > 0 => m + PerQuestion <= n
    BY <2>3, <2>4, <2>5
  <2>8. PICK p \in Int, q \in Int : p = PerQuestion /\ q = Questions
    BY <2>1
  <2>9. requests <= n /\ requests >= q
    BY ONLY <2>1, <2>2, <2>5, <2>6, <2>7, <2>8
  <2> QED
    BY <2>5, <2>8, <2>9 DEF RequestsBounded
<1> QED
  BY Invariance, <1>1, PTL

=============================================================================
