# FillForm in TLA+

A TLA+ model of [FillForm](../src/README.md), the FastAPI service that fills
forms from documents: what its code does, model-checked with TLC on small
instances and proved with TLAPS for instances of any size: every invariant and
every refinement that the passing runs check is a theorem, and only liveness is
left to TLC alone. Paths below are relative to `src/`.

## The system

A client uploads a document and a list of fields (a question, an expected type
and validation rules each). FillForm converts the document to markdown, splits
it into chunks, asks a language model for each field in turn, normalises and
validates the reply, and asks the model a second time where the double-check
policy wants it. `POST /run` does all this within the request. `POST /jobs`
answers with a job id and leaves the work to a background task that records its
progress in a file, which `GET /jobs/{job_id}` reads.

| Component (source) | State it keeps | Operations | Interacts with | What makes it correct |
|---|---|---|---|---|
| File job store (`app/storage/job_store.py`) | one JSON file per job, and a temporary file while it is written | `create`, `get`, `mark_running`, `update_progress`, `mark_completed`, `mark_failed` | called by the routes and, through the progress callback, by the service; shared by processes | a record is whole at every moment, its parts fit together, it never goes back |
| In-memory job store (same file) | a dict | the same | nothing constructs it | - |
| Job API and task (`app/api/routes/extraction.py`) | the coroutine of each request and task | `create_job`, `get_job`, `_run_job`, `run_extraction`, `check_llm_health` | store, service | every accepted job ends in the store as what became of it, faults aside |
| Extraction service (`app/pipeline/service.py`) | answers so far | `run`, policy and status helpers | converter, chunking, extractor, double checker, callback | an answer for each field, the right status, progress that rises to 95 |
| Field extraction (`app/pipeline/extraction.py`) | none | `extract`, `_build_field_answer` | LLM client, validation | "answered" only with evidence and a value that is not rejected |
| Double check (`app/pipeline/double_check.py`) | none | `check` | LLM client | a failed verdict takes "answered" away and nothing else |
| Chunking (`app/pipeline/chunking.py`) | the lines at hand, the section | `chunk_markdown` | service | all text in chunks, a partition of the lines, in size, with right line numbers and sections |
| Validation (`app/domain/validation.py`) | none | normalise, validate | field extraction | what passes is a technical value, kept and stable |
| LLM clients (`app/llm/{ollama,openai_compatible,anthropic}.py`) | the last reply | `generate_json`, `health_check` | provider over HTTP | bounded requests, the right reply repaired, one kind of error |
| JSON extraction (`app/llm/json_parsing.py`) | what the scan knows | `parse_json_object`, the repair prompts | LLM clients | finds an object that is there |
| Requests, responses (`app/api/schemas/`) | the parsed request | field ids, duplicates, patterns | routes | unique ids, the given ones kept, patterns that compile |
| Document conversion (`app/pipeline/document_conversion.py`) | a temporary file | `convert` | MarkItDown in a thread | a text, or one kind of error |
| Configuration and client factory (`app/core/config.py`, `app/llm/factory.py`) | settings | `create_llm_client` | routes | no request of a form reaches a provider without a client |
| Prompts, start, logging, packaging | - | - | all | - |

Hard behaviours: coroutines of several jobs interleave on one event loop and,
with several workers, on several; polls fall between the file steps of a write;
a crash, a shutdown or a failing disk strikes anywhere, and the error paths of
`_run_job` themselves write files; progress is rounded; the provider may answer
anything, and the repair loops of three clients differ; a reply and a verdict
may trip over the rules for "answered" in any combination; a reply may hide its
JSON object behind braces, quotes and backslashes; generated field ids meet given
ones; fields, double checks and repairs multiply into requests to the provider;
the text is stripped before its lines are numbered; the section of a chunk is read
after the next heading was. `PROJECT.json` lists each hazard at its
line with the properties that would catch it.

## Modules

| Module | Models | Extends / instantiates |
|---|---|---|
| `JobStore` | the record files, what each store method writes, the two file steps of a write and what an interrupted one leaves | - |
| `Progress` | the stages of a run, their percents and the errors they may raise | - |
| `JobLifecycle` | abstract: what polling a job may show | - |
| `Jobs` | `create_job`, `_run_job`, `get_job` over the file store: the core | `JobStore`, `Progress`; implements `JobLifecycle`, and `Pipeline` for each job |
| `JobsProofs` | the theorems about `Jobs` | `Jobs`, TLAPS |
| `Pipeline` | abstract: what `_run_job` counts on from `ExtractionService.run` | `Progress` |
| `FieldAnswers` | from a reply to an answer, and the double-check policy | - |
| `Extraction` | `ExtractionService.run`, with replies and verdicts | `Progress`, `FieldAnswers`; implements `Pipeline` |
| `JsonReply` | `parse_json_object`, the scan as a fold over the characters; and what JSON says of an object's braces, strings and escapes, without a scan | - |
| `LLMClient` | `generate_json` of the three clients | `JsonReply` |
| `FormRequest` | the validators of a form and `_parse_payload` | - |
| `Api` | `run_extraction` and `check_llm_health`, from the dependencies to the status code | `FormRequest`; composes `Extraction` and `LLMClient` |
| `Chunking` | `chunk_markdown`: the normalised text, then a line per step | - |
| `Validation` | `normalize_extracted_value`, then `validate_extracted_value` | - |
| `ExtractionProofs`, `ApiProofs`, `ValidationProofs` | the theorems about these modules | the module named, TLAPS |
| `FoldLemmas` | lemmas: induction up to a number, and sums over ranges | TLAPS |
| `ChunkingProofs` | the theorems about `Chunking` | `Chunking`, `FoldLemmas` |
| `JsonReplyProofs` | lemmas: the scan of a text knows what JSON says of it | `JsonReply`, `FoldLemmas` |
| `LLMClientProofs` | the theorems about `LLMClient` | `LLMClient`, `JsonReplyProofs` |
| `MCJobs`, `MCExtraction`, `MCLLMClient`, `MCApi`, `MCChunking`, `MCValidation` | instances for TLC | the module named |

There are two compositions. A job: `Extraction` is checked and proved to
implement `Pipeline`, and `Jobs` to run a pipeline of that kind for each job,
whatever its store calls, the other jobs and the faults do in between; so `Jobs`
need not carry replies, and two concurrent jobs stay within TLC's reach. A
request: `Api` instantiates `Extraction` and `LLMClient` and lets them take turns,
each question of the service being one run of the client. A step of `Api` that
changes the service is a step of `Extraction` by construction, so what is proved of
the service alone holds of it there; what `Api` adds are the properties that need
both.
Definitions named `X_Something` next to an `X` are mutants: forms `X` would take
with a plausible mistake in the code, each of which some property refutes.

### Jobs

`pc[j]` is where the coroutine that serves job `j` is: in a store call (named
after the method), sending the response, waiting for its background task to
start, or inside `ExtractionService.run`. A store call is two steps, `Write` (the
temporary file) and `Publish` (the rename), or a `StoreError` before, in or after
the first of them. Where an error leads is `AfterStoreError`: `create` and
`mark_running` are outside the `try` of `_run_job`, `mark_failed` is in its
handler, so their errors escape; the errors of a progress report or of
`mark_completed` lead to `mark_failed`. `Crash(w)` ends all that worker `w` is at,
be it by a signal or by the cancellation of a shutdown, which `except Exception`
does not catch. `Poll` reads the record into `seen`.

One event loop per worker: `HasTurn` lets a coroutine move only while no other
of its worker is between two awaits. The pipeline awaits inside stages 2 and 4
to the last (`Awaits`); from the last field's answer to the end of the task it
does not. `json` and `tmp` are shared by the workers, which is what
`get_job_store` does with `STORAGE_DIR`. `outcome` is what the pipeline of a job
returned or its work raised; the error of a progress report passes through
`ExtractionService.run` too, and is counted as one of the store. The job's result
is reduced to its status, its error to whether there is one.

### Extraction, FieldAnswers

One step per stage, and for a field one per call of the LLM. A reply is its
status (or one that is no `FieldStatus`), what validation makes of its candidate
value, whether any of its evidence parses, and its confidence in tenths, which may
be no number or out of range.

### LLMClient, JsonReply

A request (`Ask`) fails (`ReceiveFailure`) or brings a text (`ReceiveText`), of
which `ParseJsonObject` makes an object or not. Replies are numbered by the
requests they answer, so that the model can tell which reply a repair request
carries. A text is a sequence of the characters the scan tells apart (braces,
quote, backslash) and two others; the scan is a fold, a record of depth, string
and escape being `extract_first_json_object`'s local variables. `IsObject`, what
`json.loads` makes a dict of, is a constant; `MCLLMClient` gives it the JSON
grammar over these characters. Of any such object the proofs assume that it is
`Balanced`: its first brace is closed by its last character and not before, where
braces in strings do not count, and only strings hold backslashes. TLC evaluates that
assumption (`ObjectsAssumption`) for the grammar and all parts of all replies of the
run. The texts have no blanks at their ends, which
neither `strip` nor the scan would tell.

### FormRequest, Api

An id is a number: 0 is an omitted one, n > 0 the name generated for the n-th
field, which a client may use too, and a negative one any other name. A pattern
compiles, raises `re.error` or raises `OverflowError`. What `_parse_payload` means
to refuse with 422 ends as 500 where the error came out of a validator: the
errors of pydantic then hold an exception, which the response cannot carry.

`stage` is where the handler is: in its dependencies (`CreateClient`), in
`_parse_payload`, in `health_check` or in `ExtractionService.run`. There,
`ServiceStep` takes the stages that ask the model nothing, `ClientStep` a step of
the `generate_json` that is awaited, and `ResumeService` goes on with what it
returned or raised: `LLMError` if and only if the client says so, and another
error if the client raised one, or if a reply that is a JSON object cannot be made
an answer of. `requests` counts what the provider is sent. The form, the document
and the replies on a field are as in the modules composed.

### Chunking

A line of the document is its indentation, its length from there on without
the blanks at its end (which `rstrip` takes) and the title it sets if it begins with
"#". `Normalized` is what `strip` leaves of the document: without the blank lines at
its ends and without the indentation of the first line kept. A chunk is its range
of lines, its size and its section.

### Validation

JSON values are records of a type, a text and items, so that values of different
types can be compared as Python does (`True == 1 == 1.0`). Case folding, stripping,
the text of a float, the boolean vocabulary and the pattern are constants.

## Runs

| Run | Instance | Shows |
|---|---|---|
| `jobs` | 2 jobs, 2 workers (either job on either), 2 fields, 1 crash, 1 store error; 3 million states | types; `IInv`, the inductive invariant; `PublishedCoherent`: a record is absent or whole and fits together; `FinishedMatchesRun`: a finished record comes from a run through all fields and has the right status; `StrandedOnlyByFault`: only a crash or failed store call leaves a job open; `PollSound`: polls find the job and never go back; `ImplementsPipeline`: the run of each job is a pipeline as `ExtractionService.run` makes it |
| `jobs_life` | 2 jobs, 1 worker, 1 field, 1 crash, 2 store errors, fair | `ImplementsLifecycle`: what polls show is the life of a job, up to 95 while it runs, then final; `Settles`: a job on disk ends as finished or failed unless it is lost to a fault |
| `extraction` | 2 fields, 135 kinds of reply, 5 modes; 0.3 million states | `IInv`; `AnsweredIsSupported`: what is answered has evidence, a value not rejected and no failed verdict; `UncheckedIsConfident`: what skips the double check may; `ResponseComplete`: an answer for every field and the right status; `ImplementsPipeline` |
| `llm` | 3 clients, -1 to 2 repair attempts, some thousand texts, fair | `IInv`; `CallsBounded`: at most one request more than the repair attempts; `RepairsLatest`: a repair is asked of the reply just received; `UsesItsAttempts`: no early surrender; `FirstBraceParsed`: an object that begins at the first brace of a reply is found, whatever is in its strings and around it; `Terminates` |
| `run_request` | 2 fields, 3 clients and no client, up to 1 repair, 5 modes, 36 payloads, fair; 0.8 million states | `IInv`; `CodeTellsCause`: each code in its own cases and no other: 200 with an answer for every field, 502 exactly if the client raised `LLMError`, 400 if another `AppError` ended the run, 422 if the payload is no form, 500 for the rest, such as a provider that is not supported or whose body is not JSON, or an object of the model that cannot be used; no request is made for 400, 422 and an unsupported provider; `RequestsBounded`: a form costs two questions a field with all their repairs at most, and no answer comes without a reply; `AcceptedFormSound`: the service is given distinct ids, the client's own among them, and patterns that compile; `Responds` |
| `chunking` | all documents of up to 5 lines of 9 kinds, 10 characters to a chunk; 0.4 million states | `IInv`; `Partition`: no line lost or doubled, right line numbers; `SizeIsOfLines`: the size kept while reading is the true one; `SizeBound`, `Maximal`: chunks as large as they may be; `SectionIsNear`: a section is that of a line of the chunk or of the line after it; `AllTextChunked`: every line with text is in a chunk, at its number; `EndsHaveText`: no chunk of blank lines at an end |
| `validation` | 114 fields against 400 replies each | `PassedIsTechnical`: what passes is a technical value; `NormalizedIsNamed`: of an option that the reply names, item by item, also where the label of one option is the value of another; `TechnicalValueKept`: a technical value in the reply comes back; `NormalizedIsStable`: normalising twice changes nothing |

Five runs refute what a document, a comment or a test of the repository says:

| Run | Says | Does |
|---|---|---|
| `jobs_current` | `GET /jobs` "Returns the current status" | a job whose worker stopped is running for ever |
| `llm_errors` | `LLMError` is raised when a call fails | a body that is not JSON raises `JSONDecodeError` |
| `json_first` | the first valid JSON object of a reply is returned | a brace before it that begins no object hides it |
| `chunking_section` | `section` is the source section | a chunk that a heading closes is given that heading |
| `validation_null` | `normalizedValue` returns the technical value | an answer may pass with null |

Two more places where the documentation says more than the code does show by
reading: quotes are not looked up in the document, whatever `README.md:9` says of
"an explicit quote from the source document", and the value of a reply is kept with
the status `not_found`, which `responses.py:116` calls null then.

### Bounds

- *Jobs.* Jobs interact only through the event loop, so two are enough for one to
  move or stand in the way of the other; two workers give polls and a crash beside
  a living worker. One crash and one store error let a fault hit every place; in
  `jobs_life` a second store error hits the `mark_failed` that handles the first
  (with one worker and one field, which keeps its liveness check small). Two fields
  tell a field's stage from the last and give a percent that lies half way between
  two integers. The proofs lift all these bounds.
- *Extraction.* Fields influence each other only through the status of the
  response and the progress, so two are enough. Confidences are taken below, at
  and above the threshold, outside 0..1 and as no number.
- *LLMClient.* The loops are uniform in the number of attempts from 1 on; -1 and 0
  are the special cases, and 2 gives a repair of a repair. A reply is one of eleven
  cores (objects with braces, quotes and backslashes in their strings, an object in an
  object, one without its first brace, as Anthropic replies, and some that look like
  one) with up to one character before and two after it, enough to close, open or
  escape anything the core does.
- *Api.* Two fields: enough for ids to collide, for one field to be checked twice and
  the other not, and for the second to fail after the first was answered. Replies on a
  field that pass, that want a double check and that are none; texts that one of
  Anthropic's client and the others takes for an object. What the replies and texts
  tell apart otherwise is in the runs of the modules composed.
- *Chunking.* Documents begin and end with any number of blank lines, and with
  indented ones. Line lengths are 0, and such that one, two or several lines fill a
  chunk, or one line exceeds it; five lines allow three chunks with more than one
  line before or after a boundary.
- *Validation.* Options with and without collisions between labels and values,
  strings, integers and booleans as technical values, lists with none, some or all
  items known.

Deadlock is not checked where the modelled activity ends: every job is done and
the faults are used up, a run or a text ends.

### Fairness

`Settles` assumes weak fairness of each job's own steps (`TaskStep`): the event
loop runs what is ready, synchronous store calls return, `httpx` ends each
request within `LLM_TIMEOUT_SECONDS`, and a conversion is taken to return (it has
no timeout in the code). A crash, a store error, a submission and a poll are
never assumed to happen. A coroutine that waits for its turn gets it: a holder of
the loop gets to an await or an end by its own fair steps, and at an await any
other may go on; two jobs at awaits both stay enabled. `Terminates` of
`LLMClient` assumes that requests are answered or time out, and `Responds` of `Api`
this and that the conversion returns: a request is one coroutine, so that weak
fairness of its next step is all there is to say.

## Proofs

Six modules prove, for every value of the constants, what the runs check on small
ones; two more hold the lemmas they share. The inductive invariants are called
`IInv` and are checked by the runs too, but for that of `ValidationProofs`, which
only says what the two functions were given.

| Module | Theorem | States |
|---|---|---|
| `JobsProofs` | `Invariance` | `Spec => []IInv` |
| | `TypeCorrect` | `Spec => []TypeOK` |
| | `FilesCoherent` | `Spec => []PublishedCoherent` |
| | `FinishedSound` | `Spec => []FinishedMatchesRun` |
| | `OnlyFaultsStrand` | `Spec => []StrandedOnlyByFault` |
| | `PollsSound` | `Spec => []PollSound` |
| | `Refinement` | `Spec => ImplementsLifecycle` |
| | `RunsArePipelines` | `Spec => ImplementsPipeline` |
| `ExtractionProofs` | `Invariance` | `Spec => []IInv` |
| | `TypeCorrect` | `Spec => []TypeOK` |
| | `Supported` | `Spec => []AnsweredIsSupported` |
| | `Confident` | `Spec => []UncheckedIsConfident` |
| | `Complete` | `Spec => []ResponseComplete` |
| | `Refinement` | `Spec => ImplementsPipeline` |
| `LLMClientProofs` | `Invariance` | `Spec => []IInv` |
| | `TypeCorrect` | `Spec => []TypeOK` |
| | `BoundedCalls` | `Spec => []CallsBounded` |
| | `LatestRepaired` | `Spec => []RepairsLatest` |
| | `AttemptsUsed` | `Spec => []UsesItsAttempts` |
| | `FirstObjectParsed` | `Spec => []FirstBraceParsed` |
| `ApiProofs` | `Invariance` | `Spec => []IInv` |
| | `TypeCorrect` | `Spec => []TypeOK` |
| | `CodeSound` | `Spec => []CodeTellsCause` |
| | `CostBounded` | `Spec => []RequestsBounded` |
| | `FormSound` | `Spec => []AcceptedFormSound` |
| `ChunkingProofs` | `Invariance` | `Spec => []IInv` |
| | `TypeCorrect` | `Spec => []TypeOK` |
| | `Partitioned` | `Spec => []Partition` |
| | `WithinSize` | `Spec => []SizeBound` |
| | `SizeOfLines` | `Spec => []SizeIsOfLines` |
| | `AsLargeAsMayBe` | `Spec => []Maximal` |
| | `SectionNear` | `Spec => []SectionIsNear` |
| | `TextChunked` | `Spec => []AllTextChunked` |
| | `EndsFull` | `Spec => []EndsHaveText` |
| `ValidationProofs` | `Invariance` | `Spec => []IInv` |
| | `NormalizedNamed` | `Spec => []NormalizedIsNamed` |
| | `PassedTechnical` | `Spec => []PassedIsTechnical` |
| | `TechnicalKept` | `Spec => []TechnicalValueKept` |
| | `NormalizedStable` | `Spec => []NormalizedIsStable` |

The assumptions are those of the modules: at least one field, natural bounds on
faults, replies that are `RawReply`s, a threshold in 0..10, integer settings,
texts of replies that are sequences of characters, JSON objects that are balanced and
of which the empty text is none, fields whose options have a scalar for a value and a
string or that value for a label (as `AllowedValueOption` declares them), texts of
documents that are sequences of lines, and payloads whose forms have as many fields as
the service is to answer.

**Jobs**, for any jobs, workers, fields and faults. None of the safety properties is inductive alone: that a rename keeps records
coherent depends on what the temporary file holds, which depends on the record at
the time of `Write`, and that a finished record matches its run depends on where
the pipeline was. `IInv` adds, for each job, what its record holds place by place
(`FileAtPlace`), that a written temporary file is one of the records its store call
may write (`TmpAtPlace`), what its pipeline has come to where that is still to be
recorded (`OutcomeAtPlace`), that a lost job was lost to a counted fault
(`LossIsFault`), that an id a client has is stored (`AckedIsStored`) and that what
was seen is in the past of the record (`SeenIsPast`).

The argument: arithmetic lemmas about the percents (they are in 0..95, a later
stage's are no lower, the last is 95); what each store method makes of a record
(`RecordForms`, `RecordsCoherent`); a lemma for jobs a step does not touch
(`Untouched`) and for steps that only move a job (`Moved`); one lemma per action;
then `NextIInv`. `Refinement` maps every `Publish` to the abstract action of its
store call and every other step to a stutter; `RunsArePipelines` maps, for each job,
its `Advance`, `Raise` and `Return` to the actions of `Pipeline` and every other
step, of this job or another, to a stutter.

**Extraction**, for any number of fields, set of replies and threshold. The
properties speak of answers that are kept, and an answer waits for its double
check in between: `IInv` adds that the one awaited already has its evidence and a
value that is not rejected, and how many reports and answers there are at each
stage. Lemmas about `BuildFieldAnswer`, `MarkDoubleCheckSkipped` and
`DoubleChecked` say what each makes of its input; an answer that satisfies `Fit`
may be kept. `Refinement` maps a kept answer and a finished preliminary stage to
`Report` (one answer more is a gap more or none: `GapsGrow`), errors to `Raise`.

**LLMClient**, for every setting. `IInv` gives, place by place, the replies
received so far and the prompt that is sent next (`CallsInv`); that every request was
allowed by the bound of its loop gives `CallsBounded` and, with the negated bound at
the end, `UsesItsAttempts`. `ReplyRead` says what `parse_json_object` made of the text
at hand. `FirstObjectParsed` rests on what the scan knows of texts of any length.
`Depth`, `Quoted` and `Escaped` define by counting what the scan keeps in its three
variables; `KnowsStep` proves that a character changes both alike as long as only
strings hold backslashes (`EscapedStep`, `QuotedStep`, `DepthStep`), `ScanTrace` that the
fold goes through such steps, and `ObjectScanned` that the scan of a text that begins
with an object therefore closes at its end, whatever follows; `BlockOfBrace` takes
this to the first brace of a reply.

**Api**, for any number of fields, payloads, replies, texts and attempts. That a form
costs what `RequestsBounded` allows is no fact about a single state: `RequestsAddUp`
counts the questions answered so far, each paid for with one request at least and
`PerQuestion` at most, plus the calls of the question at hand, for which there is
still room (`RoomForQuestion`, from the number of answers and of checked ones,
`CheckedAppended`). `ServiceAtPlace` ties the outcome of the run to how the client's
call ended, and `HandlerAtStage` the stage of the handler to what it found out about
the provider and the payload, from which `CodeTellsCause` follows; `AcceptedIsSound` says what a form
that no validator refuses looks like. The bodies of `Extraction` and `LLMClient` are
expanded where they are composed (`Resumed`, `ClientMoves`), because the prover does
not carry theorems over from instantiated modules.

**Chunking**, for any text and size. `IInv` adds that the lines at hand would make
a chunk such as the properties ask for, which `CloseChunk` states once for both
places where a chunk is closed; that each line read before them is in a chunk
(`Covered`); and what the normalised text is of the document (`TextKept`), from
which the last two theorems follow. `LabelsInv` and `SizesInv` do the same for the
section and the size at hand: the section in force at a line is that of the line
before unless the line is a heading (`SectionStep`), and the size of a range grows
with each line by that line's (`SizeStep`, from `SumOfOneMore`).

**Validation**, for any fields, replies, case folding, stripping and patterns. A value
that normalisation replaced is that of an option which the reply names
(`MatchIsOption`); one that a boolean field let pass is no string, so that what it
matches in the validation it equals (`NonStringIsValue`), which gives
`NormalizedNamed`, and `PassedTechnical` from it. Where no two options can be
mistaken for each other, a technical value matches itself and nothing else
(`TechnicalMatchesItself`), from which the other two theorems follow, case by case of
the field (boolean, without options, for one option, for several).

**FoldLemmas.** The induction theorems of the library take a predicate as a
parameter, which the provers cannot instantiate. The proofs do without: a set of
naturals has a least member (`LeastNatural`, from well-founded induction on a fixed
relation), so a set that holds 0 and is closed under successors up to n holds all of
0..n (`InductionUpTo`), and the set may be any that a proof defines. A sum over a
finite set is defined by a `CHOOSE` of its steps; `SumAny` proves that every order of
the steps gives the same sum, `SumOfOneMore` what an element more adds.

Checked with TLC only: `Settles`, `Terminates` and `Responds`, since liveness is out of
TLAPS's reach; and that the grammar `MCLLMClient` gives to `IsObject` is balanced,
which the theorems assume of any.

## Not modelled

- `InMemoryJobStore`: nothing in the repository constructs it.
- The prompts, configuration loading, logging, deployment: no state the rest depends
  on. Which of its settings `health_check` reports is left out too.
- The declarations of the schemas: pydantic checks them, and a payload that breaks
  one is of the kind `malformed`. `options.strictEvidence` is declared and read
  nowhere.
- What a response or a job file cannot carry of a reply (`NaN`, lone surrogates):
  it hangs on the libraries' versions.
- Time: a regular expression, a conversion or a reply takes as long as it takes.
- Texts: prompts, quotes, messages and the document are told apart only as far as
  a property needs.
- MarkItDown, `httpx`, pydantic, asyncio and the file system are external. The
  file system renames atomically, and what was renamed survives a crash of the
  process (a crash of the machine, which could lose writes that were never
  synced, is left out).

## Plan

Done: the job core, the pipeline and answers, the LLM clients with the scan for
JSON, the chunking from the document on, validation, and a request to `/run` with
its form, its service and its client composed; the theorems above. Next, all of it
proofs:

1. `RepairsLatest` and `UsesItsAttempts` for the client inside `Api`, and that the
   answer to a field comes from the reply to its own question, for which the service
   has to be told the number of the reply.
2. What a job that is recorded as failed says of its run: that a stage raised or a
   store call failed, and that the status of a finished one is what the run returned.
