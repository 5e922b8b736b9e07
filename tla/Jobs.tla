-------------------------------- MODULE Jobs --------------------------------
(***************************************************************************)
(* The asynchronous path of the API: POST /jobs, the background task       *)
(* _run_job with the pipeline stages of ExtractionService.run, the file    *)
(* job store under it, and a client that polls GET /jobs/{job_id}.         *)
(*                                                                         *)
(* A job belongs to one worker process.  A worker runs its coroutines on   *)
(* one event loop: a store call is synchronous, so while one coroutine is  *)
(* inside one, no other coroutine of that worker moves; between two store  *)
(* calls (at an await) any of them may.  A crash or a shutdown of a worker *)
(* ends its tasks wherever they are; what starts again knows nothing of    *)
(* them, for nothing in the code reads the store at startup.               *)
(***************************************************************************)
EXTENDS JobStore, Progress

CONSTANTS Workers,      \* server processes that share the storage directory
          MaxCrashes,   \* bound on the crashes of a behaviour
          MaxIoErrors   \* bound on the failed store calls of a behaviour

ASSUME BoundsAssumption == MaxCrashes \in Nat /\ MaxIoErrors \in Nat

VARIABLES
  owner,    \* the worker that serves j's POST and runs its task
  pc,       \* where j's handler or task is
  written,  \* TRUE between the two file steps of j's current store call
  step,     \* progress reports the pipeline of j has got to
  gaps,     \* has an answer of j so far a gap status?
  outcome,  \* the status that the pipeline of j returned or the error its
            \* work raised, else "none"; the error of a report is not its own
  acked,    \* jobs whose id a client has received
  seen,     \* the client's last poll of j
  crashes, ioErrors

taskVars == <<owner, pc, written, step, gaps, outcome>>
vars == <<storeVars, taskVars, acked, seen, crashes, ioErrors>>

-----------------------------------------------------------------------------
(* Control *)

\* Store calls: create() of the POST handler; mark_running, update_progress,
\* mark_completed and mark_failed of the task.
StoreCalls == {"create", "mark_running", "update_progress", "mark_completed", "mark_failed"}

\* "respond": the response is being sent.  "background": it is out, and the
\* server has yet to start the task.  "pipeline": the task is inside
\* ExtractionService.run, between two of its progress reports.
Live == StoreCalls \cup {"respond", "background", "pipeline"}

\* "ended": _run_job returned.  "escaped": an exception left the handler or
\* the task.  "killed": the worker stopped under it.
Places == Live \cup {"unborn", "ended", "escaped", "killed"}

\* The pipeline awaits the conversion after its first report, and the LLM
\* after each report from the third on except the last.
Awaits(s) == s = 1 \/ s \in 3..(LastStep - 1)

\* j's coroutine runs, so that its worker's event loop moves nothing else.
HoldsLoop(j) ==
  \/ pc[j] \in StoreCalls
  \/ pc[j] = "pipeline" /\ ~Awaits(step[j])

LoopFree(w) == \A j \in Jobs : owner[j] = w => ~HoldsLoop(j)

\* j holds its worker's loop already, or may take it.
HasTurn(j) == \A k \in Jobs \ {j} : owner[k] = owner[j] => ~HoldsLoop(k)

AfterCall ==
  [create          |-> "respond",
   mark_running    |-> "pipeline",
   update_progress |-> "pipeline",
   mark_completed  |-> "ended",
   mark_failed     |-> "ended"]

AfterStoreError_SwallowsStart ==  \* mutant: an error of mark_running is passed over
  [create          |-> "escaped",
   mark_running    |-> "ended",
   update_progress |-> "mark_failed",
   mark_completed  |-> "mark_failed",
   mark_failed     |-> "escaped"]

\* create and mark_running stand outside the try block of _run_job and
\* mark_failed inside its handler: an error of theirs goes up.
AfterStoreError ==
  [create          |-> "escaped",
   mark_running    |-> "escaped",
   update_progress |-> "mark_failed",
   mark_completed  |-> "mark_failed",
   mark_failed     |-> "escaped"]

-----------------------------------------------------------------------------
(* Outcomes of the pipeline *)

CaughtByRunJob_AppErrors == {"AppError", "LLMError"}  \* mutant: except AppError

RunErrors == {"AppError", "LLMError", "Unexpected"}

\* except Exception
CaughtByRunJob == RunErrors

ResolveJobStatus_Optimistic(anyGap) == "completed"  \* mutant

ResolveJobStatus_Failed(anyGap) == IF anyGap THEN "failed" ELSE "completed"  \* mutant

ResolveJobStatus(anyGap) == IF anyGap THEN "completed_with_gaps" ELSE "completed"

-----------------------------------------------------------------------------
Init ==
  /\ json = [j \in Jobs |-> NoFile]
  /\ tmp  = [j \in Jobs |-> NoFile]
  /\ owner \in [Jobs -> Workers]
  /\ pc      = [j \in Jobs |-> "unborn"]
  /\ written = [j \in Jobs |-> FALSE]
  /\ step    = [j \in Jobs |-> 0]
  /\ gaps    = [j \in Jobs |-> FALSE]
  /\ outcome = [j \in Jobs |-> "none"]
  /\ acked = {}
  /\ seen  = [j \in Jobs |-> NoFile]
  /\ crashes = 0
  /\ ioErrors = 0

Goto(j, place) == pc' = [pc EXCEPT ![j] = place]

\* POST /jobs with a payload that parses, its file read: the handler calls
\* store.create().
Submit(j) ==
  /\ pc[j] = "unborn"
  /\ LoopFree(owner[j])
  /\ Goto(j, "create")
  /\ UNCHANGED <<storeVars, owner, written, step, gaps, outcome, acked, seen, crashes, ioErrors>>

\* The records a store call may write: each reads the job's file first.
Records(j) ==
  CASE pc[j] = "create"          -> {NewJob}
    [] pc[j] = "mark_running"    -> {MarkRunning(json[j])}
    [] pc[j] = "update_progress" -> {UpdateProgress(json[j], p) : p \in Percents(step[j])}
    [] pc[j] = "mark_completed"  -> {MarkCompleted(json[j], outcome[j])}
    [] pc[j] = "mark_failed"     -> {MarkFailed(json[j])}

Write(j) ==
  /\ pc[j] \in StoreCalls
  /\ ~written[j]
  /\ \E rec \in Records(j) : WriteTmp(j, rec)
  /\ written' = [written EXCEPT ![j] = TRUE]
  /\ UNCHANGED <<owner, pc, step, gaps, outcome, acked, seen, crashes, ioErrors>>

Publish(j) ==
  /\ written[j]
  /\ Replace(j)
  /\ written' = [written EXCEPT ![j] = FALSE]
  /\ Goto(j, AfterCall[pc[j]])
  /\ UNCHANGED <<owner, step, gaps, outcome, acked, seen, crashes, ioErrors>>

\* The store call raises: reading the old record, serialising the new one,
\* writing the temporary file or renaming it failed.
StoreError(j) ==
  /\ pc[j] \in StoreCalls
  /\ ioErrors < MaxIoErrors
  /\ IF written[j] THEN UNCHANGED storeVars ELSE TearTmp(j)
  /\ written' = [written EXCEPT ![j] = FALSE]
  /\ Goto(j, AfterStoreError[pc[j]])
  /\ ioErrors' = ioErrors + 1
  /\ UNCHANGED <<owner, step, gaps, outcome, acked, seen, crashes>>

\* The response with the job id goes out.  Whether the client is still there to
\* receive it makes no difference to the server.
Respond(j) ==
  /\ pc[j] = "respond"
  /\ HasTurn(j)
  /\ acked' \in {acked, acked \cup {j}}
  /\ Goto(j, "background")
  /\ UNCHANGED <<storeVars, owner, written, step, gaps, outcome, seen, crashes, ioErrors>>

\* Only after the response does the background task start, with mark_running.
StartTask(j) ==
  /\ pc[j] = "background"
  /\ HasTurn(j)
  /\ Goto(j, "mark_running")
  /\ UNCHANGED <<storeVars, owner, written, step, gaps, outcome, acked, seen, crashes, ioErrors>>

Advance_LastAnswerDecides(j) ==  \* mutant: the status is that of the last answer
  /\ pc[j] = "pipeline"
  /\ HasTurn(j)
  /\ step[j] < LastStep
  /\ step' = [step EXCEPT ![j] = @ + 1]
  /\ \E gap \in (IF step[j] < 3 THEN {FALSE} ELSE BOOLEAN) :
       gaps' = [gaps EXCEPT ![j] = gap]
  /\ Goto(j, "update_progress")
  /\ UNCHANGED <<storeVars, owner, written, outcome, acked, seen, crashes, ioErrors>>

\* The work of the next stage is done and its progress is reported.  A field
\* stage adds one answer, which may be a gap.
Advance(j) ==
  /\ pc[j] = "pipeline"
  /\ HasTurn(j)
  /\ step[j] < LastStep
  /\ step' = [step EXCEPT ![j] = @ + 1]
  /\ \E gap \in (IF step[j] < 3 THEN {FALSE} ELSE BOOLEAN) :
       gaps' = [gaps EXCEPT ![j] = @ \/ gap]
  /\ Goto(j, "update_progress")
  /\ UNCHANGED <<storeVars, owner, written, outcome, acked, seen, crashes, ioErrors>>

\* The work of the next stage raises.
Raise(j) ==
  /\ pc[j] = "pipeline"
  /\ HasTurn(j)
  /\ step[j] < LastStep
  /\ \E e \in RaisedAt(step[j] + 1) :
       /\ outcome' = [outcome EXCEPT ![j] = e]
       /\ Goto(j, IF e \in CaughtByRunJob THEN "mark_failed" ELSE "escaped")
  /\ UNCHANGED <<storeVars, owner, written, step, gaps, acked, seen, crashes, ioErrors>>

\* Every field has its answer: ExtractionService.run returns.
Return(j) ==
  /\ pc[j] = "pipeline"
  /\ HasTurn(j)
  /\ step[j] = LastStep
  /\ outcome' = [outcome EXCEPT ![j] = ResolveJobStatus(gaps[j])]
  /\ Goto(j, "mark_completed")
  /\ UNCHANGED <<storeVars, owner, written, step, gaps, acked, seen, crashes, ioErrors>>

\* Worker w dies, or shuts down and cancels its tasks: a CancelledError is no
\* Exception, so _run_job records nothing.  A temporary file that was being
\* written may be cut short.
Crash(w) ==
  LET lost == {j \in Jobs : owner[j] = w /\ pc[j] \in Live}
  IN /\ crashes < MaxCrashes
     /\ lost # {}
     /\ pc' = [j \in Jobs |-> IF j \in lost THEN "killed" ELSE pc[j]]
     /\ written' = [j \in Jobs |-> IF j \in lost THEN FALSE ELSE written[j]]
     /\ \/ UNCHANGED storeVars
        \/ \E j \in lost : pc[j] \in StoreCalls /\ ~written[j] /\ TearTmp(j)
     /\ crashes' = crashes + 1
     /\ UNCHANGED <<owner, step, gaps, outcome, acked, seen, ioErrors>>

\* GET /jobs/{job_id}, on whichever worker the request reaches.  No file is a
\* 404, a file that does not parse an error 500.
Poll(j) ==
  /\ j \in acked
  /\ \E w \in Workers : LoopFree(w)
  /\ seen' = [seen EXCEPT ![j] = json[j]]
  /\ UNCHANGED <<storeVars, taskVars, acked, crashes, ioErrors>>

\* What the event loop runs on its own once the POST is in.
TaskStep(j) ==
  \/ Write(j) \/ Publish(j) \/ Respond(j) \/ StartTask(j)
  \/ Advance(j) \/ Raise(j) \/ Return(j)

Next ==
  \/ \E j \in Jobs : Submit(j) \/ TaskStep(j) \/ StoreError(j) \/ Poll(j)
  \/ \E w \in Workers : Crash(w)

Spec == Init /\ [][Next]_vars

FairSpec == Spec /\ \A j \in Jobs : WF_vars(TaskStep(j))

-----------------------------------------------------------------------------
(* Properties *)

\* Every variable stays in its type.
TypeOK ==
  /\ json \in [Jobs -> FileContent]
  /\ tmp \in [Jobs -> FileContent]
  /\ owner \in [Jobs -> Workers]
  /\ pc \in [Jobs -> Places]
  /\ written \in [Jobs -> BOOLEAN]
  /\ step \in [Jobs -> 0..LastStep]
  /\ gaps \in [Jobs -> BOOLEAN]
  /\ outcome \in [Jobs -> Finished \cup RunErrors \cup {"none"}]
  /\ acked \in SUBSET Jobs
  /\ seen \in [Jobs -> FileContent]
  /\ crashes \in 0..MaxCrashes
  /\ ioErrors \in 0..MaxIoErrors

Coherent(rec) ==
  /\ rec \in JobRecord
  /\ rec.result = IF rec.status \in Finished THEN rec.status ELSE "none"
  /\ rec.error = "some" <=> rec.status = "failed"
  /\ rec.percent = 100 <=> rec.status \in Finished

\* Whatever crashes or fails in the middle of a store call, a record file is
\* either not there yet or whole, and what it says fits together: a result
\* when the job finished and only then, of the status it names, with a
\* progress of 100 then and only then; an error when it failed and only then.
\* (FileSystemJobStore._update and _write.)
PublishedCoherent == \A j \in Jobs : json[j] = NoFile \/ Coherent(json[j])

\* A job that is on disk as finished went through every field, and is called
\* "completed" exactly if no answer it got was a gap (_resolve_job_status and
\* the result that _run_job hands to mark_completed).
FinishedMatchesRun ==
  \A j \in Jobs : json[j].status \in Finished =>
    /\ step[j] = LastStep
    /\ json[j].status = "completed" <=> ~gaps[j]

\* A job that is accepted and never recorded as finished or failed, though
\* nothing works on it any more, was lost to a crash or shutdown of its worker
\* or to a store call that failed; no failure of the pipeline leaves a job
\* open (the try block of _run_job).
StrandedOnlyByFault ==
  \A j \in Jobs :
    /\ json[j] # NoFile
    /\ json[j].status \notin Final
    /\ pc[j] \notin Live
    => \/ pc[j] = "killed" /\ crashes > 0
       \/ pc[j] = "escaped" /\ ioErrors > 0

\* A client that was given a job id never gets a 404 or a broken record for
\* it, and what it saw last is no later than what it will see next: no less
\* progress, and a final answer stays what it was (get_job over the renames
\* of _write).
PollSound ==
  \A j \in acked :
    /\ json[j] # NoFile
    /\ seen[j] # NoFile =>
         /\ seen[j] \in JobRecord
         /\ seen[j].percent <= json[j].percent
         /\ seen[j].status \in Final => seen[j] = json[j]

-----------------------------------------------------------------------------
(* The inductive invariant: what the file of a job holds, place by place. *)

RunningAt(percents) ==
  {Record("running", p, "none", "none") : p \in percents}

\* The percents that may stand in the file when s reports are written;
\* mark_running has put a 1 there.
Reached(s) == IF s = 0 THEN {1} ELSE Percents(s)

FileAtPlace(j) ==
  /\ pc[j] \in {"unborn", "create"} => json[j] = NoFile
  /\ pc[j] \in {"respond", "background", "mark_running"} => json[j] = NewJob
  /\ pc[j] \in {"unborn", "create", "respond", "background", "mark_running"} => step[j] = 0
  /\ pc[j] = "pipeline" => json[j] \in RunningAt(Reached(step[j]))
  /\ pc[j] = "update_progress" =>
       step[j] > 0 /\ json[j] \in RunningAt(Reached(step[j] - 1))
  /\ pc[j] = "mark_completed" => step[j] = LastStep /\ json[j] \in RunningAt({95})
  /\ pc[j] = "mark_failed" => json[j] \in RunningAt(1..95)
  /\ pc[j] = "ended" <=> json[j].status \in Final

TmpAtPlace(j) == written[j] => pc[j] \in StoreCalls /\ tmp[j] \in Records(j)

\* What the pipeline has come to, where it is still to be written.
OutcomeAtPlace(j) ==
  /\ pc[j] \in (Live \ {"mark_completed", "mark_failed"}) \cup {"unborn"} => outcome[j] = "none"
  /\ pc[j] = "mark_completed" => outcome[j] = ResolveJobStatus(gaps[j])

LossIsFault(j) ==
  /\ pc[j] = "killed" => crashes > 0
  /\ pc[j] = "escaped" => ioErrors > 0

AckedIsStored(j) == j \in acked => pc[j] \notin {"unborn", "create"} /\ json[j] # NoFile

SeenIsPast(j) ==
  /\ seen[j] # NoFile => /\ seen[j] \in JobRecord
                         /\ seen[j].percent <= json[j].percent
  /\ seen[j].status \in Final => seen[j] = json[j]

\* Each file is as the place of its job says, in every reachable state: the
\* strengthening from which the properties above follow step by step.
IInv ==
  /\ TypeOK
  /\ PublishedCoherent
  /\ FinishedMatchesRun
  /\ \A j \in Jobs : /\ FileAtPlace(j)
                      /\ TmpAtPlace(j)
                      /\ OutcomeAtPlace(j)
                      /\ LossIsFault(j)
                      /\ AckedIsStored(j)
                      /\ SeenIsPast(j)

-----------------------------------------------------------------------------
(* Refinement and liveness *)

\* The files as polled show the life of a job that JobLifecycle describes.
L == INSTANCE JobLifecycle WITH view <- json

ImplementsLifecycle == L!Spec

\* The pipeline of each job, between store calls, crashes and the turns of the
\* other jobs, is one that ExtractionService.run may be: its reports come in
\* order, it ends once and with what the answers along the way add up to, and
\* no fault of a store call or of another job makes it go on or back.
Run(j) == INSTANCE Pipeline WITH step <- step[j], gaps <- gaps[j], outcome <- outcome[j]

ImplementsPipeline ==
  /\ \A j \in Jobs : Run(j)!Init
  /\ [][\A j \in Jobs : [Run(j)!Next]_(Run(j)!pipelineVars)]_vars

\* A job that is on disk is eventually recorded as finished or failed, unless
\* it is lost to a crash or to a failed store call.
Settles ==
  \A j \in Jobs :
    json[j] # NoFile ~> json[j].status \in Final \/ pc[j] \in {"killed", "escaped"}

\* A job that is on disk as running is being worked on.  This is what "Returns
\* the current status" of GET /jobs/{job_id} leads a client to believe; it
\* does not hold.
RunningIsCurrent ==
  \A j \in acked : json[j].status = "running" => pc[j] \in Live

=============================================================================
