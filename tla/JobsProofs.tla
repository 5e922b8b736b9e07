----------------------------- MODULE JobsProofs -----------------------------
(***************************************************************************)
(* Proofs about Jobs: type correctness, the inductive invariant IInv, the  *)
(* safety properties that follow from it, and the refinement of            *)
(* JobLifecycle, for any set of jobs and workers, any number of fields and *)
(* any number of crashes and I/O errors.                                   *)
(***************************************************************************)
EXTENDS Jobs, TLAPS

-----------------------------------------------------------------------------
(* Arithmetic of the progress percents *)

\* The percent of a field stage is between 20 and 95.
LEMMA FieldPercentBounds ==
  ASSUME NEW i \in 1..NumFields, NEW p \in FieldPercents(i)
  PROVE  p \in 20..95
PROOF
  <1>1. PICK r \in 0..(75 * i) : /\ p = 20 + r
                                 /\ 2 * (r * NumFields - 75 * i) <= NumFields
    BY DEF FieldPercents
  <1>2. NumFields \in Nat /\ NumFields > 0 /\ i \in Nat /\ i <= NumFields
    BY NumFieldsAssumption
  <1>3. SUFFICES ASSUME r >= 76 PROVE FALSE
    BY <1>1, <1>2
  <1>4. r * NumFields >= 76 * NumFields
    BY <1>1, <1>2, <1>3
  <1>5. 75 * i <= 75 * NumFields
    BY <1>2
  <1> QED BY <1>1, <1>2, <1>4, <1>5

\* The percents of successive field stages do not fall.
LEMMA FieldPercentsMonotone ==
  ASSUME NEW i \in 1..NumFields, i + 1 <= NumFields,
         NEW p \in FieldPercents(i), NEW q \in FieldPercents(i + 1)
  PROVE  p <= q
PROOF
  <1>1. PICK r \in 0..(75 * i) : /\ p = 20 + r
                                 /\ 2 * (r * NumFields - 75 * i) <= NumFields
    BY DEF FieldPercents
  <1>2. PICK s \in 0..(75 * (i + 1)) : /\ q = 20 + s
                                       /\ 2 * (75 * (i + 1) - s * NumFields) <= NumFields
    BY DEF FieldPercents
  <1>3. NumFields \in Nat /\ NumFields > 0 /\ i \in Nat /\ r \in Nat /\ s \in Nat
    BY NumFieldsAssumption
  <1>4. SUFFICES ASSUME r >= s + 1 PROVE FALSE
    BY <1>1, <1>2, <1>3
  <1>5. r * NumFields >= (s + 1) * NumFields
    BY <1>3, <1>4
  <1>6. (s + 1) * NumFields = s * NumFields + NumFields
    BY <1>3
  <1>7. 75 * (i + 1) = 75 * i + 75
    BY <1>3
  <1> QED BY <1>1, <1>2, <1>3, <1>5, <1>6, <1>7

\* The last field stage is at 95.
LEMMA LastFieldPercent ==
  ASSUME NEW p \in FieldPercents(NumFields)
  PROVE  p = 95
PROOF
  <1>1. PICK r \in 0..(75 * NumFields) :
          /\ p = 20 + r
          /\ 2 * (r * NumFields - 75 * NumFields) <= NumFields
          /\ 2 * (75 * NumFields - r * NumFields) <= NumFields
    BY DEF FieldPercents
  <1>2. NumFields \in Nat /\ NumFields > 0 /\ r \in Nat
    BY NumFieldsAssumption
  <1>3. CASE r >= 76
    <2>1. r * NumFields >= 76 * NumFields
      BY <1>2, <1>3
    <2> QED BY <1>1, <1>2, <2>1
  <1>4. CASE r <= 74
    <2>1. r * NumFields <= 74 * NumFields
      BY <1>2, <1>4
    <2> QED BY <1>1, <1>2, <2>1
  <1> QED BY <1>1, <1>2, <1>3, <1>4

\* A report is at least 1 and at most 95.
LEMMA PercentBounds ==
  ASSUME NEW s \in 1..LastStep, NEW p \in Percents(s)
  PROVE  p \in 5..95
PROOF
  <1>1. NumFields \in Nat /\ s \in Nat
    BY NumFieldsAssumption
  <1>2. CASE s \in {1, 2, 3}
    BY <1>2 DEF Percents
  <1>3. CASE s > 3
    <2>1. FieldStage(s) \in 1..NumFields
      BY <1>1, <1>3 DEF LastStep, FieldStage
    <2>2. p \in FieldPercents(FieldStage(s))
      BY <1>1, <1>3 DEF Percents
    <2> QED BY <2>1, <2>2, FieldPercentBounds
  <1> QED BY <1>1, <1>2, <1>3

\* What the file may hold after s reports is between 1 and 95.
LEMMA ReachedBounds ==
  ASSUME NEW s \in 0..LastStep, NEW p \in Reached(s)
  PROVE  p \in 1..95
PROOF
  BY PercentBounds, NumFieldsAssumption DEF Reached, LastStep

\* Progress does not fall from one report to the next.
LEMMA PercentsMonotone ==
  ASSUME NEW s \in 0..LastStep, s + 1 <= LastStep,
         NEW p \in Reached(s), NEW q \in Percents(s + 1)
  PROVE  p <= q
PROOF
  <1>1. NumFields \in Nat \ {0} /\ s \in Nat
    BY NumFieldsAssumption
  <1>2. CASE s = 0
    BY <1>2 DEF Reached, Percents
  <1>3. CASE s \in {1, 2}
    BY <1>3 DEF Reached, Percents
  <1>4. CASE s = 3
    <2>1. q \in FieldPercents(1)
      BY <1>4 DEF Percents, FieldStage
    <2>2. q \in 20..95
      BY <1>1, <2>1, FieldPercentBounds
    <2> QED BY <1>4, <2>2 DEF Reached, Percents
  <1>5. CASE s > 3
    <2> DEFINE i == FieldStage(s)
    <2>1. i \in 1..NumFields /\ i + 1 <= NumFields /\ FieldStage(s + 1) = i + 1
      BY <1>1, <1>5 DEF LastStep, FieldStage
    <2>2. p \in FieldPercents(i) /\ q \in FieldPercents(i + 1)
      BY <1>1, <1>5, <2>1 DEF Reached, Percents
    <2> HIDE DEF i
    <2> QED BY <2>1, <2>2, FieldPercentsMonotone
  <1> QED BY <1>1, <1>2, <1>3, <1>4, <1>5

\* The last report is 95.
LEMMA LastPercent ==
  ASSUME NEW p \in Reached(LastStep)
  PROVE  p = 95
PROOF
  <1>1. LastStep > 3 /\ FieldStage(LastStep) = NumFields
    BY NumFieldsAssumption DEF LastStep, FieldStage
  <1>2. p \in FieldPercents(NumFields)
    BY <1>1, NumFieldsAssumption DEF Reached, Percents, LastStep
  <1> QED BY <1>2, LastFieldPercent

-----------------------------------------------------------------------------
(* The records of the store calls *)

Running(p)    == Record("running", p, "none", "none")
Done(status)  == Record(status, 100, status, "none")
FailedAt(p)   == Record("failed", p, "none", "some")

\* An absent file is no record and counts as no progress.
LEMMA NoFileFacts ==
  /\ NoFile \notin JobRecord
  /\ NoFile.percent = 0 /\ NoFile.status \notin Final
  /\ NewJob.percent = 0 /\ NewJob.status \notin Final
PROOF BY DEF NoFile, NewJob, Record, JobRecord, JobStatus, Final, Finished

\* The invariant of one job.
JobInv(j) ==
  /\ json[j] = NoFile \/ Coherent(json[j])
  /\ json[j].status \in Finished =>
       /\ step[j] = LastStep
       /\ json[j].status = "completed" <=> ~gaps[j]
  /\ FileAtPlace(j)
  /\ TmpAtPlace(j)
  /\ OutcomeAtPlace(j)
  /\ LossIsFault(j)
  /\ AckedIsStored(j)
  /\ SeenIsPast(j)

\* IInv taken apart job by job.
LEMMA IInvByJob == IInv <=> TypeOK /\ \A j \in Jobs : JobInv(j)
PROOF BY DEF IInv, JobInv, PublishedCoherent, FinishedMatchesRun

\* The same in the state after a step.
LEMMA IInvByJobNext == IInv' <=> TypeOK' /\ \A j \in Jobs : JobInv(j)'
PROOF BY DEF IInv, JobInv, PublishedCoherent, FinishedMatchesRun

\* What each store call writes, given where its job is.
LEMMA RecordForms ==
  ASSUME TypeOK, NEW j \in Jobs, JobInv(j), NEW rec \in Records(j)
  PROVE  /\ pc[j] = "create" => rec = NewJob
         /\ pc[j] = "mark_running" => rec = Running(1)
         /\ pc[j] = "update_progress" =>
              \E p \in Reached(step[j] - 1), q \in Percents(step[j]) :
                json[j] = Running(p) /\ rec = Running(q) /\ p <= q /\ q <= 95 /\ p >= 1
         /\ pc[j] = "mark_completed" =>
              /\ json[j] = Running(95)
              /\ rec = Done(IF gaps[j] THEN "completed_with_gaps" ELSE "completed")
         /\ pc[j] = "mark_failed" =>
              \E p \in 1..95 : json[j] = Running(p) /\ rec = FailedAt(p)
PROOF
  <1> USE DEF JobInv, FileAtPlace, RunningAt
  <1>1. CASE pc[j] = "create"
    BY <1>1 DEF Records
  <1>2. CASE pc[j] = "mark_running"
    BY <1>2 DEF Records, MarkRunning, ClampProgress, Running
  <1>3. CASE pc[j] = "update_progress"
    <2>1. step[j] \in 1..LastStep
      BY <1>3, NumFieldsAssumption DEF TypeOK, LastStep
    <2>2. PICK p \in Reached(step[j] - 1) : json[j] = Running(p)
      BY <1>3 DEF Running
    <2>3. PICK q \in Percents(step[j]) : rec = UpdateProgress(json[j], q)
      BY <1>3 DEF Records
    <2>4. q \in 5..95
      BY <2>1, PercentBounds
    <2>5. /\ step[j] - 1 \in 0..LastStep
          /\ (step[j] - 1) + 1 = step[j]
          /\ (step[j] - 1) + 1 <= LastStep
      BY <2>1, NumFieldsAssumption DEF LastStep
    <2>6. p \in 1..95
      BY <2>5, ReachedBounds
    <2>7. q \in Percents((step[j] - 1) + 1)
      BY <2>5
    <2>8. p <= q
      BY <2>5, <2>7, PercentsMonotone
    <2>9. rec = Running(q)
      <3>1. Running(p) # NoFile
        BY DEF Running, NoFile, Record
      <3>2. ClampProgress(q) = q
        BY <2>4 DEF ClampProgress
      <3>3. rec = Record(Running(p).status, q, Running(p).result, Running(p).error)
        BY <2>2, <2>3, <3>1, <3>2 DEF UpdateProgress
      <3> QED BY <3>3 DEF Running, Record
    <2> QED BY <1>3, <2>2, <2>4, <2>6, <2>8, <2>9
  <1>4. CASE pc[j] = "mark_completed"
    <2>1. json[j] = Running(95)
      BY <1>4 DEF Running
    <2>2. rec = MarkCompleted(json[j], ResolveJobStatus(gaps[j]))
      BY <1>4 DEF Records, OutcomeAtPlace
    <2> QED BY <1>4, <2>1, <2>2
            DEF MarkCompleted, ResolveJobStatus, ClampProgress, Running, Done
  <1>5. CASE pc[j] = "mark_failed"
    <2>1. PICK p \in 1..95 : json[j] = Running(p)
      BY <1>5 DEF Running
    <2>2. rec = MarkFailed(json[j])
      BY <1>5 DEF Records
    <2> QED BY <1>5, <2>1, <2>2 DEF MarkFailed, Running, FailedAt, Record
  <1> QED BY <1>1, <1>2, <1>3, <1>4, <1>5

\* Every such record is coherent.
LEMMA RecordsCoherent ==
  ASSUME TypeOK, NEW j \in Jobs, JobInv(j), pc[j] \in StoreCalls, NEW rec \in Records(j)
  PROVE  Coherent(rec) /\ rec \in FileContent
PROOF
  <1> USE DEF Coherent, JobRecord, JobStatus, Final, Finished, FileContent, Record
  <1>1. CASE pc[j] = "create"
    BY <1>1, RecordForms DEF NewJob
  <1>2. CASE pc[j] = "mark_running"
    BY <1>2, RecordForms DEF Running
  <1>3. CASE pc[j] = "update_progress"
    <2>1. PICK p \in Reached(step[j] - 1), q \in Percents(step[j]) :
            rec = Running(q) /\ p <= q /\ q <= 95 /\ p >= 1
      BY <1>3, RecordForms
    <2>2. q \in 5..95
      BY <1>3, PercentBounds, NumFieldsAssumption
         DEF TypeOK, LastStep, JobInv, FileAtPlace
    <2> QED BY <2>1, <2>2 DEF Running
  <1>4. CASE pc[j] = "mark_completed"
    BY <1>4, RecordForms DEF Done
  <1>5. CASE pc[j] = "mark_failed"
    BY <1>5, RecordForms DEF FailedAt
  <1> QED BY <1>1, <1>2, <1>3, <1>4, <1>5 DEF StoreCalls

-----------------------------------------------------------------------------
(* Invariance *)

\* The initial states satisfy the invariant.
LEMMA InitIInv == Init => IInv
PROOF
  <1> SUFFICES ASSUME Init PROVE IInv
    OBVIOUS
  <1>1. TypeOK
    BY NumFieldsAssumption, BoundsAssumption DEF Init, TypeOK, FileContent, Places, LastStep
  <1>2. ASSUME NEW j \in Jobs PROVE JobInv(j)
    <2>1. json[j] = NoFile /\ seen[j] = NoFile /\ pc[j] = "unborn" /\ step[j] = 0
          /\ ~written[j] /\ acked = {} /\ outcome[j] = "none"
      BY DEF Init
    <2>2. NoFile.status \notin Final
      BY DEF NoFile, Record, Final, Finished
    <2> QED
      BY <2>1, <2>2
         DEF JobInv, FileAtPlace, TmpAtPlace, OutcomeAtPlace, LossIsFault, AckedIsStored,
             SeenIsPast, Final
  <1> QED BY <1>1, <1>2, IInvByJob

\* A step that leaves the file and the task of a job alone, but for its
\* temporary file when no write is under way, keeps the job's invariant.
LEMMA Untouched ==
  ASSUME TypeOK, TypeOK', NEW j \in Jobs, JobInv(j),
         json'[j] = json[j], pc'[j] = pc[j], step'[j] = step[j], gaps'[j] = gaps[j],
         outcome'[j] = outcome[j], written'[j] => written[j] /\ tmp'[j] = tmp[j],
         seen'[j] = seen[j], j \in acked' => j \in acked,
         crashes' >= crashes, ioErrors' >= ioErrors
  PROVE  JobInv(j)'
PROOF
  <1>1. Records(j)' = Records(j)
    BY DEF Records
  <1>2. FileAtPlace(j)' /\ OutcomeAtPlace(j)'
    BY DEF JobInv, FileAtPlace, OutcomeAtPlace
  <1>3. TmpAtPlace(j)'
    BY <1>1 DEF JobInv, TmpAtPlace
  <1>4. LossIsFault(j)'
    BY DEF JobInv, LossIsFault, TypeOK
  <1>5. AckedIsStored(j)' /\ SeenIsPast(j)'
    BY DEF JobInv, AckedIsStored, SeenIsPast
  <1> QED BY <1>2, <1>3, <1>4, <1>5 DEF JobInv, Coherent

\* A step that only moves a job on from one place to another keeps its
\* invariant if the file is as the new place says.
LEMMA Moved ==
  ASSUME TypeOK, TypeOK', NEW j \in Jobs, JobInv(j),
         json'[j] = json[j], seen'[j] = seen[j], ~written'[j],
         FileAtPlace(j)', OutcomeAtPlace(j)', LossIsFault(j)', AckedIsStored(j)',
         json[j].status \in Finished => step'[j] = step[j] /\ gaps'[j] = gaps[j]
  PROVE  JobInv(j)'
PROOF
  <1>1. TmpAtPlace(j)' /\ SeenIsPast(j)'
    BY DEF JobInv, TmpAtPlace, SeenIsPast
  <1> QED BY <1>1 DEF JobInv, Coherent

\* POST /jobs keeps the invariant.
LEMMA SubmitIInv ==
  ASSUME IInv, NEW j \in Jobs, Submit(j)
  PROVE  IInv'
PROOF
  <1> USE IInvByJob DEF Submit, Goto, storeVars
  <1>1. TypeOK'
    BY DEF TypeOK, Places, Live, StoreCalls
  <1>2. ASSUME NEW k \in Jobs PROVE JobInv(k)'
    <2>1. CASE k # j
      BY <1>1, <2>1, Untouched DEF TypeOK
    <2>2. CASE k = j
      <3>1. pc[j] = "unborn" /\ pc'[j] = "create"
        BY DEF TypeOK
      <3>2. ~written'[j]
        BY <3>1 DEF JobInv, TmpAtPlace, StoreCalls, TypeOK
      <3>3. FileAtPlace(j)'
        BY <3>1 DEF JobInv, FileAtPlace, Final, Finished, NoFile, Record
      <3>4. OutcomeAtPlace(j)' /\ LossIsFault(j)' /\ AckedIsStored(j)'
        BY <3>1 DEF JobInv, OutcomeAtPlace, LossIsFault, AckedIsStored, TypeOK, Live, StoreCalls
      <3> QED BY <1>1, <2>2, <3>2, <3>3, <3>4, Moved
    <2> QED BY <2>1, <2>2
  <1> QED BY <1>1, <1>2, IInvByJobNext

\* Sending the job id keeps the invariant.
LEMMA RespondIInv ==
  ASSUME IInv, NEW j \in Jobs, Respond(j)
  PROVE  IInv'
PROOF
  <1> USE IInvByJob DEF Respond, Goto, storeVars
  <1>1. TypeOK'
    BY DEF TypeOK, Places, Live, StoreCalls
  <1>2. ASSUME NEW k \in Jobs PROVE JobInv(k)'
    <2>1. CASE k # j
      BY <1>1, <2>1, Untouched DEF TypeOK
    <2>2. CASE k = j
      <3>1. pc[j] = "respond" /\ pc'[j] = "background"
        BY DEF TypeOK
      <3>2. ~written'[j]
        BY <3>1 DEF JobInv, TmpAtPlace, StoreCalls, TypeOK
      <3>3. FileAtPlace(j)'
        BY <3>1 DEF JobInv, FileAtPlace, Final, Finished, NewJob, Record
      <3>4. OutcomeAtPlace(j)' /\ LossIsFault(j)' /\ AckedIsStored(j)'
        <4>1. json'[j] = NewJob
          BY <3>1 DEF JobInv, FileAtPlace
        <4>2. NewJob # NoFile
          BY DEF NewJob, NoFile, Record
        <4>3. OutcomeAtPlace(j)'
          BY <3>1 DEF JobInv, OutcomeAtPlace, Live
        <4> QED BY <3>1, <4>1, <4>2, <4>3 DEF LossIsFault, AckedIsStored
      <3> QED BY <1>1, <2>2, <3>2, <3>3, <3>4, Moved
    <2> QED BY <2>1, <2>2
  <1> QED BY <1>1, <1>2, IInvByJobNext

\* Starting the background task keeps the invariant.
LEMMA StartTaskIInv ==
  ASSUME IInv, NEW j \in Jobs, StartTask(j)
  PROVE  IInv'
PROOF
  <1> USE IInvByJob DEF StartTask, Goto, storeVars
  <1>1. TypeOK'
    BY DEF TypeOK, Places, Live, StoreCalls
  <1>2. ASSUME NEW k \in Jobs PROVE JobInv(k)'
    <2>1. CASE k # j
      BY <1>1, <2>1, Untouched DEF TypeOK
    <2>2. CASE k = j
      <3>1. pc[j] = "background" /\ pc'[j] = "mark_running"
        BY DEF TypeOK
      <3>2. ~written'[j]
        BY <3>1 DEF JobInv, TmpAtPlace, StoreCalls, TypeOK
      <3>3. FileAtPlace(j)'
        BY <3>1 DEF JobInv, FileAtPlace, Final, Finished, NewJob, Record
      <3>4. OutcomeAtPlace(j)' /\ LossIsFault(j)' /\ AckedIsStored(j)'
        BY <3>1 DEF JobInv, OutcomeAtPlace, LossIsFault, AckedIsStored, TypeOK, Live, StoreCalls
      <3> QED BY <1>1, <2>2, <3>2, <3>3, <3>4, Moved
    <2> QED BY <2>1, <2>2
  <1> QED BY <1>1, <1>2, IInvByJobNext

\* The return of ExtractionService.run keeps the invariant: the last report
\* was 95.
LEMMA ReturnIInv ==
  ASSUME IInv, NEW j \in Jobs, Return(j)
  PROVE  IInv'
PROOF
  <1> USE IInvByJob DEF Return, Goto, storeVars
  <1>1. TypeOK'
    <2>1. ResolveJobStatus(gaps[j]) \in Finished
      BY DEF ResolveJobStatus, Finished
    <2> QED BY <2>1 DEF TypeOK, Places, Live, StoreCalls
  <1>2. ASSUME NEW k \in Jobs PROVE JobInv(k)'
    <2>1. CASE k # j
      BY <1>1, <2>1, Untouched DEF TypeOK
    <2>2. CASE k = j
      <3>1. pc[j] = "pipeline" /\ pc'[j] = "mark_completed"
        BY DEF TypeOK
      <3>2. ~written'[j]
        BY <3>1 DEF JobInv, TmpAtPlace, StoreCalls, TypeOK
      <3>3. FileAtPlace(j)'
        <4>1. PICK p \in Reached(LastStep) : json[j] = Running(p)
          BY <3>1 DEF JobInv, FileAtPlace, RunningAt, Running
        <4>2. p = 95
          BY LastPercent
        <4>3. Running(p).status \notin Final
          BY DEF Running, Record, Final, Finished
        <4> QED BY <3>1, <4>1, <4>2, <4>3 DEF FileAtPlace, RunningAt, Running
      <3>4. OutcomeAtPlace(j)' /\ LossIsFault(j)' /\ AckedIsStored(j)'
        BY <3>1 DEF JobInv, OutcomeAtPlace, LossIsFault, AckedIsStored, TypeOK, Live, StoreCalls
      <3> QED BY <1>1, <2>2, <3>2, <3>3, <3>4, Moved
    <2> QED BY <2>1, <2>2
  <1> QED BY <1>1, <1>2, IInvByJobNext

\* Reaching the next progress report keeps the invariant.
LEMMA AdvanceIInv ==
  ASSUME IInv, NEW j \in Jobs, Advance(j)
  PROVE  IInv'
PROOF
  <1> USE IInvByJob DEF Advance, Goto, storeVars
  <1>0. PICK gap \in BOOLEAN : gaps' = [gaps EXCEPT ![j] = @ \/ gap]
    OBVIOUS
  <1>1. TypeOK'
    <2>1. step' \in [Jobs -> 0..LastStep]
      BY NumFieldsAssumption DEF TypeOK, LastStep
    <2>2. gaps' \in [Jobs -> BOOLEAN]
      BY <1>0 DEF TypeOK
    <2> QED BY <2>1, <2>2 DEF TypeOK, Places, Live, StoreCalls
  <1>2. ASSUME NEW k \in Jobs PROVE JobInv(k)'
    <2>1. CASE k # j
      BY <1>0, <1>1, <2>1, Untouched DEF TypeOK
    <2>2. CASE k = j
      <3>1. /\ pc[j] = "pipeline" /\ pc'[j] = "update_progress"
            /\ step[j] \in 0..LastStep /\ step'[j] = step[j] + 1 /\ json'[j] = json[j]
        BY DEF TypeOK
      <3>2. ~written'[j]
        BY <3>1 DEF JobInv, TmpAtPlace, StoreCalls, TypeOK
      <3>3. PICK p \in Reached(step[j]) : json[j] = Running(p)
        BY <3>1 DEF JobInv, FileAtPlace, RunningAt, Running
      <3>4. json[j].status \notin Final
        BY <3>3 DEF Running, Record, Final, Finished
      <3>5. FileAtPlace(j)'
        <4>1. step'[j] > 0 /\ step'[j] - 1 = step[j]
          BY <3>1, NumFieldsAssumption DEF LastStep
        <4> QED BY <3>1, <3>3, <3>4, <4>1 DEF FileAtPlace, RunningAt, Running
      <3>6. OutcomeAtPlace(j)' /\ LossIsFault(j)' /\ AckedIsStored(j)'
        BY <3>1 DEF JobInv, OutcomeAtPlace, LossIsFault, AckedIsStored, TypeOK, Live, StoreCalls
      <3> QED BY <1>1, <2>2, <3>2, <3>4, <3>5, <3>6, Moved DEF Final
    <2> QED BY <2>1, <2>2
  <1> QED BY <1>1, <1>2, IInvByJobNext

\* An error of the pipeline keeps the invariant: _run_job catches it.
LEMMA RaiseIInv ==
  ASSUME IInv, NEW j \in Jobs, Raise(j)
  PROVE  IInv'
PROOF
  <1> USE IInvByJob DEF Raise, storeVars
  <1>0. PICK e \in RunErrors : /\ outcome' = [outcome EXCEPT ![j] = e]
                               /\ pc' = [pc EXCEPT ![j] = "mark_failed"]
    BY DEF Goto, RaisedAt, RunErrors, CaughtByRunJob
  <1>1. TypeOK'
    BY <1>0 DEF TypeOK, Places, Live, StoreCalls
  <1>2. ASSUME NEW k \in Jobs PROVE JobInv(k)'
    <2>1. CASE k # j
      BY <1>0, <1>1, <2>1, Untouched DEF TypeOK
    <2>2. CASE k = j
      <3>1. pc[j] = "pipeline" /\ pc'[j] = "mark_failed" /\ step[j] \in 0..LastStep
        BY <1>0 DEF TypeOK
      <3>2. ~written'[j]
        BY <3>1 DEF JobInv, TmpAtPlace, StoreCalls, TypeOK
      <3>3. PICK p \in Reached(step[j]) : json[j] = Running(p)
        BY <3>1 DEF JobInv, FileAtPlace, RunningAt, Running
      <3>4. json[j].status \notin Final
        BY <3>3 DEF Running, Record, Final, Finished
      <3>5. FileAtPlace(j)'
        BY <3>1, <3>3, <3>4, ReachedBounds DEF FileAtPlace, RunningAt, Running
      <3>6. OutcomeAtPlace(j)' /\ LossIsFault(j)' /\ AckedIsStored(j)'
        BY <3>1 DEF JobInv, OutcomeAtPlace, LossIsFault, AckedIsStored, TypeOK, Live, StoreCalls
      <3> QED BY <1>1, <2>2, <3>2, <3>5, <3>6, Moved
    <2> QED BY <2>1, <2>2
  <1> QED BY <1>1, <1>2, IInvByJobNext

\* GET /jobs/{job_id} keeps the invariant.
LEMMA PollIInv ==
  ASSUME IInv, NEW j \in Jobs, Poll(j)
  PROVE  IInv'
PROOF
  <1> USE IInvByJob DEF Poll, storeVars, taskVars
  <1>1. TypeOK'
    BY DEF TypeOK
  <1>2. ASSUME NEW k \in Jobs PROVE JobInv(k)'
    <2>1. CASE k # j
      BY <1>1, <2>1, Untouched DEF TypeOK
    <2>2. CASE k = j
      <3>1. Records(j)' = Records(j)
        BY DEF Records
      <3>2. FileAtPlace(j)' /\ OutcomeAtPlace(j)' /\ LossIsFault(j)' /\ AckedIsStored(j)'
        BY DEF JobInv, FileAtPlace, OutcomeAtPlace, LossIsFault, AckedIsStored
      <3>3. TmpAtPlace(j)'
        BY <3>1 DEF JobInv, TmpAtPlace
      <3>4. seen'[j] = json[j] /\ json'[j] = json[j]
        BY DEF TypeOK
      <3>5. SeenIsPast(j)'
        BY <3>4 DEF JobInv, SeenIsPast, Coherent, JobRecord
      <3> QED BY <2>2, <3>2, <3>3, <3>5 DEF JobInv, Coherent
    <2> QED BY <2>1, <2>2
  <1> QED BY <1>1, <1>2, IInvByJobNext

\* Writing the temporary file keeps the invariant.
LEMMA WriteIInv ==
  ASSUME IInv, NEW j \in Jobs, Write(j)
  PROVE  IInv'
PROOF
  <1> USE IInvByJob DEF Write, WriteTmp
  <1>0. PICK rec \in Records(j) : tmp' = [tmp EXCEPT ![j] = rec]
    OBVIOUS
  <1>1. TypeOK'
    <2>1. rec \in FileContent
      BY <1>0, RecordsCoherent
    <2> QED BY <1>0, <2>1 DEF TypeOK
  <1>2. ASSUME NEW k \in Jobs PROVE JobInv(k)'
    <2>1. CASE k # j
      BY <1>0, <1>1, <2>1, Untouched DEF TypeOK
    <2>2. CASE k = j
      <3>1. Records(j)' = Records(j)
        BY DEF Records
      <3>2. /\ FileAtPlace(j)' /\ OutcomeAtPlace(j)' /\ LossIsFault(j)'
            /\ AckedIsStored(j)' /\ SeenIsPast(j)'
        BY DEF JobInv, FileAtPlace, OutcomeAtPlace, LossIsFault, AckedIsStored, SeenIsPast
      <3>3. TmpAtPlace(j)'
        BY <1>0, <3>1 DEF TmpAtPlace, TypeOK
      <3> QED BY <2>2, <3>2, <3>3 DEF JobInv, Coherent
    <2> QED BY <2>1, <2>2
  <1> QED BY <1>1, <1>2, IInvByJobNext

\* A store call that raises keeps the invariant.
LEMMA StoreErrorIInv ==
  ASSUME IInv, NEW j \in Jobs, StoreError(j)
  PROVE  IInv'
PROOF
  <1> USE IInvByJob DEF StoreError, Goto
  <1>0. /\ json' = json
        /\ tmp' = tmp \/ tmp' = [tmp EXCEPT ![j] = Torn]
        /\ pc' = [pc EXCEPT ![j] = AfterStoreError[pc[j]]]
    BY DEF storeVars, TearTmp
  <1>a. AfterStoreError[pc[j]] \in {"escaped", "mark_failed"}
    BY DEF AfterStoreError, StoreCalls
  <1>1. TypeOK'
    <2>1. tmp' \in [Jobs -> FileContent]
      BY <1>0 DEF TypeOK, FileContent
    <2>2. pc' \in [Jobs -> Places]
      BY <1>0, <1>a DEF TypeOK, Places, Live, StoreCalls
    <2>3. ioErrors' \in 0..MaxIoErrors
      BY BoundsAssumption DEF TypeOK
    <2> QED BY <1>0, <2>1, <2>2, <2>3 DEF TypeOK
  <1>2. ASSUME NEW k \in Jobs PROVE JobInv(k)'
    <2>1. CASE k # j
      BY <1>0, <1>1, <2>1, Untouched, BoundsAssumption DEF TypeOK
    <2>2. CASE k = j
      <3>1. pc'[j] = AfterStoreError[pc[j]] /\ ioErrors' > 0 /\ ~written'[j]
        BY <1>0, BoundsAssumption DEF TypeOK
      <3>2. json[j].status \notin Final
        BY DEF JobInv, FileAtPlace, StoreCalls
      <3>3. FileAtPlace(j)'
        <4>1. CASE pc[j] \in {"create", "mark_running", "mark_failed"}
          <5>1. pc'[j] = "escaped"
            BY <3>1, <4>1 DEF AfterStoreError
          <5> QED BY <1>0, <3>2, <5>1 DEF FileAtPlace
        <4>2. CASE pc[j] = "update_progress"
          <5>1. pc'[j] = "mark_failed"
            BY <3>1, <4>2 DEF AfterStoreError
          <5>2. step[j] - 1 \in 0..LastStep
            BY <4>2, NumFieldsAssumption DEF JobInv, FileAtPlace, TypeOK, LastStep
          <5>3. json[j] \in RunningAt(Reached(step[j] - 1))
            BY <4>2 DEF JobInv, FileAtPlace
          <5>4. json[j] \in RunningAt(1..95)
            BY <5>2, <5>3, ReachedBounds DEF RunningAt
          <5> QED BY <1>0, <3>2, <5>1, <5>4 DEF FileAtPlace
        <4>3. CASE pc[j] = "mark_completed"
          <5>1. pc'[j] = "mark_failed"
            BY <3>1, <4>3 DEF AfterStoreError
          <5>2. json[j] \in RunningAt(1..95)
            BY <4>3 DEF JobInv, FileAtPlace, RunningAt
          <5> QED BY <1>0, <3>2, <5>1, <5>2 DEF FileAtPlace
        <4> QED BY <4>1, <4>2, <4>3 DEF StoreCalls
      <3>4. LossIsFault(j)' /\ OutcomeAtPlace(j)'
        BY <1>a, <3>1 DEF LossIsFault, OutcomeAtPlace, Live, StoreCalls
      <3>5. AckedIsStored(j)'
        BY <1>0, <1>a, <3>1 DEF JobInv, AckedIsStored
      <3> QED BY <1>0, <1>1, <2>2, <3>1, <3>3, <3>4, <3>5, Moved
    <2> QED BY <2>1, <2>2
  <1> QED BY <1>1, <1>2, IInvByJobNext

\* A crash or shutdown of a worker keeps the invariant.
LEMMA CrashIInv ==
  ASSUME IInv, NEW w \in Workers, Crash(w)
  PROVE  IInv'
PROOF
  <1> USE IInvByJob
  <1> DEFINE lost == {j \in Jobs : owner[j] = w /\ pc[j] \in Live}
  <1>1. /\ json' = json
        /\ pc' = [j \in Jobs |-> IF j \in lost THEN "killed" ELSE pc[j]]
        /\ written' = [j \in Jobs |-> IF j \in lost THEN FALSE ELSE written[j]]
        /\ crashes < MaxCrashes /\ crashes' = crashes + 1
        /\ UNCHANGED <<owner, step, gaps, outcome, acked, seen, ioErrors>>
    BY DEF Crash, storeVars, TearTmp
  <1>2. tmp' = tmp \/ \E j \in lost : tmp' = [tmp EXCEPT ![j] = Torn]
    BY DEF Crash, storeVars, TearTmp
  <1> HIDE DEF lost
  <1>3. TypeOK'
    <2>1. tmp' \in [Jobs -> FileContent]
      BY <1>2 DEF TypeOK, FileContent
    <2>2. pc' \in [Jobs -> Places] /\ written' \in [Jobs -> BOOLEAN]
      BY <1>1 DEF TypeOK, Places
    <2>3. crashes' \in 0..MaxCrashes
      BY <1>1, BoundsAssumption DEF TypeOK
    <2> QED BY <1>1, <2>1, <2>2, <2>3 DEF TypeOK
  <1>4. ASSUME NEW k \in Jobs PROVE JobInv(k)'
    <2>1. CASE k \notin lost
      <3>1. tmp'[k] = tmp[k]
        BY <1>2, <2>1 DEF TypeOK
      <3>2. pc'[k] = pc[k] /\ written'[k] = written[k]
        BY <1>1, <2>1
      <3>3. crashes' >= crashes /\ ioErrors' >= ioErrors
        BY <1>1, BoundsAssumption DEF TypeOK
      <3> QED BY <1>1, <1>3, <3>1, <3>2, <3>3, Untouched
    <2>2. CASE k \in lost
      <3>1. pc'[k] = "killed" /\ ~written'[k] /\ crashes' > 0
        BY <1>1, <2>2, BoundsAssumption DEF TypeOK
      <3>2. pc[k] # "ended"
        BY <2>2 DEF lost, Live, StoreCalls
      <3>3. FileAtPlace(k)' /\ OutcomeAtPlace(k)' /\ LossIsFault(k)' /\ AckedIsStored(k)'
        BY <1>1, <3>1, <3>2
           DEF JobInv, FileAtPlace, OutcomeAtPlace, LossIsFault, AckedIsStored, Live, StoreCalls
      <3> QED BY <1>1, <1>3, <3>1, <3>3, Moved
    <2> QED BY <2>1, <2>2
  <1> QED BY <1>3, <1>4, IInvByJobNext

\* The rename that ends a store call keeps the invariant: the new record is
\* what the next place of the job expects.
LEMMA PublishIInv ==
  ASSUME IInv, NEW j \in Jobs, Publish(j)
  PROVE  IInv'
PROOF
  <1> USE IInvByJob DEF Publish, Replace, Goto
  <1> DEFINE rec == tmp[j]
  <1>0. JobInv(j) /\ TypeOK /\ pc[j] \in StoreCalls /\ rec \in Records(j)
    BY DEF JobInv, TmpAtPlace
  <1>a. /\ json' = [json EXCEPT ![j] = rec]
        /\ pc' = [pc EXCEPT ![j] = AfterCall[pc[j]]]
        /\ tmp' = [tmp EXCEPT ![j] = NoFile]
        /\ written' = [written EXCEPT ![j] = FALSE]
    OBVIOUS
  <1>b. Coherent(rec) /\ rec \in FileContent
    BY <1>0, RecordsCoherent
  <1>c. json[j].status \notin Final
    BY <1>0 DEF JobInv, FileAtPlace, StoreCalls
  <1> HIDE DEF rec
  <1>1. TypeOK'
    <2>1. AfterCall[pc[j]] \in Places
      BY <1>0 DEF AfterCall, StoreCalls, Places, Live
    <2> QED BY <1>a, <1>b, <2>1 DEF TypeOK, FileContent
  <1>2. ASSUME NEW k \in Jobs PROVE JobInv(k)'
    <2>1. CASE k # j
      BY <1>a, <1>1, <2>1, Untouched DEF TypeOK
    <2>2. CASE k = j
      <3>1. json'[j] = rec /\ pc'[j] = AfterCall[pc[j]] /\ ~written'[j]
            /\ step'[j] = step[j] /\ gaps'[j] = gaps[j] /\ seen'[j] = seen[j]
            /\ outcome'[j] = outcome[j]
        BY <1>a DEF TypeOK
      <3>2. TmpAtPlace(j)'
        BY <3>1 DEF TmpAtPlace
      <3>3. LossIsFault(j)' /\ OutcomeAtPlace(j)'
        BY <1>0, <3>1 DEF JobInv, LossIsFault, OutcomeAtPlace, AfterCall, StoreCalls, Live
      <3>4. rec # NoFile
        BY <1>b, NoFileFacts DEF Coherent
      <3>5. SeenIsPast(j)' /\ FileAtPlace(j)' /\ (rec.status \in Finished =>
              step[j] = LastStep /\ (rec.status = "completed" <=> ~gaps[j]))
        <4>1. seen[j].status \notin Final
          BY <1>0, <1>c DEF JobInv, SeenIsPast
        <4>2. seen[j] # NoFile => seen[j] \in JobRecord /\ seen[j].percent <= json[j].percent
          BY <1>0 DEF JobInv, SeenIsPast
        <4>3. CASE pc[j] = "create"
          <5>1. rec = NewJob /\ json[j] = NoFile /\ pc'[j] = "respond" /\ step[j] = 0
            BY <1>0, <3>1, <4>3, RecordForms DEF JobInv, FileAtPlace, AfterCall
          <5>2. rec.percent = json[j].percent /\ rec.status \notin Final
            BY <5>1, NoFileFacts
          <5> QED BY <3>1, <4>1, <4>2, <5>1, <5>2 DEF SeenIsPast, FileAtPlace, Final
        <4>4. CASE pc[j] = "mark_running"
          <5>1. rec = Running(1) /\ json[j] = NewJob /\ pc'[j] = "pipeline" /\ step[j] = 0
            BY <1>0, <3>1, <4>4, RecordForms DEF JobInv, FileAtPlace, AfterCall
          <5>2. rec.percent = 1 /\ json[j].percent = 0 /\ rec.status \notin Final
            BY <5>1 DEF NewJob, Running, Record, Final, Finished
          <5>3. rec \in RunningAt(Reached(0))
            BY <5>1 DEF RunningAt, Running, Reached
          <5>4. SeenIsPast(j)'
            BY <3>1, <4>1, <4>2, <5>2 DEF SeenIsPast, JobRecord
          <5> QED BY <3>1, <5>1, <5>2, <5>3, <5>4 DEF FileAtPlace, Final
        <4>5. CASE pc[j] = "update_progress"
          <5>1. PICK p \in Reached(step[j] - 1), q \in Percents(step[j]) :
                  json[j] = Running(p) /\ rec = Running(q) /\ p <= q /\ q <= 95 /\ p >= 1
            BY <1>0, <4>5, RecordForms
          <5>2. pc'[j] = "pipeline" /\ step[j] \in 1..LastStep
            BY <1>0, <3>1, <4>5, NumFieldsAssumption
               DEF JobInv, FileAtPlace, AfterCall, TypeOK, LastStep
          <5>3. p \in Int /\ q \in Int
            <6>1. step[j] - 1 \in 0..LastStep
              BY <5>2, NumFieldsAssumption DEF LastStep
            <6> QED BY <5>2, <6>1, ReachedBounds, PercentBounds
          <5>4. rec.percent = q /\ json[j].percent = p /\ rec.status \notin Final
            BY <5>1 DEF Running, Record, Final, Finished
          <5>5. rec \in RunningAt(Reached(step[j]))
            BY <5>1, <5>2 DEF RunningAt, Running, Reached
          <5>6. SeenIsPast(j)'
            BY <3>1, <4>1, <4>2, <5>1, <5>3, <5>4 DEF SeenIsPast, JobRecord
          <5> QED BY <3>1, <5>2, <5>4, <5>5, <5>6 DEF FileAtPlace, Final
        <4>6. CASE pc[j] = "mark_completed"
          <5>1. /\ rec = Done(IF gaps[j] THEN "completed_with_gaps" ELSE "completed")
                /\ json[j] = Running(95) /\ pc'[j] = "ended" /\ step[j] = LastStep
            BY <1>0, <3>1, <4>6, RecordForms DEF JobInv, FileAtPlace, AfterCall
          <5>2. /\ rec.percent = 100 /\ json[j].percent = 95 /\ rec.status \in Final
                /\ rec.status = "completed" <=> ~gaps[j]
            BY <5>1 DEF Running, Done, Record, Final, Finished
          <5>3. SeenIsPast(j)'
            BY <3>1, <4>1, <4>2, <5>2 DEF SeenIsPast, JobRecord
          <5> QED BY <3>1, <5>1, <5>2, <5>3 DEF FileAtPlace
        <4>7. CASE pc[j] = "mark_failed"
          <5>1. PICK p \in 1..95 : json[j] = Running(p) /\ rec = FailedAt(p)
            BY <1>0, <4>7, RecordForms
          <5>2. pc'[j] = "ended"
            BY <3>1, <4>7 DEF AfterCall
          <5>3. /\ rec.percent = p /\ json[j].percent = p
                /\ rec.status \in Final /\ rec.status \notin Finished
            BY <5>1 DEF Running, FailedAt, Record, Final, Finished
          <5>4. SeenIsPast(j)'
            BY <3>1, <4>1, <4>2, <5>3 DEF SeenIsPast
          <5> QED BY <3>1, <5>2, <5>3, <5>4 DEF FileAtPlace
        <4> QED BY <1>0, <4>3, <4>4, <4>5, <4>6, <4>7 DEF StoreCalls
      <3>6. AckedIsStored(j)'
        <4>1. j \in acked => pc[j] \notin {"unborn", "create"}
          BY <1>0 DEF JobInv, AckedIsStored
        <4>2. pc'[j] \notin {"unborn", "create"}
          BY <1>0, <3>1 DEF AfterCall, StoreCalls
        <4> QED BY <3>1, <3>4, <4>2 DEF AckedIsStored
      <3>7. Coherent(json[j])'
        BY <1>b, <3>1 DEF Coherent
      <3> QED BY <2>2, <3>1, <3>2, <3>3, <3>5, <3>6, <3>7 DEF JobInv
    <2> QED BY <2>1, <2>2
  <1> QED BY <1>1, <1>2, IInvByJobNext

\* A stuttering step keeps the invariant.
LEMMA StutterIInv ==
  ASSUME IInv, UNCHANGED vars
  PROVE  IInv'
PROOF
  <1> USE IInvByJob DEF vars, storeVars, taskVars
  <1>1. TypeOK'
    BY DEF TypeOK
  <1>2. ASSUME NEW k \in Jobs PROVE JobInv(k)'
    BY <1>1, Untouched DEF TypeOK
  <1> QED BY <1>1, <1>2, IInvByJobNext

\* Every step keeps the invariant.
LEMMA NextIInv == IInv /\ [Next]_vars => IInv'
PROOF
  <1> SUFFICES ASSUME IInv, [Next]_vars PROVE IInv'
    OBVIOUS
  <1>1. ASSUME NEW j \in Jobs, TaskStep(j) PROVE IInv'
    BY <1>1, WriteIInv, PublishIInv, RespondIInv, StartTaskIInv, AdvanceIInv, RaiseIInv,
       ReturnIInv DEF TaskStep
  <1>2. ASSUME NEW j \in Jobs, Submit(j) \/ StoreError(j) \/ Poll(j) PROVE IInv'
    BY <1>2, SubmitIInv, StoreErrorIInv, PollIInv
  <1>3. ASSUME NEW w \in Workers, Crash(w) PROVE IInv'
    BY <1>3, CrashIInv
  <1>4. CASE UNCHANGED vars
    BY <1>4, StutterIInv
  <1> QED BY <1>1, <1>2, <1>3, <1>4 DEF Next

\* IInv holds in every reachable state.
THEOREM Invariance == Spec => []IInv
PROOF BY InitIInv, NextIInv, PTL DEF Spec

-----------------------------------------------------------------------------
(* What follows *)

\* Every variable stays in its type.
THEOREM TypeCorrect == Spec => []TypeOK
PROOF
  <1>1. IInv => TypeOK
    BY DEF IInv
  <1> QED BY <1>1, Invariance, PTL

\* A record file is absent or whole, and what it says fits together, whatever
\* crashes or fails during a store call.
THEOREM FilesCoherent == Spec => []PublishedCoherent
PROOF
  <1>1. IInv => PublishedCoherent
    BY DEF IInv
  <1> QED BY <1>1, Invariance, PTL

\* A finished job went through all its fields, and its status tells whether
\* one of them is a gap.
THEOREM FinishedSound == Spec => []FinishedMatchesRun
PROOF
  <1>1. IInv => FinishedMatchesRun
    BY DEF IInv
  <1> QED BY <1>1, Invariance, PTL

\* Only a crash, a shutdown or a failed store call leaves a job open for good.
THEOREM OnlyFaultsStrand == Spec => []StrandedOnlyByFault
PROOF
  <1>1. IInv => StrandedOnlyByFault
    <2> SUFFICES ASSUME IInv, NEW j \in Jobs,
                        json[j] # NoFile, json[j].status \notin Final, pc[j] \notin Live
                 PROVE  \/ pc[j] = "killed" /\ crashes > 0
                        \/ pc[j] = "escaped" /\ ioErrors > 0
      BY DEF StrandedOnlyByFault
    <2>1. pc[j] \in {"unborn", "ended", "escaped", "killed"}
      BY DEF IInv, TypeOK, Places
    <2> QED BY <2>1 DEF IInv, FileAtPlace, LossIsFault
  <1> QED BY <1>1, Invariance, PTL

\* A client's polls of a job it was given the id of never fail for want of a
\* whole file and never go backwards.
THEOREM PollsSound == Spec => []PollSound
PROOF
  <1>1. IInv => PollSound
    BY DEF IInv, TypeOK, PollSound, AckedIsStored, SeenIsPast
  <1> QED BY <1>1, Invariance, PTL

-----------------------------------------------------------------------------
(* Refinement of JobLifecycle *)

\* The only step that a poll can notice is the rename that ends a store call,
\* and it is a step of the life of the job.
LEMMA PublishLifecycle ==
  ASSUME IInv, NEW j \in Jobs, Publish(j)
  PROVE  L!Next
PROOF
  <1> DEFINE rec == tmp[j]
  <1>1. JobInv(j) /\ TypeOK /\ pc[j] \in StoreCalls /\ rec \in Records(j)
    BY IInvByJob DEF Publish, JobInv, TmpAtPlace
  <1>2. json' = [json EXCEPT ![j] = rec]
    BY DEF Publish, Replace
  <1> HIDE DEF rec
  <1>3. CASE pc[j] = "create"
    <2>1. json[j] = L!Unknown /\ rec = L!Queued
      BY <1>1, <1>3, RecordForms
         DEF JobInv, FileAtPlace, NoFile, NewJob, Record, L!Unknown, L!Queued, L!Answer
    <2> QED BY <1>2, <2>1 DEF L!Next, L!Accept
  <1>4. CASE pc[j] = "mark_running"
    <2>1. json[j] = L!Queued /\ rec = L!Running(1)
      BY <1>1, <1>4, RecordForms
         DEF JobInv, FileAtPlace, NewJob, Running, Record, L!Running, L!Queued, L!Answer
    <2> QED BY <1>2, <2>1 DEF L!Next, L!Start
  <1>5. CASE pc[j] = "update_progress"
    <2>1. PICK p \in Reached(step[j] - 1), q \in Percents(step[j]) :
            json[j] = Running(p) /\ rec = Running(q) /\ p <= q /\ q <= 95 /\ p >= 1
      BY <1>1, <1>5, RecordForms
    <2>2. step[j] \in 1..LastStep /\ step[j] - 1 \in 0..LastStep
      BY <1>1, <1>5, NumFieldsAssumption DEF JobInv, FileAtPlace, TypeOK, LastStep
    <2>3. p \in Int /\ q \in p..95
      BY <2>1, <2>2, ReachedBounds, PercentBounds
    <2>4. json[j] = L!Running(p) /\ rec = L!Running(q) /\ json[j].percent = p
      BY <2>1 DEF Running, Record, L!Running, L!Answer
    <2>5. L!Report(j)
      BY <1>2, <2>3, <2>4 DEF L!Report
    <2> QED BY <2>5 DEF L!Next
  <1>6. CASE pc[j] = "mark_completed"
    <2> DEFINE r == IF gaps[j] THEN "completed_with_gaps" ELSE "completed"
    <2>1. json[j] = Running(95) /\ rec = Done(r)
      BY <1>1, <1>6, RecordForms
    <2>2. r \in L!Finished
      BY DEF L!Finished
    <2>3. json[j] = L!Running(95) /\ rec = L!Answer(r, 100, r, "none")
      BY <2>1 DEF Running, Done, Record, L!Running, L!Answer
    <2> HIDE DEF r
    <2>4. L!Finish(j)
      BY <1>2, <2>2, <2>3 DEF L!Finish
    <2> QED BY <2>4 DEF L!Next
  <1>7. CASE pc[j] = "mark_failed"
    <2>1. PICK p \in 1..95 : json[j] = Running(p) /\ rec = FailedAt(p)
      BY <1>1, <1>7, RecordForms
    <2>2. json[j] = L!Running(p) /\ rec = L!Answer("failed", p, "none", "some")
          /\ json[j].percent = p
      BY <2>1 DEF Running, FailedAt, Record, L!Running, L!Answer
    <2>3. L!Fail(j)
      BY <1>2, <2>2 DEF L!Fail
    <2> QED BY <2>3 DEF L!Next
  <1> QED BY <1>1, <1>3, <1>4, <1>5, <1>6, <1>7 DEF StoreCalls

\* Every step but Publish leaves the record files alone.
LEMMA NextLifecycle == IInv /\ [Next]_vars => [L!Next]_json
PROOF
  <1> SUFFICES ASSUME IInv, [Next]_vars, json' # json PROVE L!Next
    OBVIOUS
  <1>1. PICK j \in Jobs : Publish(j)
    BY DEF Next, TaskStep, Submit, Write, WriteTmp, Respond, StartTask, Advance, Raise, Return,
           StoreError, TearTmp, Poll, Crash, vars, storeVars
  <1> QED BY <1>1, PublishLifecycle

\* The record files, as GET /jobs/{job_id} answers from them, live the life
\* that JobLifecycle allows and no other.
THEOREM Refinement == Spec => ImplementsLifecycle
PROOF
  <1>1. Init => L!Init
    BY DEF Init, L!Init, NoFile, Record, L!Unknown, L!Answer
  <1> QED BY <1>1, Invariance, NextLifecycle, PTL DEF Spec, ImplementsLifecycle, L!Spec

-----------------------------------------------------------------------------
(* Refinement of Pipeline *)

\* A step that leaves the pipeline of a job alone is none of it.
LEMMA RunUntouched ==
  ASSUME NEW k \in Jobs, step'[k] = step[k], gaps'[k] = gaps[k], outcome'[k] = outcome[k]
  PROVE  [Run(k)!Next]_(Run(k)!pipelineVars)
PROOF BY DEF Run!pipelineVars

\* A stage of the pipeline that is done with is a Report.
LEMMA AdvanceReports ==
  ASSUME IInv, NEW j \in Jobs, Advance(j)
  PROVE  Run(j)!Report
PROOF
  <1>1. /\ outcome[j] = "none" /\ outcome'[j] = outcome[j]
        /\ step[j] < LastStep /\ step'[j] = step[j] + 1
    BY IInvByJob DEF Advance, JobInv, OutcomeAtPlace, Live, StoreCalls, TypeOK
  <1>2. gaps'[j] \in (IF step[j] < 3 THEN {gaps[j]} ELSE {gaps[j], TRUE})
    BY IInvByJob DEF Advance, TypeOK
  <1> QED BY <1>1, <1>2 DEF Run!Report, Run!LastStep, LastStep

\* An error of a stage is a Raise.
LEMMA RaiseRaises ==
  ASSUME IInv, NEW j \in Jobs, Raise(j)
  PROVE  Run(j)!Raise
PROOF
  <1>1. PICK e \in RaisedAt(step[j] + 1) : outcome' = [outcome EXCEPT ![j] = e]
    BY DEF Raise
  <1>2. /\ outcome[j] = "none" /\ outcome'[j] = e
        /\ step[j] < LastStep /\ step'[j] = step[j] /\ gaps'[j] = gaps[j]
    BY <1>1, IInvByJob DEF Raise, JobInv, OutcomeAtPlace, Live, StoreCalls, TypeOK
  <1> QED BY <1>1, <1>2 DEF Run!Raise, Run!LastStep, LastStep, Run!RaisedAt, RaisedAt

\* The return of a run is a Return.
LEMMA ReturnReturns ==
  ASSUME IInv, NEW j \in Jobs, Return(j)
  PROVE  Run(j)!Return
PROOF
  <1>1. /\ outcome[j] = "none" /\ outcome'[j] = ResolveJobStatus(gaps[j])
        /\ step[j] = LastStep /\ step'[j] = step[j] /\ gaps'[j] = gaps[j]
    BY IInvByJob DEF Return, JobInv, OutcomeAtPlace, Live, StoreCalls, TypeOK
  <1> QED BY <1>1 DEF Run!Return, Run!LastStep, LastStep, ResolveJobStatus

\* Every step is one of each job's pipeline, or leaves it alone.
LEMMA NextPipeline ==
  ASSUME IInv, [Next]_vars, NEW k \in Jobs
  PROVE  [Run(k)!Next]_(Run(k)!pipelineVars)
PROOF
  <1>1. ASSUME NEW j \in Jobs, Advance(j) \/ Raise(j) \/ Return(j)
        PROVE  [Run(k)!Next]_(Run(k)!pipelineVars)
    <2>1. CASE k = j
      BY <1>1, <2>1, AdvanceReports, RaiseRaises, ReturnReturns DEF Run!Next
    <2>2. CASE k # j
      BY <1>1, <2>2, RunUntouched DEF Advance, Raise, Return, IInv, TypeOK
    <2> QED BY <2>1, <2>2
  <1>2. ASSUME NEW j \in Jobs,
               \/ Submit(j) \/ Write(j) \/ Publish(j) \/ Respond(j) \/ StartTask(j)
               \/ StoreError(j) \/ Poll(j)
        PROVE  [Run(k)!Next]_(Run(k)!pipelineVars)
    BY <1>2, RunUntouched
       DEF Submit, Write, Publish, Respond, StartTask, StoreError, Poll, taskVars
  <1>3. ASSUME NEW w \in Workers, Crash(w)
        PROVE  [Run(k)!Next]_(Run(k)!pipelineVars)
    BY <1>3, RunUntouched DEF Crash
  <1>4. CASE UNCHANGED vars
    BY <1>4, RunUntouched DEF vars, taskVars
  <1> QED BY <1>1, <1>2, <1>3, <1>4 DEF Next, TaskStep

\* In any interleaving, and whatever crashes or fails, the pipeline of each job
\* is one that ExtractionService.run was shown to be.
THEOREM RunsArePipelines == Spec => ImplementsPipeline
PROOF
  <1>1. Init => \A j \in Jobs : Run(j)!Init
    BY DEF Init, Run!Init
  <1>2. IInv /\ [Next]_vars => [\A j \in Jobs : [Run(j)!Next]_(Run(j)!pipelineVars)]_vars
    BY NextPipeline
  <1> QED BY <1>1, <1>2, Invariance, PTL DEF Spec, ImplementsPipeline

=============================================================================
