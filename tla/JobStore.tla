------------------------------ MODULE JobStore ------------------------------
(***************************************************************************)
(* FileSystemJobStore (app/storage/job_store.py): the files that hold the  *)
(* jobs, the records its methods write, and the two file-system steps of   *)
(* one write.  A job's record lives in <storage_dir>/<job_id>.json.  It is *)
(* written whole to <job_id>.tmp and then renamed over the .json file, so  *)
(* a crash, a full disk or another process's read can fall between the     *)
(* two.                                                                    *)
(*                                                                         *)
(* A result (FormExtractionResponse) is abstracted to its status, the only *)
(* part of it the store looks at; an error to whether there is one; the    *)
(* progress message is left out (it is wording).                           *)
(***************************************************************************)
EXTENDS Integers

CONSTANT Jobs  \* the job ids, fresh uuids in the code

VARIABLES json,  \* json[j]: what <j>.json holds
          tmp    \* tmp[j]:  what <j>.tmp holds

storeVars == <<json, tmp>>

-----------------------------------------------------------------------------
(* Records *)

Finished  == {"completed", "completed_with_gaps"}
Final     == Finished \cup {"failed"}
JobStatus == Final \cup {"queued", "running"}

JobRecord == [status:  JobStatus,
              percent: 0..100,
              result:  Finished \cup {"none"},
              error:   {"none", "some"}]

Record(status, percent, result, error) ==
  [status |-> status, percent |-> percent, result |-> result, error |-> error]

\* No such file, and a file cut short in the middle of a write, in the shape
\* of a record.  NoFile has the defaults of a new JobRecord.
NoFile == Record("no file", 0, "none", "none")
Torn   == Record("torn", 0, "none", "none")

FileContent == JobRecord \cup {NoFile, Torn}

ClampProgress(percent) ==
  IF percent < 0 THEN 0 ELSE IF percent > 100 THEN 100 ELSE percent

\* The records the methods write, from the record rec that get() returned.
\* _update sets status, result and error in any case and the percent if it is
\* given one; on a job without a file it starts from a fresh record, which is
\* NoFile but for its status.
NewJob == Record("queued", 0, "none", "none")

MarkRunning(rec) == Record("running", ClampProgress(1), "none", "none")

\* update_progress leaves everything else of the record as it finds it, and
\* writes nothing for a job it cannot find.
UpdateProgress(rec, percent) ==
  IF rec = NoFile
  THEN rec
  ELSE Record(rec.status, ClampProgress(percent), rec.result, rec.error)

MarkCompleted_KeepsPercent(rec, result) ==  \* mutant: no progress_percent=100
  Record(result, rec.percent, result, "none")

MarkCompleted(rec, result) == Record(result, ClampProgress(100), result, "none")

MarkFailed_ResetsProgress(rec) ==  \* mutant
  Record("failed", 0, "none", "some")

MarkFailed(rec) == Record("failed", rec.percent, "none", "some")

-----------------------------------------------------------------------------
(* One _write: the temporary file first, then the rename over the record. *)

WriteTmp_InPlace(j, rec) ==  \* mutant: no temporary file, the record itself is rewritten
  /\ tmp'  = [tmp EXCEPT ![j] = rec]
  /\ json' = [json EXCEPT ![j] = Torn]

WriteTmp(j, rec) ==
  /\ tmp' = [tmp EXCEPT ![j] = rec]
  /\ UNCHANGED json

Replace(j) ==
  /\ json' = [json EXCEPT ![j] = tmp[j]]
  /\ tmp'  = [tmp EXCEPT ![j] = NoFile]

\* A write_text that a crash or an I/O error interrupts leaves what it found
\* or a file cut short.
TearTmp(j) ==
  /\ \/ tmp' = [tmp EXCEPT ![j] = Torn]
     \/ UNCHANGED tmp
  /\ UNCHANGED json

=============================================================================
