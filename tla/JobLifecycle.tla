---------------------------- MODULE JobLifecycle ----------------------------
(***************************************************************************)
(* What the job API promises to whoever polls GET /jobs/{job_id}, with no  *)
(* word on files, tasks or crashes: view[j] is what a poll of j would be   *)
(* answered.  A job is accepted, starts, reports a progress that never     *)
(* falls back and stays at most 95 while it runs, and ends at most once:   *)
(* finished at 100 with the result its status names, or failed with an     *)
(* error at the progress it had reached.  Nothing here promises that it    *)
(* ends: a job may stop moving in any state.                               *)
(***************************************************************************)
EXTENDS Integers

CONSTANT Jobs

VARIABLE view

Finished == {"completed", "completed_with_gaps"}

Answer(status, percent, result, error) ==
  [status |-> status, percent |-> percent, result |-> result, error |-> error]

Unknown == Answer("no file", 0, "none", "none")
Queued  == Answer("queued", 0, "none", "none")

Running(percent) == Answer("running", percent, "none", "none")

-----------------------------------------------------------------------------
Init == view = [j \in Jobs |-> Unknown]

Accept(j) ==
  /\ view[j] = Unknown
  /\ view' = [view EXCEPT ![j] = Queued]

Start(j) ==
  /\ view[j] = Queued
  /\ view' = [view EXCEPT ![j] = Running(1)]

Report(j) ==
  /\ view[j] = Running(view[j].percent)
  /\ \E q \in (view[j].percent)..95 : view' = [view EXCEPT ![j] = Running(q)]

Finish(j) ==
  /\ view[j] = Running(95)
  /\ \E r \in Finished : view' = [view EXCEPT ![j] = Answer(r, 100, r, "none")]

Fail(j) ==
  /\ view[j] = Running(view[j].percent)
  /\ view' = [view EXCEPT ![j] = Answer("failed", view[j].percent, "none", "some")]

Next == \E j \in Jobs : Accept(j) \/ Start(j) \/ Report(j) \/ Finish(j) \/ Fail(j)

Spec == Init /\ [][Next]_view

=============================================================================
