----------------------------- MODULE RunDispatch -----------------------------
(***************************************************************************)
(* The life of one discovery run outside its callbacks                     *)
(* (internal/discovery/service.go, dispatch_worker.go, enqueue.go): it is  *)
(* created and put on the dispatch queue, dispatched to the engine by an   *)
(* asynq worker with retries, cancelled by users, and closed by the        *)
(* reconciler when the engine's job has ended.                             *)
(*                                                                         *)
(* The engine is external: POST /scan is idempotent in the run id and      *)
(* answers the same job id whatever became of the job (EngineJob's Submit).*)
(***************************************************************************)
EXTENDS Naturals

CONSTANTS
    Workers,        \* asynq workers that may run the dispatch task
    Users,          \* concurrent cancel requests
    RetryLimit,     \* task_run.retry_limit (code: up to 100)
    MaxFaults       \* bound on crashes, lost calls and failed calls

ASSUME DispatchAssumption == RetryLimit \in Nat /\ MaxFaults \in Nat

JobEnded == {"success", "failed", "cancelled"}
Terminal == {"success", "failed", "cancelled"}

VARIABLES
    status,     \* task_run.status, or "none" before the run is created
    jobID,      \* task_run.engine_job_id is set
    attempt,    \* task_run.attempt
    closedFrom, \* history: the status a closed run had before
    api,        \* position in CreateAndEnqueueTaskRun
    task,       \* asynq task dispatch:<project>:<run>
    wpc,        \* position of each worker in DispatchTaskRun
    try,        \* its number of tries so far
    err,        \* its recordErr
    lease,      \* the worker still holds the asynq lease of the task
    upc,        \* position of each user in CancelDispatchedTaskRun
    job,        \* the engine's job
    faults

runVars == <<status, jobID, closedFrom>>
workerVars == <<wpc, try, err, lease>>
vars == <<runVars, attempt, api, task, workerVars, upc, job, faults>>

Fault == faults < MaxFaults /\ faults' = faults + 1

Init ==
    /\ status = "none"
    /\ jobID = FALSE
    /\ attempt = 0
    /\ closedFrom = "none"
    /\ api = "idle"
    /\ task = "none"
    /\ wpc = [w \in Workers |-> "idle"]
    /\ try = [w \in Workers |-> 0]
    /\ err = [w \in Workers |-> "none"]
    /\ lease = [w \in Workers |-> FALSE]
    /\ upc = [u \in Users |-> "idle"]
    /\ job = "none"
    /\ faults = 0

(***************************************************************************)
(* The run row.  Every writer re-reads it in its own transaction and       *)
(* updates it with the status it read in the WHERE clause.                 *)
(***************************************************************************)
validRunTransitions ==
    {<<"pending", "running">>, <<"pending", "cancelled">>}
        \cup {<<"running", st>> : st \in Terminal}

Close(st) ==
    /\ status' = st
    /\ closedFrom' = status
    /\ UNCHANGED jobID

\* changeTaskRunStatus: move the run if the table allows it, else an error.
changeTaskRunStatus(st) ==
    IF <<status, st>> \in validRunTransitions THEN Close(st) ELSE UNCHANGED runVars

(***************************************************************************)
(* CreateAndEnqueueTaskRun                                                 *)
(***************************************************************************)
CreateTaskRun ==
    /\ status = "none"
    /\ status' = "pending"
    /\ api' = "created"
    /\ UNCHANGED <<jobID, closedFrom, attempt, task, workerVars, upc, job, faults>>

Enqueue ==
    /\ api = "created"
    /\ api' = "idle"
    /\ task' = IF task = "none" THEN "queued" ELSE task
    /\ UNCHANGED <<runVars, attempt, workerVars, upc, job, faults>>

\* The queue reports a failure; the task may be there all the same.
EnqueueFails ==
    /\ api = "created"
    /\ Fault
    /\ api' = "cancelling"
    /\ task' \in {task, "queued"}
    /\ UNCHANGED <<runVars, attempt, workerVars, upc, job>>

CancelUnqueued ==
    /\ api = "cancelling"
    /\ api' = "idle"
    /\ changeTaskRunStatus("cancelled")
    /\ UNCHANGED <<attempt, task, workerVars, upc, job, faults>>

\* The API process dies, or the cancelling transaction fails.
ApiDies ==
    /\ api # "idle"
    /\ Fault
    /\ api' = "idle"
    /\ UNCHANGED <<runVars, attempt, task, workerVars, upc, job>>

(***************************************************************************)
(* The queue, external, and DispatchHandler.Handle around DispatchTaskRun  *)
(***************************************************************************)
Goto(w, pc) == wpc' = [wpc EXCEPT ![w] = pc]

\* The handler returns nil (also for a run that is no longer dispatchable), or
\* an error, for which asynq tries the task again later.
Return(w, ok) ==
    /\ Goto(w, "idle")
    /\ try' = [try EXCEPT ![w] = 0]
    /\ err' = [err EXCEPT ![w] = "none"]
    /\ lease' = [lease EXCEPT ![w] = FALSE]
    /\ task' = IF ~lease[w] THEN task ELSE IF ok THEN "none" ELSE "parked"

Take(w) ==
    /\ wpc[w] = "idle"
    /\ task = "queued"
    /\ task' = "active"
    /\ Goto(w, "load")
    /\ lease' = [lease EXCEPT ![w] = TRUE]
    /\ UNCHANGED <<runVars, attempt, api, try, err, upc, job, faults>>

Requeue ==
    /\ task = "parked"
    /\ task' = "queued"
    /\ UNCHANGED <<runVars, attempt, api, workerVars, upc, job, faults>>

LeaseExpires(w) ==
    /\ lease[w]
    /\ Fault
    /\ lease' = [lease EXCEPT ![w] = FALSE]
    /\ task' = "parked"
    /\ UNCHANGED <<runVars, attempt, api, wpc, try, err, upc, job>>

\* The worker dies, or a call whose error DispatchTaskRun returns fails
\* (GetTaskRun, BuildDispatchPlan, IncrementRunAttempt).
Abandon(w) ==
    /\ wpc[w] # "idle"
    /\ Fault
    /\ Return(w, FALSE)
    /\ UNCHANGED <<runVars, attempt, api, upc, job>>

\* GetTaskRun and BuildDispatchPlan: only a pending run is dispatched.
Load(w) ==
    /\ wpc[w] = "load"
    /\ IF status = "pending"
       THEN Goto(w, "try") /\ UNCHANGED <<task, try, err, lease>>
       ELSE Return(w, TRUE)
    /\ UNCHANGED <<runVars, attempt, api, upc, job, faults>>

\* What a scan request that reaches the engine does: it starts a job once.
Accepted == IF job = "none" THEN "running" ELSE job

\* IncrementRunAttempt, then engine.Dispatch: the engine answers.
Dispatch(w) ==
    /\ wpc[w] = "try"
    /\ attempt' = attempt + 1
    /\ job' = Accepted
    /\ Goto(w, "record")
    /\ UNCHANGED <<runVars, api, task, try, err, lease, upc, faults>>

\* Mutant: one try too many.
DispatchFailsOnceMore(w) ==
    /\ wpc[w] = "try"
    /\ Fault
    /\ attempt' = attempt + 1
    /\ job' \in {job, Accepted}
    /\ IF try[w] <= RetryLimit
       THEN try' = [try EXCEPT ![w] = @ + 1] /\ UNCHANGED wpc
       ELSE Goto(w, "fail") /\ UNCHANGED try
    /\ UNCHANGED <<runVars, api, task, err, lease, upc>>

\* Mutant: a lost answer is taken for an accepted job.
DispatchFailsUnseen(w) ==
    /\ wpc[w] = "try"
    /\ Fault
    /\ attempt' = attempt + 1
    /\ Goto(w, "record")
    /\ UNCHANGED <<runVars, api, task, try, err, lease, upc, job>>

\* No usable answer: the request or its answer is lost, or it is refused (4xx,
\* permanent).  Tried again up to retry_limit, unless refused or out of time.
DispatchFails(w) ==
    /\ wpc[w] = "try"
    /\ Fault
    /\ attempt' = attempt + 1
    /\ \/ /\ job' \in {job, Accepted}
          /\ try[w] < RetryLimit
          /\ try' = [try EXCEPT ![w] = @ + 1]
          /\ UNCHANGED wpc
       \/ /\ job' \in {job, Accepted}
          /\ Goto(w, "fail")
          /\ UNCHANGED try
    /\ UNCHANGED <<runVars, api, task, err, lease, upc>>

\* Mutant: the dispatch is recorded whatever became of the run.
RecordAnyStatus(w) ==
    /\ wpc[w] = "record"
    /\ status' = "running"
    /\ jobID' = TRUE
    /\ UNCHANGED closedFrom
    /\ Return(w, TRUE)
    /\ UNCHANGED <<attempt, api, upc, job, faults>>

\* recordRunDispatched
Record(w) ==
    /\ wpc[w] = "record"
    /\ \/ /\ status = "running"
          /\ Return(w, TRUE)
          /\ UNCHANGED runVars
       \/ /\ status = "pending"
          /\ status' = "running"
          /\ jobID' = TRUE
          /\ UNCHANGED closedFrom
          /\ Return(w, TRUE)
       \/ /\ status \notin {"running", "pending"}
          /\ Goto(w, "recheck")
          /\ err' = [err EXCEPT ![w] = "transition"]
          /\ UNCHANGED <<runVars, task, try, lease>>
    /\ UNCHANGED <<attempt, api, upc, job, faults>>

\* Its transaction fails, perhaps after it was committed.
RecordFails(w) ==
    /\ wpc[w] = "record"
    /\ Fault
    /\ \/ /\ status = "pending"
          /\ status' = "running"
          /\ jobID' = TRUE
       \/ UNCHANGED <<status, jobID>>
    /\ Goto(w, "recheck")
    /\ err' = [err EXCEPT ![w] = "db"]
    /\ UNCHANGED <<closedFrom, attempt, api, task, try, lease, upc, job>>

\* Mutant: a job that could not be recorded is left to itself.
RecheckGivesUp(w) ==
    /\ wpc[w] = "recheck"
    /\ Return(w, TRUE)
    /\ UNCHANGED <<runVars, attempt, api, upc, job, faults>>

\* Read the run again: if it does not run this job, or the read fails, the job
\* is cancelled.
Recheck(w) ==
    /\ wpc[w] = "recheck"
    /\ \/ status = "running" /\ Return(w, TRUE) /\ UNCHANGED faults
       \/ /\ \/ status # "running" /\ UNCHANGED faults
             \/ status = "running" /\ Fault
          /\ Goto(w, "undo") /\ UNCHANGED <<task, try, err, lease>>
    /\ UNCHANGED <<runVars, attempt, api, upc, job>>

\* engine.Cancel, best effort, then return recordErr.
Undo(w) ==
    /\ wpc[w] = "undo"
    /\ \/ /\ job' = IF job = "running" THEN "cancelled" ELSE job
          /\ UNCHANGED faults
       \/ Fault /\ UNCHANGED job
    /\ Return(w, err[w] = "transition")
    /\ UNCHANGED <<runVars, attempt, api, upc>>

\* Mutant: a failed dispatch is not recorded.
FailUnrecorded(w) ==
    /\ wpc[w] = "fail"
    /\ Return(w, TRUE)
    /\ UNCHANGED <<runVars, attempt, api, upc, job, faults>>

\* recordRunDispatchFailed: a run that is no longer pending is left alone.
Fail(w) ==
    /\ wpc[w] = "fail"
    /\ IF status = "pending"
       THEN Close("failed") /\ Return(w, FALSE)
       ELSE UNCHANGED runVars /\ Return(w, TRUE)
    /\ UNCHANGED <<attempt, api, upc, job, faults>>

(***************************************************************************)
(* CancelDispatchedTaskRun: read, cancel at the engine if the run runs,    *)
(* then the local transition.                                              *)
(***************************************************************************)
CancelRead(u) ==
    /\ upc[u] = "idle"
    /\ status \in {"pending", "running"}
    /\ upc' = [upc EXCEPT ![u] = IF status = "pending" THEN "mark" ELSE "engine"]
    /\ UNCHANGED <<runVars, attempt, api, task, workerVars, job, faults>>

\* A job that has ended is refused (409), and so the request is.
CancelEngine(u) ==
    /\ upc[u] = "engine"
    /\ IF job \in {"running", "cancelled"}
       THEN job' = "cancelled" /\ upc' = [upc EXCEPT ![u] = "mark"]
       ELSE job' = job /\ upc' = [upc EXCEPT ![u] = "idle"]
    /\ UNCHANGED <<runVars, attempt, api, task, workerVars, faults>>

CancelMark(u) ==
    /\ upc[u] = "mark"
    /\ upc' = [upc EXCEPT ![u] = "idle"]
    /\ changeTaskRunStatus("cancelled")
    /\ UNCHANGED <<attempt, api, task, workerVars, job, faults>>

(***************************************************************************)
(* The engine's job ends (EngineJob shows that it does), and reconcileRun  *)
(* records how.                                                            *)
(***************************************************************************)
JobEnds ==
    /\ job = "running"
    /\ job' \in JobEnded
    /\ UNCHANGED <<runVars, attempt, api, task, workerVars, upc, faults>>

Reconcile ==
    /\ status = "running"
    /\ job \in JobEnded
    /\ changeTaskRunStatus(job)
    /\ UNCHANGED <<attempt, api, task, workerVars, upc, job, faults>>

HandlerStep(w) ==
    Load(w) \/ Dispatch(w) \/ Record(w) \/ Recheck(w) \/ Undo(w) \/ Fail(w)

Next ==
    \/ CreateTaskRun \/ Enqueue \/ EnqueueFails \/ CancelUnqueued \/ ApiDies
    \/ Requeue \/ JobEnds \/ Reconcile
    \/ \E w \in Workers :
          \/ Take(w) \/ HandlerStep(w)
          \/ DispatchFails(w) \/ RecordFails(w) \/ Abandon(w) \/ LeaseExpires(w)
    \/ \E u \in Users : CancelRead(u) \/ CancelEngine(u) \/ CancelMark(u)

Spec == Init /\ [][Next]_vars

(***************************************************************************)
(* Fairness: processes that are up go on; asynq tries a failed task again  *)
(* (25 times, more than MaxFaults); the reconciler is periodic.  Nothing   *)
(* is assumed of users or of the end of the engine's job.                  *)
(***************************************************************************)
Fairness ==
    /\ WF_vars(Enqueue \/ CancelUnqueued)
    /\ WF_vars(Requeue)
    /\ WF_vars(\E w \in Workers : Take(w))
    /\ \A w \in Workers : WF_vars(HandlerStep(w))
    /\ \A u \in Users : WF_vars(CancelEngine(u) \/ CancelMark(u))
    /\ WF_vars(Reconcile)

FairSpec == Spec /\ Fairness

(***************************************************************************)
(* Properties                                                              *)
(***************************************************************************)

\* Every variable holds a value of its type.
TypeOK ==
    /\ status \in {"none", "pending", "running"} \cup Terminal
    /\ jobID \in BOOLEAN
    /\ attempt \in Nat
    /\ closedFrom \in {"none", "pending", "running"}
    /\ api \in {"idle", "created", "cancelling"}
    /\ task \in {"none", "queued", "active", "parked"}
    /\ wpc \in [Workers -> {"idle", "load", "try", "record", "recheck", "undo", "fail"}]
    /\ try \in [Workers -> 0..RetryLimit]
    /\ err \in [Workers -> {"none", "transition", "db"}]
    /\ lease \in [Workers -> BOOLEAN]
    /\ upc \in [Users -> {"idle", "engine", "mark"}]
    /\ job \in {"none", "running"} \cup JobEnded
    /\ faults \in Nat

\* A run is shown as running only when the engine has its job, whichever of
\* several concurrent dispatches recorded it.
RunningRunHasJob == status = "running" => jobID /\ job # "none"

\* A dispatch that failed or was cancelled is final: no late answer, retry or
\* second worker brings the run back, and a run is only ever closed as success
\* after it ran.
ClosedRunStaysClosed ==
    [][/\ status \in Terminal => UNCHANGED <<status, jobID>>
       /\ status' = "success" /\ status # "success" => status = "running"]_vars

\* A run that is closed while its dispatch is under way does not leave a job
\* behind: the worker that cannot record the dispatch cancels the job, unless
\* a fault cuts it off.
ClosedWhilePendingIsUndone ==
    closedFrom = "pending" /\ faults = 0 ~> job # "running" \/ faults > 0

\* A run that is on the dispatch queue is dispatched or closed in the end, as
\* long as its plan can be built (a refusal of BuildDispatchPlan is a fault).
EnqueuedRunLeavesPending ==
    status = "pending" /\ task # "none" ~> status # "pending"

\* "running jobs are cancelled remotely before the local transition is
\* committed" (CancelDispatchedTaskRun): no running run becomes cancelled while
\* its job still runs.
CancelledRemotelyFirst ==
    [][status = "running" /\ status' = "cancelled" => job # "running"]_vars
=============================================================================
