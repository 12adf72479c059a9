-------------------------- MODULE RunDispatchProofs --------------------------
(***************************************************************************)
(* Proofs about RunDispatch, for every number of workers, users, retries   *)
(* and faults.                                                             *)
(***************************************************************************)
EXTENDS RunDispatch, TLAPS

USE DispatchAssumption

\* A worker that has the engine's answer has a job to record or to undo.
AnsweredHasJob ==
    \A w \in Workers : wpc[w] \in {"record", "recheck", "undo"} => job # "none"

\* The inductive invariant.
DispatchInv == TypeOK /\ RunningRunHasJob /\ AnsweredHasJob

(***************************************************************************)
(* Type correctness                                                        *)
(***************************************************************************)

LEMMA TypeInit == Init => TypeOK
  <1> SUFFICES ASSUME Init PROVE TypeOK
    OBVIOUS
  <1>1. /\ wpc \in [Workers -> {"idle", "load", "try", "record", "recheck", "undo", "fail"}]
        /\ err \in [Workers -> {"none", "transition", "db"}]
        /\ upc \in [Users -> {"idle", "engine", "mark"}]
    BY DEF Init
  <1>2. try \in [Workers -> 0..RetryLimit]
    BY DEF Init
  <1>3. lease \in [Workers -> BOOLEAN]
    BY DEF Init
  <1> QED BY <1>1, <1>2, <1>3 DEF Init, TypeOK

\* A transition of the table keeps the run well typed and starts from an open
\* run; a refused one changes nothing.
LEMMA TransitionType ==
    ASSUME TypeOK, NEW st \in Terminal, changeTaskRunStatus(st)
    PROVE  /\ status' \in {"none", "pending", "running"} \cup Terminal
           /\ jobID' = jobID
           /\ closedFrom' \in {"none", "pending", "running"}
           /\ status' = "running" => status = "running"
           /\ status \in Terminal => status' = status
           /\ status' = "success" /\ status # "success" => status = "running"
  <1>1. CASE <<status, st>> \in validRunTransitions
    <2>1. status \in {"pending", "running"} /\ (st = "success" => status = "running")
      BY <1>1 DEF validRunTransitions, Terminal
    <2> QED BY <1>1, <2>1 DEF changeTaskRunStatus, Close, TypeOK, Terminal
  <1>2. CASE <<status, st>> \notin validRunTransitions
    BY <1>2 DEF changeTaskRunStatus, runVars, TypeOK, Terminal
  <1> QED BY <1>1, <1>2

\* A handler that returns leaves well-typed worker and queue state.
LEMMA ReturnType ==
    ASSUME TypeOK, NEW w \in Workers, NEW ok, Return(w, ok)
    PROVE  /\ wpc' \in [Workers -> {"idle", "load", "try", "record", "recheck", "undo", "fail"}]
           /\ try' \in [Workers -> 0..RetryLimit]
           /\ err' \in [Workers -> {"none", "transition", "db"}]
           /\ lease' \in [Workers -> BOOLEAN]
           /\ task' \in {"none", "queued", "active", "parked"}
           /\ \A v \in Workers : wpc'[v] # "idle" => wpc'[v] = wpc[v]
  <1>1. 0 \in 0..RetryLimit
    OBVIOUS
  <1> QED BY <1>1 DEF TypeOK, Return, Goto

\* The types are kept by the steps of the API process, the queue, the engine
\* and the reconciler.
LEMMA TypeProcess ==
    ASSUME TypeOK,
           CreateTaskRun \/ Enqueue \/ EnqueueFails \/ CancelUnqueued \/ ApiDies
               \/ Requeue \/ JobEnds \/ Reconcile
    PROVE  TypeOK'
  <1>1. CASE CreateTaskRun
    BY <1>1 DEF CreateTaskRun, TypeOK, workerVars
  <1>2. CASE Enqueue
    BY <1>2 DEF Enqueue, TypeOK, runVars, workerVars
  <1>3. CASE EnqueueFails
    BY <1>3 DEF EnqueueFails, Fault, TypeOK, runVars, workerVars
  <1>4. CASE CancelUnqueued
    <2>1. "cancelled" \in Terminal
      BY DEF Terminal
    <2> QED BY <1>4, <2>1, TransitionType DEF CancelUnqueued, TypeOK, workerVars
  <1>5. CASE ApiDies
    BY <1>5 DEF ApiDies, Fault, TypeOK, runVars, workerVars
  <1>6. CASE Requeue
    BY <1>6 DEF Requeue, TypeOK, runVars, workerVars
  <1>7. CASE JobEnds
    BY <1>7 DEF JobEnds, TypeOK, runVars, workerVars
  <1>8. CASE Reconcile
    <2>1. job \in Terminal
      BY <1>8 DEF Reconcile, JobEnded, Terminal
    <2> QED BY <1>8, <2>1, TransitionType DEF Reconcile, TypeOK, workerVars
  <1> QED BY <1>1, <1>2, <1>3, <1>4, <1>5, <1>6, <1>7, <1>8

\* The types are kept by the steps of a dispatch worker.
LEMMA TypeWorker ==
    ASSUME TypeOK, NEW w \in Workers,
           Take(w) \/ HandlerStep(w) \/ DispatchFails(w) \/ RecordFails(w)
               \/ Abandon(w) \/ LeaseExpires(w)
    PROVE  TypeOK'
  <1>0. Accepted \in {"none", "running"} \cup JobEnded
    BY DEF Accepted, TypeOK
  <1>1. CASE Take(w)
    BY <1>1 DEF Take, Goto, TypeOK, runVars
  <1>2. CASE Load(w)
    <2>1. CASE status = "pending"
      BY <1>2, <2>1 DEF Load, Goto, TypeOK, runVars
    <2>2. CASE status # "pending"
      BY <1>2, <2>2, ReturnType DEF Load, TypeOK, runVars
    <2> QED BY <2>1, <2>2
  <1>3. CASE Dispatch(w)
    BY <1>0, <1>3 DEF Dispatch, Goto, TypeOK, runVars
  <1>4. CASE Record(w)
    <2>1. CASE status = "running"
      BY <1>4, <2>1, ReturnType DEF Record, TypeOK, runVars
    <2>2. CASE status = "pending"
      BY <1>4, <2>2, ReturnType DEF Record, TypeOK
    <2>3. CASE status # "running" /\ status # "pending"
      BY <1>4, <2>3 DEF Record, Goto, TypeOK, runVars
    <2> QED BY <2>1, <2>2, <2>3
  <1>5. CASE Recheck(w)
    <2>0. UNCHANGED <<status, jobID, closedFrom, attempt, api, upc, job>>
      BY <1>5 DEF Recheck, runVars
    <2>1. CASE Return(w, TRUE) /\ UNCHANGED faults
      <3>1. /\ wpc' \in [Workers -> {"idle", "load", "try", "record", "recheck", "undo", "fail"}]
            /\ try' \in [Workers -> 0..RetryLimit]
            /\ err' \in [Workers -> {"none", "transition", "db"}]
            /\ lease' \in [Workers -> BOOLEAN]
            /\ task' \in {"none", "queued", "active", "parked"}
        BY <2>1, ReturnType
      <3> QED BY <2>0, <2>1, <3>1 DEF TypeOK
    <2>2. CASE Goto(w, "undo") /\ UNCHANGED <<task, try, err, lease>>
      <3>1. faults' \in Nat
        <4>1. UNCHANGED faults \/ Fault
          BY <1>5 DEF Recheck
        <4> QED BY <4>1 DEF Fault, TypeOK
      <3> QED BY <2>0, <2>2, <3>1 DEF Goto, TypeOK
    <2> QED BY <1>5, <2>1, <2>2 DEF Recheck
  <1>6. CASE Undo(w)
    BY <1>6, ReturnType DEF Undo, Fault, JobEnded, TypeOK, runVars
  <1>7. CASE Fail(w)
    BY <1>7, ReturnType DEF Fail, Close, Terminal, TypeOK, runVars
  <1>8. CASE DispatchFails(w)
    <2>1. job' \in {"none", "running"} \cup JobEnded /\ attempt' \in Nat /\ faults' \in Nat
      BY <1>0, <1>8 DEF DispatchFails, Fault, TypeOK
    <2>2. /\ wpc' \in [Workers -> {"idle", "load", "try", "record", "recheck", "undo", "fail"}]
          /\ try' \in [Workers -> 0..RetryLimit]
      BY <1>8 DEF DispatchFails, Goto, TypeOK
    <2> QED BY <1>8, <2>1, <2>2 DEF DispatchFails, TypeOK, runVars
  <1>9. CASE RecordFails(w)
    <2>1. faults' \in Nat
      BY <1>9 DEF RecordFails, Fault, TypeOK
    <2>2. status' \in {"none", "pending", "running"} \cup Terminal /\ jobID' \in BOOLEAN
      BY <1>9 DEF RecordFails, TypeOK
    <2>3. /\ wpc' \in [Workers -> {"idle", "load", "try", "record", "recheck", "undo", "fail"}]
          /\ err' \in [Workers -> {"none", "transition", "db"}]
      BY <1>9 DEF RecordFails, Goto, TypeOK
    <2> QED BY <1>9, <2>1, <2>2, <2>3 DEF RecordFails, TypeOK
  <1>10. CASE Abandon(w)
    <2>1. faults' \in Nat
      BY <1>10 DEF Abandon, Fault, TypeOK
    <2>2. Return(w, FALSE)
      BY <1>10 DEF Abandon
    <2> QED BY <1>10, <2>1, <2>2, ReturnType DEF Abandon, TypeOK, runVars
  <1>11. CASE LeaseExpires(w)
    BY <1>11 DEF LeaseExpires, Fault, TypeOK, runVars
  <1> QED BY <1>1, <1>2, <1>3, <1>4, <1>5, <1>6, <1>7, <1>8, <1>9, <1>10, <1>11 DEF HandlerStep

\* The types are kept by the steps of a cancelling user.
LEMMA TypeUser ==
    ASSUME TypeOK, NEW u \in Users, CancelRead(u) \/ CancelEngine(u) \/ CancelMark(u)
    PROVE  TypeOK'
  <1>1. CASE CancelRead(u)
    BY <1>1 DEF CancelRead, TypeOK, runVars, workerVars
  <1>2. CASE CancelEngine(u)
    BY <1>2 DEF CancelEngine, JobEnded, TypeOK, runVars, workerVars
  <1>3. CASE CancelMark(u)
    <2>1. "cancelled" \in Terminal
      BY DEF Terminal
    <2> QED BY <1>3, <2>1, TransitionType DEF CancelMark, TypeOK, workerVars
  <1> QED BY <1>1, <1>2, <1>3

LEMMA TypeStep == ASSUME TypeOK, [Next]_vars PROVE TypeOK'
  <1>1. CASE UNCHANGED vars
    BY <1>1 DEF TypeOK, vars, runVars, workerVars
  <1>2. CASE Next
    BY <1>2, TypeProcess, TypeWorker, TypeUser DEF Next
  <1> QED BY <1>1, <1>2

\* Every variable holds a value of its type in every reachable state.
THEOREM TypeCorrect == Spec => []TypeOK
  BY TypeInit, TypeStep, PTL DEF Spec

(***************************************************************************)
(* A running run has its job                                               *)
(***************************************************************************)

\* What no step does: take the job away, or make a worker hold an answer
\* without a job; only a worker with an answer makes the run running.
LEMMA JobStep ==
    ASSUME DispatchInv, [Next]_vars
    PROVE  /\ job # "none" => job' # "none"
           /\ RunningRunHasJob'
           /\ AnsweredHasJob'
  <1> USE DEF DispatchInv, RunningRunHasJob, AnsweredHasJob
  <1>1. CASE UNCHANGED vars
    BY <1>1 DEF vars, runVars, workerVars
  <1>2. CASE CreateTaskRun
    BY <1>2 DEF CreateTaskRun, workerVars
  <1>3. CASE Enqueue \/ EnqueueFails \/ ApiDies \/ Requeue
    BY <1>3 DEF Enqueue, EnqueueFails, ApiDies, Requeue, runVars, workerVars
  <1>4. CASE CancelUnqueued
    <2>1. "cancelled" \in Terminal
      BY DEF Terminal
    <2> QED BY <1>4, <2>1, TransitionType DEF CancelUnqueued, workerVars
  <1>5. CASE JobEnds
    BY <1>5 DEF JobEnds, JobEnded, runVars, workerVars
  <1>6. CASE Reconcile
    <2>1. job \in Terminal
      BY <1>6 DEF Reconcile, JobEnded, Terminal
    <2> QED BY <1>6, <2>1, TransitionType DEF Reconcile, workerVars
  <1>7. ASSUME NEW w \in Workers, Take(w) \/ LeaseExpires(w)
        PROVE  /\ job # "none" => job' # "none"
               /\ RunningRunHasJob' /\ AnsweredHasJob'
    BY <1>7 DEF Take, LeaseExpires, Goto, runVars, TypeOK
  <1>8. ASSUME NEW w \in Workers, Load(w)
        PROVE  /\ job # "none" => job' # "none"
               /\ RunningRunHasJob' /\ AnsweredHasJob'
    BY <1>8, ReturnType DEF Load, Goto, runVars, TypeOK
  <1>9. ASSUME NEW w \in Workers, Dispatch(w) \/ DispatchFails(w)
        PROVE  /\ job # "none" => job' # "none"
               /\ RunningRunHasJob' /\ AnsweredHasJob'
    <2>1. CASE Dispatch(w)
      BY <2>1 DEF Dispatch, Accepted, Goto, runVars, TypeOK
    <2>2. CASE DispatchFails(w)
      <3>1. job # "none" => job' # "none"
        BY <2>2 DEF DispatchFails, Accepted
      <3>2. \A v \in Workers : wpc'[v] # "fail" => wpc'[v] = wpc[v]
        BY <2>2 DEF DispatchFails, Goto, TypeOK
      <3> QED BY <2>2, <3>1, <3>2 DEF DispatchFails, runVars
    <2> QED BY <1>9, <2>1, <2>2
  <1>10. ASSUME NEW w \in Workers, Record(w)
         PROVE  /\ job # "none" => job' # "none"
                /\ RunningRunHasJob' /\ AnsweredHasJob'
    <2>1. CASE status = "running"
      BY <1>10, <2>1, ReturnType DEF Record, runVars
    <2>2. CASE status = "pending"
      BY <1>10, <2>2, ReturnType DEF Record
    <2>3. CASE status # "running" /\ status # "pending"
      BY <1>10, <2>3 DEF Record, Goto, runVars, TypeOK
    <2> QED BY <2>1, <2>2, <2>3
  <1>11. ASSUME NEW w \in Workers, RecordFails(w)
         PROVE  /\ job # "none" => job' # "none"
                /\ RunningRunHasJob' /\ AnsweredHasJob'
    BY <1>11 DEF RecordFails, Goto, TypeOK
  <1>12. ASSUME NEW w \in Workers, Recheck(w)
         PROVE  /\ job # "none" => job' # "none"
                /\ RunningRunHasJob' /\ AnsweredHasJob'
    BY <1>12, ReturnType DEF Recheck, Goto, runVars, TypeOK
  <1>13. ASSUME NEW w \in Workers, Undo(w)
         PROVE  /\ job # "none" => job' # "none"
                /\ RunningRunHasJob' /\ AnsweredHasJob'
    BY <1>13, ReturnType DEF Undo, runVars
  <1>14. ASSUME NEW w \in Workers, Fail(w)
         PROVE  /\ job # "none" => job' # "none"
                /\ RunningRunHasJob' /\ AnsweredHasJob'
    BY <1>14, ReturnType DEF Fail, Close, runVars
  <1>15. ASSUME NEW w \in Workers, Abandon(w)
         PROVE  /\ job # "none" => job' # "none"
                /\ RunningRunHasJob' /\ AnsweredHasJob'
    BY <1>15, ReturnType DEF Abandon, runVars
  <1>16. ASSUME NEW u \in Users, CancelRead(u) \/ CancelEngine(u) \/ CancelMark(u)
         PROVE  /\ job # "none" => job' # "none"
                /\ RunningRunHasJob' /\ AnsweredHasJob'
    <2>1. CASE CancelRead(u)
      BY <2>1 DEF CancelRead, runVars, workerVars
    <2>2. CASE CancelEngine(u)
      BY <2>2 DEF CancelEngine, runVars, workerVars
    <2>3. CASE CancelMark(u)
      <3>1. "cancelled" \in Terminal
        BY DEF Terminal
      <3> QED BY <2>3, <3>1, TransitionType DEF CancelMark, workerVars
    <2> QED BY <1>16, <2>1, <2>2, <2>3
  <1> QED BY <1>1, <1>2, <1>3, <1>4, <1>5, <1>6, <1>7, <1>8, <1>9, <1>10, <1>11,
             <1>12, <1>13, <1>14, <1>15, <1>16 DEF Next, HandlerStep

\* Whichever worker recorded the dispatch, a run shown as running has a job at
\* the engine (recordRunDispatched).
THEOREM RunningHasJob == Spec => []RunningRunHasJob
  <1>1. Init => DispatchInv
    BY TypeInit DEF Init, DispatchInv, RunningRunHasJob, AnsweredHasJob
  <1>2. DispatchInv /\ [Next]_vars => DispatchInv'
    BY JobStep, TypeStep DEF DispatchInv
  <1>3. DispatchInv => RunningRunHasJob
    BY DEF DispatchInv
  <1> QED BY <1>1, <1>2, <1>3, PTL DEF Spec

(***************************************************************************)
(* A closed run stays closed                                               *)
(***************************************************************************)

\* Nothing writes the row of a closed run, and only a running run succeeds.
LEMMA ClosedStep ==
    ASSUME TypeOK, [Next]_vars
    PROVE  /\ status \in Terminal => UNCHANGED <<status, jobID>>
           /\ status' = "success" /\ status # "success" => status = "running"
  <1>1. CASE UNCHANGED <<status, jobID>>
    BY <1>1
  <1>2. CASE CreateTaskRun
    BY <1>2 DEF CreateTaskRun, Terminal
  <1>3. ASSUME NEW st \in Terminal, changeTaskRunStatus(st)
        PROVE  /\ status \in Terminal => UNCHANGED <<status, jobID>>
               /\ status' = "success" /\ status # "success" => status = "running"
    BY <1>3, TransitionType
  <1>4. ASSUME NEW w \in Workers, Record(w) \/ RecordFails(w) \/ Fail(w)
        PROVE  /\ status \in Terminal => UNCHANGED <<status, jobID>>
               /\ status' = "success" /\ status # "success" => status = "running"
    BY <1>4 DEF Record, RecordFails, Fail, Close, Terminal, runVars
  <1>5. CancelUnqueued \/ Reconcile \/ (\E u \in Users : CancelMark(u)) =>
            \E st \in Terminal : changeTaskRunStatus(st)
    BY DEF CancelUnqueued, Reconcile, CancelMark, JobEnded, Terminal
  <1>6. Enqueue \/ EnqueueFails \/ ApiDies \/ Requeue \/ JobEnds =>
            UNCHANGED <<status, jobID>>
    BY DEF Enqueue, EnqueueFails, ApiDies, Requeue, JobEnds, runVars
  <1>7. ASSUME NEW w \in Workers,
               Take(w) \/ Load(w) \/ Dispatch(w) \/ Recheck(w) \/ Undo(w)
                   \/ DispatchFails(w) \/ Abandon(w) \/ LeaseExpires(w)
        PROVE  UNCHANGED <<status, jobID>>
    BY <1>7 DEF Take, Load, Dispatch, Recheck, Undo, DispatchFails, Abandon,
                LeaseExpires, runVars
  <1>8. ASSUME NEW u \in Users, CancelRead(u) \/ CancelEngine(u)
        PROVE  UNCHANGED <<status, jobID>>
    BY <1>8 DEF CancelRead, CancelEngine, runVars
  <1>9. UNCHANGED vars => UNCHANGED <<status, jobID>>
    BY DEF vars, runVars
  <1> QED BY <1>1, <1>2, <1>3, <1>4, <1>5, <1>6, <1>7, <1>8, <1>9 DEF Next, HandlerStep

\* No late answer, retry, second worker or cancel writes the row of a closed
\* run (recordRunDispatched, recordRunDispatchFailed, changeTaskRunStatus).
THEOREM ClosedIsFinal == Spec => ClosedRunStaysClosed
  <1>1. TypeOK /\ [Next]_vars =>
            [/\ status \in Terminal => UNCHANGED <<status, jobID>>
             /\ status' = "success" /\ status # "success" => status = "running"]_vars
    BY ClosedStep
  <1> QED BY <1>1, TypeCorrect, PTL DEF Spec, ClosedRunStaysClosed
=============================================================================
