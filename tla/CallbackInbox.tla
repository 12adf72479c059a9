---------------------------- MODULE CallbackInbox ----------------------------
(***************************************************************************)
(* The durable callback inbox of one dispatched, passive discovery run:    *)
(* internal/discovery/callback.go (receipt, recovery sweep),               *)
(* callback_ingest.go (completion and finalisation), worker.go (the asynq  *)
(* ingest handler), enqueue.go (the queue boundary), and the three other   *)
(* writers of the run row that race with it: the reconciler, the timeout   *)
(* closure and the user's cancel (service.go).                             *)
(*                                                                         *)
(* Every database transaction is one step; everything the code does        *)
(* between two transactions or calls can be interleaved or cut by a fault. *)
(* A rejected callback (bad signature, malformed payload, a different      *)
(* payload for a known seq, a new seq for a closed run) changes nothing    *)
(* but the audit log, so rejections are stuttering steps.                  *)
(***************************************************************************)
EXTENDS Naturals, FiniteSets

CONSTANTS
    MaxSeq,         \* highest sequence number the engine uses (code: 10000)
    Payloads,       \* the valid batches: records [status, count]
    EngineCounts,   \* result counts the engine may report for its job
    Workers,        \* concurrent asynq ingest workers
    Schedulers,     \* concurrent executions of the periodic reconcile task
    Operators,      \* concurrent user requests: reconcile now
    Users,          \* concurrent user requests: cancel the run
    HasTimeout,     \* timeout_seconds > 0
    MaxAttempts,    \* claims a row may consume (code: 10)
    MaxFaults       \* bound on crashes, lost leases, failed calls

Seqs == 1..MaxSeq
Reconcilers == Schedulers \cup Operators
TerminalStatuses == {"success", "partial_success", "failed", "cancelled"}
RunStatuses == {"running"} \cup TerminalStatuses
NoPayload == [status |-> "running", count |-> 0]

ASSUME ConstantsOK ==
    /\ MaxSeq \in Nat \ {0}
    /\ MaxAttempts \in Nat \ {0}
    /\ MaxFaults \in Nat
    /\ Payloads \subseteq [status : RunStatuses, count : Nat]
    /\ EngineCounts \subseteq Nat
    /\ Schedulers \cap Operators = {}
    /\ HasTimeout \in BOOLEAN

VARIABLES
    \* task_run
    status,     \* task_run.status, once dispatched
    count,      \* task_run.result_count
    closedBy,   \* history: which writer closed the run
    \* discovery_callback, one row per seq
    ingest,     \* ingest_status, or "absent" when there is no row
    payload,    \* payload_json: the status it carries and its fact count
    attempt,    \* ingest_attempt
    stale,      \* updated_at is more than five minutes old
    facts,      \* seqs whose facts are in the fact tables
    \* Redis and the processes
    task,       \* asynq task ingest:<run>:<seq>
    inflight,   \* seqs of API requests between their commit and their enqueue
    wpc, wseq,  \* position of each worker in IngestHandler.Handle; its seq, or 0
    lease,      \* the worker still holds the asynq lease of its task
    sweep,      \* refs a recovery sweep has listed and not yet enqueued
    rec,        \* position and local variables of each reconciler
    engine,     \* the engine's status for the job, as last asked for
    deadline,   \* dispatched_at + timeout_seconds has passed
    cancelling, \* users whose cancel has reached the engine, not yet the run row
    faults      \* faults so far

runVars == <<status, count, closedBy>>
rowVars == <<ingest, payload, attempt, stale, facts>>
workerVars == <<wpc, wseq, lease>>
extVars == <<engine, deadline, cancelling>>
vars == <<runVars, rowVars, task, inflight, workerVars, sweep, rec, extVars, faults>>

IngestStatuses == {"absent", "pending", "processing", "failed", "processed"}
TaskStates == {"none", "queued", "active", "parked"}
WorkerPCs == {"idle", "got", "busy", "claimed", "failing", "ingested"}
IdleRec == [pc |-> "idle", snap |-> 0, timeout |-> FALSE, goal |-> "running"]
RecRecords == [pc : {"idle", "listed", "polled", "record"}, snap : Nat,
               timeout : BOOLEAN, goal : RunStatuses]

(***************************************************************************)
(* callbackFinalState: the lowest final-phase row ends the stream, and the *)
(* run may close once every seq up to that marker is processed.  Rows      *)
(* beyond the marker are ignored.                                          *)
(***************************************************************************)
EndsAt(ing, m) ==
    /\ payload[m].status # "running"
    /\ \A s \in 1..m : ing[s] = "processed"
    /\ \A s \in 1..(m - 1) : payload[s].status = "running"

Ready(ing) == \E m \in Seqs : EndsAt(ing, m)

Present(s) == ingest[s] # "absent"

Fault ==
    /\ faults < MaxFaults
    /\ faults' = faults + 1

Init ==
    /\ status = "running"
    /\ count = 0
    /\ closedBy = "nobody"
    /\ ingest = [s \in Seqs |-> "absent"]
    /\ payload = [s \in Seqs |-> NoPayload]
    /\ attempt = [s \in Seqs |-> 0]
    /\ stale = [s \in Seqs |-> FALSE]
    /\ facts = {}
    /\ task = [s \in Seqs |-> "none"]
    /\ inflight = {}
    /\ wpc = [w \in Workers |-> "idle"]
    /\ wseq = [w \in Workers |-> 0]
    /\ lease = [w \in Workers |-> FALSE]
    /\ sweep = {}
    /\ rec = [r \in Reconcilers |-> IdleRec]
    /\ engine = "running"
    /\ deadline = FALSE
    /\ cancelling = {}
    /\ faults = 0

(***************************************************************************)
(* HandleCallback: the receipt transaction, then the enqueue.              *)
(***************************************************************************)

\* Mutant: a closed run still accepts new batches.
ReceiveAnyStatus(s, p) ==
    /\ ~Present(s)
    /\ ingest' = [ingest EXCEPT ![s] = "pending"]
    /\ payload' = [payload EXCEPT ![s] = p]
    /\ inflight' = inflight \cup {s}
    /\ UNCHANGED <<runVars, attempt, stale, facts, task, workerVars,
                   sweep, rec, extVars, faults>>

\* First delivery: the row is inserted under the run's lock.
Receive(s, p) ==
    /\ status = "running"
    /\ ~Present(s)
    /\ ingest' = [ingest EXCEPT ![s] = "pending"]
    /\ payload' = [payload EXCEPT ![s] = p]
    /\ inflight' = inflight \cup {s}
    /\ UNCHANGED <<runVars, attempt, stale, facts, task, workerVars,
                   sweep, rec, extVars, faults>>

\* Redelivery of the same bytes, whatever the run's status: enqueued again if
\* the row is still pending (otherwise it is answered and nothing changes).
Redeliver(s) ==
    /\ ingest[s] = "pending"
    /\ inflight' = inflight \cup {s}
    /\ UNCHANGED <<runVars, rowVars, task, workerVars, sweep, rec, extVars, faults>>

\* The API process has no task runner: an existing task is left as it is.
EnqueueFromAPI(s) == [task EXCEPT ![s] = IF @ = "none" THEN "queued" ELSE @]

\* enqueueStoredCallback in the API process: enqueue, stamp enqueued_at (which
\* also refreshes updated_at), answer 2xx.
ApiEnqueue(s) ==
    /\ s \in inflight
    /\ inflight' = inflight \ {s}
    /\ task' = EnqueueFromAPI(s)
    /\ stale' = [stale EXCEPT ![s] = FALSE]
    /\ UNCHANGED <<runVars, ingest, payload, attempt, facts, workerVars,
                   sweep, rec, extVars, faults>>

\* The enqueue or the stamp fails (503), or the process dies: no answer.
ApiDrop(s) ==
    /\ s \in inflight
    /\ Fault
    /\ inflight' = inflight \ {s}
    /\ task' \in {task, EnqueueFromAPI(s)}
    /\ UNCHANGED <<runVars, rowVars, workerVars, sweep, rec, extVars>>

(***************************************************************************)
(* RecoverPendingCallbacks, every 30 seconds.  The worker process has a    *)
(* task runner, so a parked task is made to run now.                       *)
(***************************************************************************)

\* Mutants: the sweep releases claims without attempts left, or none at all.
ReleasableAlways(s) == ingest[s] = "processing" /\ stale[s]
ReleasableNever(s) == FALSE

Releasable(s) == ingest[s] = "processing" /\ attempt[s] < MaxAttempts /\ stale[s]

SweepStart ==
    /\ sweep = {}
    /\ ingest' = [s \in Seqs |-> IF Releasable(s) THEN "pending" ELSE ingest[s]]
    /\ stale' = [s \in Seqs |-> IF Releasable(s) THEN FALSE ELSE stale[s]]
    /\ sweep' = {s \in Seqs : \/ ingest'[s] = "pending"
                              \/ ingest'[s] = "failed" /\ attempt[s] < MaxAttempts}
    /\ UNCHANGED <<runVars, payload, attempt, facts, task, inflight, workerVars,
                   rec, extVars, faults>>

SweepEnqueue(s) ==
    /\ s \in sweep
    /\ sweep' = sweep \ {s}
    /\ task' = [task EXCEPT ![s] = IF @ \in {"none", "parked"} THEN "queued" ELSE @]
    /\ stale' = [stale EXCEPT ![s] = FALSE]
    /\ UNCHANGED <<runVars, ingest, payload, attempt, facts, inflight, workerVars,
                   rec, extVars, faults>>

\* One enqueue of the sweep fails; the loop goes on with the next row.
SweepSkip(s) ==
    /\ s \in sweep
    /\ Fault
    /\ sweep' = sweep \ {s}
    /\ UNCHANGED <<runVars, rowVars, task, inflight, workerVars, rec, extVars>>

(***************************************************************************)
(* The queue, external: asynq delivers a queued task to an idle worker,    *)
(* keeps a failed one parked (retry backoff or archive) and gives a task   *)
(* whose lease ran out to another worker.                                  *)
(***************************************************************************)

\* Backoff over.  An archived task never gets here, so this is not fair.
Requeue(s) ==
    /\ task[s] = "parked"
    /\ task' = [task EXCEPT ![s] = "queued"]
    /\ UNCHANGED <<runVars, rowVars, inflight, workerVars, sweep, rec, extVars, faults>>

\* Redis loses the task, and with it the lease of the worker that runs it.
RedisLoss(s) ==
    /\ task[s] # "none"
    /\ Fault
    /\ task' = [task EXCEPT ![s] = "none"]
    /\ lease' = [w \in Workers |-> lease[w] /\ wseq[w] # s]
    /\ UNCHANGED <<runVars, rowVars, inflight, wpc, wseq, sweep, rec, extVars>>

\* A paused worker loses its lease and later goes on where it stopped.
LeaseExpires(w) ==
    /\ lease[w]
    /\ Fault
    /\ lease' = [lease EXCEPT ![w] = FALSE]
    /\ task' = [task EXCEPT ![wseq[w]] = "parked"]
    /\ UNCHANGED <<runVars, rowVars, inflight, wpc, wseq, sweep, rec, extVars>>

\* The handler returns: asynq drops the task of a nil return, parks the other.
Finish(w, ok) ==
    /\ wpc' = [wpc EXCEPT ![w] = "idle"]
    /\ wseq' = [wseq EXCEPT ![w] = 0]
    /\ lease' = [lease EXCEPT ![w] = FALSE]
    /\ task' = IF lease[w]
               THEN [task EXCEPT ![wseq[w]] = IF ok THEN "none" ELSE "parked"]
               ELSE task

(***************************************************************************)
(* IngestHandler.Handle                                                    *)
(***************************************************************************)

\* Look the row up; a processed row ends the task.
Take(w, s) ==
    /\ wpc[w] = "idle"
    /\ task[s] = "queued"
    /\ IF ingest[s] = "processed"
       THEN /\ task' = [task EXCEPT ![s] = "none"]
            /\ UNCHANGED workerVars
       ELSE /\ task' = [task EXCEPT ![s] = "active"]
            /\ wpc' = [wpc EXCEPT ![w] = "got"]
            /\ wseq' = [wseq EXCEPT ![w] = s]
            /\ lease' = [lease EXCEPT ![w] = TRUE]
    /\ UNCHANGED <<runVars, rowVars, inflight, sweep, rec, extVars, faults>>

\* Mutant: the claim forgets the bound on attempts.
ClaimableAlways(s) ==
    ingest[s] \in {"pending", "failed"} \/ (ingest[s] = "processing" /\ stale[s])

\* MarkDiscoveryCallbackProcessing's WHERE clause.
Claimable(s) ==
    /\ \/ ingest[s] \in {"pending", "failed"}
       \/ ingest[s] = "processing" /\ stale[s]
    /\ attempt[s] < MaxAttempts

Claim(w) ==
    /\ wpc[w] = "got"
    /\ LET s == wseq[w] IN
       IF Claimable(s)
       THEN /\ ingest' = [ingest EXCEPT ![s] = "processing"]
            /\ attempt' = [attempt EXCEPT ![s] = @ + 1]
            /\ stale' = [stale EXCEPT ![s] = FALSE]
            /\ wpc' = [wpc EXCEPT ![w] = "claimed"]
       ELSE /\ wpc' = [wpc EXCEPT ![w] = "busy"]
            /\ UNCHANGED <<ingest, attempt, stale>>
    /\ UNCHANGED <<runVars, payload, facts, task, inflight, wseq, lease, sweep,
                   rec, extVars, faults>>

\* Not claimed: nil if somebody processed the row meanwhile, else busy.
Recheck(w) ==
    /\ wpc[w] = "busy"
    /\ Finish(w, ingest[wseq[w]] = "processed")
    /\ UNCHANGED <<runVars, rowVars, inflight, sweep, rec, extVars, faults>>

\* IngestCallbackFacts commits: upserts, so a second time adds nothing.
IngestFacts(w) ==
    /\ wpc[w] = "claimed"
    /\ facts' = facts \cup {wseq[w]}
    /\ wpc' = [wpc EXCEPT ![w] = "ingested"]
    /\ UNCHANGED <<runVars, ingest, payload, attempt, stale, task, inflight, wseq,
                   lease, sweep, rec, extVars, faults>>

\* Mutant: the handler drops the error of the fact ingestion.
IngestFailsUnseen(w) ==
    /\ wpc[w] = "claimed"
    /\ Fault
    /\ wpc' = [wpc EXCEPT ![w] = "ingested"]
    /\ UNCHANGED <<runVars, rowVars, task, inflight, wseq, lease, sweep, rec, extVars>>

IngestFails(w) ==
    /\ wpc[w] = "claimed"
    /\ Fault
    /\ wpc' = [wpc EXCEPT ![w] = "failing"]
    /\ UNCHANGED <<runVars, rowVars, task, inflight, wseq, lease, sweep, rec, extVars>>

\* FailDiscoveryCallbackIngest: only a row still "processing" is touched,
\* whoever's claim that is.
MarkFailed(w) ==
    /\ wpc[w] = "failing"
    /\ LET s == wseq[w] IN
       IF ingest[s] = "processing"
       THEN /\ ingest' = [ingest EXCEPT ![s] = "failed"]
            /\ stale' = [stale EXCEPT ![s] = FALSE]
       ELSE UNCHANGED <<ingest, stale>>
    /\ Finish(w, FALSE)
    /\ UNCHANGED <<runVars, payload, attempt, facts, inflight, sweep, rec, extVars, faults>>

\* Mutant: the final state is computed from the rows as read before the mark.
CompleteRowStale(s) ==
    /\ ingest' = [ingest EXCEPT ![s] = "processed"]
    /\ stale' = [stale EXCEPT ![s] = FALSE]
    /\ count' = IF status = "running" THEN count + payload[s].count ELSE count
    /\ IF status = "running" /\ Ready(ingest)
       THEN /\ \E m \in Seqs : EndsAt(ingest, m) /\ status' = payload[m].status
            /\ closedBy' = "callbacks"
       ELSE UNCHANGED <<status, closedBy>>

\* Mutant: the final batch closes the run whatever is missing before it.
CompleteRowEager(s) ==
    /\ ingest' = [ingest EXCEPT ![s] = "processed"]
    /\ stale' = [stale EXCEPT ![s] = FALSE]
    /\ count' = IF status = "running" THEN count + payload[s].count ELSE count
    /\ IF status = "running" /\ payload[s].status # "running"
       THEN status' = payload[s].status /\ closedBy' = "callbacks"
       ELSE UNCHANGED <<status, closedBy>>

\* The effect of a committed CompleteDiscoveryCallbackIngest on a row that is
\* "processing": mark it, count it into an open run, and close the run if that
\* completes the stream.
CompleteRow(s) ==
    LET done == [ingest EXCEPT ![s] = "processed"] IN
    /\ ingest' = done
    /\ stale' = [stale EXCEPT ![s] = FALSE]
    /\ count' = IF status = "running" THEN count + payload[s].count ELSE count
    /\ IF status = "running" /\ Ready(done)
       THEN /\ \E m \in Seqs : EndsAt(done, m) /\ status' = payload[m].status
            /\ closedBy' = "callbacks"
       ELSE UNCHANGED <<status, closedBy>>

\* Mutant: a row that is processed already is completed again.
CompleteTwice(w) ==
    /\ wpc[w] = "ingested"
    /\ IF ingest[wseq[w]] \in {"processing", "processed"}
       THEN CompleteRow(wseq[w])
       ELSE UNCHANGED <<runVars, ingest, stale>>
    /\ Finish(w, ingest[wseq[w]] \in {"processing", "processed"})
    /\ UNCHANGED <<payload, attempt, facts, inflight, sweep, rec, extVars, faults>>

Complete(w) ==
    /\ wpc[w] = "ingested"
    /\ IF ingest[wseq[w]] = "processing"
       THEN CompleteRow(wseq[w])
       ELSE UNCHANGED <<runVars, ingest, stale>>
    /\ Finish(w, ingest[wseq[w]] \in {"processing", "processed"})
    /\ UNCHANGED <<payload, attempt, facts, inflight, sweep, rec, extVars, faults>>

\* The worker dies, or a database call of the handler fails: the row keeps
\* the status it has.
Abandon(w) ==
    /\ wpc[w] # "idle"
    /\ Fault
    /\ Finish(w, FALSE)
    /\ UNCHANGED <<runVars, rowVars, inflight, sweep, rec, extVars>>

Holds(w, s) == wseq[w] = s /\ wpc[w] \in {"claimed", "failing", "ingested"}

\* Five minutes without a write to a claimed row: normal once its worker is
\* gone, a fault (a stuck worker) while it is alive.
Age(s) ==
    /\ ingest[s] = "processing"
    /\ ~stale[s]
    /\ stale' = [stale EXCEPT ![s] = TRUE]
    /\ IF \E w \in Workers : Holds(w, s) THEN Fault ELSE UNCHANGED faults
    /\ UNCHANGED <<runVars, ingest, payload, attempt, facts, task, inflight,
                   workerVars, sweep, rec, extVars>>

(***************************************************************************)
(* reconcileRun.  The scheduler reads the run with its list of running     *)
(* runs, an operator reads it for one request; the status, the rows and    *)
(* the final transaction come later, each on its own.                      *)
(***************************************************************************)
RecList(r) ==
    /\ rec[r].pc = "idle"
    /\ status = "running"
    /\ rec' = [rec EXCEPT ![r] = [pc |-> "listed", snap |-> count,
                                  timeout |-> deadline /\ r \in Schedulers,
                                  goal |-> "running"]]
    /\ UNCHANGED <<runVars, rowVars, task, inflight, workerVars, sweep, extVars, faults>>

\* engine.Status answers.  The engine's job may have ended in any way since it
\* was last asked; once ended, it stays so.
RecPoll(r) ==
    /\ rec[r].pc = "listed"
    /\ engine' \in IF engine = "running" THEN RunStatuses ELSE {engine}
    /\ rec' = [rec EXCEPT ![r].pc = "polled", ![r].goal = engine']
    /\ UNCHANGED <<runVars, rowVars, task, inflight, workerVars, sweep, deadline,
                   cancelling, faults>>

\* engine.Status fails, or the process dies: nothing is recorded.
RecAbort(r) ==
    /\ rec[r].pc # "idle"
    /\ Fault
    /\ rec' = [rec EXCEPT ![r] = IdleRec]
    /\ UNCHANGED <<runVars, rowVars, task, inflight, workerVars, sweep, extVars>>

\* The guard against closing a stream that is still being ingested: asked only
\* when the engine reports success or partial success, and only of a run that
\* has callbacks.
StillIngesting(st) ==
    /\ st \in {"success", "partial_success"}
    /\ \E s \in Seqs : Present(s)
    /\ ~Ready(ingest)

\* Mutant: unfinished ingestion holds back the timeout too.
RecDecideWaits(r) ==
    /\ rec[r].pc = "polled"
    /\ LET seen == rec[r].goal IN
       rec' = [rec EXCEPT ![r] =
                 IF StillIngesting(seen) THEN IdleRec
                 ELSE IF seen # "running" THEN [@ EXCEPT !.pc = "record", !.timeout = FALSE]
                 ELSE IF @.timeout THEN [@ EXCEPT !.pc = "record", !.goal = "failed"]
                 ELSE IdleRec]
    /\ UNCHANGED <<runVars, rowVars, task, inflight, workerVars, sweep, extVars, faults>>

\* Read the rows outside a transaction and decide.  A timed-out run that is
\* still running is first cancelled at the engine, best effort.
RecDecide(r) ==
    /\ rec[r].pc = "polled"
    /\ LET seen == rec[r].goal
           waits == seen = "running" \/ StillIngesting(seen)
       IN
       /\ rec' = [rec EXCEPT ![r] =
                    IF ~waits THEN [@ EXCEPT !.pc = "record", !.timeout = FALSE]
                    ELSE IF @.timeout THEN [@ EXCEPT !.pc = "record", !.goal = "failed"]
                    ELSE IdleRec]
       /\ IF seen = "running" /\ rec[r].timeout /\ engine = "running"
          THEN engine' \in {"running", "cancelled"}
          ELSE UNCHANGED engine
    /\ UNCHANGED <<runVars, rowVars, task, inflight, workerVars, sweep, deadline,
                   cancelling, faults>>

\* recordRunStatus: re-read the run in a transaction and move it by the
\* transition table.  A timeout writes the count read by RecList, an engine
\* status the engine's own; a cancellation leaves the count alone.
RecRecord(r) ==
    /\ rec[r].pc = "record"
    /\ rec' = [rec EXCEPT ![r] = IdleRec]
    /\ IF status = "running"
       THEN /\ status' = rec[r].goal
            /\ \/ rec[r].goal = "cancelled" /\ count' = count
               \/ rec[r].goal # "cancelled" /\ rec[r].timeout /\ count' = rec[r].snap
               \/ rec[r].goal # "cancelled" /\ ~rec[r].timeout /\ count' \in EngineCounts
            /\ closedBy' = IF rec[r].timeout THEN "timeout" ELSE "engine"
       ELSE UNCHANGED runVars
    /\ UNCHANGED <<rowVars, task, inflight, workerVars, sweep, extVars, faults>>

(***************************************************************************)
(* CancelDispatchedTaskRun: the engine first, then the run row.            *)
(***************************************************************************)
CancelEngine(u) ==
    /\ status = "running"
    /\ engine \in {"running", "cancelled"}
    /\ u \notin cancelling
    /\ engine' = "cancelled"
    /\ cancelling' = cancelling \cup {u}
    /\ UNCHANGED <<runVars, rowVars, task, inflight, workerVars, sweep, rec, deadline, faults>>

CancelRun(u) ==
    /\ u \in cancelling
    /\ cancelling' = cancelling \ {u}
    /\ IF status = "running"
       THEN /\ status' = "cancelled"
            /\ closedBy' = "user"
            /\ UNCHANGED count
       ELSE UNCHANGED runVars
    /\ UNCHANGED <<rowVars, task, inflight, workerVars, sweep, rec, engine, deadline, faults>>

(***************************************************************************)
(* The environment: the run's deadline passes.                             *)
(***************************************************************************)
DeadlinePasses ==
    /\ HasTimeout
    /\ ~deadline
    /\ deadline' = TRUE
    /\ UNCHANGED <<runVars, rowVars, task, inflight, workerVars, sweep, rec, engine,
                   cancelling, faults>>

SeqStep(s) ==
    \/ \E p \in Payloads : Receive(s, p)
    \/ Redeliver(s) \/ ApiEnqueue(s) \/ ApiDrop(s)
    \/ SweepEnqueue(s) \/ SweepSkip(s)
    \/ Requeue(s) \/ RedisLoss(s) \/ Age(s)

WorkerStep(w) ==
    \/ \E s \in Seqs : Take(w, s)
    \/ Claim(w) \/ Recheck(w)
    \/ IngestFacts(w) \/ IngestFails(w) \/ MarkFailed(w)
    \/ Complete(w) \/ Abandon(w) \/ LeaseExpires(w)

RecStep(r) == RecList(r) \/ RecPoll(r) \/ RecDecide(r) \/ RecRecord(r) \/ RecAbort(r)

Next ==
    \/ \E s \in Seqs : SeqStep(s)
    \/ SweepStart
    \/ \E w \in Workers : WorkerStep(w)
    \/ \E r \in Reconcilers : RecStep(r)
    \/ \E u \in Users : CancelEngine(u) \/ CancelRun(u)
    \/ DeadlinePasses

Spec == Init /\ [][Next]_vars

(***************************************************************************)
(* Fairness.  Processes that are up take their next step; the sweep and    *)
(* the reconciler are periodic tasks (periodic_worker.go); asynq's queue   *)
(* is FIFO, so a queued task is not overtaken for ever.  Nothing is        *)
(* assumed of the engine, of its redeliveries, of users, or of the end of  *)
(* a task's backoff: an archived task has none.                            *)
(***************************************************************************)
HandlerStep(w) ==
    Claim(w) \/ Recheck(w) \/ IngestFacts(w) \/ MarkFailed(w) \/ Complete(w)

ReconcileStep(r) == RecList(r) \/ RecPoll(r) \/ RecDecide(r) \/ RecRecord(r)

AgeAbandoned(s) == Age(s) /\ \A w \in Workers : ~Holds(w, s)

Fairness ==
    /\ \A s \in Seqs :
          /\ WF_vars(ApiEnqueue(s))
          /\ WF_vars(SweepEnqueue(s))
          /\ WF_vars(AgeAbandoned(s))
          /\ SF_vars(\E w \in Workers : Take(w, s))
    /\ WF_vars(SweepStart)
    /\ \A w \in Workers : WF_vars(HandlerStep(w))
    /\ \A r \in Schedulers : WF_vars(ReconcileStep(r))

FairSpec == Spec /\ Fairness

(***************************************************************************)
(* Properties                                                              *)
(***************************************************************************)

\* Every variable holds a value of its type.
TypeOK ==
    /\ status \in RunStatuses
    /\ count \in Nat
    /\ closedBy \in {"nobody", "callbacks", "engine", "timeout", "user"}
    /\ ingest \in [Seqs -> IngestStatuses]
    /\ payload \in [Seqs -> [status : RunStatuses, count : Nat]]
    /\ attempt \in [Seqs -> 0..MaxAttempts]
    /\ stale \in [Seqs -> BOOLEAN]
    /\ facts \subseteq Seqs
    /\ task \in [Seqs -> TaskStates]
    /\ inflight \subseteq Seqs
    /\ wpc \in [Workers -> WorkerPCs]
    /\ wseq \in [Workers -> 0..MaxSeq]
    /\ \A w \in Workers : wpc[w] # "idle" => wseq[w] \in Seqs
    /\ \A w \in Workers : lease[w] => wpc[w] # "idle"
    /\ lease \in [Workers -> BOOLEAN]
    /\ sweep \subseteq Seqs
    /\ rec \in [Reconcilers -> RecRecords]
    /\ engine \in RunStatuses
    /\ deadline \in BOOLEAN
    /\ cancelling \subseteq Users
    /\ faults \in Nat

\* callbackFinalState never finds a finished stream on an open run: whichever
\* of several concurrent completions makes the stream whole closes the run in
\* its own transaction, so no completed run is left for the timeout to fail.
ReadyMeansClosed == Ready(ingest) => status # "running"

\* A run closed by its callbacks carries the status of its lowest final marker
\* and has every batch up to it ingested, also after late rows are drained.
ClosedByCallbacksIsComplete ==
    closedBy = "callbacks" =>
        \E m \in Seqs : EndsAt(ingest, m) /\ status = payload[m].status

\* A row is marked processed only after its facts are stored, although the
\* facts and the mark are two transactions and a claim may change hands
\* between them (worker.go has no claim token).
ProcessedHasFacts == \A s \in Seqs : ingest[s] = "processed" => s \in facts

\* Every row the recovery sweep lists can be claimed, so exhausted rows never
\* fill the sweep's LIMIT: releasing a stale claim, failing one and claiming
\* again never leave a listed row without attempts.
ListedRowsAreClaimable ==
    \A s \in Seqs : ingest[s] = "pending" => attempt[s] < MaxAttempts

\* f[1] + ... + f[n]
Total(f, n) ==
    LET sum[i \in 0..n] == IF i = 0 THEN 0 ELSE sum[i - 1] + f[i] IN sum[n]

\* What each batch has added to the run: its facts, once it is processed.
Counted == [s \in Seqs |-> IF ingest[s] = "processed" THEN payload[s].count ELSE 0]

\* The count of an open run is the number of facts in its processed batches:
\* each is counted by the completion that marked it and by no other, although
\* rows are claimed, released, failed and completed by several workers
\* (MarkRunCallbackReceived in CompleteDiscoveryCallbackIngest).
CountIsSumOfProcessed == status = "running" => count = Total(Counted, MaxSeq)

\* The inductive strengthening the proofs use: nothing is tried before it is
\* stored, a worker past its ingestion has stored the facts, and a reconciler
\* about to write a status has a terminal one.
InboxInv ==
    /\ TypeOK
    /\ ReadyMeansClosed
    /\ ClosedByCallbacksIsComplete
    /\ ProcessedHasFacts
    /\ ListedRowsAreClaimable
    /\ \A s \in Seqs : ingest[s] = "absent" => attempt[s] = 0
    /\ \A w \in Workers : wpc[w] = "ingested" => wseq[w] \in facts
    /\ \A r \in Reconcilers : rec[r].pc = "record" => rec[r].goal # "running"

\* The queue, the claims and the sweep implement the ledger: each batch is
\* accepted once, ingested at most once, counted exactly once, and a closed
\* run is never written again.
Ledger == INSTANCE RunLedger WITH
    accepted <- {s \in Seqs : Present(s)},
    batch <- payload,
    ingested <- {s \in Seqs : ingest[s] = "processed"}

ImplementsLedger == Ledger!Spec

\* Every accepted batch is ingested in the end, whatever is lost or crashes on
\* the way, provided fewer things fail than a row has attempts.
EveryBatchIngested == \A s \in Seqs : Present(s) ~> ingest[s] = "processed"

\* A run whose deadline has passed is closed in the end, even if the attempts
\* of its rows are exhausted and its engine never reports an end, provided the
\* engine answers the question for the job's status in the end: reconcileRun
\* returns the error of an unreachable engine before it looks at the deadline
\* (RecAbort, one of the bounded faults).
TimedOutRunCloses == deadline ~> status # "running"

\* "A terminal engine status only means collection ended. Never close a
\* streaming run while acknowledged callback batches are still being ingested"
\* (reconcileRun): the engine's status alone closes no run that still has
\* batches in the queue or in a worker.
NeverClosedWhileIngesting ==
    closedBy = "engine" =>
        \A s \in Seqs : task[s] \in {"queued", "active"} => ingest[s] = "processed"
=============================================================================
