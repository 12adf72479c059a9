------------------------------ MODULE EngineJob ------------------------------
(***************************************************************************)
(* The Baiyan engine (engines/baiyan/internal): the job service            *)
(* (job/service.go), its file store with the callback checkpoint           *)
(* (job/store.go), checkpointed delivery (capability/callback_checkpoint.go*)
(* and engine/callback.go), and the two executors reduced to the batches   *)
(* they send (capability/passive.go, capability/org_intel.go).             *)
(*                                                                         *)
(* Service operations hold Service.mu from their read of a record to their *)
(* Save of it, but the store has a lock of its own: a callback checkpoint  *)
(* can move between the two, so the read and the Save are separate steps.  *)
(* Requests with another idempotency key or hash change nothing.           *)
(***************************************************************************)
EXTENDS Naturals, Sequences, FiniteSets

CONSTANTS
    Jobs,           \* run ids submitted to the engine
    StreamJobs,     \* those run by PassiveExecutor; OrgIntelExecutor runs the rest
    NoJob,
    Workers,        \* BAIYAN_WORKERS goroutines
    QueueSize,      \* BAIYAN_QUEUE_SIZE
    MaxSeq,         \* longest stream of a PassiveExecutor
    Counts,         \* possible fact counts of a batch that has facts
    MaxFaults,      \* bound on crashes, stops, panics and failed calls
    MaxSaveFaults   \* bound on failed Saves of a record

ASSUME EngineAssumption ==
    /\ StreamJobs \subseteq Jobs
    /\ NoJob \notin Jobs
    /\ QueueSize \in Nat \ {0}
    /\ MaxSeq \in Nat /\ MaxSeq >= 2
    /\ Counts \subseteq Nat
    /\ MaxFaults \in Nat /\ MaxSaveFaults \in Nat

Seqs == 1..MaxSeq
FinalStatuses == {"success", "partial_success"}
Terminal == FinalStatuses \cup {"failed", "cancelled"}
Recoverable == {"queued", "running"}
JobStatuses == {"absent"} \cup Recoverable \cup Terminal

\* A CallbackBatch.  Two batches that differ in content differ in count or status.
Batches == [seq : Seqs, status : {"running"} \cup FinalStatuses, count : Counts \cup {0}]
NoBatch == [seq |-> 0, status |-> "running", count |-> 0]

\* The Record: last, sum and phase are LastCallbackSeq, CallbackResultCount and
\* LastCallbackStatus; pending is PendingCallback.
NoRecord == [status |-> "absent", result |-> 0, last |-> 0, sum |-> 0,
             phase |-> "running", pending |-> NoBatch]
Records == [status : JobStatuses, result : Nat, last : 0..MaxSeq, sum : Nat,
            phase : {"running"} \cup FinalStatuses, pending : Batches \cup {NoBatch}]

VARIABLES
    disk,       \* the job records
    up,         \* the process: down, starting, up, stopping or failing
    todo,       \* recoverable jobs Start has listed and not restored yet
    queue,      \* Service.queue
    queued,     \* Service.queued
    active,     \* Service.active: the worker whose cancel function a job has
    mu,         \* Service.mu: free, or held with the record about to be saved
    worker,     \* the worker goroutines
    received,   \* history: the batches the platform got, by job and seq
    accepted,   \* history: jobs whose submission was answered 202
    faults, saveFaults

diskVars == <<disk, received>>
memVars == <<queue, queued, active, mu>>
histVars == <<accepted, faults, saveFaults>>
vars == <<disk, up, todo, queue, queued, active, mu, worker, received, histVars>>

NoWorker == "none"
Idle == [pc |-> "idle", job |-> NoJob, seq |-> 0, total |-> 0, batch |-> NoBatch,
         out |-> NoBatch, resuming |-> FALSE, ctx |-> "live", res |-> "none"]
PCs == {"idle", "taken", "beginning", "resume", "resumed", "started", "produce",
        "prepare", "deliver", "ack", "finish", "ending"}
WorkerStates == [pc : PCs, job : Jobs \cup {NoJob}, seq : 0..(MaxSeq + 1), total : Nat,
                 batch : Batches \cup {NoBatch}, out : Batches \cup {NoBatch},
                 resuming : BOOLEAN, ctx : {"live", "cancelled", "deadline"},
                 res : {"none", "error", "panic"} \cup FinalStatuses]
Free == [job |-> NoJob, rec |-> NoRecord]

Executing(w) == worker[w].pc \in PCs \ {"idle", "taken", "beginning", "finish", "ending"}
Stopping == up \in {"stopping", "failing"}
Serving == up \in {"up", "stopping"}

Fault ==
    /\ faults < MaxFaults
    /\ faults' = faults + 1
    /\ UNCHANGED saveFaults

SaveFault ==
    /\ saveFaults < MaxSaveFaults
    /\ saveFaults' = saveFaults + 1
    /\ UNCHANGED faults

NoFault == UNCHANGED <<faults, saveFaults>>

Init ==
    /\ disk = [j \in Jobs |-> NoRecord]
    /\ up = "up"
    /\ todo = {}
    /\ queue = <<>>
    /\ queued = [j \in Jobs |-> FALSE]
    /\ active = [j \in Jobs |-> NoWorker]
    /\ mu = Free
    /\ worker = [w \in Workers |-> Idle]
    /\ received = [j \in Jobs |-> [s \in Seqs |-> {}]]
    /\ accepted = {}
    /\ faults = 0
    /\ saveFaults = 0

(***************************************************************************)
(* FileStore.Save merges the checkpoint of the stored record into the one  *)
(* being written, which may have been read before the checkpoint moved.    *)
(***************************************************************************)

\* Mutant: a stale record is written as it was read.
mergeNothing(r, old) == r

mergeCallbackCheckpoint(r, old) ==
    LET newer == old.last > r.last
        last == IF newer THEN old.last ELSE r.last
    IN  [r EXCEPT
            !.last = last,
            !.sum = IF newer THEN old.sum ELSE r.sum,
            !.phase = IF newer THEN old.phase ELSE r.phase,
            !.pending = IF last < old.pending.seq THEN old.pending
                        ELSE IF r.pending.seq <= last THEN NoBatch ELSE r.pending]

(***************************************************************************)
(* Service operations.  Lock(j, r) stands for everything between the read  *)
(* of job j's record and the Save of r.                                    *)
(***************************************************************************)
Lock(j, r) == mu = Free /\ mu' = [job |-> j, rec |-> r]

\* The holder's Save is over and Service.mu is released: a worker that held it
\* goes on, to its executor or back to the queue.
Unlock ==
    /\ mu' = Free
    /\ worker' = [w \in Workers |->
                    CASE worker[w].pc = "beginning" ->
                           [worker[w] EXCEPT
                              !.pc = IF worker[w].job \in StreamJobs THEN "resume" ELSE "started"]
                      [] worker[w].pc = "ending" -> Idle
                      [] OTHER -> worker[w]]

SaveRecord ==
    /\ mu # Free
    /\ disk' = [disk EXCEPT ![mu.job] = mergeCallbackCheckpoint(mu.rec, disk[mu.job])]
    /\ Unlock
    /\ UNCHANGED <<up, todo, queue, queued, active, received, histVars>>

\* A Save fails: beginRun, run and failPanicked drop the error, Cancel reports it.
SaveFails ==
    /\ mu # Free
    /\ SaveFault
    /\ Unlock
    /\ UNCHANGED <<disk, up, todo, queue, queued, active, received, accepted>>

Room == Len(queue) < QueueSize

\* Submit: a new record is saved first and offered to the queue second; a
\* repeated one is offered again if it is queued on disk and nowhere else.
\* Without room the answer is 503 and a new record stays behind.
Submit(j) ==
    /\ Serving
    /\ mu = Free
    /\ LET fresh == disk[j].status = "absent"
           offer == fresh \/ (disk[j].status = "queued" /\ ~queued[j])
       IN
       /\ disk' = [disk EXCEPT ![j].status = IF fresh THEN "queued" ELSE @]
       /\ queue' = IF offer /\ Room THEN Append(queue, j) ELSE queue
       /\ queued' = [queued EXCEPT ![j] = @ \/ (offer /\ Room)]
       /\ accepted' = IF offer /\ ~Room THEN accepted ELSE accepted \cup {j}
    /\ UNCHANGED <<up, todo, active, mu, worker, received, faults, saveFaults>>

\* Cancel: the context of a running job is cancelled before the record is saved.
Cancel(j) ==
    /\ Serving
    /\ disk[j].status \in Recoverable
    /\ Lock(j, [disk[j] EXCEPT !.status = "cancelled"])
    /\ worker' = [w \in Workers |->
                    IF active[j] = w /\ worker[w].ctx = "live"
                    THEN [worker[w] EXCEPT !.ctx = "cancelled"] ELSE worker[w]]
    /\ UNCHANGED <<disk, up, todo, queue, queued, active, received, histVars>>

\* worker: the select may still pick the queue once the root context is done.
Take(w) ==
    /\ up # "down"
    /\ worker[w].pc = "idle"
    /\ queue # <<>>
    /\ queue' = Tail(queue)
    /\ worker' = [worker EXCEPT ![w] = [Idle EXCEPT !.pc = "taken", !.job = Head(queue)]]
    /\ UNCHANGED <<diskVars, up, todo, queued, active, mu, histVars>>

\* beginRun: anything but a cancelled record is run.
BeginRun(w) ==
    LET j == worker[w].job IN
    /\ worker[w].pc = "taken"
    /\ queued' = [queued EXCEPT ![j] = FALSE]
    /\ IF disk[j].status = "cancelled"
       THEN /\ mu = Free
            /\ worker' = [worker EXCEPT ![w] = Idle]
            /\ UNCHANGED <<active, mu>>
       ELSE /\ Lock(j, [disk[j] EXCEPT !.status = "running"])
            /\ active' = [active EXCEPT ![j] = w]
            /\ worker' = [worker EXCEPT
                            ![w] = [worker[w] EXCEPT
                                      !.pc = "beginning", !.seq = 1,
                                      !.ctx = IF Stopping THEN "cancelled" ELSE "live"]]
    /\ UNCHANGED <<diskVars, up, todo, queue, histVars>>

\* Mutant: the error of the executor is taken for a status.
EndStatusOfResult(x) ==
    CASE x.res = "panic" -> "failed"
      [] x.ctx = "cancelled" -> "cancelled"
      [] x.ctx = "deadline" -> "failed"
      [] OTHER -> x.res

\* The status run and failPanicked give a job that ended in worker state x.
EndStatus(x) ==
    CASE x.res = "panic" -> "failed"
      [] x.ctx = "cancelled" -> "cancelled"
      [] x.ctx = "deadline" \/ x.res = "error" -> "failed"
      [] OTHER -> x.res

\* Mutant: a record cancelled meanwhile is overwritten.
EndRunOverwrites(w) ==
    LET x == worker[w] IN
    /\ x.pc = "finish"
    /\ active' = [active EXCEPT ![x.job] = NoWorker]
    /\ Lock(x.job, [disk[x.job] EXCEPT !.status = EndStatus(x), !.result = x.total])
    /\ worker' = [worker EXCEPT ![w].pc = "ending"]
    /\ UNCHANGED <<diskVars, up, todo, queue, queued, histVars>>

\* run after Execute, or failPanicked: a record cancelled meanwhile is left alone.
EndRun(w) ==
    LET x == worker[w]
        r == disk[x.job]
    IN
    /\ x.pc = "finish"
    /\ active' = [active EXCEPT ![x.job] = NoWorker]
    /\ IF r.status = "cancelled"
       THEN /\ mu = Free
            /\ worker' = [worker EXCEPT ![w] = Idle]
            /\ UNCHANGED mu
       ELSE /\ Lock(x.job, [r EXCEPT !.status = EndStatus(x),
                                     !.result = IF x.res = "panic" THEN @ ELSE x.total])
            /\ worker' = [worker EXCEPT ![w].pc = "ending"]
    /\ UNCHANGED <<diskVars, up, todo, queue, queued, histVars>>

(***************************************************************************)
(* The executors.  A step of worker w's goroutine inside Execute changes   *)
(* its own state x to y and, at most, its job's record and what the        *)
(* platform has received.                                                  *)
(***************************************************************************)
Step(w, y) ==
    /\ worker' = [worker EXCEPT ![w] = y]
    /\ UNCHANGED <<up, todo, memVars, accepted>>

At(w, pc) == worker[w].pc = pc
RecordOf(w) == disk[worker[w].job]

\* ResumeStream: an uncertain batch of an earlier execution is sent first.
Resume(w) ==
    /\ At(w, "resume")
    /\ Step(w, IF RecordOf(w).pending # NoBatch
               THEN [worker[w] EXCEPT !.pc = "prepare", !.batch = RecordOf(w).pending,
                                      !.resuming = TRUE]
               ELSE [worker[w] EXCEPT !.pc = "resumed"])
    /\ NoFault /\ UNCHANGED diskVars

\* Mutant: a stream that ended before a crash is reported as a full success.
ResumedAsSuccess(w) ==
    /\ At(w, "resumed")
    /\ LET r == RecordOf(w) IN
       Step(w, [worker[w] EXCEPT !.pc = IF r.phase = "running" THEN "started" ELSE "finish",
                                 !.resuming = FALSE, !.total = r.sum, !.seq = r.last + 1,
                                 !.res = IF r.phase = "running" THEN "none" ELSE "success"])
    /\ NoFault /\ UNCHANGED diskVars

\* Mutant: a resumed stream counts from zero.
ResumedFromZero(w) ==
    /\ At(w, "resumed")
    /\ LET r == RecordOf(w) IN
       Step(w, [worker[w] EXCEPT !.pc = IF r.phase = "running" THEN "started" ELSE "finish",
                                 !.resuming = FALSE, !.seq = r.last + 1,
                                 !.res = IF r.phase = "running" THEN "none" ELSE r.phase])
    /\ NoFault /\ UNCHANGED diskVars

\* A stream that has ended is not run again; another goes on after the last
\* acknowledged batch, beginning with a new "started" one.
Resumed(w) ==
    /\ At(w, "resumed")
    /\ LET r == RecordOf(w) IN
       Step(w, [worker[w] EXCEPT !.pc = IF r.phase = "running" THEN "started" ELSE "finish",
                                 !.resuming = FALSE, !.total = r.sum, !.seq = r.last + 1,
                                 !.res = IF r.phase = "running" THEN "none" ELSE r.phase])
    /\ NoFault /\ UNCHANGED diskVars

Sends(w, st, n) ==
    /\ worker[w].seq <= MaxSeq
    /\ Step(w, [worker[w] EXCEPT
                  !.pc = "prepare",
                  !.batch = [seq |-> worker[w].seq, status |-> st, count |-> n]])
    /\ NoFault /\ UNCHANGED diskVars

Started(w) == At(w, "started") /\ Sends(w, "running", 0)

\* PassiveExecutor: any number of progress batches, then an empty final one.
\* OrgIntelExecutor: everything in the final batch, seq 2.
Produce(w) ==
    /\ At(w, "produce")
    /\ \/ /\ worker[w].job \in StreamJobs
          /\ \E n \in Counts : Sends(w, "running", n)
       \/ /\ worker[w].job \in StreamJobs
          /\ \E st \in FinalStatuses : Sends(w, st, 0)
       \/ /\ worker[w].job \notin StreamJobs
          /\ \E st \in FinalStatuses, n \in Counts : Sends(w, st, n)

\* Where the executor goes when the Send of its batch returned nil.
Sent(x) ==
    IF x.resuming THEN [x EXCEPT !.pc = "resumed"]
    ELSE [x EXCEPT !.pc = IF x.batch.status = "running" THEN "produce" ELSE "finish",
                   !.res = IF x.batch.status = "running" THEN "none" ELSE x.batch.status,
                   !.seq = @ + 1,
                   !.total = IF x.job \in StreamJobs THEN @ + x.batch.count ELSE x.batch.count]

Errs(x) == [x EXCEPT !.pc = "finish", !.res = "error"]

\* Mutant: a pending batch is replaced by the one at hand.
PrepareCallbackAfresh(w) ==
    LET x == worker[w]
        r == RecordOf(w)
    IN
    /\ At(w, "prepare")
    /\ IF x.batch.seq <= r.last
       THEN Step(w, Sent(x)) /\ UNCHANGED disk
       ELSE /\ Step(w, [x EXCEPT !.pc = "deliver", !.out = x.batch])
            /\ disk' = [disk EXCEPT ![x.job].pending = x.batch]
    /\ NoFault /\ UNCHANGED received

\* PrepareCallback: skip an acknowledged seq, replay a pending one, refuse a
\* gap, store a new one.
PrepareCallback(w) ==
    LET x == worker[w]
        r == RecordOf(w)
    IN
    /\ At(w, "prepare")
    /\ \/ /\ x.batch.seq <= r.last
          /\ Step(w, Sent(x))
          /\ UNCHANGED disk
       \/ /\ x.batch.seq > r.last
          /\ r.pending # NoBatch
          /\ Step(w, IF r.pending.seq = x.batch.seq
                     THEN [x EXCEPT !.pc = "deliver", !.out = r.pending] ELSE Errs(x))
          /\ UNCHANGED disk
       \/ /\ x.batch.seq > r.last
          /\ r.pending = NoBatch
          /\ IF x.batch.seq = r.last + 1
             THEN /\ Step(w, [x EXCEPT !.pc = "deliver", !.out = x.batch])
                  /\ disk' = [disk EXCEPT ![x.job].pending = x.batch]
             ELSE /\ Step(w, Errs(x))
                  /\ UNCHANGED disk
    /\ NoFault /\ UNCHANGED received

Got(w) ==
    LET x == worker[w] IN [received EXCEPT ![x.job][x.out.seq] = @ \cup {x.out}]

\* Mutant: an answer other than 2xx counts as delivered.
DeliverAnyAnswer(w) ==
    /\ At(w, "deliver")
    /\ received' \in {received, Got(w)}
    /\ Step(w, [worker[w] EXCEPT !.pc = "ack"])
    /\ NoFault /\ UNCHANGED disk

\* CallbackSender.Send: the platform answers 2xx, at the first try or a later one.
Deliver(w) ==
    /\ At(w, "deliver")
    /\ received' = Got(w)
    /\ Step(w, [worker[w] EXCEPT !.pc = "ack"])
    /\ NoFault /\ UNCHANGED disk

\* AcknowledgeCallback
AcknowledgeCallback(w) ==
    LET x == worker[w]
        r == RecordOf(w)
    IN
    /\ At(w, "ack")
    /\ \/ /\ x.out.seq <= r.last
          /\ Step(w, Sent(x))
          /\ UNCHANGED disk
       \/ /\ x.out.seq > r.last
          /\ IF r.pending.seq = x.out.seq /\ x.out.seq = r.last + 1
             THEN /\ Step(w, Sent(x))
                  /\ disk' = [disk EXCEPT ![x.job] =
                                [r EXCEPT !.last = x.out.seq,
                                          !.sum = r.sum + r.pending.count,
                                          !.phase = r.pending.status,
                                          !.pending = NoBatch]]
             ELSE /\ Step(w, Errs(x))
                  /\ UNCHANGED disk
    /\ NoFault /\ UNCHANGED received

\* The execution stops: at once when its context is done, else by a fault (all
\* tries of a delivery failed, a store call failed, a panic).  A batch under
\* way may have reached the platform all the same.
ExecutionFails(w) ==
    /\ Executing(w)
    /\ \E res \in {"error", "panic"} :
          /\ Step(w, [worker[w] EXCEPT !.pc = "finish", !.res = res])
          /\ IF worker[w].ctx # "live" /\ res = "error" THEN NoFault ELSE Fault
    /\ received' \in IF At(w, "deliver") THEN {received, Got(w)} ELSE {received}
    /\ UNCHANGED disk

\* timeout_seconds of the request have passed.
Deadline(w) ==
    /\ Executing(w)
    /\ worker[w].ctx = "live"
    /\ Step(w, [worker[w] EXCEPT !.ctx = "deadline"])
    /\ NoFault /\ UNCHANGED diskVars

(***************************************************************************)
(* The process                                                             *)
(***************************************************************************)

\* SIGTERM, or Start gives up: the root context is cancelled.
CancelRoot(next) ==
    /\ up' = next
    /\ worker' = [w \in Workers |-> IF worker[w].ctx = "live" /\ worker[w].pc \notin {"idle", "taken"}
                                    THEN [worker[w] EXCEPT !.ctx = "cancelled"] ELSE worker[w]]

Shutdown ==
    /\ up = "up"
    /\ Fault
    /\ CancelRoot("stopping")
    /\ UNCHANGED <<diskVars, todo, memVars, accepted>>

\* The memory of the process is gone.
Gone ==
    /\ up' = "down"
    /\ todo' = {}
    /\ queue' = <<>>
    /\ queued' = [j \in Jobs |-> FALSE]
    /\ active' = [j \in Jobs |-> NoWorker]
    /\ mu' = Free
    /\ worker' = [w \in Workers |-> Idle]
    /\ UNCHANGED <<diskVars, accepted>>

\* All workers have seen the cancelled root context and returned.
Exit ==
    /\ Stopping
    /\ mu = Free
    /\ \A w \in Workers : worker[w].pc = "idle"
    /\ Gone
    /\ NoFault

Crash == up # "down" /\ Fault /\ Gone

\* Mutant: a record that was running is not recovered.
StartQueuedOnly ==
    /\ up = "down"
    /\ up' = "starting"
    /\ todo' = {j \in Jobs : disk[j].status = "queued"}
    /\ UNCHANGED <<diskVars, memVars, worker, histVars>>

\* Start: the workers run, the recoverable records are listed.
Start ==
    /\ up = "down"
    /\ up' = "starting"
    /\ todo' = {j \in Jobs : disk[j].status \in Recoverable}
    /\ UNCHANGED <<diskVars, memVars, worker, histVars>>

Requeued(j) ==
    [disk EXCEPT ![j] = mergeCallbackCheckpoint([disk[j] EXCEPT !.status = "queued"], disk[j])]

Restore(j) ==
    /\ up = "starting"
    /\ j \in todo
    /\ Room
    /\ mu = Free
    /\ disk' = Requeued(j)
    /\ queue' = Append(queue, j)
    /\ queued' = [queued EXCEPT ![j] = TRUE]
    /\ todo' = todo \ {j}
    /\ UNCHANGED <<up, active, mu, worker, received, histVars>>

\* The queue is full or the Save fails: Start cancels everything and gives up.
RestoreFails(j) ==
    /\ up = "starting"
    /\ j \in todo
    /\ \/ /\ ~Room
          /\ disk' = Requeued(j)
          /\ NoFault
       \/ /\ SaveFault
          /\ UNCHANGED disk
    /\ CancelRoot("failing")
    /\ UNCHANGED <<todo, memVars, received, accepted>>

StartDone ==
    /\ up = "starting"
    /\ todo = {}
    /\ up' = "up"
    /\ UNCHANGED <<diskVars, todo, memVars, worker, histVars>>

ExecutorStep(w) ==
    \/ Resume(w) \/ Resumed(w) \/ Started(w) \/ Produce(w)
    \/ PrepareCallback(w) \/ Deliver(w) \/ AcknowledgeCallback(w)

ProcessStep == SaveRecord \/ Exit \/ Start \/ StartDone \/ \E j \in Jobs : Restore(j)

Next ==
    \/ ProcessStep
    \/ SaveFails \/ Shutdown \/ Crash
    \/ \E j \in Jobs : Submit(j) \/ Cancel(j) \/ RestoreFails(j)
    \/ \E w \in Workers :
          \/ Take(w) \/ BeginRun(w) \/ EndRun(w)
          \/ ExecutorStep(w) \/ ExecutionFails(w) \/ Deadline(w)

Spec == Init /\ [][Next]_vars

(***************************************************************************)
(* Fairness: goroutines that can run do; every execution has a timeout;    *)
(* the container is restarted when it exits (restart: unless-stopped).     *)
(* Nothing is assumed of clients, or of a batch ever being produced.       *)
(***************************************************************************)
Fairness ==
    /\ WF_vars(ProcessStep)
    /\ WF_vars(\E w \in Workers : Take(w))
    /\ \A w \in Workers :
          /\ SF_vars(BeginRun(w))
          /\ SF_vars(EndRun(w))
          /\ WF_vars(Deadline(w))
          /\ WF_vars(Executing(w) /\ worker[w].ctx # "live" /\ ExecutionFails(w))

FairSpec == Spec /\ Fairness

(***************************************************************************)
(* Properties                                                              *)
(***************************************************************************)

\* Every variable holds a value of its type.
TypeOK ==
    /\ disk \in [Jobs -> Records]
    /\ up \in {"down", "starting", "up", "stopping", "failing"}
    /\ todo \subseteq Jobs
    /\ queue \in Seq(Jobs) /\ Len(queue) <= QueueSize
    /\ queued \in [Jobs -> BOOLEAN]
    /\ active \in [Jobs -> Workers \cup {NoWorker}]
    /\ mu \in [job : Jobs \cup {NoJob}, rec : Records]
    /\ worker \in [Workers -> WorkerStates]
    /\ received \in [Jobs -> [Seqs -> SUBSET Batches]]
    /\ accepted \subseteq Jobs
    /\ faults \in 0..MaxFaults
    /\ saveFaults \in 0..MaxSaveFaults

\* A batch that reached the platform is never sent again with other content,
\* whatever crashes, replays, lost saves or concurrent executions come between
\* (PrepareCallback): no retry becomes a payload conflict.
OnePayloadPerSeq == \A j \in Jobs, s \in Seqs : Cardinality(received[j][s]) <= 1

\* The platform can always finish the stream it has begun: no seq is received
\* before its predecessor, and the checkpoint never counts as delivered what
\* did not arrive (AcknowledgeCallback).
NoGapInStream ==
    \A j \in Jobs, s \in Seqs :
        /\ s <= disk[j].last => received[j][s] # {}
        /\ received[j][s] # {} => s <= disk[j].last + 1
        /\ received[j][s] # {} /\ s > disk[j].last => received[j][s] = {disk[j].pending}

\* "Stale Job Service writes merge the newest callback checkpoint instead of
\* rolling it back" (ENGINE.md): an acknowledged seq stays acknowledged and a
\* pending batch stays as it is until it is acknowledged.
CheckpointNeverRollsBack ==
    [][\A j \in Jobs :
          /\ disk'[j].last >= disk[j].last
          /\ disk[j].pending # disk'[j].pending /\ disk[j].pending # NoBatch =>
                 disk'[j].last = disk[j].pending.seq]_vars

\* A job that ended by itself has the status of the final batch of its stream,
\* also when the execution that sent that batch is not the one that ended it.
EndedStreamMatches ==
    \A j \in StreamJobs :
        disk[j].status \in FinalStatuses =>
            disk[j].phase = disk[j].status /\ disk[j].pending = NoBatch

\* f[1] + ... + f[n]
Total(f, n) ==
    LET sum[i \in 0..n] == IF i = 0 THEN 0 ELSE sum[i - 1] + f[i] IN sum[n]

\* The facts in what was received for one seq, at most one payload.
FactsIn(payloads) == IF payloads = {} THEN 0 ELSE (CHOOSE b \in payloads : TRUE).count

\* The count the engine reports for a finished stream is the number of facts
\* the platform received, counting every batch once across executions
\* (ResumeStream, AcknowledgeCallback and run).
ResultCountsEveryFact ==
    \A j \in StreamJobs :
        disk[j].status \in FinalStatuses =>
            disk[j].result = Total([s \in Seqs |-> FactsIn(received[j][s])], MaxSeq)

\* "Completed terminal records are never replayed" (ENGINE.md): nothing changes
\* the status of an ended job.
TerminalStays ==
    [][\A j \in Jobs : disk[j].status \in Terminal => disk'[j].status = disk[j].status]_vars

\* "On restart, queued and running records are reset to queued and replayed"
\* (ENGINE.md): a restart that has not begun to serve cancels no job.
RestartCancelsNothing ==
    [][\A j \in Jobs :
          up \in {"down", "starting", "failing"} /\ disk[j].status \in Recoverable =>
              disk'[j].status # "cancelled"]_vars

\* Every submission answered 202 ends, through crashes, stops and cancellations.
AcceptedJobEnds == \A j \in Jobs : j \in accepted ~> disk[j].status \in Terminal
=============================================================================
