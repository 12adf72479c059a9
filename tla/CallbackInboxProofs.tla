------------------------- MODULE CallbackInboxProofs -------------------------
(***************************************************************************)
(* Proofs about CallbackInbox, for every number of sequence numbers,       *)
(* batches, workers, reconcilers, users, attempts and faults.              *)
(***************************************************************************)
EXTENDS CallbackInbox, WellFoundedInduction, TLAPS

USE ConstantsOK

(***************************************************************************)
(* Type correctness                                                        *)
(***************************************************************************)

\* The types of the values the actions write.
LEMMA ValueTypes ==
    /\ NoPayload \in [status : RunStatuses, count : Nat]
    /\ IdleRec \in RecRecords
    /\ Payloads \subseteq [status : RunStatuses, count : Nat]
  BY DEF NoPayload, IdleRec, RecRecords, RunStatuses, TerminalStatuses

\* A handler that returns leaves well-typed worker and queue state.
LEMMA FinishType ==
    ASSUME TypeOK, NEW w \in Workers, NEW ok, wpc[w] # "idle", Finish(w, ok)
    PROVE  /\ wpc' \in [Workers -> WorkerPCs]
           /\ wseq' \in [Workers -> 0..MaxSeq]
           /\ lease' \in [Workers -> BOOLEAN]
           /\ task' \in [Seqs -> TaskStates]
           /\ \A v \in Workers : wpc'[v] # "idle" => wseq'[v] \in Seqs
           /\ \A v \in Workers : lease'[v] => wpc'[v] # "idle"
  BY DEF TypeOK, Finish, WorkerPCs, TaskStates, Seqs

\* Init and every step of a receipt, a sweep or the queue keep the types.
LEMMA TypeInit == Init => TypeOK
  <1> SUFFICES ASSUME Init PROVE TypeOK
    OBVIOUS
  <1>1. /\ ingest \in [Seqs -> IngestStatuses]
        /\ payload \in [Seqs -> [status : RunStatuses, count : Nat]]
        /\ attempt \in [Seqs -> 0..MaxAttempts]
        /\ stale \in [Seqs -> BOOLEAN]
        /\ task \in [Seqs -> TaskStates]
    BY ValueTypes DEF Init, IngestStatuses, TaskStates
  <1>2. /\ wpc \in [Workers -> WorkerPCs]
        /\ wseq \in [Workers -> 0..MaxSeq]
        /\ lease \in [Workers -> BOOLEAN]
        /\ \A w \in Workers : wpc[w] = "idle" /\ lease[w] = FALSE
    BY DEF Init, WorkerPCs
  <1>3. rec \in [Reconcilers -> RecRecords]
    BY ValueTypes DEF Init
  <1> QED BY <1>1, <1>2, <1>3 DEF Init, TypeOK, RunStatuses

LEMMA TypeSeq == ASSUME TypeOK, NEW s \in Seqs, SeqStep(s) PROVE TypeOK'
  <1>1. ASSUME NEW p \in Payloads, Receive(s, p) PROVE TypeOK'
    BY <1>1, ValueTypes DEF TypeOK, Receive, runVars, workerVars, extVars, IngestStatuses
  <1>2. CASE Redeliver(s)
    BY <1>2 DEF TypeOK, Redeliver, runVars, rowVars, workerVars, extVars
  <1>3. CASE ApiEnqueue(s)
    BY <1>3 DEF TypeOK, ApiEnqueue, EnqueueFromAPI, runVars, workerVars, extVars, TaskStates
  <1>4. CASE ApiDrop(s)
    BY <1>4 DEF TypeOK, ApiDrop, EnqueueFromAPI, Fault, runVars, rowVars, workerVars, extVars, TaskStates
  <1>5. CASE SweepEnqueue(s)
    BY <1>5 DEF TypeOK, SweepEnqueue, runVars, workerVars, extVars, TaskStates
  <1>6. CASE SweepSkip(s)
    BY <1>6 DEF TypeOK, SweepSkip, Fault, runVars, rowVars, workerVars, extVars
  <1>7. CASE Requeue(s)
    BY <1>7 DEF TypeOK, Requeue, runVars, rowVars, workerVars, extVars, TaskStates
  <1>8. CASE RedisLoss(s)
    BY <1>8 DEF TypeOK, RedisLoss, Fault, runVars, rowVars, extVars, TaskStates
  <1>9. CASE Age(s)
    BY <1>9 DEF TypeOK, Age, Fault, runVars, workerVars, extVars
  <1> QED BY <1>1, <1>2, <1>3, <1>4, <1>5, <1>6, <1>7, <1>8, <1>9 DEF SeqStep

LEMMA TypeSweep == ASSUME TypeOK, SweepStart PROVE TypeOK'
  BY DEF TypeOK, SweepStart, runVars, workerVars, extVars, IngestStatuses

LEMMA TypeWorker == ASSUME TypeOK, NEW w \in Workers, WorkerStep(w) PROVE TypeOK'
  <1>0. wpc[w] # "idle" => wseq[w] \in Seqs
    BY DEF TypeOK
  <1>1. ASSUME NEW s \in Seqs, Take(w, s) PROVE TypeOK'
    <2>1. CASE ingest[s] = "processed"
      BY <1>1, <2>1 DEF TypeOK, Take, runVars, rowVars, workerVars, extVars, TaskStates
    <2>2. CASE ingest[s] # "processed"
      <3>1. /\ task' \in [Seqs -> TaskStates]
            /\ wpc' \in [Workers -> WorkerPCs]
            /\ wseq' \in [Workers -> 0..MaxSeq]
            /\ lease' \in [Workers -> BOOLEAN]
        <4>1. task' \in [Seqs -> TaskStates]
          BY <1>1, <2>2 DEF TypeOK, Take, TaskStates
        <4>2. wpc' \in [Workers -> WorkerPCs]
          BY <1>1, <2>2 DEF TypeOK, Take, WorkerPCs
        <4>3. wseq' \in [Workers -> 0..MaxSeq]
          <5>1. s \in 0..MaxSeq
            BY DEF Seqs
          <5>2. wseq' = [wseq EXCEPT ![w] = s]
            BY <1>1, <2>2 DEF Take
          <5> QED BY <5>1, <5>2 DEF TypeOK
        <4>4. lease' \in [Workers -> BOOLEAN]
          BY <1>1, <2>2 DEF TypeOK, Take
        <4> QED BY <4>1, <4>2, <4>3, <4>4
      <3>2. \A v \in Workers : wpc'[v] # "idle" => wseq'[v] \in Seqs
        BY <1>1, <2>2 DEF TypeOK, Take
      <3>3. \A v \in Workers : lease'[v] => wpc'[v] # "idle"
        BY <1>1, <2>2 DEF TypeOK, Take
      <3> QED BY <1>1, <2>2, <3>1, <3>2, <3>3 DEF TypeOK, Take, runVars, rowVars, extVars
    <2> QED BY <2>1, <2>2
  <1>2. CASE Claim(w)
    <2>1. /\ ingest' \in [Seqs -> IngestStatuses]
          /\ attempt' \in [Seqs -> 0..MaxAttempts]
          /\ stale' \in [Seqs -> BOOLEAN]
      <3>1. CASE Claimable(wseq[w])
        <4>1. ingest' \in [Seqs -> IngestStatuses]
          BY <1>0, <1>2, <3>1 DEF TypeOK, Claim, IngestStatuses
        <4>2. attempt' \in [Seqs -> 0..MaxAttempts]
          BY <1>0, <1>2, <3>1 DEF TypeOK, Claim, Claimable
        <4>3. stale' \in [Seqs -> BOOLEAN]
          BY <1>0, <1>2, <3>1 DEF TypeOK, Claim
        <4> QED BY <4>1, <4>2, <4>3
      <3>2. CASE ~Claimable(wseq[w])
        BY <1>2, <3>2 DEF TypeOK, Claim
      <3> QED BY <3>1, <3>2
    <2>2. wpc' \in [Workers -> WorkerPCs] /\ \A v \in Workers : wpc'[v] = "idle" => wpc[v] = "idle"
      BY <1>2 DEF TypeOK, Claim, WorkerPCs
    <2>3. \A v \in Workers : wpc'[v] # "idle" => wseq[v] \in Seqs
      BY <1>0, <1>2 DEF TypeOK, Claim
    <2> QED BY <1>2, <2>1, <2>2, <2>3 DEF TypeOK, Claim, runVars, extVars
  <1>3. CASE Recheck(w)
    BY <1>3, FinishType DEF TypeOK, Recheck, runVars, rowVars, extVars
  <1>4. CASE IngestFacts(w)
    BY <1>0, <1>4 DEF TypeOK, IngestFacts, runVars, extVars, WorkerPCs
  <1>5. CASE IngestFails(w)
    BY <1>0, <1>5 DEF TypeOK, IngestFails, Fault, runVars, rowVars, extVars, WorkerPCs
  <1>6. CASE MarkFailed(w)
    BY <1>0, <1>6, FinishType DEF TypeOK, MarkFailed, runVars, extVars, IngestStatuses
  <1>7. CASE Complete(w)
    <2>1. ingest' \in [Seqs -> IngestStatuses] /\ stale' \in [Seqs -> BOOLEAN]
      BY <1>0, <1>7 DEF TypeOK, Complete, CompleteRow, runVars, IngestStatuses
    <2>2. count' \in Nat
      BY <1>0, <1>7 DEF TypeOK, Complete, CompleteRow, runVars
    <2>3. status' \in RunStatuses
      BY <1>0, <1>7 DEF TypeOK, Complete, CompleteRow, runVars
    <2>4. closedBy' \in {"nobody", "callbacks", "engine", "timeout", "user"}
      BY <1>0, <1>7 DEF TypeOK, Complete, CompleteRow, runVars
    <2>5. /\ wpc' \in [Workers -> WorkerPCs]
          /\ wseq' \in [Workers -> 0..MaxSeq]
          /\ lease' \in [Workers -> BOOLEAN]
          /\ task' \in [Seqs -> TaskStates]
          /\ \A v \in Workers : wpc'[v] # "idle" => wseq'[v] \in Seqs
          /\ \A v \in Workers : lease'[v] => wpc'[v] # "idle"
      BY <1>7, FinishType DEF Complete
    <2> QED BY <1>7, <2>1, <2>2, <2>3, <2>4, <2>5 DEF TypeOK, Complete, extVars
  <1>8. CASE Abandon(w)
    <2>1. /\ wpc' \in [Workers -> WorkerPCs]
          /\ wseq' \in [Workers -> 0..MaxSeq]
          /\ lease' \in [Workers -> BOOLEAN]
          /\ task' \in [Seqs -> TaskStates]
          /\ \A v \in Workers : wpc'[v] # "idle" => wseq'[v] \in Seqs
          /\ \A v \in Workers : lease'[v] => wpc'[v] # "idle"
      BY <1>8, FinishType DEF Abandon
    <2> QED BY <1>8, <2>1 DEF TypeOK, Abandon, Fault, runVars, rowVars, extVars
  <1>9. CASE LeaseExpires(w)
    BY <1>0, <1>9 DEF TypeOK, LeaseExpires, Fault, runVars, rowVars, extVars, TaskStates
  <1> QED BY <1>1, <1>2, <1>3, <1>4, <1>5, <1>6, <1>7, <1>8, <1>9 DEF WorkerStep

LEMMA TypeRec == ASSUME TypeOK, NEW r \in Reconcilers, RecStep(r) PROVE TypeOK'
  <1>0. rec[r] \in RecRecords
    BY DEF TypeOK
  <1>1. CASE RecList(r)
    BY <1>0, <1>1 DEF TypeOK, RecList, RecRecords, RunStatuses, runVars, rowVars, workerVars, extVars
  <1>2. CASE RecPoll(r)
    BY <1>0, <1>2 DEF TypeOK, RecPoll, RecRecords, runVars, rowVars, workerVars
  <1>3. CASE RecDecide(r)
    <2>1. rec' \in [Reconcilers -> RecRecords]
      BY <1>0, <1>3, ValueTypes DEF TypeOK, RecDecide, RecRecords, RunStatuses, TerminalStatuses
    <2>2. engine' \in RunStatuses
      BY <1>3 DEF TypeOK, RecDecide, RunStatuses, TerminalStatuses
    <2> QED BY <1>3, <2>1, <2>2 DEF TypeOK, RecDecide, runVars, rowVars, workerVars
  <1>4. CASE RecRecord(r)
    BY <1>0, <1>4, ValueTypes DEF TypeOK, RecRecord, RecRecords, runVars, rowVars, workerVars, extVars
  <1>5. CASE RecAbort(r)
    BY <1>5, ValueTypes DEF TypeOK, RecAbort, Fault, runVars, rowVars, workerVars, extVars
  <1> QED BY <1>1, <1>2, <1>3, <1>4, <1>5 DEF RecStep

LEMMA TypeRest ==
    ASSUME TypeOK,
           \/ \E u \in Users : CancelEngine(u) \/ CancelRun(u)
           \/ DeadlinePasses
           \/ UNCHANGED vars
    PROVE  TypeOK'
  <1>1. ASSUME NEW u \in Users, CancelEngine(u) PROVE TypeOK'
    BY <1>1 DEF TypeOK, CancelEngine, RunStatuses, TerminalStatuses, runVars, rowVars, workerVars
  <1>2. ASSUME NEW u \in Users, CancelRun(u) PROVE TypeOK'
    BY <1>2 DEF TypeOK, CancelRun, RunStatuses, TerminalStatuses, runVars, rowVars, workerVars
  <1>3. CASE DeadlinePasses
    BY <1>3 DEF TypeOK, DeadlinePasses, runVars, rowVars, workerVars
  <1>4. CASE UNCHANGED vars
    BY <1>4 DEF TypeOK, vars, runVars, rowVars, workerVars, extVars
  <1> QED BY <1>1, <1>2, <1>3, <1>4

\* Type correctness of the inbox (callback.go, callback_ingest.go, worker.go,
\* service.go): whatever interleaves, every variable keeps its type.
THEOREM TypeCorrect == Spec => []TypeOK
  <1>1. TypeOK /\ [Next]_vars => TypeOK'
    BY TypeSeq, TypeSweep, TypeWorker, TypeRec, TypeRest DEF Next
  <1> QED BY <1>1, TypeInit, PTL DEF Spec

(***************************************************************************)
(* What a step can do to the run and to the rows.  A row, once stored, is  *)
(* only ever moved by a completion into or out of "processed", so apart    *)
(* from a receipt, a completion and a closing write every step is quiet.   *)
(***************************************************************************)
Quiet ==
    /\ UNCHANGED <<status, count, closedBy, payload>>
    /\ ingest' \in [Seqs -> IngestStatuses]
    /\ \A s \in Seqs : ingest'[s] = "processed" <=> ingest[s] = "processed"
    /\ \A s \in Seqs : ingest'[s] = "absent" <=> ingest[s] = "absent"

Completes(s) ==
    /\ s \in facts
    /\ ingest[s] = "processing"
    /\ CompleteRow(s)
    /\ UNCHANGED payload

Closes ==
    /\ status = "running"
    /\ status' \in TerminalStatuses
    /\ count' \in Nat
    /\ closedBy' \in {"engine", "timeout", "user"}
    /\ UNCHANGED <<ingest, payload>>

StepShape ==
    \/ \E s \in Seqs, p \in Payloads : Receive(s, p)
    \/ \E s \in Seqs : Completes(s)
    \/ Closes
    \/ Quiet

\* Every step of the inbox is a receipt, a completion, a closing write or quiet.
LEMMA EveryStepHasAShape == InboxInv /\ [Next]_vars => StepShape
  <1> SUFFICES ASSUME InboxInv, [Next]_vars PROVE StepShape
    OBVIOUS
  <1>0. TypeOK
    BY DEF InboxInv
  <1>1. ASSUME NEW s \in Seqs, SeqStep(s) PROVE StepShape
    <2>1. CASE \E p \in Payloads : Receive(s, p)
      BY <2>1 DEF StepShape
    <2>2. CASE UNCHANGED <<runVars, ingest, payload>>
      BY <1>0, <2>2 DEF TypeOK, StepShape, Quiet, runVars
    <2> QED BY <1>1, <2>1, <2>2 DEF SeqStep, Redeliver, ApiEnqueue, ApiDrop, SweepEnqueue,
               SweepSkip, Requeue, RedisLoss, Age, rowVars
  <1>2. ASSUME SweepStart PROVE StepShape
    BY <1>0, <1>2 DEF TypeOK, SweepStart, Releasable, StepShape, Quiet, runVars, IngestStatuses
  <1>3. ASSUME NEW w \in Workers, WorkerStep(w) PROVE StepShape
    <2>0. wpc[w] # "idle" => wseq[w] \in Seqs
      BY <1>0 DEF TypeOK
    <2>1. CASE Claim(w)
      BY <1>0, <2>0, <2>1 DEF TypeOK, Claim, Claimable, StepShape, Quiet, runVars, IngestStatuses
    <2>2. CASE MarkFailed(w)
      BY <1>0, <2>0, <2>2 DEF TypeOK, MarkFailed, StepShape, Quiet, runVars, IngestStatuses
    <2>3. CASE Complete(w)
      <3>1. wseq[w] \in Seqs /\ wseq[w] \in facts
        BY <2>0, <2>3 DEF InboxInv, Complete
      <3>2. CASE ingest[wseq[w]] = "processing"
        BY <2>3, <3>1, <3>2 DEF Complete, StepShape, Completes
      <3>3. CASE ingest[wseq[w]] # "processing"
        BY <1>0, <2>3, <3>3 DEF TypeOK, Complete, StepShape, Quiet, runVars
      <3> QED BY <3>2, <3>3
    <2>4. CASE UNCHANGED <<runVars, ingest, payload>>
      BY <1>0, <2>4 DEF TypeOK, StepShape, Quiet, runVars
    <2> QED BY <1>3, <2>1, <2>2, <2>3, <2>4 DEF WorkerStep, Take, Recheck, IngestFacts,
               IngestFails, Abandon, LeaseExpires, rowVars
  <1>4. ASSUME NEW r \in Reconcilers, RecStep(r) PROVE StepShape
    <2>1. CASE RecRecord(r)
      <3>1. rec[r] \in RecRecords /\ rec[r].goal # "running"
        BY <1>0, <2>1 DEF TypeOK, InboxInv, RecRecord
      <3>2. CASE status = "running"
        BY <1>0, <2>1, <3>1, <3>2
           DEF TypeOK, RecRecord, RecRecords, RunStatuses, StepShape, Closes, rowVars
      <3>3. CASE status # "running"
        BY <1>0, <2>1, <3>3 DEF TypeOK, RecRecord, StepShape, Quiet, runVars, rowVars
      <3> QED BY <3>2, <3>3
    <2>2. CASE UNCHANGED <<runVars, ingest, payload>>
      BY <1>0, <2>2 DEF TypeOK, StepShape, Quiet, runVars
    <2> QED BY <1>4, <2>1, <2>2 DEF RecStep, RecList, RecPoll, RecDecide, RecAbort, rowVars
  <1>5. ASSUME NEW u \in Users, CancelRun(u) PROVE StepShape
    BY <1>0, <1>5 DEF TypeOK, CancelRun, StepShape, Closes, Quiet, TerminalStatuses, runVars, rowVars
  <1>6. CASE UNCHANGED <<runVars, ingest, payload>>
    BY <1>0, <1>6 DEF TypeOK, StepShape, Quiet, runVars
  <1> QED BY <1>1, <1>2, <1>3, <1>4, <1>5, <1>6 DEF Next, CancelEngine, DeadlinePasses, vars, rowVars

(***************************************************************************)
(* The safety invariants                                                   *)
(***************************************************************************)

\* A closing write, a receipt and a quiet step cannot complete the stream of
\* an open run; a completion that does closes the run itself.
LEMMA ReadyStep == ASSUME InboxInv, TypeOK', StepShape PROVE ReadyMeansClosed'
  <1>0. TypeOK /\ ReadyMeansClosed
    BY DEF InboxInv
  <1>1. ASSUME NEW s \in Seqs, NEW p \in Payloads, Receive(s, p) PROVE ReadyMeansClosed'
    <2> SUFFICES ASSUME NEW m \in Seqs, EndsAt(ingest, m)' PROVE FALSE
      BY DEF ReadyMeansClosed, Ready, EndsAt
    <2>1. ingest'[s] # "processed"
      BY <1>0, <1>1 DEF Receive, Present, TypeOK
    <2>2. s \notin 1..m
      BY <2>1 DEF EndsAt
    <2>3. \A t \in 1..m : t \in Seqs /\ ingest'[t] = ingest[t] /\ payload'[t] = payload[t]
      BY <1>0, <1>1, <2>2 DEF Receive, TypeOK, Seqs
    <2>4. EndsAt(ingest, m)
      BY <2>3 DEF EndsAt, Seqs
    <2> QED BY <1>0, <1>1, <2>4 DEF ReadyMeansClosed, Ready, Receive
  <1>2. ASSUME NEW s \in Seqs, Completes(s) PROVE ReadyMeansClosed'
    <2>1. CASE status # "running"
      BY <1>2, <2>1 DEF Completes, CompleteRow, ReadyMeansClosed
    <2>2. CASE status = "running"
      BY <1>2, <2>2 DEF Completes, CompleteRow, ReadyMeansClosed, Ready, EndsAt
    <2> QED BY <2>1, <2>2
  <1>3. CASE Closes
    BY <1>3 DEF Closes, ReadyMeansClosed, TerminalStatuses
  <1>4. CASE Quiet
    BY <1>0, <1>4 DEF Quiet, ReadyMeansClosed, Ready, EndsAt, Seqs
  <1> QED BY <1>1, <1>2, <1>3, <1>4 DEF StepShape

\* The marker that closed a run stays its lowest final row: no batch is stored
\* under a closed run, and a processed row stays processed.
LEMMA CompleteStep ==
    ASSUME InboxInv, TypeOK', StepShape PROVE ClosedByCallbacksIsComplete'
  <1>0. TypeOK /\ ClosedByCallbacksIsComplete
    BY DEF InboxInv
  <1>1. ASSUME NEW s \in Seqs, NEW p \in Payloads, Receive(s, p)
        PROVE  ClosedByCallbacksIsComplete'
    BY <1>0, <1>1 DEF Receive, runVars, ClosedByCallbacksIsComplete, EndsAt
  <1>2. ASSUME NEW s \in Seqs, Completes(s) PROVE ClosedByCallbacksIsComplete'
    <2>1. \A t \in Seqs : ingest[t] = "processed" => ingest'[t] = "processed"
      BY <1>0, <1>2 DEF Completes, CompleteRow, TypeOK
    <2>2. CASE status = "running" /\ Ready([ingest EXCEPT ![s] = "processed"])
      BY <1>2, <2>2 DEF Completes, CompleteRow, ClosedByCallbacksIsComplete, EndsAt
    <2>3. CASE ~(status = "running" /\ Ready([ingest EXCEPT ![s] = "processed"]))
      BY <1>0, <1>2, <2>1, <2>3 DEF Completes, CompleteRow, ClosedByCallbacksIsComplete, EndsAt, Seqs
    <2> QED BY <2>2, <2>3
  <1>3. CASE Closes
    BY <1>3 DEF Closes, ClosedByCallbacksIsComplete
  <1>4. CASE Quiet
    BY <1>0, <1>4 DEF Quiet, ClosedByCallbacksIsComplete, EndsAt, Seqs
  <1> QED BY <1>1, <1>2, <1>3, <1>4 DEF StepShape

\* Facts are never taken back, so only a completion can break the rule, and it
\* runs in a worker that has stored them.
LEMMA FactsStep == ASSUME InboxInv, [Next]_vars, StepShape PROVE ProcessedHasFacts'
  <1>0. TypeOK /\ ProcessedHasFacts
    BY DEF InboxInv
  <1>1. facts \subseteq facts'
    BY DEF Next, SeqStep, Receive, Redeliver, ApiEnqueue, ApiDrop, SweepEnqueue, SweepSkip,
           Requeue, RedisLoss, Age, SweepStart, WorkerStep, Take, Claim, Recheck, IngestFacts,
           IngestFails, MarkFailed, Complete, Abandon, LeaseExpires, RecStep, RecList, RecPoll,
           RecDecide, RecRecord, RecAbort, CancelEngine, CancelRun, DeadlinePasses, vars, rowVars
  <1>2. ASSUME NEW s \in Seqs, NEW p \in Payloads, Receive(s, p) PROVE ProcessedHasFacts'
    BY <1>0, <1>1, <1>2 DEF Receive, ProcessedHasFacts, TypeOK
  <1>3. ASSUME NEW s \in Seqs, Completes(s) PROVE ProcessedHasFacts'
    BY <1>0, <1>1, <1>3 DEF Completes, CompleteRow, ProcessedHasFacts, TypeOK
  <1>4. CASE Closes
    BY <1>0, <1>1, <1>4 DEF Closes, ProcessedHasFacts
  <1>5. CASE Quiet
    BY <1>0, <1>1, <1>5 DEF Quiet, ProcessedHasFacts
  <1> QED BY <1>2, <1>3, <1>4, <1>5 DEF StepShape

\* A row that becomes pending again was released below the bound, and one that
\* is stored for the first time has not been tried.
LEMMA ClaimableStep ==
    ASSUME InboxInv, TypeOK', [Next]_vars
    PROVE  /\ ListedRowsAreClaimable'
           /\ (\A s \in Seqs : ingest[s] = "absent" => attempt[s] = 0)'
  <1>0. /\ TypeOK
        /\ \A s \in Seqs : ingest[s] = "pending" => attempt[s] < MaxAttempts
        /\ \A s \in Seqs : ingest[s] = "absent" => attempt[s] = 0
    BY DEF InboxInv, ListedRowsAreClaimable
  <1> DEFINE Goal == \A s \in Seqs : /\ ingest'[s] = "pending" => attempt'[s] < MaxAttempts
                                     /\ ingest'[s] = "absent" => attempt'[s] = 0
  <1> SUFFICES Goal
    BY DEF ListedRowsAreClaimable
  <1>1. ASSUME NEW s \in Seqs, NEW p \in Payloads, Receive(s, p) PROVE Goal
    BY <1>0, <1>1 DEF Receive, Present, TypeOK
  <1>2. CASE SweepStart
    BY <1>0, <1>2 DEF SweepStart, Releasable, TypeOK
  <1>3. ASSUME NEW w \in Workers, Claim(w) PROVE Goal
    BY <1>0, <1>3 DEF Claim, Claimable, TypeOK
  <1>4. ASSUME NEW w \in Workers, MarkFailed(w) PROVE Goal
    BY <1>0, <1>4 DEF MarkFailed, TypeOK
  <1>5. ASSUME NEW w \in Workers, Complete(w) PROVE Goal
    BY <1>0, <1>5 DEF Complete, CompleteRow, TypeOK
  <1>6. CASE UNCHANGED <<ingest, attempt>>
    BY <1>0, <1>6
  <1> QED
    BY <1>1, <1>2, <1>3, <1>4, <1>5, <1>6
       DEF Next, SeqStep, Redeliver, ApiEnqueue, ApiDrop, SweepEnqueue, SweepSkip, Requeue,
           RedisLoss, Age, WorkerStep, Take, Recheck, IngestFacts, IngestFails, Abandon,
           LeaseExpires, RecStep, RecList, RecPoll, RecDecide, RecRecord, RecAbort,
           CancelEngine, CancelRun, DeadlinePasses, vars, rowVars

\* The facts a worker is about to acknowledge, and the status a reconciler is
\* about to write.
LEMMA LocalsStep ==
    ASSUME InboxInv, TypeOK', [Next]_vars
    PROVE  /\ (\A w \in Workers : wpc[w] = "ingested" => wseq[w] \in facts)'
           /\ (\A r \in Reconcilers : rec[r].pc = "record" => rec[r].goal # "running")'
  <1>0. /\ TypeOK
        /\ \A w \in Workers : wpc[w] = "ingested" => wseq[w] \in facts
        /\ \A r \in Reconcilers : rec[r].pc = "record" => rec[r].goal # "running"
    BY DEF InboxInv
  <1> DEFINE WGoal == \A w \in Workers : wpc'[w] = "ingested" => wseq'[w] \in facts'
             RGoal == \A r \in Reconcilers : rec'[r].pc = "record" => rec'[r].goal # "running"
  <1> SUFFICES WGoal /\ RGoal
    OBVIOUS
  <1>1. ASSUME NEW w \in Workers, WorkerStep(w) PROVE WGoal /\ rec' = rec
    <2>1. CASE IngestFacts(w)
      BY <1>0, <2>1 DEF IngestFacts, TypeOK
    <2>2. ASSUME NEW s \in Seqs, Take(w, s) PROVE WGoal /\ rec' = rec
      BY <1>0, <2>2 DEF Take, TypeOK, workerVars, rowVars
    <2>3. CASE \E ok : Finish(w, ok) /\ UNCHANGED <<facts, rec>>
      BY <1>0, <2>3 DEF Finish, TypeOK
    <2>4. CASE Claim(w)
      BY <1>0, <2>4 DEF Claim, TypeOK
    <2>5. CASE IngestFails(w)
      BY <1>0, <2>5 DEF IngestFails, TypeOK, rowVars
    <2>6. CASE LeaseExpires(w)
      BY <1>0, <2>6 DEF LeaseExpires, TypeOK, rowVars
    <2> QED BY <1>1, <2>1, <2>2, <2>3, <2>4, <2>5, <2>6
               DEF WorkerStep, Recheck, MarkFailed, Complete, Abandon, rowVars
  <1>2. ASSUME NEW r \in Reconcilers, RecStep(r) PROVE RGoal /\ UNCHANGED <<wpc, wseq, facts>>
    <2>0. rec[r] \in RecRecords /\ rec \in [Reconcilers -> RecRecords]
      BY <1>0 DEF TypeOK
    <2>1. CASE RecDecide(r)
      BY <1>0, <2>0, <2>1 DEF RecDecide, RecRecords, StillIngesting, IdleRec, workerVars, rowVars
    <2>2. CASE RecList(r)
      BY <1>0, <2>0, <2>2 DEF RecList, workerVars, rowVars
    <2>3. CASE RecPoll(r)
      BY <1>0, <2>0, <2>3 DEF RecPoll, RecRecords, workerVars, rowVars
    <2>4. CASE RecAbort(r) \/ RecRecord(r)
      BY <1>0, <2>0, <2>4 DEF RecAbort, RecRecord, IdleRec, workerVars, rowVars
    <2> QED BY <1>2, <2>1, <2>2, <2>3, <2>4 DEF RecStep
  <1>3. CASE UNCHANGED <<wpc, wseq, facts, rec>>
    BY <1>0, <1>3
  <1>4. ASSUME NEW s \in Seqs, SeqStep(s) PROVE UNCHANGED <<wpc, wseq, facts, rec>>
    BY <1>4 DEF SeqStep, Receive, Redeliver, ApiEnqueue, ApiDrop, SweepEnqueue, SweepSkip,
                Requeue, RedisLoss, Age, workerVars, rowVars
  <1> QED
    BY <1>0, <1>1, <1>2, <1>3, <1>4
       DEF Next, SweepStart, CancelEngine, CancelRun, DeadlinePasses, vars, workerVars, rowVars

LEMMA InboxInit == Init => InboxInv
  <1> SUFFICES ASSUME Init PROVE InboxInv
    OBVIOUS
  <1>1. TypeOK
    BY TypeInit
  <1>2. ReadyMeansClosed
    BY DEF Init, ReadyMeansClosed, Ready, EndsAt, Seqs, NoPayload
  <1>3. /\ ClosedByCallbacksIsComplete
        /\ ProcessedHasFacts
        /\ ListedRowsAreClaimable
        /\ \A s \in Seqs : ingest[s] = "absent" => attempt[s] = 0
        /\ \A w \in Workers : wpc[w] = "ingested" => wseq[w] \in facts
        /\ \A r \in Reconcilers : rec[r].pc = "record" => rec[r].goal # "running"
    BY DEF Init, ClosedByCallbacksIsComplete, ProcessedHasFacts, ListedRowsAreClaimable, IdleRec
  <1> QED BY <1>1, <1>2, <1>3 DEF InboxInv

LEMMA InboxStep == InboxInv /\ [Next]_vars => InboxInv'
  <1> SUFFICES ASSUME InboxInv, [Next]_vars PROVE InboxInv'
    OBVIOUS
  <1>1. TypeOK'
    BY TypeSeq, TypeSweep, TypeWorker, TypeRec, TypeRest DEF InboxInv, Next
  <1>2. StepShape
    BY EveryStepHasAShape
  <1> QED BY <1>1, <1>2, ReadyStep, CompleteStep, FactsStep, ClaimableStep, LocalsStep DEF InboxInv

\* The inductive invariant of the inbox.
THEOREM InboxInvariant == Spec => []InboxInv
  BY InboxInit, InboxStep, PTL DEF Spec

\* CompleteDiscoveryCallbackIngest closes the run in the transaction that makes
\* its stream whole, for any number of workers, batches and faults.
THEOREM ReadyIsClosed == Spec => []ReadyMeansClosed
  <1>1. InboxInv => ReadyMeansClosed
    BY DEF InboxInv
  <1> QED BY <1>1, InboxInvariant, PTL

\* A run closed by its callbacks (callbackFinalState) has its whole stream
\* ingested and the status of the stream's end.
THEOREM CallbackClosureIsComplete == Spec => []ClosedByCallbacksIsComplete
  <1>1. InboxInv => ClosedByCallbacksIsComplete
    BY DEF InboxInv
  <1> QED BY <1>1, InboxInvariant, PTL

\* The processed mark of IngestHandler.Handle never precedes the facts.
THEOREM ProcessedImpliesFacts == Spec => []ProcessedHasFacts
  <1>1. InboxInv => ProcessedHasFacts
    BY DEF InboxInv
  <1> QED BY <1>1, InboxInvariant, PTL

\* What RecoverPendingCallbacks lists can be claimed.
THEOREM SweepListsClaimable == Spec => []ListedRowsAreClaimable
  <1>1. InboxInv => ListedRowsAreClaimable
    BY DEF InboxInv
  <1> QED BY <1>1, InboxInvariant, PTL

(***************************************************************************)
(* Sums.  Total is a recursive function of an index: it has its value by a *)
(* least index for which no such function exists, and what changes it is   *)
(* shown at the least index where the two sums differ otherwise.           *)
(***************************************************************************)
LEMMA LeastNat ==
    ASSUME NEW S, S \subseteq Nat, S # {} PROVE \E x \in S : \A y \in S : x <= y
  <1> DEFINE R == OpToRel(<, Nat)
  <1>1. IsWellFoundedOn(R, Nat)
    BY NatLessThanWellFounded
  <1>2. \A a, b \in Nat : a < b => <<a, b>> \in R
    BY DEF OpToRel
  <1> HIDE DEF R
  <1>3. PICK x \in S : \A y \in S : ~(<<y, x>> \in R)
    BY <1>1, WFMin
  <1>4. \A y \in S : ~(y < x)
    BY <1>2, <1>3
  <1> QED BY <1>4

\* "sum" holds the partial sums of f up to n.
Sums(f, sum, n) == sum = [i \in 0..n |-> IF i = 0 THEN 0 ELSE sum[i - 1] + f[i]]

LEMMA SumsExist == ASSUME NEW f, NEW n \in Nat PROVE \E sum : Sums(f, sum, n)
  <1> DEFINE S == {m \in Nat : ~\E sum : Sums(f, sum, m)}
  <1> SUFFICES ASSUME S # {} PROVE FALSE
    OBVIOUS
  <1>1. PICK m \in S : \A y \in S : m <= y
    BY LeastNat
  <1>2. CASE m = 0
    <2> DEFINE h == [i \in 0..0 |-> 0]
    <2>1. \A i \in 0..0 : i = 0
      OBVIOUS
    <2>2. Sums(f, h, 0)
      BY <2>1 DEF Sums
    <2> QED BY <1>1, <1>2, <2>2
  <1>3. CASE m # 0
    <2>1. m - 1 \in Nat /\ m - 1 \notin S
      BY <1>1, <1>3
    <2>2. PICK h : Sums(f, h, m - 1)
      BY <2>1
    <2> DEFINE g == [i \in 0..m |-> IF i = m THEN h[m - 1] + f[m] ELSE h[i]]
    <2>3. \A i \in 0..m : g[i] = IF i = 0 THEN 0 ELSE g[i - 1] + f[i]
      <3> SUFFICES ASSUME NEW i \in 0..m PROVE g[i] = IF i = 0 THEN 0 ELSE g[i - 1] + f[i]
        OBVIOUS
      <3>1. CASE i = 0
        BY <1>3, <2>1, <2>2, <3>1 DEF Sums
      <3>2. CASE i # 0 /\ i = m
        BY <1>3, <2>1, <3>2
      <3>3. CASE i # 0 /\ i # m
        <4>1. i \in 0..(m - 1) /\ i - 1 \in 0..m /\ i - 1 # m
          BY <1>1, <3>3
        <4> QED BY <2>2, <3>3, <4>1 DEF Sums
      <3> QED BY <3>1, <3>2, <3>3
    <2>4. Sums(f, g, m)
      BY <2>3 DEF Sums
    <2> QED BY <1>1, <2>4
  <1> QED BY <1>2, <1>3

LEMMA TotalOfSums ==
    ASSUME NEW f, NEW n \in Nat
    PROVE  \E sum : Total(f, n) = sum[n] /\ Sums(f, sum, n)
  <1> DEFINE sum[i \in 0..n] == IF i = 0 THEN 0 ELSE sum[i - 1] + f[i]
  <1>1. \E h : h = [i \in 0..n |-> IF i = 0 THEN 0 ELSE h[i - 1] + f[i]]
    BY SumsExist DEF Sums
  <1>2. Sums(f, sum, n)
    BY <1>1 DEF Sums
  <1>3. Total(f, n) = sum[n]
    BY DEF Total
  <1> HIDE DEF sum
  <1> QED BY <1>2, <1>3

\* The sum of numbers is a number, and nothing adds up to nothing.
LEMMA TotalType ==
    ASSUME NEW n \in Nat, NEW f, \A i \in 1..n : f[i] \in Nat
    PROVE  /\ Total(f, n) \in Nat
           /\ (\A i \in 1..n : f[i] = 0) => Total(f, n) = 0
  <1>1. PICK sum : Total(f, n) = sum[n] /\ Sums(f, sum, n)
    BY TotalOfSums
  <1>2. \A i \in 0..n : sum[i] = IF i = 0 THEN 0 ELSE sum[i - 1] + f[i]
    BY <1>1 DEF Sums
  <1> DEFINE Good(i) == sum[i] \in Nat /\ ((\A j \in 1..n : f[j] = 0) => sum[i] = 0)
             S == {i \in 0..n : ~Good(i)}
  <1>3. ASSUME S # {} PROVE FALSE
    <2>1. PICK m \in S : \A y \in S : m <= y
      <3>1. S \subseteq Nat
        OBVIOUS
      <3> HIDE DEF S
      <3> QED BY <1>3, <3>1, LeastNat
    <2>2. m # 0
      BY <1>2, <2>1
    <2>3. m \in 1..n /\ m - 1 \in 0..n /\ m - 1 \notin S
      BY <2>1, <2>2
    <2>4. Good(m - 1)
      BY <2>3
    <2>5. sum[m] = sum[m - 1] + f[m]
      BY <1>2, <2>2, <2>3
    <2> QED BY <2>1, <2>3, <2>4, <2>5
  <1>4. Good(n)
    BY <1>3
  <1> QED BY <1>1, <1>4

\* g is f with d more at s.
AddsAt(f, g, n, s, d) ==
    \A i \in 1..n : f[i] \in Nat /\ g[i] = f[i] + (IF i = s THEN d ELSE 0)

\* Adding d to one summand adds d to the sum.
LEMMA TotalMoves ==
    ASSUME NEW n \in Nat, NEW f, NEW g, NEW s \in 1..n, NEW d \in Nat, AddsAt(f, g, n, s, d)
    PROVE  Total(g, n) = Total(f, n) + d
  <1>1. PICK a : Total(f, n) = a[n] /\ Sums(f, a, n)
    BY TotalOfSums
  <1>2. PICK b : Total(g, n) = b[n] /\ Sums(g, b, n)
    BY TotalOfSums
  <1>3. /\ \A i \in 0..n : a[i] = IF i = 0 THEN 0 ELSE a[i - 1] + f[i]
        /\ \A i \in 0..n : b[i] = IF i = 0 THEN 0 ELSE b[i - 1] + g[i]
    BY <1>1, <1>2 DEF Sums
  <1> DEFINE Good(i) == a[i] \in Nat /\ b[i] = a[i] + (IF s <= i THEN d ELSE 0)
             S == {i \in 0..n : ~Good(i)}
  <1>4. ASSUME S # {} PROVE FALSE
    <2>1. PICK m \in S : \A y \in S : m <= y
      <3>1. S \subseteq Nat
        OBVIOUS
      <3> HIDE DEF S
      <3> QED BY <1>4, <3>1, LeastNat
    <2>2. m # 0
      BY <1>3, <2>1
    <2>3. m \in 1..n /\ m - 1 \in 0..n /\ m - 1 \notin S
      BY <2>1, <2>2
    <2>4. Good(m - 1)
      BY <2>3
    <2>5. a[m] = a[m - 1] + f[m] /\ b[m] = b[m - 1] + g[m]
      BY <1>3, <2>2, <2>3
    <2>6. f[m] \in Nat /\ g[m] = f[m] + (IF m = s THEN d ELSE 0)
      BY <2>3 DEF AddsAt
    <2>7. Good(m)
      BY <2>3, <2>4, <2>5, <2>6
    <2> QED BY <2>1, <2>7
  <1>5. Good(n)
    BY <1>4
  <1> QED BY <1>1, <1>2, <1>5

(***************************************************************************)
(* The count of an open run                                                *)
(***************************************************************************)
LEMMA CountedValue ==
    ASSUME TypeOK
    PROVE  \A i \in 1..MaxSeq :
              /\ Counted[i] = IF ingest[i] = "processed" THEN payload[i].count ELSE 0
              /\ Counted[i] \in Nat
  BY DEF TypeOK, Counted, Seqs

\* A completion adds its own batch to the sum, and no other step but one that
\* closes the run changes what is summed.
LEMMA CountStep ==
    ASSUME InboxInv, CountIsSumOfProcessed, TypeOK', StepShape
    PROVE  CountIsSumOfProcessed'
  <1>0. TypeOK
    BY DEF InboxInv
  <1>1. ASSUME NEW s \in Seqs, NEW p \in Payloads, Receive(s, p) PROVE CountIsSumOfProcessed'
    <2>1. Counted' = Counted
      BY <1>0, <1>1 DEF Receive, Present, TypeOK, Counted
    <2> QED BY <1>1, <2>1 DEF Receive, runVars, CountIsSumOfProcessed, Total
  <1>2. ASSUME NEW s \in Seqs, Completes(s) PROVE CountIsSumOfProcessed'
    <2> SUFFICES ASSUME status' = "running" PROVE count' = Total(Counted', MaxSeq)
      BY DEF CountIsSumOfProcessed, Total
    <2>1. status = "running" /\ count' = count + payload[s].count
      <3>1. CASE status = "running"
        BY <1>2, <3>1 DEF Completes, CompleteRow
      <3>2. CASE status # "running"
        BY <1>2, <3>2 DEF Completes, CompleteRow
      <3> QED BY <3>1, <3>2
    <2>2. count = Total(Counted, MaxSeq)
      BY <2>1 DEF CountIsSumOfProcessed
    <2>3. /\ payload' = payload /\ payload[s].count \in Nat
          /\ ingest[s] # "processed"
          /\ \A i \in Seqs : ingest'[i] = "processed" <=> ingest[i] = "processed" \/ i = s
      BY <1>0, <1>2 DEF Completes, CompleteRow, TypeOK
    <2>4. \A i \in 1..MaxSeq :
             /\ Counted[i] = IF ingest[i] = "processed" THEN payload[i].count ELSE 0
             /\ Counted[i] \in Nat
      BY <1>0, CountedValue
    <2>5. \A i \in 1..MaxSeq :
             (Counted')[i] = IF ingest'[i] = "processed" THEN payload'[i].count ELSE 0
      BY DEF Counted, Seqs
    <2>6. AddsAt(Counted, Counted', MaxSeq, s, payload[s].count)
      BY <2>3, <2>4, <2>5 DEF Seqs, AddsAt
    <2>7. Total(Counted', MaxSeq) = Total(Counted, MaxSeq) + payload[s].count
      BY <2>3, <2>6, TotalMoves DEF Seqs
    <2> QED BY <2>1, <2>2, <2>7
  <1>3. CASE Closes
    BY <1>3 DEF Closes, TerminalStatuses, CountIsSumOfProcessed
  <1>4. CASE Quiet
    <2>1. Counted' = Counted
      BY <1>4 DEF Quiet, Counted
    <2> QED BY <1>4, <2>1 DEF Quiet, CountIsSumOfProcessed, Total
  <1> QED BY <1>1, <1>2, <1>3, <1>4 DEF StepShape

\* MarkTaskRunCallbackReceived adds a batch to result_count exactly once: the
\* count of an open run is the sum over its processed batches, for any number
\* of batches and workers and whatever is redelivered, released or failed.
THEOREM CountIsExact == Spec => []CountIsSumOfProcessed
  <1>1. Init => CountIsSumOfProcessed
    <2> SUFFICES ASSUME Init PROVE count = Total(Counted, MaxSeq)
      BY DEF CountIsSumOfProcessed
    <2>1. \A i \in 1..MaxSeq : Counted[i] = 0
      BY DEF Init, Counted, Seqs
    <2>2. Total(Counted, MaxSeq) = 0
      BY <2>1, TotalType
    <2> QED BY <2>2 DEF Init
  <1>2. InboxInv /\ InboxInv' /\ CountIsSumOfProcessed /\ [Next]_vars => CountIsSumOfProcessed'
    BY EveryStepHasAShape, CountStep DEF InboxInv
  <1> QED BY <1>1, <1>2, InboxInvariant, PTL DEF Spec

(***************************************************************************)
(* The inbox implements the ledger: a receipt is Accept, a completion is   *)
(* Ingest, a closing write is Close, a quiet step is a stutter.            *)
(***************************************************************************)

LEMMA LedgerInit == Init => Ledger!Init
  BY DEF Init, Ledger!Init, Ledger!Seqs, Ledger!NoBatch, Seqs, NoPayload, Present

LEMMA LedgerStep == InboxInv /\ StepShape => [Ledger!Next]_(Ledger!vars)
  <1> SUFFICES ASSUME InboxInv, StepShape PROVE [Ledger!Next]_(Ledger!vars)
    OBVIOUS
  <1>0. TypeOK
    BY DEF InboxInv
  <1>1. ASSUME NEW s \in Seqs, NEW p \in Payloads, Receive(s, p) PROVE Ledger!Next
    <2>1. Ledger!Accept(s, p)
      BY <1>0, <1>1 DEF Receive, Present, runVars, TypeOK, Ledger!Accept
    <2> QED BY <2>1 DEF Ledger!Next, Ledger!Seqs, Seqs
  <1>2. ASSUME NEW s \in Seqs, Completes(s) PROVE Ledger!Next
    <2> DEFINE done == [ingest EXCEPT ![s] = "processed"]
               ingested == {t \in Seqs : done[t] = "processed"}
    <2>1. /\ ingest' = done
          /\ payload' = payload
          /\ ingested = {t \in Seqs : ingest[t] = "processed"} \cup {s}
          /\ {t \in Seqs : Present(t)}' = {t \in Seqs : Present(t)}
      BY <1>0, <1>2 DEF Completes, CompleteRow, TypeOK, Present
    <2>2. \A m \in Seqs : EndsAt(done, m) <=> Ledger!EndsAt(payload, ingested, m)
      BY <1>0 DEF EndsAt, Ledger!EndsAt, Seqs
    <2>3. count' = IF status = "running" THEN count + payload[s].count ELSE count
      BY <1>2 DEF Completes, CompleteRow
    <2>4. IF status = "running" /\ \E m \in Seqs : EndsAt(done, m)
          THEN \E m \in Seqs : EndsAt(done, m) /\ status' = payload[m].status
          ELSE status' = status
      BY <1>2 DEF Completes, CompleteRow, Ready
    <2>5. s \in {t \in Seqs : Present(t)} \ {t \in Seqs : ingest[t] = "processed"}
      BY <1>2 DEF Completes, Present
    <2>6. Ledger!Ingest(s)
      BY <2>1, <2>2, <2>3, <2>4, <2>5 DEF Ledger!Ingest, Ledger!Seqs, Seqs
    <2> QED BY <2>6 DEF Ledger!Next, Ledger!Seqs, Seqs
  <1>3. CASE Closes
    <2>1. Ledger!Close(status')
      BY <1>3 DEF Closes, Ledger!Close, Present
    <2> QED BY <1>3, <2>1 DEF Closes, Ledger!Next, Ledger!TerminalStatuses, TerminalStatuses
  <1>4. CASE Quiet
    BY <1>4 DEF Quiet, Present, Ledger!vars
  <1> QED BY <1>1, <1>2, <1>3, <1>4 DEF StepShape

\* Refinement: with any queue, any workers and any faults, the callback path of
\* the code does to a run only what the ledger allows.
THEOREM InboxImplementsLedger == Spec => ImplementsLedger
  <1>1. InboxInv /\ [Next]_vars => [Ledger!Next]_(Ledger!vars)
    BY EveryStepHasAShape, LedgerStep
  <1> QED BY <1>1, LedgerInit, InboxInvariant, PTL DEF Spec, ImplementsLedger, Ledger!Spec
=============================================================================
