--------------------------- MODULE EngineJobProofs ---------------------------
(***************************************************************************)
(* Proofs about EngineJob, for every set of jobs and workers, every queue  *)
(* size, stream length and number of faults: what the platform receives    *)
(* is one payload per sequence number, without gaps, and no write of a job *)
(* record takes a callback checkpoint back; and, when no Save fails, an    *)
(* ended job stays ended with the status of its final batch and the number *)
(* of facts the platform received.                                         *)
(*                                                                         *)
(* The facts about stored records, deliveries and workers are operators of *)
(* d (the records) and g (what the platform got), so that one lemma says   *)
(* what a step that only moves the checkpoint forward keeps.               *)
(***************************************************************************)
EXTENDS EngineJob, FiniteSetTheorems, WellFoundedInduction, TLAPS

USE EngineAssumption

-----------------------------------------------------------------------------
(* The inductive invariant.                                                *)

\* A batch is pending only as the successor of the last acknowledged one.
PendingIsNext(r) == r.pending # NoBatch => r.pending.seq = r.last + 1

\* Every acknowledged seq arrived with one payload; beyond the checkpoint
\* only the pending batch can have arrived.
StreamFine(r, got) ==
    /\ PendingIsNext(r)
    /\ \A s \in Seqs : s <= r.last => \E b \in Batches : got[s] = {b}
    /\ \A s \in Seqs : s > r.last => got[s] \subseteq {r.pending}
    /\ \A s \in Seqs : got[s] # {} => s <= r.last + 1

\* b is the pending batch, or one that was acknowledged.
Held(b, r, got) == b = r.pending \/ (b.seq <= r.last /\ b \in got[b.seq])

\* What a worker in state x may rely on.
WorkerFine(x, d, g) ==
    /\ x.pc # "idle" => x.job \in Jobs
    /\ x.pc \notin {"idle", "taken"} => x.seq # 0
    /\ x.pc = "prepare" => x.batch \in Batches
    /\ x.pc \in {"prepare", "deliver", "ack"} => x.resuming \/ x.seq <= MaxSeq
    /\ x.pc \in {"deliver", "ack"} => x.out \in Batches /\ Held(x.out, d[x.job], g[x.job])
    /\ x.pc = "ack" => x.out \in g[x.job][x.out.seq]
    /\ x.pc = "finish" => x.res # "none"

\* The record m.rec that waits for its Save was read from the stored one, r,
\* at or before its present checkpoint.
ReadFrom(rec, r) ==
    /\ PendingIsNext(rec)
    /\ rec.last <= r.last
    /\ rec.last = r.last => rec.pending \in {NoBatch, r.pending}

LockFine(m, d) == m = Free \/ (m.job \in Jobs /\ ReadFrom(m.rec, d[m.job]))

EngineInv ==
    /\ TypeOK
    /\ \A j \in Jobs : StreamFine(disk[j], received[j])
    /\ \A w \in Workers : WorkerFine(worker[w], disk, received)
    /\ LockFine(mu, disk)

\* A step from records d and deliveries g to e and h only moves checkpoints
\* forward: a pending batch stays until it is acknowledged, having arrived.
Forward(d, g, e, h) ==
    \A j \in Jobs :
        /\ \A s \in Seqs : g[j][s] \subseteq h[j][s]
        /\ \/ /\ e[j].last = d[j].last
              /\ d[j].pending # NoBatch => e[j].pending = d[j].pending
           \/ /\ e[j].last = d[j].last + 1
              /\ d[j].pending.seq = e[j].last
              /\ d[j].pending \in h[j][e[j].last]

-----------------------------------------------------------------------------
(* The operators.                                                          *)

LEMMA BatchFacts ==
    /\ NoBatch \notin Batches /\ NoBatch.seq = 0 /\ NoBatch.status = "running" /\ NoBatch.count = 0
    /\ \A b \in Batches \cup {NoBatch} :
          /\ b.seq \in Nat /\ b.count \in Nat
          /\ b.status \in {"running"} \cup FinalStatuses
    /\ \A b \in Batches : b.seq \in Seqs
    /\ NoRecord \in Records
  <1>1. /\ NoBatch \notin Batches /\ NoBatch.seq = 0
        /\ NoBatch.status = "running" /\ NoBatch.count = 0
    BY DEF Batches, NoBatch, Seqs
  <1>2. \A b \in Batches :
           /\ b.seq \in Nat /\ b.count \in Nat /\ b.seq \in Seqs
           /\ b.status \in {"running"} \cup FinalStatuses
    <2>1. Counts \cup {0} \subseteq Nat /\ Seqs \subseteq Nat
      BY DEF Seqs
    <2> QED BY <2>1 DEF Batches
  <1>3. NoRecord \in Records
    BY DEF NoRecord, Records, JobStatuses
  <1> QED BY <1>1, <1>2, <1>3

\* FileStore.Save of a record read earlier leaves the checkpoint of the
\* stored record as it is.
LEMMA MergeKeepsCheckpoint ==
    ASSUME NEW r \in Records, NEW old \in Records, PendingIsNext(old), ReadFrom(r, old)
    PROVE  /\ mergeCallbackCheckpoint(r, old) \in Records
           /\ mergeCallbackCheckpoint(r, old).last = old.last
           /\ mergeCallbackCheckpoint(r, old).pending = old.pending
  <1> DEFINE m == mergeCallbackCheckpoint(r, old)
  <1>1. /\ r.last \in Nat /\ old.last \in Nat /\ r.last <= old.last
        /\ r.pending.seq \in Nat /\ old.pending.seq \in Nat
    BY BatchFacts DEF Records, ReadFrom
  <1>2. m.last = old.last
    BY <1>1 DEF mergeCallbackCheckpoint, Records
  <1>3. m.pending = IF old.last < old.pending.seq THEN old.pending
                    ELSE IF r.pending.seq <= old.last THEN NoBatch ELSE r.pending
    BY <1>1 DEF mergeCallbackCheckpoint, Records
  <1>4. m.pending = old.pending
    <2>1. CASE old.pending # NoBatch
      BY <1>1, <1>3, <2>1 DEF PendingIsNext
    <2>2. CASE old.pending = NoBatch
      <3>1. r.pending = NoBatch \/ r.pending.seq <= old.last
        BY <1>1, <2>2 DEF ReadFrom, PendingIsNext
      <3> QED BY <1>1, <1>3, <2>2, <3>1, BatchFacts
    <2> QED BY <2>1, <2>2
  <1>5. m \in Records
    <2>1. m = [r EXCEPT !.last = m.last, !.sum = m.sum, !.phase = m.phase, !.pending = m.pending]
      BY DEF mergeCallbackCheckpoint, Records
    <2>2. m.sum \in {r.sum, old.sum} /\ m.phase \in {r.phase, old.phase}
      BY DEF mergeCallbackCheckpoint, Records
    <2> HIDE DEF m
    <2> QED BY <2>1, <2>2, <1>2, <1>4 DEF Records
  <1> QED BY <1>2, <1>4, <1>5

\* Where an executor goes after a Send.
LEMMA SentFine ==
    ASSUME NEW x \in WorkerStates, x.resuming \/ x.seq <= MaxSeq, x.seq # 0
    PROVE  /\ Sent(x) \in WorkerStates
           /\ Sent(x).job = x.job /\ Sent(x).seq # 0
           /\ Sent(x).pc \in {"resumed", "produce", "finish"}
           /\ Sent(x).pc = "finish" => Sent(x).res # "none"
  <1>1. /\ x.batch.status \in {"running"} \cup FinalStatuses
        /\ x.batch.count \in Nat /\ x.seq \in 0..(MaxSeq + 1) /\ x.total \in Nat
    BY BatchFacts DEF WorkerStates
  <1>2. CASE x.resuming
    BY <1>2 DEF Sent, WorkerStates, PCs
  <1>3. CASE ~x.resuming
    <2> DEFINE pc == IF x.batch.status = "running" THEN "produce" ELSE "finish"
               res == IF x.batch.status = "running" THEN "none" ELSE x.batch.status
               total == IF x.job \in StreamJobs THEN x.total + x.batch.count ELSE x.batch.count
    <2>1. Sent(x) = [x EXCEPT !.pc = pc, !.res = res, !.seq = x.seq + 1, !.total = total]
      BY <1>3 DEF Sent, WorkerStates
    <2>2. /\ pc \in PCs /\ pc \in {"produce", "finish"}
          /\ res \in {"none"} \cup FinalStatuses
          /\ pc = "finish" => res # "none"
      BY <1>1 DEF PCs, FinalStatuses
    <2>3. total \in Nat /\ x.seq + 1 \in 0..(MaxSeq + 1) /\ x.seq + 1 # 0
      BY <1>1, <1>3
    <2> HIDE DEF pc, res, total
    <2> QED BY <2>1, <2>2, <2>3 DEF WorkerStates
  <1> QED BY <1>2, <1>3

\* What the invariant says of one job.
LEMMA JobFacts ==
    ASSUME EngineInv, NEW j \in Jobs
    PROVE  /\ disk[j] \in Records /\ disk[j].last \in Nat /\ disk[j].last \in 0..MaxSeq
           /\ disk[j].pending \in Batches \cup {NoBatch}
           /\ received[j] \in [Seqs -> SUBSET Batches]
           /\ StreamFine(disk[j], received[j])
  <1>1. disk[j] \in Records /\ received[j] \in [Seqs -> SUBSET Batches]
    BY DEF EngineInv, TypeOK
  <1>2. /\ disk[j].last \in Nat /\ disk[j].last \in 0..MaxSeq
        /\ disk[j].pending \in Batches \cup {NoBatch}
    BY <1>1 DEF Records
  <1> QED BY <1>1, <1>2 DEF EngineInv

\* A worker that moves to a point where it relies on nothing is fine.
LEMMA PlainFine ==
    ASSUME NEW x, NEW d, NEW g, x.job \in Jobs, x.pc = "finish" => x.res # "none",
           x.pc \notin {"prepare", "deliver", "ack"}, x.pc = "taken" \/ x.seq # 0
    PROVE  WorkerFine(x, d, g)
  BY DEF WorkerFine

LEMMA IdleFine == Idle \in WorkerStates /\ \A d, g : WorkerFine(Idle, d, g)
  BY DEF WorkerFine, Idle, WorkerStates, PCs

-----------------------------------------------------------------------------
(* Steps that move checkpoints forward.                                    *)

DiskType(d) == d \in [Jobs -> Records]
GotType(g) == g \in [Jobs -> [Seqs -> SUBSET Batches]]

LEMMA ForwardKeepsHeld ==
    ASSUME NEW d, NEW e, NEW g, NEW h, DiskType(d), DiskType(e), GotType(g), GotType(h),
           NEW j \in Jobs, StreamFine(d[j], g[j]), Forward(d, g, e, h),
           NEW b \in Batches, Held(b, d[j], g[j])
    PROVE  Held(b, e[j], h[j])
  <1>1. d[j].last \in Nat /\ e[j].last \in Nat /\ b.seq \in Seqs /\ b.seq \in Nat
    BY BatchFacts DEF DiskType, Records
  <1>2. g[j][b.seq] \subseteq h[j][b.seq]
    BY <1>1 DEF Forward
  <1>3. CASE b.seq <= d[j].last /\ b \in g[j][b.seq]
    <2>1. d[j].last <= e[j].last
      BY <1>1 DEF Forward
    <2> QED BY <1>1, <1>2, <1>3, <2>1 DEF Held
  <1>4. CASE b = d[j].pending
    <2>1. b # NoBatch
      BY BatchFacts
    <2> QED BY <1>1, <1>4, <2>1 DEF Forward, Held
  <1> QED BY <1>3, <1>4 DEF Held

LEMMA ForwardKeepsWorker ==
    ASSUME NEW d, NEW e, NEW g, NEW h, DiskType(d), DiskType(e), GotType(g), GotType(h),
           \A j \in Jobs : StreamFine(d[j], g[j]), Forward(d, g, e, h),
           NEW x, WorkerFine(x, d, g)
    PROVE  WorkerFine(x, e, h)
  <1>1. ASSUME x.pc \in {"deliver", "ack"}
        PROVE  Held(x.out, e[x.job], h[x.job])
    BY <1>1, ForwardKeepsHeld DEF WorkerFine
  <1>2. ASSUME x.pc = "ack"
        PROVE  x.out \in h[x.job][x.out.seq]
    <2>1. x.job \in Jobs /\ x.out.seq \in Seqs /\ x.out \in g[x.job][x.out.seq]
      BY <1>2, BatchFacts DEF WorkerFine
    <2> QED BY <2>1 DEF Forward
  <1> QED BY <1>1, <1>2 DEF WorkerFine

LEMMA ForwardKeepsLock ==
    ASSUME NEW d, NEW e, NEW g, NEW h, DiskType(d), DiskType(e), Forward(d, g, e, h),
           NEW m, m.rec \in Records, LockFine(m, d)
    PROVE  LockFine(m, e)
  <1>1. CASE m = Free
    BY <1>1 DEF LockFine
  <1>2. CASE m.job \in Jobs /\ ReadFrom(m.rec, d[m.job])
    <2>1. d[m.job].last \in Nat /\ e[m.job].last \in Nat /\ m.rec.last \in Nat
      BY <1>2 DEF DiskType, Records
    <2> QED BY <1>2, <2>1 DEF Forward, LockFine, ReadFrom
  <1> QED BY <1>1, <1>2 DEF LockFine

\* What is left to show of a step: the types, the streams, that checkpoints
\* only moved forward, and what the workers and the lock that changed rely on.
LEMMA StepKeeps ==
    ASSUME EngineInv, TypeOK',
           \A j \in Jobs : StreamFine(disk'[j], received'[j]),
           Forward(disk, received, disk', received'),
           \A w \in Workers : \/ worker'[w] = worker[w] \/ WorkerFine(worker'[w], disk, received)
                              \/ WorkerFine(worker'[w], disk', received'),
           mu' = mu \/ LockFine(mu', disk')
    PROVE  EngineInv'
  <1>1. /\ DiskType(disk) /\ DiskType(disk') /\ GotType(received) /\ GotType(received')
        /\ mu.rec \in Records
    BY DEF EngineInv, TypeOK, DiskType, GotType
  <1>2. \A w \in Workers : WorkerFine(worker'[w], disk', received')
    BY <1>1, ForwardKeepsWorker DEF EngineInv
  <1>3. LockFine(mu', disk')
    BY <1>1, ForwardKeepsLock DEF EngineInv
  <1> QED BY <1>2, <1>3 DEF EngineInv

\* The same for a step that leaves records and deliveries alone.
LEMMA QuietStepKeeps ==
    ASSUME EngineInv, TypeOK', UNCHANGED diskVars,
           \A w \in Workers : worker'[w] = worker[w] \/ WorkerFine(worker'[w], disk, received),
           mu' = mu \/ LockFine(mu', disk)
    PROVE  EngineInv' /\ Forward(disk, received, disk', received')
  <1>1. disk' = disk /\ received' = received
    BY DEF diskVars
  <1>2. Forward(disk, received, disk', received')
    BY <1>1 DEF Forward
  <1>3. \A j \in Jobs : StreamFine(disk'[j], received'[j])
    BY <1>1 DEF EngineInv
  <1> QED BY <1>1, <1>2, <1>3, StepKeeps

-----------------------------------------------------------------------------
(* The executors.                                                          *)

\* What every step has to keep.
Kept == EngineInv' /\ Forward(disk, received, disk', received')

LEMMA FaultType ==
    ASSUME TypeOK, Fault \/ SaveFault \/ NoFault
    PROVE  faults' \in 0..MaxFaults /\ saveFaults' \in 0..MaxSaveFaults
  BY DEF TypeOK, Fault, SaveFault, NoFault

LEMMA ExecutorKeeps ==
    ASSUME EngineInv, NEW w \in Workers, NEW y \in WorkerStates, Step(w, y),
           NoFault \/ Fault, DiskType(disk'), GotType(received'),
           \A j \in Jobs : StreamFine(disk'[j], received'[j]),
           Forward(disk, received, disk', received'), WorkerFine(y, disk', received')
    PROVE  Kept
  <1>1. TypeOK'
    <2>1. worker' \in [Workers -> WorkerStates]
      BY DEF EngineInv, TypeOK, Step
    <2>2. faults' \in 0..MaxFaults /\ saveFaults' \in 0..MaxSaveFaults
      BY FaultType DEF EngineInv
    <2> QED BY <2>1, <2>2 DEF EngineInv, TypeOK, Step, memVars, DiskType, GotType
  <1>2. \A v \in Workers : worker'[v] = worker[v] \/ WorkerFine(worker'[v], disk', received')
    BY DEF EngineInv, TypeOK, Step
  <1>3. mu' = mu
    BY DEF Step, memVars
  <1> QED BY <1>1, <1>2, <1>3, StepKeeps DEF Kept

LEMMA QuietExecutorKeeps ==
    ASSUME EngineInv, NEW w \in Workers, NEW y \in WorkerStates, Step(w, y),
           NoFault \/ Fault, UNCHANGED diskVars, WorkerFine(y, disk, received)
    PROVE  Kept
  <1>1. disk' = disk /\ received' = received
    BY DEF diskVars
  <1>2. DiskType(disk') /\ GotType(received') /\ Forward(disk, received, disk', received')
    BY <1>1 DEF EngineInv, TypeOK, DiskType, GotType, Forward
  <1> QED BY <1>1, <1>2, ExecutorKeeps DEF EngineInv

LEMMA ResumeKeeps ==
    ASSUME EngineInv, NEW w \in Workers, Resume(w) \/ Resumed(w)
    PROVE  Kept
  <1> DEFINE x == worker[w]
             r == disk[x.job]
  <1>1. x.pc \in {"resume", "resumed"} /\ UNCHANGED diskVars /\ NoFault
    BY DEF Resume, Resumed, At
  <1>2. x \in WorkerStates /\ x.job \in Jobs /\ x.seq # 0
    BY <1>1 DEF EngineInv, TypeOK, WorkerFine
  <1>3. r \in Records /\ r.last + 1 \in 0..(MaxSeq + 1) /\ r.last + 1 # 0
    <2>1. r \in Records /\ r.last \in 0..MaxSeq
      BY <1>2, JobFacts
    <2> QED BY <2>1
  <1>4. CASE Resume(w) /\ r.pending # NoBatch
    <2> DEFINE y == [x EXCEPT !.pc = "prepare", !.batch = r.pending, !.resuming = TRUE]
    <2>1. Step(w, y)
      BY <1>4 DEF Resume, RecordOf
    <2>2. y \in WorkerStates /\ y.job = x.job /\ y.pc = "prepare" /\ y.resuming /\ y.seq = x.seq
      BY <1>2, <1>3 DEF WorkerStates, Records, PCs
    <2>3. y.batch = r.pending /\ r.pending \in Batches
      BY <1>2, <1>3, <1>4 DEF WorkerStates, Records
    <2> HIDE DEF y
    <2>4. WorkerFine(y, disk, received)
      BY <1>2, <2>2, <2>3 DEF WorkerFine
    <2> QED BY <1>1, <2>1, <2>2, <2>4, QuietExecutorKeeps
  <1>5. CASE Resume(w) /\ r.pending = NoBatch
    <2> DEFINE y == [x EXCEPT !.pc = "resumed"]
    <2>1. Step(w, y)
      BY <1>5 DEF Resume, RecordOf
    <2>2. y \in WorkerStates /\ y.job = x.job /\ y.pc = "resumed" /\ y.seq = x.seq
      BY <1>2 DEF WorkerStates, PCs
    <2> HIDE DEF y
    <2>3. WorkerFine(y, disk, received)
      BY <1>2, <2>2, PlainFine
    <2> QED BY <1>1, <2>1, <2>2, <2>3, QuietExecutorKeeps
  <1>6. CASE Resumed(w)
    <2> DEFINE pc == IF r.phase = "running" THEN "started" ELSE "finish"
               res == IF r.phase = "running" THEN "none" ELSE r.phase
               y == [x EXCEPT !.pc = pc, !.resuming = FALSE, !.total = r.sum,
                              !.seq = r.last + 1, !.res = res]
    <2>1. Step(w, y)
      BY <1>6 DEF Resumed, RecordOf
    <2>2. r.sum \in Nat /\ r.phase \in {"running"} \cup FinalStatuses
      BY <1>3 DEF Records
    <2>3. /\ pc \in PCs /\ pc \in {"started", "finish"} /\ res \in {"none"} \cup FinalStatuses
          /\ pc = "finish" => res # "none"
      BY <2>2 DEF PCs, FinalStatuses
    <2> HIDE DEF pc, res
    <2>4. y \in WorkerStates /\ y.job = x.job /\ y.seq = r.last + 1 /\ y.seq # 0
      BY <1>2, <1>3, <2>2, <2>3 DEF WorkerStates
    <2>5. y.pc \in {"started", "finish"} /\ (y.pc = "finish" => y.res # "none")
      BY <1>2, <2>3 DEF WorkerStates
    <2> HIDE DEF y
    <2>6. WorkerFine(y, disk, received)
      BY <1>2, <2>4, <2>5, PlainFine
    <2> QED BY <1>1, <2>1, <2>4, <2>6, QuietExecutorKeeps
  <1> QED BY <1>4, <1>5, <1>6

LEMMA SendsKeeps ==
    ASSUME EngineInv, NEW w \in Workers, NEW st \in {"running"} \cup FinalStatuses,
           NEW n \in Counts \cup {0}, worker[w].pc \in {"started", "produce"}, Sends(w, st, n)
    PROVE  Kept
  <1> DEFINE x == worker[w]
             b == [seq |-> x.seq, status |-> st, count |-> n]
             y == [x EXCEPT !.pc = "prepare", !.batch = b]
  <1>1. x \in WorkerStates /\ x.job \in Jobs /\ x.seq # 0
    BY DEF EngineInv, TypeOK, WorkerFine
  <1>2. b \in Batches
    BY <1>1 DEF Sends, Batches, Seqs, WorkerStates
  <1> HIDE DEF b
  <1>3. y \in WorkerStates /\ y.job = x.job /\ y.pc = "prepare" /\ y.batch = b /\ y.seq = x.seq
    BY <1>1, <1>2 DEF WorkerStates, PCs
  <1>4. Step(w, y) /\ NoFault /\ UNCHANGED diskVars /\ x.seq <= MaxSeq
    BY DEF Sends, b
  <1> HIDE DEF y
  <1>5. WorkerFine(y, disk, received)
    BY <1>1, <1>2, <1>3, <1>4 DEF WorkerFine
  <1> QED BY <1>3, <1>4, <1>5, QuietExecutorKeeps

\* PrepareCallback: a batch is stored only as the successor of the checkpoint,
\* and what is delivered next is what is stored.
LEMMA PrepareKeeps ==
    ASSUME EngineInv, NEW w \in Workers, PrepareCallback(w)
    PROVE  Kept
  <1> DEFINE x == worker[w]
             r == disk[x.job]
  <1>1. /\ x \in WorkerStates /\ x.job \in Jobs /\ x.seq # 0 /\ x.batch \in Batches
        /\ x.resuming \/ x.seq <= MaxSeq
    BY DEF PrepareCallback, At, EngineInv, TypeOK, WorkerFine
  <1>2. /\ r \in Records /\ StreamFine(r, received[x.job])
        /\ x.batch.seq \in Nat /\ r.last \in Nat
    <2>1. x.batch.seq \in Nat
      BY <1>1, BatchFacts
    <2> QED BY <1>1, <2>1, JobFacts
  <1>3. NoFault /\ received' = received
    BY DEF PrepareCallback
  <1>4. CASE Step(w, Sent(x)) /\ disk' = disk
    <2>1. WorkerFine(Sent(x), disk, received)
      BY <1>1, SentFine, PlainFine
    <2> QED BY <1>1, <1>3, <1>4, <2>1, SentFine, QuietExecutorKeeps DEF diskVars
  <1>5. CASE Step(w, Errs(x)) /\ disk' = disk
    <2>1. /\ Errs(x) \in WorkerStates /\ Errs(x).job = x.job /\ Errs(x).seq = x.seq
          /\ Errs(x).pc = "finish" /\ Errs(x).res = "error"
      BY <1>1 DEF Errs, WorkerStates, PCs
    <2>2. WorkerFine(Errs(x), disk, received)
      BY <1>1, <2>1, PlainFine
    <2> QED BY <1>3, <1>5, <2>1, <2>2, QuietExecutorKeeps DEF diskVars
  <1>6. CASE /\ r.pending # NoBatch
             /\ Step(w, [x EXCEPT !.pc = "deliver", !.out = r.pending])
             /\ disk' = disk
    <2> DEFINE y == [x EXCEPT !.pc = "deliver", !.out = r.pending]
    <2>1. r.pending \in Batches
      BY <1>2, <1>6 DEF Records
    <2>2. /\ y \in WorkerStates /\ y.job = x.job /\ y.seq = x.seq /\ y.resuming = x.resuming
          /\ y.pc = "deliver" /\ y.out = r.pending
      BY <1>1, <2>1 DEF WorkerStates, PCs
    <2> HIDE DEF y
    <2>3. WorkerFine(y, disk, received)
      BY <1>1, <2>1, <2>2 DEF WorkerFine, Held
    <2>4. Step(w, y)
      BY <1>6 DEF y
    <2> QED BY <1>3, <1>6, <2>2, <2>3, <2>4, QuietExecutorKeeps DEF diskVars
  <1>7. CASE /\ r.pending = NoBatch /\ x.batch.seq = r.last + 1
             /\ Step(w, [x EXCEPT !.pc = "deliver", !.out = x.batch])
             /\ disk' = [disk EXCEPT ![x.job].pending = x.batch]
    <2> DEFINE y == [x EXCEPT !.pc = "deliver", !.out = x.batch]
               n == [r EXCEPT !.pending = x.batch]
    <2>1. /\ y \in WorkerStates /\ y.job = x.job /\ y.seq = x.seq /\ y.resuming = x.resuming
          /\ y.pc = "deliver" /\ y.out = x.batch
      BY <1>1 DEF WorkerStates, PCs
    <2>2. n \in Records /\ n.last = r.last /\ n.pending = x.batch
      BY <1>1, <1>2 DEF Records
    <2>3. /\ DiskType(disk') /\ GotType(received')
          /\ disk'[x.job] = n /\ \A j \in Jobs : j # x.job => disk'[j] = disk[j]
      BY <1>1, <1>3, <1>7, <2>2 DEF EngineInv, TypeOK, DiskType, GotType
    <2>4. Step(w, y)
      BY <1>7
    <2> HIDE DEF y, n
    <2>5. StreamFine(n, received[x.job])
      <3>1. \A s \in Seqs : received[x.job][s] \subseteq Batches
        BY <1>1 DEF EngineInv, TypeOK
      <3>2. \A s \in Seqs : s > r.last => received[x.job][s] = {}
        BY <1>2, <1>7, <3>1, BatchFacts DEF StreamFine
      <3> QED BY <1>2, <1>7, <2>2, <3>2 DEF StreamFine, PendingIsNext
    <2>6. \A j \in Jobs : StreamFine(disk'[j], received'[j])
      BY <1>3, <2>3, <2>5 DEF EngineInv
    <2>7. Forward(disk, received, disk', received')
      BY <1>3, <1>7, <2>2, <2>3 DEF Forward
    <2>8. WorkerFine(y, disk', received')
      BY <1>1, <2>1, <2>2, <2>3 DEF WorkerFine, Held
    <2> QED BY <1>3, <2>1, <2>3, <2>4, <2>6, <2>7, <2>8, ExecutorKeeps
  <1> QED BY <1>4, <1>5, <1>6, <1>7 DEF PrepareCallback, RecordOf

\* A delivery adds nothing to what arrived but a batch that is held.
LEMMA GotFine ==
    ASSUME EngineInv, NEW w \in Workers, worker[w].pc = "deliver"
    PROVE  /\ GotType(Got(w))
           /\ \A j \in Jobs : StreamFine(disk[j], Got(w)[j])
           /\ Forward(disk, received, disk, Got(w))
           /\ worker[w].out \in Got(w)[worker[w].job][worker[w].out.seq]
  <1> DEFINE x == worker[w]
             b == x.out
             r == disk[x.job]
             g == Got(w)
  <1>1. /\ x.job \in Jobs /\ b \in Batches /\ b.seq \in Seqs
        /\ Held(b, r, received[x.job]) /\ StreamFine(r, received[x.job])
    BY BatchFacts DEF EngineInv, WorkerFine
  <1>2. received \in [Jobs -> [Seqs -> SUBSET Batches]] /\ r.last \in Nat /\ b.seq \in Nat
    <2>1. received \in [Jobs -> [Seqs -> SUBSET Batches]]
      BY DEF EngineInv, TypeOK
    <2> QED BY <1>1, <2>1, BatchFacts, JobFacts
  <1>3. /\ g \in [Jobs -> [Seqs -> SUBSET Batches]]
        /\ g[x.job][b.seq] = received[x.job][b.seq] \cup {b}
        /\ \A s \in Seqs : s # b.seq => g[x.job][s] = received[x.job][s]
        /\ \A j \in Jobs : j # x.job => g[j] = received[j]
    BY <1>1, <1>2 DEF Got
  <1> HIDE DEF g
  <1>4. StreamFine(r, g[x.job])
    <2>1. CASE b = r.pending
      <3>1. b.seq = r.last + 1
        BY <1>1, <2>1, BatchFacts DEF StreamFine, PendingIsNext
      <3>2. g[x.job][b.seq] \subseteq {r.pending}
        <4>1. b.seq > r.last
          BY <1>2, <3>1
        <4>2. received[x.job][b.seq] \subseteq {r.pending}
          BY <1>1, <4>1 DEF StreamFine
        <4> QED BY <1>3, <2>1, <4>2
      <3>4. ~(b.seq <= r.last) /\ b.seq <= r.last + 1
        BY <1>2, <3>1
      <3> HIDE DEF b, r, x
      <3>3. ASSUME NEW s \in Seqs, s # b.seq
            PROVE  g[x.job][s] = received[x.job][s]
        BY <1>3, <3>3
      <3> QED BY <1>1, <3>2, <3>3, <3>4 DEF StreamFine
    <2>2. CASE b \in received[x.job][b.seq]
      <3>1. \A s \in Seqs : g[x.job][s] = received[x.job][s]
        BY <1>1, <1>3, <2>2
      <3> QED BY <1>1, <3>1 DEF StreamFine
    <2> QED BY <1>1, <2>1, <2>2 DEF Held
  <1>5. \A j \in Jobs : StreamFine(disk[j], g[j])
    BY <1>3, <1>4 DEF EngineInv
  <1>6. \A j \in Jobs, s \in Seqs : received[j][s] \subseteq g[j][s]
    BY <1>1, <1>3
  <1> QED BY <1>1, <1>3, <1>5, <1>6 DEF GotType, Forward, g

LEMMA DeliverKeeps ==
    ASSUME EngineInv, NEW w \in Workers, Deliver(w)
    PROVE  Kept
  <1> DEFINE x == worker[w]
             y == [x EXCEPT !.pc = "ack"]
  <1>1. /\ x.pc = "deliver" /\ received' = Got(w) /\ disk' = disk /\ NoFault /\ Step(w, y)
        /\ x \in WorkerStates /\ WorkerFine(x, disk, received)
    BY DEF Deliver, At, EngineInv, TypeOK
  <1>2. /\ GotType(received') /\ \A j \in Jobs : StreamFine(disk'[j], received'[j])
        /\ Forward(disk, received, disk', received')
        /\ x.out \in received'[x.job][x.out.seq]
    BY <1>1, GotFine
  <1>3. DiskType(disk) /\ GotType(received) /\ \A j \in Jobs : StreamFine(disk[j], received[j])
    BY DEF EngineInv, TypeOK, DiskType, GotType
  <1>4. WorkerFine(x, disk', received')
    BY <1>1, <1>2, <1>3, ForwardKeepsWorker
  <1>5. /\ y \in WorkerStates /\ y.pc = "ack" /\ y.job = x.job /\ y.out = x.out
        /\ y.seq = x.seq /\ y.resuming = x.resuming
    BY <1>1 DEF WorkerStates, PCs
  <1> HIDE DEF y
  <1>6. WorkerFine(y, disk', received')
    BY <1>1, <1>2, <1>4, <1>5 DEF WorkerFine
  <1> QED BY <1>1, <1>2, <1>3, <1>5, <1>6, ExecutorKeeps

\* AcknowledgeCallback: the batch that the checkpoint moves over has arrived.
LEMMA AcknowledgeKeeps ==
    ASSUME EngineInv, NEW w \in Workers, AcknowledgeCallback(w)
    PROVE  Kept
  <1> DEFINE x == worker[w]
             r == disk[x.job]
  <1>1. /\ x \in WorkerStates /\ x.job \in Jobs /\ x.seq # 0 /\ x.out \in Batches
        /\ x.resuming \/ x.seq <= MaxSeq
        /\ x.out \in received[x.job][x.out.seq]
    BY DEF AcknowledgeCallback, At, EngineInv, TypeOK, WorkerFine
  <1>2. /\ r \in Records /\ StreamFine(r, received[x.job]) /\ x.out.seq \in Seqs
        /\ x.out.seq \in Nat /\ r.last \in Nat /\ r.pending \in Batches \cup {NoBatch}
    BY <1>1, BatchFacts, JobFacts
  <1>3. NoFault /\ received' = received
    BY DEF AcknowledgeCallback
  <1>4. CASE Step(w, Sent(x)) /\ disk' = disk
    <2>1. WorkerFine(Sent(x), disk, received)
      BY <1>1, SentFine, PlainFine
    <2> QED BY <1>1, <1>3, <1>4, <2>1, SentFine, QuietExecutorKeeps DEF diskVars
  <1>5. CASE Step(w, Errs(x)) /\ disk' = disk
    <2>1. /\ Errs(x) \in WorkerStates /\ Errs(x).job = x.job /\ Errs(x).seq = x.seq
          /\ Errs(x).pc = "finish" /\ Errs(x).res = "error"
      BY <1>1 DEF Errs, WorkerStates, PCs
    <2>2. WorkerFine(Errs(x), disk, received)
      BY <1>1, <2>1, PlainFine
    <2> QED BY <1>3, <1>5, <2>1, <2>2, QuietExecutorKeeps DEF diskVars
  <1>6. CASE /\ r.pending.seq = x.out.seq /\ x.out.seq = r.last + 1
             /\ Step(w, Sent(x))
             /\ disk' = [disk EXCEPT ![x.job] = [r EXCEPT !.last = x.out.seq,
                                                          !.sum = r.sum + r.pending.count,
                                                          !.phase = r.pending.status,
                                                          !.pending = NoBatch]]
    <2> DEFINE n == [r EXCEPT !.last = x.out.seq, !.sum = r.sum + r.pending.count,
                              !.phase = r.pending.status, !.pending = NoBatch]
    <2>1. n \in Records /\ n.last = x.out.seq /\ n.pending = NoBatch
      <3>1. /\ x.out.seq \in 0..MaxSeq /\ r.sum + r.pending.count \in Nat
            /\ r.pending.status \in {"running"} \cup FinalStatuses
        BY <1>2, BatchFacts DEF Seqs, Records
      <3> QED BY <1>2, <3>1 DEF Records
    <2>2. /\ DiskType(disk') /\ GotType(received')
          /\ disk'[x.job] = n /\ \A j \in Jobs : j # x.job => disk'[j] = disk[j]
      BY <1>1, <1>3, <1>6, <2>1 DEF EngineInv, TypeOK, DiskType, GotType
    <2> HIDE DEF n
    <2>3. received[x.job][x.out.seq] = {r.pending} /\ r.pending \in Batches
      <3>1. received[x.job][x.out.seq] \subseteq {r.pending}
        <4>1. x.out.seq > r.last
          BY <1>2, <1>6
        <4> QED BY <1>2, <4>1 DEF StreamFine
      <3>2. r.pending = x.out
        BY <1>1, <3>1
      <3> QED BY <1>1, <3>1, <3>2
    <2>4. StreamFine(n, received[x.job])
      <3>1. \A s \in Seqs : s > x.out.seq => received[x.job][s] = {}
        BY <1>2, <1>6 DEF StreamFine, Seqs
      <3>2. \A s \in Seqs : s <= x.out.seq => s = x.out.seq \/ s <= r.last
        BY <1>2, <1>6 DEF Seqs
      <3>3. ASSUME NEW s \in Seqs, s <= x.out.seq
            PROVE  \E b \in Batches : received[x.job][s] = {b}
        <4>1. CASE s = x.out.seq
          BY <2>3, <4>1
        <4>2. CASE s <= r.last
          BY <1>2, <4>2 DEF StreamFine
        <4> QED BY <3>2, <3>3, <4>1, <4>2
      <3>4. \A s \in Seqs : s <= x.out.seq \/ s > x.out.seq
        BY <1>2 DEF Seqs
      <3>5. \A s \in Seqs : s <= x.out.seq => s <= x.out.seq + 1
        BY <1>2 DEF Seqs
      <3> HIDE DEF x, r
      <3> QED BY <2>1, <3>1, <3>3, <3>4, <3>5 DEF StreamFine, PendingIsNext
    <2>5. \A j \in Jobs : StreamFine(disk'[j], received'[j])
      BY <1>3, <2>2, <2>4 DEF EngineInv
    <2>6. Forward(disk, received, disk', received')
      <3>1. /\ disk'[x.job].last = disk[x.job].last + 1
            /\ disk[x.job].pending.seq = disk'[x.job].last
            /\ disk[x.job].pending \in received[x.job][disk'[x.job].last]
        BY <1>6, <2>1, <2>2, <2>3
      <3> QED BY <1>3, <2>2, <3>1 DEF Forward
    <2>7. WorkerFine(Sent(x), disk', received')
      BY <1>1, SentFine, PlainFine
    <2> QED BY <1>1, <1>3, <1>6, <2>2, <2>5, <2>6, <2>7, SentFine, ExecutorKeeps
  <1> QED BY <1>4, <1>5, <1>6 DEF AcknowledgeCallback, RecordOf

LEMMA FailureKeeps ==
    ASSUME EngineInv, NEW w \in Workers, ExecutionFails(w) \/ Deadline(w)
    PROVE  Kept
  <1> DEFINE x == worker[w]
  <1>1. /\ x \in WorkerStates /\ x.job \in Jobs /\ x.seq # 0
        /\ x.pc \notin {"idle", "taken", "finish"} /\ WorkerFine(x, disk, received)
    BY DEF ExecutionFails, Deadline, Executing, EngineInv, TypeOK, WorkerFine
  <1>2. CASE ExecutionFails(w)
    <2>1. PICK res \in {"error", "panic"} :
             Step(w, [x EXCEPT !.pc = "finish", !.res = res]) /\ (NoFault \/ Fault)
      BY <1>2 DEF ExecutionFails
    <2> DEFINE y == [x EXCEPT !.pc = "finish", !.res = res]
    <2>2. /\ y \in WorkerStates /\ y.job = x.job /\ y.pc = "finish" /\ y.res = res
          /\ y.seq = x.seq
      BY <1>1 DEF WorkerStates, PCs
    <2>3. Step(w, y)
      BY <2>1
    <2> HIDE DEF y
    <2>4. disk' = disk /\ (received' = received \/ (x.pc = "deliver" /\ received' = Got(w)))
      BY <1>2 DEF ExecutionFails, At
    <2>5. WorkerFine(y, disk', received')
      BY <1>1, <2>2, PlainFine
    <2>6. CASE received' = received
      BY <2>1, <2>2, <2>3, <2>4, <2>5, <2>6, QuietExecutorKeeps DEF diskVars
    <2>7. CASE x.pc = "deliver" /\ received' = Got(w)
      <3>1. DiskType(disk')
        BY <2>4 DEF EngineInv, TypeOK, DiskType
      <3> QED BY <2>1, <2>2, <2>3, <2>4, <2>5, <2>7, <3>1, GotFine, ExecutorKeeps
    <2> QED BY <2>4, <2>6, <2>7
  <1>3. CASE Deadline(w)
    <2> DEFINE y == [x EXCEPT !.ctx = "deadline"]
    <2>1. Step(w, y) /\ NoFault /\ UNCHANGED diskVars
      BY <1>3 DEF Deadline
    <2>2. /\ y \in WorkerStates /\ y.job = x.job /\ y.pc = x.pc /\ y.res = x.res
          /\ y.seq = x.seq /\ y.batch = x.batch /\ y.out = x.out /\ y.resuming = x.resuming
      BY <1>1 DEF WorkerStates
    <2> HIDE DEF y
    <2>3. WorkerFine(y, disk, received)
      BY <1>1, <2>2 DEF WorkerFine
    <2> QED BY <2>1, <2>2, <2>3, QuietExecutorKeeps
  <1> QED BY <1>2, <1>3

LEMMA ExecutorStepKeeps ==
    ASSUME EngineInv, NEW w \in Workers, ExecutorStep(w)
    PROVE  Kept
  <1>1. CASE Started(w)
    BY <1>1, SendsKeeps DEF Started, At
  <1>2. CASE Produce(w)
    BY <1>2, SendsKeeps DEF Produce, At
  <1> QED BY <1>1, <1>2, ResumeKeeps, PrepareKeeps, DeliverKeeps, AcknowledgeKeeps
          DEF ExecutorStep

-----------------------------------------------------------------------------
(* The job service.                                                        *)

\* A write of a record that leaves its checkpoint alone.
LEMMA RecordKeeps ==
    ASSUME EngineInv, NEW j \in Jobs, NEW n \in Records, n.last = disk[j].last,
           n.pending = disk[j].pending, disk' = [disk EXCEPT ![j] = n], received' = received
    PROVE  /\ disk' \in [Jobs -> Records]
           /\ received' \in [Jobs -> [Seqs -> SUBSET Batches]]
           /\ \A i \in Jobs : StreamFine(disk'[i], received'[i])
           /\ Forward(disk, received, disk', received')
  <1>1. disk \in [Jobs -> Records] /\ received \in [Jobs -> [Seqs -> SUBSET Batches]]
    BY DEF EngineInv, TypeOK
  <1>2. /\ disk' \in [Jobs -> Records]
        /\ \A i \in Jobs : disk'[i].last = disk[i].last /\ disk'[i].pending = disk[i].pending
    BY <1>1
  <1>3. \A i \in Jobs : StreamFine(disk'[i], received'[i])
    BY <1>2 DEF EngineInv, StreamFine, PendingIsNext
  <1>4. Forward(disk, received, disk', received')
    BY <1>2 DEF Forward
  <1> QED BY <1>1, <1>2, <1>3, <1>4

\* A record read and changed under Service.mu, its checkpoint untouched.
LEMMA LockKeeps ==
    ASSUME EngineInv, NEW j \in Jobs, NEW n \in Records, n.last = disk[j].last,
           n.pending = disk[j].pending, Lock(j, n)
    PROVE  mu' \in [job : Jobs \cup {NoJob}, rec : Records] /\ LockFine(mu', disk)
  <1>1. mu' = [job |-> j, rec |-> n]
    BY DEF Lock
  <1>2. PendingIsNext(disk[j]) /\ n.last \in Nat
    BY DEF EngineInv, StreamFine, Records
  <1>3. ReadFrom(n, disk[j])
    BY <1>2 DEF ReadFrom, PendingIsNext
  <1> QED BY <1>1, <1>3 DEF LockFine

LEMMA UnlockKeeps ==
    ASSUME EngineInv, Unlock
    PROVE  /\ mu' \in [job : Jobs \cup {NoJob}, rec : Records] /\ LockFine(mu', disk')
           /\ worker' \in [Workers -> WorkerStates]
           /\ \A w \in Workers : worker'[w] = worker[w] \/ WorkerFine(worker'[w], disk, received)
  <1>1. mu' \in [job : Jobs \cup {NoJob}, rec : Records] /\ LockFine(mu', disk')
    BY BatchFacts DEF Unlock, LockFine, Free
  <1>2. ASSUME NEW w \in Workers
        PROVE  /\ worker'[w] \in WorkerStates
               /\ worker'[w] = worker[w] \/ WorkerFine(worker'[w], disk, received)
    <2> DEFINE x == worker[w]
    <2>1. x \in WorkerStates /\ WorkerFine(x, disk, received)
      BY DEF EngineInv, TypeOK
    <2>2. CASE x.pc = "beginning"
      <3> DEFINE y == [x EXCEPT !.pc = IF x.job \in StreamJobs THEN "resume" ELSE "started"]
      <3>1. worker'[w] = y
        BY <2>2 DEF Unlock
      <3>2. /\ y \in WorkerStates /\ y.job = x.job /\ y.seq = x.seq
            /\ y.pc \in {"resume", "started"}
        BY <2>1 DEF WorkerStates, PCs
      <3>3. x.job \in Jobs /\ x.seq # 0
        BY <2>1, <2>2 DEF WorkerFine
      <3> HIDE DEF y
      <3>4. WorkerFine(y, disk, received)
        BY <3>2, <3>3, PlainFine
      <3> QED BY <3>1, <3>2, <3>4
    <2>3. CASE x.pc = "ending"
      BY <2>3, IdleFine DEF Unlock
    <2>4. CASE x.pc \notin {"beginning", "ending"}
      BY <2>1, <2>4 DEF Unlock
    <2> QED BY <2>2, <2>3, <2>4
  <1>3. worker' \in [Workers -> WorkerStates]
    BY <1>2 DEF Unlock
  <1> QED BY <1>1, <1>2, <1>3

\* FileStore.Save, or its failure.
LEMMA SaveKeeps ==
    ASSUME EngineInv, SaveRecord \/ SaveFails
    PROVE  Kept
  <1>1. CASE SaveRecord
    <2> DEFINE n == mergeCallbackCheckpoint(mu.rec, disk[mu.job])
    <2>1. mu.job \in Jobs /\ ReadFrom(mu.rec, disk[mu.job])
      BY <1>1 DEF SaveRecord, EngineInv, LockFine
    <2>2. mu.rec \in Records /\ disk[mu.job] \in Records /\ PendingIsNext(disk[mu.job])
      BY <2>1 DEF EngineInv, TypeOK, StreamFine
    <2>3. n \in Records /\ n.last = disk[mu.job].last /\ n.pending = disk[mu.job].pending
      BY <2>1, <2>2, MergeKeepsCheckpoint
    <2>4. disk' = [disk EXCEPT ![mu.job] = n] /\ received' = received /\ Unlock
      BY <1>1 DEF SaveRecord
    <2> HIDE DEF n
    <2>5. TypeOK'
      BY <1>1, <2>1, <2>3, <2>4, RecordKeeps, UnlockKeeps
         DEF SaveRecord, EngineInv, TypeOK, histVars
    <2> QED BY <2>1, <2>3, <2>4, <2>5, RecordKeeps, UnlockKeeps, StepKeeps DEF Kept
  <1>2. CASE SaveFails
    <2>1. TypeOK'
      BY <1>2, UnlockKeeps, FaultType DEF SaveFails, EngineInv, TypeOK
    <2>2. UNCHANGED diskVars /\ Unlock
      BY <1>2 DEF SaveFails, diskVars
    <2>3. LockFine(mu', disk)
      BY <2>2, UnlockKeeps DEF diskVars
    <2> QED BY <2>1, <2>2, <2>3, UnlockKeeps, QuietStepKeeps DEF Kept
  <1> QED BY <1>1, <1>2

\* A worker whose context is cancelled relies on the same things.
LEMMA CancelledFine ==
    ASSUME NEW x \in WorkerStates, NEW d, NEW g, WorkerFine(x, d, g)
    PROVE  /\ [x EXCEPT !.ctx = "cancelled"] \in WorkerStates
           /\ WorkerFine([x EXCEPT !.ctx = "cancelled"], d, g)
  <1> DEFINE y == [x EXCEPT !.ctx = "cancelled"]
  <1>1. /\ y \in WorkerStates /\ y.job = x.job /\ y.pc = x.pc /\ y.res = x.res
        /\ y.seq = x.seq /\ y.batch = x.batch /\ y.out = x.out /\ y.resuming = x.resuming
    BY DEF WorkerStates
  <1> HIDE DEF y
  <1>2. WorkerFine(y, d, g)
    BY <1>1 DEF WorkerFine
  <1> QED BY <1>1, <1>2 DEF y

LEMMA SubmitKeeps ==
    ASSUME EngineInv, NEW j \in Jobs, Submit(j)
    PROVE  Kept
  <1> DEFINE n == [disk[j] EXCEPT !.status = IF @ = "absent" THEN "queued" ELSE @]
             offer == disk[j].status = "absent" \/ (disk[j].status = "queued" /\ ~queued[j])
  <1>1. disk[j] \in Records
    BY DEF EngineInv, TypeOK
  <1>2. n \in Records /\ n.last = disk[j].last /\ n.pending = disk[j].pending
    BY <1>1 DEF Records, JobStatuses, Recoverable
  <1>3. /\ disk' = [disk EXCEPT ![j] = n] /\ received' = received /\ worker' = worker /\ mu' = mu
    BY DEF Submit, EngineInv, TypeOK
  <1>4. /\ queue' = IF offer /\ Room THEN Append(queue, j) ELSE queue
        /\ queued' = [queued EXCEPT ![j] = @ \/ (offer /\ Room)]
        /\ accepted' \in {accepted, accepted \cup {j}}
    BY DEF Submit
  <1> HIDE DEF n, offer
  <1>5. queue' \in Seq(Jobs) /\ Len(queue') <= QueueSize
    <2>1. CASE offer /\ Room
      BY <1>4, <2>1 DEF EngineInv, TypeOK, Room
    <2>2. CASE ~(offer /\ Room)
      BY <1>4, <2>2 DEF EngineInv, TypeOK
    <2> QED BY <2>1, <2>2
  <1>6. queued' \in [Jobs -> BOOLEAN] /\ accepted' \subseteq Jobs
    BY <1>4 DEF EngineInv, TypeOK
  <1>7. TypeOK'
    <2>1. disk' \in [Jobs -> Records] /\ received' \in [Jobs -> [Seqs -> SUBSET Batches]]
      BY <1>2, <1>3, RecordKeeps
    <2>2. UNCHANGED <<up, todo, active, mu, worker, faults, saveFaults>>
      BY DEF Submit
    <2> QED BY <1>5, <1>6, <2>1, <2>2 DEF EngineInv, TypeOK
  <1> QED BY <1>2, <1>3, <1>7, RecordKeeps, StepKeeps DEF Kept

LEMMA CancelKeeps ==
    ASSUME EngineInv, NEW j \in Jobs, Cancel(j)
    PROVE  Kept
  <1> DEFINE n == [disk[j] EXCEPT !.status = "cancelled"]
  <1>1. n \in Records /\ n.last = disk[j].last /\ n.pending = disk[j].pending
    BY DEF EngineInv, TypeOK, Records, JobStatuses, Terminal
  <1>2. Lock(j, n) /\ UNCHANGED diskVars
    BY DEF Cancel, diskVars
  <1> HIDE DEF n
  <1>3. mu' \in [job : Jobs \cup {NoJob}, rec : Records] /\ LockFine(mu', disk)
    BY <1>1, <1>2, LockKeeps
  <1>4. \A w \in Workers : /\ worker'[w] \in WorkerStates
                           /\ worker'[w] = worker[w] \/ WorkerFine(worker'[w], disk, received)
    BY CancelledFine DEF Cancel, EngineInv, TypeOK
  <1>5. worker' \in [Workers -> WorkerStates]
    BY <1>4 DEF Cancel
  <1>6. TypeOK'
    BY <1>2, <1>3, <1>5 DEF Cancel, EngineInv, TypeOK, histVars, diskVars
  <1> QED BY <1>2, <1>3, <1>4, <1>6, QuietStepKeeps DEF Kept

LEMMA TakeKeeps ==
    ASSUME EngineInv, NEW w \in Workers, Take(w)
    PROVE  Kept
  <1> DEFINE y == [Idle EXCEPT !.pc = "taken", !.job = Head(queue)]
  <1>1. /\ Head(queue) \in Jobs /\ Tail(queue) \in Seq(Jobs)
        /\ Len(Tail(queue)) <= QueueSize
    BY DEF Take, EngineInv, TypeOK
  <1>2. y \in WorkerStates /\ y.pc = "taken" /\ y.job = Head(queue)
    BY <1>1, IdleFine DEF WorkerStates, PCs
  <1>3. /\ worker' = [worker EXCEPT ![w] = y] /\ queue' = Tail(queue)
        /\ UNCHANGED diskVars /\ mu' = mu
    BY DEF Take
  <1> HIDE DEF y
  <1>4. WorkerFine(y, disk, received)
    BY <1>1, <1>2, PlainFine
  <1>5. \A v \in Workers : worker'[v] = worker[v] \/ WorkerFine(worker'[v], disk, received)
    BY <1>3, <1>4 DEF EngineInv, TypeOK
  <1>6. worker' \in [Workers -> WorkerStates]
    BY <1>2, <1>3 DEF EngineInv, TypeOK
  <1>7. TypeOK'
    BY <1>1, <1>3, <1>6 DEF Take, EngineInv, TypeOK, histVars, diskVars
  <1> QED BY <1>3, <1>5, <1>7, QuietStepKeeps DEF Kept

LEMMA BeginRunKeeps ==
    ASSUME EngineInv, NEW w \in Workers, BeginRun(w)
    PROVE  Kept
  <1> DEFINE x == worker[w]
             n == [disk[x.job] EXCEPT !.status = "running"]
             y == [x EXCEPT !.pc = "beginning", !.seq = 1,
                            !.ctx = IF Stopping THEN "cancelled" ELSE "live"]
  <1>1. x \in WorkerStates /\ x.job \in Jobs
    BY DEF BeginRun, EngineInv, TypeOK, WorkerFine
  <1>2. UNCHANGED diskVars
    BY DEF BeginRun
  <1>3. /\ queued' \in [Jobs -> BOOLEAN]
        /\ UNCHANGED <<disk, received, up, todo, queue, accepted, faults, saveFaults>>
    BY DEF BeginRun, EngineInv, TypeOK, diskVars, histVars
  <1>4. CASE worker' = [worker EXCEPT ![w] = Idle] /\ active' = active /\ mu' = mu
    <2>1. \A v \in Workers : worker'[v] = worker[v] \/ WorkerFine(worker'[v], disk, received)
      BY <1>4, IdleFine DEF EngineInv, TypeOK
    <2>2. worker' \in [Workers -> WorkerStates]
      BY <1>4, IdleFine DEF EngineInv, TypeOK
    <2>3. TypeOK'
      BY <1>3, <1>4, <2>2 DEF EngineInv, TypeOK
    <2> QED BY <1>2, <1>4, <2>1, <2>3, QuietStepKeeps DEF Kept
  <1>5. CASE /\ Lock(x.job, n) /\ active' = [active EXCEPT ![x.job] = w]
             /\ worker' = [worker EXCEPT ![w] = y]
    <2>1. n \in Records /\ n.last = disk[x.job].last /\ n.pending = disk[x.job].pending
      BY <1>1 DEF EngineInv, TypeOK, Records, JobStatuses, Recoverable
    <2>2. mu' \in [job : Jobs \cup {NoJob}, rec : Records] /\ LockFine(mu', disk)
      BY <1>1, <1>5, <2>1, LockKeeps
    <2>3. y \in WorkerStates /\ y.pc = "beginning" /\ y.job = x.job /\ y.seq = 1
      <3>1. 1 \in 0..(MaxSeq + 1)
        OBVIOUS
      <3> QED BY <1>1, <3>1 DEF WorkerStates, PCs
    <2> HIDE DEF n, y
    <2>4. WorkerFine(y, disk, received)
      BY <1>1, <2>3, PlainFine
    <2>5. \A v \in Workers : worker'[v] = worker[v] \/ WorkerFine(worker'[v], disk, received)
      BY <1>5, <2>4 DEF EngineInv, TypeOK
    <2>6. worker' \in [Workers -> WorkerStates]
      BY <1>5, <2>3 DEF EngineInv, TypeOK
    <2>7. active' \in [Jobs -> Workers \cup {NoWorker}]
      BY <1>5 DEF EngineInv, TypeOK
    <2>8. TypeOK'
      BY <1>3, <2>2, <2>6, <2>7 DEF EngineInv, TypeOK
    <2> QED BY <1>2, <2>2, <2>5, <2>8, QuietStepKeeps DEF Kept
  <1> QED BY <1>4, <1>5 DEF BeginRun

LEMMA EndRunKeeps ==
    ASSUME EngineInv, NEW w \in Workers, EndRun(w)
    PROVE  Kept
  <1> DEFINE x == worker[w]
             r == disk[x.job]
             n == [r EXCEPT !.status = EndStatus(x),
                            !.result = IF x.res = "panic" THEN r.result ELSE x.total]
             y == [x EXCEPT !.pc = "ending"]
  <1>1. /\ x \in WorkerStates /\ x.job \in Jobs /\ x.seq # 0 /\ x.res # "none"
        /\ r \in Records
    BY DEF EndRun, EngineInv, TypeOK, WorkerFine
  <1>2. UNCHANGED diskVars
    BY DEF EndRun
  <1>3. /\ active' \in [Jobs -> Workers \cup {NoWorker}]
        /\ UNCHANGED <<disk, received, up, todo, queue, queued, accepted, faults, saveFaults>>
    BY DEF EndRun, EngineInv, TypeOK, diskVars, histVars
  <1>4. CASE worker' = [worker EXCEPT ![w] = Idle] /\ mu' = mu
    <2>1. \A v \in Workers : worker'[v] = worker[v] \/ WorkerFine(worker'[v], disk, received)
      BY <1>4, IdleFine DEF EngineInv, TypeOK
    <2>2. worker' \in [Workers -> WorkerStates]
      BY <1>4, IdleFine DEF EngineInv, TypeOK
    <2>3. TypeOK'
      BY <1>3, <1>4, <2>2 DEF EngineInv, TypeOK
    <2> QED BY <1>2, <1>4, <2>1, <2>3, QuietStepKeeps DEF Kept
  <1>5. CASE Lock(x.job, n) /\ worker' = [worker EXCEPT ![w].pc = "ending"]
    <2>1. EndStatus(x) \in JobStatuses
      BY <1>1 DEF EndStatus, WorkerStates, JobStatuses, Terminal
    <2>2. x.total \in Nat /\ r.result \in Nat
      BY <1>1 DEF WorkerStates, Records
    <2>3. n \in Records /\ n.last = r.last /\ n.pending = r.pending
      BY <1>1, <2>1, <2>2 DEF Records
    <2>4. mu' \in [job : Jobs \cup {NoJob}, rec : Records] /\ LockFine(mu', disk)
      BY <1>1, <1>5, <2>3, LockKeeps
    <2>5. y \in WorkerStates /\ y.pc = "ending" /\ y.job = x.job /\ y.seq = x.seq
      BY <1>1 DEF WorkerStates, PCs
    <2>6. worker' = [worker EXCEPT ![w] = y]
      BY <1>5 DEF EngineInv, TypeOK
    <2> HIDE DEF n, y
    <2>7. WorkerFine(y, disk, received)
      BY <1>1, <2>5, PlainFine
    <2>8. \A v \in Workers : worker'[v] = worker[v] \/ WorkerFine(worker'[v], disk, received)
      BY <2>6, <2>7 DEF EngineInv, TypeOK
    <2>9. worker' \in [Workers -> WorkerStates]
      BY <2>5, <2>6 DEF EngineInv, TypeOK
    <2>10. TypeOK'
      BY <1>3, <2>4, <2>9 DEF EngineInv, TypeOK
    <2> QED BY <1>2, <2>4, <2>8, <2>10, QuietStepKeeps DEF Kept
  <1>6. Lock(x.job, n) \/ mu' = mu
    BY DEF EndRun
  <1> QED BY <1>4, <1>5, <1>6 DEF EndRun

-----------------------------------------------------------------------------
(* The process.                                                            *)

LEMMA CancelRootKeeps ==
    ASSUME EngineInv, NEW next \in {"stopping", "failing"}, CancelRoot(next)
    PROVE  /\ up' \in {"down", "starting", "up", "stopping", "failing"}
           /\ worker' \in [Workers -> WorkerStates]
           /\ \A w \in Workers : worker'[w] = worker[w] \/ WorkerFine(worker'[w], disk, received)
  <1>1. \A w \in Workers : /\ worker'[w] \in WorkerStates
                           /\ worker'[w] = worker[w] \/ WorkerFine(worker'[w], disk, received)
    BY CancelledFine DEF CancelRoot, EngineInv, TypeOK
  <1> QED BY <1>1 DEF CancelRoot

\* A restart forgets the lock and the workers, never a record.
LEMMA GoneKeeps ==
    ASSUME EngineInv, Gone, NoFault \/ Fault
    PROVE  Kept
  <1>1. /\ mu' \in [job : Jobs \cup {NoJob}, rec : Records] /\ LockFine(mu', disk)
    BY BatchFacts DEF Gone, LockFine, Free
  <1>2. worker' \in [Workers -> WorkerStates]
    BY IdleFine DEF Gone
  <1>3. \A w \in Workers : WorkerFine(worker'[w], disk, received)
    BY IdleFine DEF Gone
  <1>4. TypeOK'
    <2>1. /\ queue' \in Seq(Jobs) /\ Len(queue') <= QueueSize /\ todo' \subseteq Jobs
          /\ queued' \in [Jobs -> BOOLEAN] /\ active' \in [Jobs -> Workers \cup {NoWorker}]
          /\ up' \in {"down", "starting", "up", "stopping", "failing"}
      BY DEF Gone
    <2> QED BY <1>1, <1>2, <2>1, FaultType DEF Gone, EngineInv, TypeOK, diskVars
  <1>5. UNCHANGED diskVars
    BY DEF Gone
  <1> QED BY <1>1, <1>3, <1>4, <1>5, QuietStepKeeps DEF Kept

LEMMA RequeuedFine ==
    ASSUME EngineInv, NEW j \in Jobs
    PROVE  \E n \in Records : /\ n.last = disk[j].last /\ n.pending = disk[j].pending
                              /\ Requeued(j) = [disk EXCEPT ![j] = n]
  <1> DEFINE q == [disk[j] EXCEPT !.status = "queued"]
  <1>1. disk[j] \in Records /\ PendingIsNext(disk[j])
    BY DEF EngineInv, TypeOK, StreamFine
  <1>2. /\ q \in Records /\ q.last = disk[j].last /\ q.pending = disk[j].pending
    BY <1>1 DEF Records, JobStatuses, Recoverable
  <1> HIDE DEF q
  <1>3. q.last \in Nat
    BY <1>2 DEF Records
  <1>4. ReadFrom(q, disk[j])
    BY <1>1, <1>2, <1>3 DEF ReadFrom, PendingIsNext
  <1>5. Requeued(j) = [disk EXCEPT ![j] = mergeCallbackCheckpoint(q, disk[j])]
    BY DEF Requeued, q
  <1> QED BY <1>1, <1>2, <1>4, <1>5, MergeKeepsCheckpoint

LEMMA StartKeeps ==
    ASSUME EngineInv, Start \/ StartDone \/ Shutdown
    PROVE  Kept
  <1>1. CASE Start
    <2>1. TypeOK'
      BY <1>1 DEF Start, EngineInv, TypeOK, diskVars, memVars, histVars
    <2> QED BY <1>1, <2>1, QuietStepKeeps DEF Start, memVars, Kept
  <1>2. CASE StartDone
    <2>1. TypeOK'
      BY <1>2 DEF StartDone, EngineInv, TypeOK, diskVars, memVars, histVars
    <2> QED BY <1>2, <2>1, QuietStepKeeps DEF StartDone, memVars, Kept
  <1>3. CASE Shutdown
    <2>1. CancelRoot("stopping") /\ Fault /\ UNCHANGED diskVars
      BY <1>3 DEF Shutdown
    <2>2. TypeOK'
      BY <1>3, <2>1, CancelRootKeeps, FaultType DEF Shutdown, EngineInv, TypeOK, diskVars, memVars
    <2> QED BY <1>3, <2>1, <2>2, CancelRootKeeps, QuietStepKeeps DEF Shutdown, memVars, Kept
  <1> QED BY <1>1, <1>2, <1>3

LEMMA RestoreKeeps ==
    ASSUME EngineInv, NEW j \in Jobs, Restore(j) \/ RestoreFails(j)
    PROVE  Kept
  <1>1. CASE Restore(j)
    <2>1. PICK n \in Records : /\ n.last = disk[j].last /\ n.pending = disk[j].pending
                               /\ Requeued(j) = [disk EXCEPT ![j] = n]
      BY RequeuedFine
    <2>2. disk' = [disk EXCEPT ![j] = n] /\ received' = received
      BY <1>1, <2>1 DEF Restore
    <2>3. queue' \in Seq(Jobs) /\ Len(queue') <= QueueSize
      BY <1>1 DEF Restore, Room, EngineInv, TypeOK
    <2>4. queued' \in [Jobs -> BOOLEAN] /\ todo' \subseteq Jobs
      BY <1>1 DEF Restore, EngineInv, TypeOK
    <2>5. TypeOK'
      BY <1>1, <2>1, <2>2, <2>3, <2>4, RecordKeeps DEF Restore, EngineInv, TypeOK, histVars
    <2>6. worker' = worker /\ mu' = mu
      BY <1>1 DEF Restore
    <2> QED BY <2>1, <2>2, <2>5, <2>6, RecordKeeps, StepKeeps DEF Kept
  <1>2. CASE RestoreFails(j)
    <2>1. /\ CancelRoot("failing") /\ received' = received /\ mu' = mu
          /\ NoFault \/ SaveFault
          /\ disk' = Requeued(j) \/ disk' = disk
      BY <1>2 DEF RestoreFails, memVars
    <2>2. PICK n \in Records : /\ n.last = disk[j].last /\ n.pending = disk[j].pending
                               /\ disk' = [disk EXCEPT ![j] = n]
      <3>1. CASE disk' = Requeued(j)
        BY <3>1, RequeuedFine
      <3>2. CASE disk' = disk
        BY <3>2 DEF EngineInv, TypeOK
      <3> QED BY <2>1, <3>1, <3>2
    <2>3. TypeOK'
      BY <1>2, <2>1, <2>2, RecordKeeps, CancelRootKeeps, FaultType
         DEF RestoreFails, EngineInv, TypeOK, memVars
    <2> QED BY <2>1, <2>2, <2>3, RecordKeeps, CancelRootKeeps, StepKeeps DEF Kept
  <1> QED BY <1>1, <1>2

-----------------------------------------------------------------------------
(* The theorems.                                                           *)

LEMMA InitFine == Init => EngineInv
  <1> SUFFICES ASSUME Init PROVE EngineInv
    OBVIOUS
  <1>1. /\ disk \in [Jobs -> Records] /\ received \in [Jobs -> [Seqs -> SUBSET Batches]]
        /\ mu \in [job : Jobs \cup {NoJob}, rec : Records]
    BY BatchFacts DEF Init, Free
  <1>2. worker \in [Workers -> WorkerStates]
    BY IdleFine DEF Init
  <1>3. TypeOK
    <2>1. queue \in Seq(Jobs) /\ Len(queue) <= QueueSize
      BY DEF Init
    <2> QED BY <1>1, <1>2, <2>1 DEF Init, TypeOK
  <1>4. \A j \in Jobs : StreamFine(disk[j], received[j])
    <2>1. NoRecord.last = 0 /\ NoRecord.pending = NoBatch
      BY DEF NoRecord
    <2> QED BY <2>1 DEF Init, StreamFine, PendingIsNext, Seqs
  <1>5. \A w \in Workers : WorkerFine(worker[w], disk, received)
    BY IdleFine DEF Init
  <1> QED BY <1>3, <1>4, <1>5 DEF Init, EngineInv, LockFine

LEMMA NextKeeps == EngineInv /\ [Next]_vars => Kept
  <1> SUFFICES ASSUME EngineInv, [Next]_vars PROVE Kept
    OBVIOUS
  <1>1. CASE UNCHANGED vars
    <2>1. TypeOK'
      BY <1>1 DEF EngineInv, TypeOK, vars, histVars
    <2> QED BY <1>1, <2>1, QuietStepKeeps DEF vars, diskVars, Kept
  <1>2. CASE ProcessStep
    <2>1. CASE Exit
      BY <2>1, GoneKeeps DEF Exit
    <2> QED BY <1>2, <2>1, SaveKeeps, StartKeeps, RestoreKeeps DEF ProcessStep
  <1>3. CASE SaveFails \/ Shutdown \/ Crash
    BY <1>3, SaveKeeps, StartKeeps, GoneKeeps DEF Crash
  <1>4. CASE \E j \in Jobs : Submit(j) \/ Cancel(j) \/ RestoreFails(j)
    BY <1>4, SubmitKeeps, CancelKeeps, RestoreKeeps
  <1>5. CASE \E w \in Workers :
                \/ Take(w) \/ BeginRun(w) \/ EndRun(w)
                \/ ExecutorStep(w) \/ ExecutionFails(w) \/ Deadline(w)
    BY <1>5, TakeKeeps, BeginRunKeeps, EndRunKeeps, ExecutorStepKeeps, FailureKeeps
  <1> QED BY <1>1, <1>2, <1>3, <1>4, <1>5 DEF Next

LEMMA EngineInvariant == Spec => []EngineInv
  <1>1. EngineInv /\ [Next]_vars => EngineInv'
    BY NextKeeps DEF Kept
  <1> QED BY <1>1, InitFine, PTL DEF Spec

\* Every variable of the engine keeps its type, through crashes and restarts.
THEOREM EngineTypeCorrect == Spec => []TypeOK
  <1>1. EngineInv => TypeOK
    BY DEF EngineInv
  <1> QED BY <1>1, EngineInvariant, PTL

\* PrepareCallback: whatever crashes, replays, lost saves and concurrent
\* executions come between, the platform gets one payload for one seq.
THEOREM PayloadIsUnique == Spec => []OnePayloadPerSeq
  <1>1. EngineInv => OnePayloadPerSeq
    <2> SUFFICES ASSUME EngineInv, NEW j \in Jobs, NEW s \in Seqs
                 PROVE  Cardinality(received[j][s]) <= 1
      BY DEF OnePayloadPerSeq
    <2>1. StreamFine(disk[j], received[j]) /\ disk[j].last \in Nat
      BY DEF EngineInv, TypeOK, Records
    <2>2. CASE s <= disk[j].last
      <3>1. PICK b \in Batches : received[j][s] = {b}
        BY <2>1, <2>2 DEF StreamFine
      <3>2. Cardinality(received[j][s]) = 1
        BY <3>1, FS_Singleton
      <3> QED BY <3>2
    <2>3. CASE s > disk[j].last
      <3>1. received[j][s] = {} \/ received[j][s] = {disk[j].pending}
        BY <2>1, <2>3 DEF StreamFine
      <3>2. Cardinality(received[j][s]) \in {0, 1}
        BY <3>1, FS_EmptySet, FS_Singleton
      <3> QED BY <3>2
    <2> QED BY <2>1, <2>2, <2>3 DEF Seqs
  <1> QED BY <1>1, EngineInvariant, PTL

\* AcknowledgeCallback: the stream the platform got has no gap, and the
\* checkpoint counts as delivered only what arrived.
THEOREM StreamHasNoGap == Spec => []NoGapInStream
  <1>1. EngineInv => NoGapInStream
    <2> SUFFICES ASSUME EngineInv, NEW j \in Jobs, NEW s \in Seqs
                 PROVE  /\ s <= disk[j].last => received[j][s] # {}
                        /\ received[j][s] # {} => s <= disk[j].last + 1
                        /\ received[j][s] # {} /\ s > disk[j].last =>
                               received[j][s] = {disk[j].pending}
      BY DEF NoGapInStream
    <2>1. StreamFine(disk[j], received[j])
      BY DEF EngineInv
    <2> QED BY <2>1 DEF StreamFine
  <1> QED BY <1>1, EngineInvariant, PTL

\* FileStore.Save and AcknowledgeCallback: an acknowledged seq stays so, and a
\* pending batch stays until it is acknowledged.
THEOREM CheckpointOnlyAdvances == Spec => CheckpointNeverRollsBack
  <1> DEFINE A == \A j \in Jobs :
                     /\ disk'[j].last >= disk[j].last
                     /\ disk[j].pending # disk'[j].pending /\ disk[j].pending # NoBatch =>
                            disk'[j].last = disk[j].pending.seq
  <1>1. EngineInv /\ [Next]_vars => A
    <2> SUFFICES ASSUME EngineInv, [Next]_vars, NEW j \in Jobs
                 PROVE  /\ disk'[j].last >= disk[j].last
                        /\ disk[j].pending # disk'[j].pending /\ disk[j].pending # NoBatch =>
                               disk'[j].last = disk[j].pending.seq
      OBVIOUS
    <2>1. EngineInv' /\ Forward(disk, received, disk', received')
      BY NextKeeps DEF Kept
    <2>2. disk[j] \in Records /\ disk'[j] \in Records
      BY <2>1 DEF EngineInv, TypeOK
    <2>3. disk[j].last \in Nat /\ disk'[j].last \in Nat
      BY <2>2 DEF Records
    <2> QED BY <2>1, <2>3 DEF Forward
  <1>2. EngineInv /\ [Next]_vars => [A]_vars
    BY <1>1
  <1> QED BY <1>2, EngineInvariant, PTL DEF Spec, CheckpointNeverRollsBack

-----------------------------------------------------------------------------
(* The life of a job when no Save of a record fails.                       *)

Waiting(j) == \E i \in 1..Len(queue) : queue[i] = j
Owns(w, j) == worker[w].pc # "idle" /\ worker[w].job = j

\* A queued job is marked so, and has not begun.
QueueFine ==
    \A i \in 1..Len(queue) : queued[queue[i]] /\ disk[queue[i]].status \in {"queued", "cancelled"}

\* A job is in one place: once in the queue, or with one worker.
OneHome ==
    /\ \A i, k \in 1..Len(queue) : queue[i] = queue[k] => i = k
    /\ \A v, w \in Workers, j \in Jobs : Owns(v, j) /\ Owns(w, j) => v = w
    /\ \A w \in Workers, j \in Jobs : ~(Owns(w, j) /\ Waiting(j))

\* How far the execution x of a stream has come with its record r.
StreamAt(x, r) ==
    /\ x.pc \in {"started", "produce"} =>
           r.pending = NoBatch /\ x.seq = r.last + 1 /\ ~x.resuming
    /\ x.pc = "resumed" => r.pending = NoBatch
    /\ x.pc = "prepare" /\ x.resuming => x.batch = r.pending
    /\ x.pc = "prepare" /\ ~x.resuming =>
           r.pending = NoBatch /\ x.batch.seq = x.seq /\ x.seq = r.last + 1
    /\ x.pc \in {"deliver", "ack"} =>
           x.out = x.batch /\ x.batch = r.pending /\ (~x.resuming => x.seq = x.batch.seq)
    /\ x.pc \in {"finish", "ending"} /\ x.res \in FinalStatuses =>
           r.pending = NoBatch /\ r.phase = x.res

\* A worker in state x, its job's record in d and the lock m.
TaskFine(x, q, d, m) ==
    /\ x.pc = "taken" => q[x.job] /\ d[x.job].status \in {"queued", "cancelled"}
    /\ x.pc = "beginning" => m.job = x.job /\ m.rec.status = "running"
    /\ x.pc = "ending" => m.job = x.job
    /\ x.pc \notin {"idle", "taken", "beginning"} => d[x.job].status \in {"running", "cancelled"}
    /\ x.pc # "idle" /\ x.job \in StreamJobs => StreamAt(x, d[x.job])

\* The lock is held by a Cancel, or by the worker that begins or ends the job.
LockTask ==
    mu.job \in Jobs =>
        /\ disk[mu.job].status \in Recoverable
        /\ mu.rec.last = disk[mu.job].last => mu.rec.phase = disk[mu.job].phase
        /\ \/ mu.rec.status = "cancelled"
           \/ \E w \in Workers : worker[w].pc \in {"beginning", "ending"} /\ worker[w].job = mu.job
        /\ mu.job \in StreamJobs /\ mu.rec.status \in FinalStatuses =>
               disk[mu.job].phase = mu.rec.status /\ disk[mu.job].pending = NoBatch

\* What Start has not restored yet is nowhere in memory.
TodoTask ==
    \A j \in todo : /\ up \in {"starting", "failing"}
                    /\ disk[j].status \in Recoverable
                    /\ ~Waiting(j) /\ mu.job # j
                    /\ \A w \in Workers : ~Owns(w, j)

DownTask == up = "down" => queue = <<>> /\ mu = Free /\ \A w \in Workers : worker[w].pc = "idle"

LifeParts ==
    /\ QueueFine /\ OneHome
    /\ \A w \in Workers : TaskFine(worker[w], queued, disk, mu)
    /\ LockTask /\ TodoTask /\ DownTask /\ EndedStreamMatches

LifeInv == EngineInv /\ LifeParts

\* What every step has to keep of it.
StatusKept == \A j \in Jobs : disk[j].status \in Terminal => disk'[j].status = disk[j].status

LifeKept == LifeParts' /\ StatusKept

\* Only what workers own, where jobs wait and what is listed counts for OneHome.
LEMMA SameHomes ==
    ASSUME OneHome, queue' = queue,
           \A v \in Workers, j \in Jobs : Owns(v, j)' => Owns(v, j)
    PROVE  OneHome'
  <1>1. \A j : Waiting(j)' <=> Waiting(j)
    BY DEF Waiting
  <1> QED BY <1>1 DEF OneHome

LEMMA SameTodo ==
    ASSUME TodoTask, queue' = queue, todo' \subseteq todo, todo \subseteq Jobs,
           todo' # {} => up' \in {"starting", "failing"},
           \A v \in Workers, j \in Jobs : Owns(v, j)' => Owns(v, j),
           mu' = mu \/ mu'.job \notin todo,
           \A j \in todo : disk'[j].status \in Recoverable
    PROVE  TodoTask'
  <1>1. \A j : Waiting(j)' <=> Waiting(j)
    BY DEF Waiting
  <1> QED BY <1>1 DEF TodoTask

\* TaskFine reads the record's status and checkpoint only.
SameTask(r, s) ==
    s.status = r.status /\ s.last = r.last /\ s.phase = r.phase /\ s.pending = r.pending

LEMMA SameTaskFine ==
    ASSUME NEW x, NEW q, NEW d, NEW m, NEW q1, NEW d1, NEW m1, TaskFine(x, q, d, m),
           x.pc # "idle" => SameTask(d[x.job], d1[x.job]),
           x.pc = "taken" /\ q[x.job] => q1[x.job],
           x.pc \in {"beginning", "ending"} => m1 = m
    PROVE  TaskFine(x, q1, d1, m1)
  BY DEF TaskFine, SameTask, StreamAt

LEMMA OwnedJob ==
    ASSUME EngineInv, NEW w \in Workers
    PROVE  worker[w].pc # "idle" => worker[w].job \in Jobs
  BY DEF EngineInv, WorkerFine

LEMMA FreeLock == ASSUME EngineInv PROVE mu = Free <=> mu.job \notin Jobs
  BY DEF EngineInv, LockFine, Free

LEMMA ExecutionLives ==
    ASSUME LifeInv, NEW w \in Workers, NEW y, Executing(w), Step(w, y),
           y.job = worker[w].job, y.pc \notin {"idle", "taken", "beginning", "ending"},
           \A j \in Jobs : j # y.job => disk'[j] = disk[j],
           disk'[y.job].status = disk[y.job].status,
           \/ /\ disk'[y.job].last = disk[y.job].last
              /\ disk'[y.job].phase = disk[y.job].phase
           \/ disk'[y.job].last = disk[y.job].last + 1,
           y.job \in StreamJobs => StreamAt(y, disk'[y.job])
    PROVE  LifeKept
  <1> DEFINE x == worker[w]
  <1>1. /\ x.pc \notin {"idle", "taken", "beginning", "finish", "ending"} /\ x.job \in Jobs
        /\ disk[x.job].status \in {"running", "cancelled"} /\ Owns(w, x.job)
    <2>1. x.pc \notin {"idle", "taken", "beginning", "finish", "ending"}
      BY DEF Executing
    <2> QED BY <2>1, OwnedJob DEF LifeInv, LifeParts, TaskFine, Owns
  <1>2. /\ worker'[w] = y /\ \A v \in Workers : v # w => worker'[v] = worker[v]
        /\ up' = up /\ todo' = todo /\ queue' = queue /\ queued' = queued /\ mu' = mu
    BY DEF Step, memVars, LifeInv, EngineInv, TypeOK
  <1>3. \A v \in Workers, j \in Jobs : Owns(v, j)' <=> Owns(v, j)
    BY <1>1, <1>2 DEF Owns
  <1>4. \A j \in Jobs : disk'[j].status = disk[j].status
    OBVIOUS
  <1>5. QueueFine'
    BY <1>2, <1>4 DEF QueueFine, LifeInv, LifeParts, EngineInv, TypeOK
  <1>6. OneHome'
    BY <1>2, <1>3, SameHomes DEF LifeInv, LifeParts
  <1>7. ASSUME NEW v \in Workers PROVE TaskFine(worker'[v], queued', disk', mu')
    <2>1. CASE v = w
      BY <1>1, <1>2, <2>1 DEF TaskFine
    <2>2. CASE v # w
      <3>1. worker[v].pc # "idle" => worker[v].job \in Jobs /\ worker[v].job # x.job
        BY <1>1, <2>2, OwnedJob DEF LifeInv, LifeParts, OneHome, Owns
      <3>2. worker[v].pc # "idle" => SameTask(disk[worker[v].job], disk'[worker[v].job])
        BY <3>1 DEF SameTask
      <3>3. TaskFine(worker[v], queued, disk, mu)
        BY DEF LifeInv, LifeParts
      <3> QED BY <1>2, <2>2, <3>2, <3>3, SameTaskFine
    <2> QED BY <2>1, <2>2
  <1>8. LockTask'
    <2> SUFFICES ASSUME mu.job \in Jobs PROVE LockTask'
      BY <1>2 DEF LockTask
    <2>1. LockTask
      BY DEF LifeInv, LifeParts
    <2>2. \/ mu.rec.status = "cancelled"
          \/ \E v \in Workers : worker'[v].pc \in {"beginning", "ending"} /\ worker'[v].job = mu.job
      BY <1>1, <1>2, <2>1 DEF LockTask
    <2>3. CASE mu.job # x.job
      BY <1>2, <2>1, <2>2, <2>3 DEF LockTask
    <2>4. CASE mu.job = x.job
      <3>1. mu.rec.status = "cancelled"
        <4> SUFFICES ASSUME NEW v \in Workers, worker[v].pc \in {"beginning", "ending"},
                            worker[v].job = mu.job
                     PROVE  FALSE
          BY <2>1 DEF LockTask
        <4>1. Owns(v, x.job)
          BY <2>4 DEF Owns
        <4>2. v = w
          BY <1>1, <4>1 DEF LifeInv, LifeParts, OneHome
        <4> QED BY <1>1, <4>2
      <3>2. mu.rec.last = disk'[x.job].last => mu.rec.phase = disk'[x.job].phase
        <4>1. mu.rec.last <= disk[x.job].last /\ mu.rec.last \in Nat /\ disk[x.job].last \in Nat
          <5>1. ReadFrom(mu.rec, disk[x.job])
            BY <1>1, <2>4, FreeLock DEF LifeInv, EngineInv, LockFine
          <5>2. mu.rec \in Records /\ disk[x.job] \in Records
            BY <1>1 DEF LifeInv, EngineInv, TypeOK
          <5> QED BY <5>1, <5>2 DEF ReadFrom, Records
        <4>2. mu.rec.last = disk[x.job].last => mu.rec.phase = disk[x.job].phase
          BY <1>1, <2>1, <2>4 DEF LockTask
        <4> QED BY <4>1, <4>2
      <3>3. disk[x.job].status \in Recoverable
        BY <1>1, <2>1, <2>4 DEF LockTask
      <3> QED BY <1>2, <1>4, <1>1, <2>4, <3>1, <3>2, <3>3 DEF LockTask, FinalStatuses
    <2> QED BY <2>3, <2>4
  <1>9. TodoTask'
    <2>1. todo \subseteq Jobs /\ TodoTask
      BY DEF LifeInv, LifeParts, EngineInv, TypeOK
    <2>2. todo # {} => up \in {"starting", "failing"}
      BY <2>1 DEF TodoTask
    <2>3. \A j \in todo : disk'[j].status \in Recoverable
      BY <1>4, <2>1 DEF TodoTask
    <2> QED BY <1>2, <1>3, <2>1, <2>2, <2>3, SameTodo
  <1>10. DownTask'
    BY <1>1, <1>2 DEF DownTask, LifeInv, LifeParts
  <1>11. EndedStreamMatches'
    <2>1. ASSUME NEW j \in StreamJobs, disk'[j].status \in FinalStatuses
          PROVE  disk'[j] = disk[j]
      BY <1>1, <2>1 DEF FinalStatuses
    <2> QED BY <2>1 DEF EndedStreamMatches, LifeInv, LifeParts
  <1> QED BY <1>4, <1>5, <1>6, <1>7, <1>8, <1>9, <1>10, <1>11 DEF LifeKept, LifeParts, StatusKept

LEMMA QuietLives ==
    ASSUME LifeInv, NEW w \in Workers, NEW y, Executing(w), Step(w, y), disk' = disk,
           y.job = worker[w].job, y.pc \notin {"idle", "taken", "beginning", "ending"},
           y.job \in StreamJobs => StreamAt(y, disk[y.job])
    PROVE  LifeKept
  BY ExecutionLives

\* What an execution starts a step from.
LEMMA ExecutorFacts ==
    ASSUME LifeInv, NEW w \in Workers, worker[w].pc # "idle"
    PROVE  /\ worker[w] \in WorkerStates /\ worker[w].job \in Jobs
           /\ disk[worker[w].job] \in Records /\ PendingIsNext(disk[worker[w].job])
           /\ worker[w].job \in StreamJobs => StreamAt(worker[w], disk[worker[w].job])
           /\ worker[w].pc = "prepare" => worker[w].batch \in Batches
           /\ worker[w].pc \in {"deliver", "ack"} => worker[w].out \in Batches
           /\ worker[w].pc \in {"prepare", "deliver", "ack"} =>
                  /\ worker[w].resuming \/ worker[w].seq <= MaxSeq
                  /\ worker[w].seq # 0
  <1>1. worker[w].job \in Jobs
    BY OwnedJob DEF LifeInv
  <1>2. WorkerFine(worker[w], disk, received) /\ TaskFine(worker[w], queued, disk, mu)
    BY DEF LifeInv, LifeParts, EngineInv
  <1>3. worker[w] \in WorkerStates /\ disk[worker[w].job] \in Records
    BY <1>1 DEF LifeInv, EngineInv, TypeOK
  <1>4. PendingIsNext(disk[worker[w].job])
    BY <1>1 DEF LifeInv, EngineInv, StreamFine
  <1> QED BY <1>1, <1>2, <1>3, <1>4 DEF WorkerFine, TaskFine

LEMMA ResumeLives ==
    ASSUME LifeInv, NEW w \in Workers, Resume(w) \/ Resumed(w)
    PROVE  LifeKept
  <1> DEFINE x == worker[w]
             r == disk[x.job]
  <1>1. x.pc \in {"resume", "resumed"} /\ disk' = disk /\ Executing(w)
    BY DEF Resume, Resumed, At, diskVars, Executing, PCs
  <1>2. /\ x \in WorkerStates /\ r \in Records
        /\ x.job \in StreamJobs => StreamAt(x, r)
    BY <1>1, ExecutorFacts
  <1>3. CASE Resume(w) /\ r.pending # NoBatch
    <2> DEFINE y == [x EXCEPT !.pc = "prepare", !.batch = r.pending, !.resuming = TRUE]
    <2>1. Step(w, y)
      BY <1>3 DEF Resume, RecordOf
    <2>2. y.job = x.job /\ y.pc = "prepare" /\ y.resuming = TRUE /\ y.batch = r.pending
      BY <1>2 DEF WorkerStates
    <2> HIDE DEF y
    <2>3. StreamAt(y, r)
      BY <2>2 DEF StreamAt
    <2> QED BY <1>1, <2>1, <2>2, <2>3, QuietLives
  <1>4. CASE Resume(w) /\ r.pending = NoBatch
    <2> DEFINE y == [x EXCEPT !.pc = "resumed"]
    <2>1. Step(w, y)
      BY <1>4 DEF Resume, RecordOf
    <2>2. y.job = x.job /\ y.pc = "resumed"
      BY <1>2 DEF WorkerStates
    <2> HIDE DEF y
    <2>3. StreamAt(y, r)
      BY <1>4, <2>2 DEF StreamAt
    <2> QED BY <1>1, <2>1, <2>2, <2>3, QuietLives
  <1>5. CASE Resumed(w)
    <2> DEFINE y == [x EXCEPT !.pc = IF r.phase = "running" THEN "started" ELSE "finish",
                              !.resuming = FALSE, !.total = r.sum, !.seq = r.last + 1,
                              !.res = IF r.phase = "running" THEN "none" ELSE r.phase]
    <2>1. Step(w, y)
      BY <1>5 DEF Resumed, RecordOf
    <2>2. /\ y.job = x.job /\ y.pc \in {"started", "finish"} /\ y.resuming = FALSE
          /\ y.seq = r.last + 1
          /\ y.pc = "finish" => y.res = r.phase
      BY <1>2 DEF WorkerStates
    <2> HIDE DEF y
    <2>3. x.job \in StreamJobs => r.pending = NoBatch
      BY <1>2, <1>5 DEF StreamAt, Resumed, At
    <2>4. y.job \in StreamJobs => StreamAt(y, r)
      BY <2>2, <2>3 DEF StreamAt
    <2> QED BY <1>1, <2>1, <2>2, <2>4, QuietLives
  <1> QED BY <1>3, <1>4, <1>5

LEMMA SendsLives ==
    ASSUME LifeInv, NEW w \in Workers, NEW st, NEW n,
           worker[w].pc \in {"started", "produce"}, Sends(w, st, n)
    PROVE  LifeKept
  <1> DEFINE x == worker[w]
             r == disk[x.job]
             y == [x EXCEPT !.pc = "prepare",
                            !.batch = [seq |-> x.seq, status |-> st, count |-> n]]
  <1>1. disk' = disk /\ Executing(w) /\ Step(w, y)
    BY DEF Sends, diskVars, Executing, PCs
  <1>2. x \in WorkerStates /\ (x.job \in StreamJobs => StreamAt(x, r))
    BY ExecutorFacts
  <1>3. /\ y.job = x.job /\ y.pc = "prepare" /\ y.resuming = x.resuming
        /\ y.batch.seq = x.seq /\ y.seq = x.seq
    BY <1>2 DEF WorkerStates
  <1> HIDE DEF y
  <1>4. y.job \in StreamJobs => StreamAt(y, r)
    BY <1>2, <1>3 DEF StreamAt
  <1> QED BY <1>1, <1>3, <1>4, QuietLives

LEMMA ErrsLives ==
    ASSUME LifeInv, NEW w \in Workers, Executing(w), NEW y, Step(w, y), disk' = disk,
           y.job = worker[w].job, y.pc = "finish", y.res \in {"error", "panic"}
    PROVE  LifeKept
  <1>1. StreamAt(y, disk[y.job])
    BY DEF StreamAt, FinalStatuses
  <1> QED BY <1>1, QuietLives

\* A skipped Send leaves an execution that is not a stream.
LEMMA SkipLives ==
    ASSUME LifeInv, NEW w \in Workers, worker[w].pc \in {"prepare", "ack"},
           worker[w].job \notin StreamJobs, Step(w, Sent(worker[w])), disk' = disk
    PROVE  LifeKept
  <1>1. Executing(w)
    BY DEF Executing, PCs
  <1>2. /\ Sent(worker[w]).job = worker[w].job
        /\ Sent(worker[w]).pc \in {"resumed", "produce", "finish"}
    BY ExecutorFacts, SentFine
  <1> QED BY <1>1, <1>2, QuietLives

LEMMA PrepareLives ==
    ASSUME LifeInv, NEW w \in Workers, PrepareCallback(w)
    PROVE  LifeKept
  <1> DEFINE x == worker[w]
             r == disk[x.job]
  <1>1. /\ x.pc = "prepare" /\ Executing(w) /\ x.job \in Jobs /\ x \in WorkerStates
        /\ r \in Records /\ PendingIsNext(r) /\ x.batch \in Batches
        /\ x.job \in StreamJobs => StreamAt(x, r)
    BY ExecutorFacts DEF PrepareCallback, At, Executing, PCs
  <1>2. x.batch # NoBatch /\ x.batch.seq \in Nat /\ r.last \in Nat
    BY <1>1, BatchFacts DEF Records
  <1>3. x.job \in StreamJobs => x.batch.seq = r.last + 1
    BY <1>1, <1>2 DEF StreamAt, PendingIsNext
  <1>4. CASE x.batch.seq <= r.last /\ Step(w, Sent(x)) /\ disk' = disk
    BY <1>1, <1>2, <1>3, <1>4, SkipLives
  <1>5. CASE Step(w, Errs(x)) /\ disk' = disk
    <2>1. Errs(x).job = x.job /\ Errs(x).pc = "finish" /\ Errs(x).res = "error"
      BY <1>1 DEF Errs, WorkerStates
    <2> QED BY <1>1, <1>5, <2>1, ErrsLives
  <1>6. CASE /\ r.pending # NoBatch /\ disk' = disk
             /\ Step(w, [x EXCEPT !.pc = "deliver", !.out = r.pending])
    <2> DEFINE y == [x EXCEPT !.pc = "deliver", !.out = r.pending]
    <2>1. /\ y.job = x.job /\ y.pc = "deliver" /\ y.out = r.pending /\ y.batch = x.batch
          /\ y.resuming = x.resuming
      BY <1>1 DEF WorkerStates
    <2>2. Step(w, y)
      BY <1>6
    <2> HIDE DEF y
    <2>3. y.job \in StreamJobs => StreamAt(y, r)
      BY <1>1, <1>6, <2>1 DEF StreamAt
    <2> QED BY <1>1, <1>6, <2>1, <2>2, <2>3, QuietLives
  <1>7. CASE /\ r.pending = NoBatch /\ disk' = [disk EXCEPT ![x.job].pending = x.batch]
             /\ Step(w, [x EXCEPT !.pc = "deliver", !.out = x.batch])
    <2> DEFINE y == [x EXCEPT !.pc = "deliver", !.out = x.batch]
               n == [r EXCEPT !.pending = x.batch]
    <2>1. /\ y.job = x.job /\ y.pc = "deliver" /\ y.out = x.batch /\ y.batch = x.batch
          /\ y.resuming = x.resuming /\ y.seq = x.seq
      BY <1>1 DEF WorkerStates
    <2>2. /\ n.status = r.status /\ n.last = r.last /\ n.phase = r.phase /\ n.pending = x.batch
      BY <1>1 DEF Records
    <2>3. disk'[x.job] = n /\ \A j \in Jobs : j # x.job => disk'[j] = disk[j]
      BY <1>1, <1>7 DEF LifeInv, EngineInv, TypeOK
    <2>4. Step(w, y)
      BY <1>7
    <2> HIDE DEF y, n
    <2>5. y.job \in StreamJobs => StreamAt(y, n)
      BY <1>1, <1>2, <1>7, <2>1, <2>2 DEF StreamAt
    <2> QED BY <1>1, <2>1, <2>2, <2>3, <2>4, <2>5, ExecutionLives
  <1> QED BY <1>4, <1>5, <1>6, <1>7 DEF PrepareCallback, RecordOf

LEMMA AcknowledgeLives ==
    ASSUME LifeInv, NEW w \in Workers, AcknowledgeCallback(w)
    PROVE  LifeKept
  <1> DEFINE x == worker[w]
             r == disk[x.job]
             y == Sent(x)
  <1>1. /\ x.pc = "ack" /\ Executing(w) /\ x.job \in Jobs /\ x \in WorkerStates
        /\ r \in Records /\ PendingIsNext(r) /\ x.out \in Batches
        /\ x.job \in StreamJobs => StreamAt(x, r)
    BY ExecutorFacts DEF AcknowledgeCallback, At, Executing, PCs
  <1>2. x.out # NoBatch /\ x.out.seq \in Nat /\ r.last \in Nat
    BY <1>1, BatchFacts DEF Records
  <1>3. x.job \in StreamJobs =>
           /\ x.out = r.pending /\ x.batch = r.pending /\ x.out.seq = r.last + 1
           /\ ~x.resuming => x.seq = x.out.seq
    BY <1>1, <1>2 DEF StreamAt, PendingIsNext
  <1>4. CASE x.out.seq <= r.last /\ Step(w, y) /\ disk' = disk
    BY <1>1, <1>2, <1>3, <1>4, SkipLives
  <1>5. CASE Step(w, Errs(x)) /\ disk' = disk
    <2>1. Errs(x).job = x.job /\ Errs(x).pc = "finish" /\ Errs(x).res = "error"
      BY <1>1 DEF Errs, WorkerStates
    <2> QED BY <1>1, <1>5, <2>1, ErrsLives
  <1>6. CASE /\ x.out.seq = r.last + 1 /\ Step(w, y)
             /\ disk' = [disk EXCEPT ![x.job] =
                           [r EXCEPT !.last = x.out.seq, !.sum = r.sum + r.pending.count,
                                     !.phase = r.pending.status, !.pending = NoBatch]]
    <2> DEFINE n == [r EXCEPT !.last = x.out.seq, !.sum = r.sum + r.pending.count,
                              !.phase = r.pending.status, !.pending = NoBatch]
    <2>1. /\ n.status = r.status /\ n.last = r.last + 1 /\ n.phase = r.pending.status
          /\ n.pending = NoBatch
      BY <1>1, <1>6 DEF Records
    <2>2. disk'[x.job] = n /\ \A j \in Jobs : j # x.job => disk'[j] = disk[j]
      BY <1>1, <1>6 DEF LifeInv, EngineInv, TypeOK
    <2> HIDE DEF n
    <2>3. y.job = x.job /\ y.pc \in {"resumed", "produce", "finish"}
      BY <1>1, ExecutorFacts, SentFine
    <2>4. x.job \in StreamJobs => StreamAt(y, n)
      <3> SUFFICES ASSUME x.job \in StreamJobs PROVE StreamAt(y, n)
        OBVIOUS
      <3>1. CASE x.resuming
        <4>1. y.pc = "resumed"
          BY <1>1, <3>1 DEF Sent, WorkerStates
        <4> QED BY <2>1, <4>1 DEF StreamAt
      <3>2. CASE ~x.resuming
        <4>1. /\ y.pc \in {"produce", "finish"} /\ y.resuming = x.resuming /\ y.seq = x.seq + 1
              /\ y.pc = "finish" => y.res = x.batch.status
          BY <1>1, <3>2 DEF Sent, WorkerStates
        <4> HIDE DEF y
        <4> QED BY <1>2, <1>3, <2>1, <3>2, <4>1 DEF StreamAt
      <3> QED BY <3>1, <3>2
    <2>5. Step(w, y)
      BY <1>6
    <2> HIDE DEF y
    <2>6. /\ disk'[y.job].status = disk[y.job].status
          /\ disk'[y.job].last = disk[y.job].last + 1
          /\ y.job \in StreamJobs => StreamAt(y, disk'[y.job])
      BY <2>1, <2>2, <2>3, <2>4
    <2> QED BY <1>1, <2>2, <2>3, <2>5, <2>6, ExecutionLives
  <1> QED BY <1>4, <1>5, <1>6 DEF AcknowledgeCallback, RecordOf

LEMMA DeliverLives ==
    ASSUME LifeInv, NEW w \in Workers, Deliver(w) \/ ExecutionFails(w) \/ Deadline(w)
    PROVE  LifeKept
  <1> DEFINE x == worker[w]
  <1>1. Executing(w) /\ disk' = disk
    BY DEF Deliver, ExecutionFails, Deadline, At, Executing, PCs, diskVars
  <1>2. x.pc \notin {"idle", "taken", "beginning", "finish", "ending"}
    BY <1>1 DEF Executing
  <1>3. x \in WorkerStates /\ (x.job \in StreamJobs => StreamAt(x, disk[x.job]))
    BY <1>2, ExecutorFacts
  <1>4. CASE Deliver(w)
    <2> DEFINE y == [x EXCEPT !.pc = "ack"]
    <2>1. /\ x.pc = "deliver" /\ y.job = x.job /\ y.pc = "ack" /\ y.out = x.out
          /\ y.batch = x.batch /\ y.resuming = x.resuming /\ y.seq = x.seq
      BY <1>3, <1>4 DEF WorkerStates, Deliver, At
    <2>2. Step(w, y)
      BY <1>4 DEF Deliver
    <2> HIDE DEF y
    <2>3. y.job \in StreamJobs => StreamAt(y, disk[y.job])
      BY <1>3, <2>1 DEF StreamAt
    <2> QED BY <1>1, <2>1, <2>2, <2>3, QuietLives
  <1>5. CASE ExecutionFails(w)
    <2>1. PICK res \in {"error", "panic"} : Step(w, [x EXCEPT !.pc = "finish", !.res = res])
      BY <1>5 DEF ExecutionFails
    <2> DEFINE y == [x EXCEPT !.pc = "finish", !.res = res]
    <2>2. y.job = x.job /\ y.pc = "finish" /\ y.res = res
      BY <1>3 DEF WorkerStates
    <2> QED BY <1>1, <2>1, <2>2, ErrsLives
  <1>6. CASE Deadline(w)
    <2> DEFINE y == [x EXCEPT !.ctx = "deadline"]
    <2>1. /\ y.job = x.job /\ y.pc = x.pc /\ y.out = x.out /\ y.res = x.res
          /\ y.batch = x.batch /\ y.resuming = x.resuming /\ y.seq = x.seq
      BY <1>3 DEF WorkerStates
    <2>2. Step(w, y)
      BY <1>6 DEF Deadline
    <2> HIDE DEF y
    <2>3. y.job \in StreamJobs => StreamAt(y, disk[y.job])
      BY <1>3, <2>1 DEF StreamAt
    <2> QED BY <1>1, <1>2, <2>1, <2>2, <2>3, QuietLives
  <1> QED BY <1>4, <1>5, <1>6

LEMMA ExecutorLives ==
    ASSUME LifeInv, NEW w \in Workers, ExecutorStep(w) \/ ExecutionFails(w) \/ Deadline(w)
    PROVE  LifeKept
  <1>1. CASE Started(w)
    BY <1>1, SendsLives DEF Started, At
  <1>2. CASE Produce(w)
    BY <1>2, SendsLives DEF Produce, At
  <1> QED BY <1>1, <1>2, ResumeLives, PrepareLives, AcknowledgeLives, DeliverLives DEF ExecutorStep

LEMMA NobodyHolds ==
    ASSUME LifeInv, mu = Free, NEW w \in Workers
    PROVE  worker[w].pc \notin {"beginning", "ending"}
  BY OwnedJob, FreeLock DEF LifeInv, LifeParts, TaskFine

LEMMA ServingTodo == ASSUME LifeInv, up \notin {"starting", "failing"} PROVE todo = {}
  BY DEF LifeInv, LifeParts, TodoTask

\* The parts that a step that changes no record, no flag and no queue entry
\* keeps, when no worker gets a job it did not have.
LEMMA CalmParts ==
    ASSUME LifeInv, disk' = disk, queue' = queue,
           \A i \in 1..Len(queue) : queued'[queue[i]] = queued[queue[i]],
           \A v \in Workers, j \in Jobs : Owns(v, j)' => Owns(v, j)
    PROVE  QueueFine' /\ OneHome' /\ EndedStreamMatches' /\ StatusKept
  <1>1. QueueFine'
    BY DEF QueueFine, LifeInv, LifeParts
  <1>2. OneHome'
    BY SameHomes DEF LifeInv, LifeParts
  <1>3. EndedStreamMatches' /\ StatusKept
    BY DEF EndedStreamMatches, StatusKept, LifeInv, LifeParts
  <1> QED BY <1>1, <1>2, <1>3

\* Cancelling a context changes nothing a worker relies on.
SameButContext(x, y) ==
    /\ y.pc = x.pc /\ y.job = x.job /\ y.seq = x.seq /\ y.batch = x.batch
    /\ y.out = x.out /\ y.resuming = x.resuming /\ y.res = x.res

LEMMA ContextTask ==
    ASSUME NEW x, NEW y, SameButContext(x, y), NEW q, NEW d, NEW m, TaskFine(x, q, d, m)
    PROVE  TaskFine(y, q, d, m)
  BY DEF SameButContext, TaskFine, StreamAt

LEMMA ContextSame ==
    ASSUME NEW x \in WorkerStates
    PROVE  SameButContext(x, x) /\ SameButContext(x, [x EXCEPT !.ctx = "cancelled"])
  BY DEF SameButContext, WorkerStates

LEMMA CancelLives ==
    ASSUME LifeInv, NEW j \in Jobs, Cancel(j)
    PROVE  LifeKept
  <1> DEFINE n == [disk[j] EXCEPT !.status = "cancelled"]
  <1>1. /\ mu = Free /\ mu' = [job |-> j, rec |-> n] /\ disk[j].status \in Recoverable
        /\ UNCHANGED <<disk, up, todo, queue, queued>> /\ todo = {} /\ up # "down"
    BY ServingTodo DEF Cancel, Lock, Serving
  <1>2. /\ n.status = "cancelled" /\ n.last = disk[j].last /\ n.phase = disk[j].phase
        /\ n.pending = disk[j].pending
    BY DEF LifeInv, EngineInv, TypeOK, Records
  <1> HIDE DEF n
  <1>3. \A w \in Workers : SameButContext(worker[w], worker'[w])
    BY ContextSame DEF Cancel, LifeInv, EngineInv, TypeOK
  <1>4. \A v \in Workers, k \in Jobs : Owns(v, k)' <=> Owns(v, k)
    BY <1>3 DEF Owns, SameButContext
  <1>5. ASSUME NEW w \in Workers PROVE TaskFine(worker'[w], queued', disk', mu')
    <2>1. TaskFine(worker[w], queued, disk, mu')
      <3>1. SameTask(disk[worker[w].job], disk[worker[w].job])
        BY DEF SameTask
      <3>2. worker[w].pc \notin {"beginning", "ending"}
        BY <1>1, NobodyHolds
      <3>3. TaskFine(worker[w], queued, disk, mu)
        BY DEF LifeInv, LifeParts
      <3> QED BY <3>1, <3>2, <3>3, SameTaskFine
    <2> QED BY <1>1, <1>3, <2>1, ContextTask
  <1>6. LockTask'
    BY <1>1, <1>2 DEF LockTask, FinalStatuses
  <1>7. TodoTask' /\ DownTask'
    BY <1>1 DEF TodoTask, DownTask
  <1> QED BY <1>1, <1>4, <1>5, <1>6, <1>7, CalmParts DEF LifeKept, LifeParts

LEMMA TakeLives ==
    ASSUME LifeInv, NEW w \in Workers, Take(w)
    PROVE  LifeKept
  <1> DEFINE y == [Idle EXCEPT !.pc = "taken", !.job = Head(queue)]
             h == Head(queue)
  <1>1. /\ queue \in Seq(Jobs) /\ queue # <<>> /\ h = queue[1] /\ 1 \in 1..Len(queue) /\ h \in Jobs
        /\ queue' = Tail(queue) /\ Len(queue') = Len(queue) - 1
        /\ \A i \in 1..Len(queue') :
              i + 1 \in 1..Len(queue) /\ i + 1 # 1 /\ queue'[i] = queue[i + 1]
    BY DEF Take, LifeInv, EngineInv, TypeOK
  <1>2. /\ worker'[w] = y /\ \A v \in Workers : v # w => worker'[v] = worker[v]
        /\ worker[w].pc = "idle" /\ up # "down"
        /\ UNCHANGED <<disk, up, todo, queued, mu>>
    BY DEF Take, diskVars, LifeInv, EngineInv, TypeOK
  <1>3. y.pc = "taken" /\ y.job = h
    BY DEF Idle
  <1> HIDE DEF y
  <1>4. /\ Waiting(h) /\ queued[h] /\ disk[h].status \in {"queued", "cancelled"}
        /\ \A v \in Workers : ~Owns(v, h)
    BY <1>1 DEF Waiting, LifeInv, LifeParts, QueueFine, OneHome
  <1>5. \A v \in Workers, j \in Jobs : Owns(v, j)' <=> (IF v = w THEN j = h ELSE Owns(v, j))
    BY <1>2, <1>3 DEF Owns
  <1>6. \A j \in Jobs : Waiting(j)' => Waiting(j) /\ j # h
    <2> SUFFICES ASSUME NEW i \in 1..Len(queue') PROVE Waiting(queue'[i]) /\ queue'[i] # h
      BY DEF Waiting
    <2>1. i + 1 \in 1..Len(queue) /\ i + 1 # 1 /\ queue'[i] = queue[i + 1]
      BY <1>1
    <2>2. queue[i + 1] # queue[1]
      BY <1>1, <2>1 DEF LifeInv, LifeParts, OneHome
    <2> QED BY <1>1, <2>1, <2>2 DEF Waiting
  <1>7. QueueFine'
    BY <1>1, <1>2 DEF QueueFine, LifeInv, LifeParts
  <1>8. OneHome'
    <2>1. ASSUME NEW i \in 1..Len(queue'), NEW k \in 1..Len(queue'), queue'[i] = queue'[k]
          PROVE  i = k
      <3>1. i + 1 \in 1..Len(queue) /\ k + 1 \in 1..Len(queue) /\ queue[i + 1] = queue[k + 1]
        BY <1>1, <2>1
      <3>2. i + 1 = k + 1
        BY <3>1 DEF LifeInv, LifeParts, OneHome
      <3> QED BY <3>2
    <2>2. \A u, v \in Workers, j \in Jobs : Owns(u, j)' /\ Owns(v, j)' => u = v
      BY <1>4, <1>5 DEF LifeInv, LifeParts, OneHome
    <2>3. \A v \in Workers, j \in Jobs : ~(Owns(v, j)' /\ Waiting(j)')
      BY <1>5, <1>6 DEF LifeInv, LifeParts, OneHome
    <2> QED BY <2>1, <2>2, <2>3 DEF OneHome
  <1>9. \A v \in Workers : TaskFine(worker'[v], queued', disk', mu')
    <2>1. TaskFine(y, queued, disk, mu)
      BY <1>3, <1>4 DEF TaskFine, StreamAt
    <2> QED BY <1>2, <2>1 DEF LifeInv, LifeParts
  <1>10. LockTask'
    BY <1>2 DEF LockTask, LifeInv, LifeParts
  <1>11. TodoTask'
    BY <1>2, <1>4, <1>5, <1>6 DEF TodoTask, LifeInv, LifeParts, EngineInv, TypeOK
  <1>12. DownTask' /\ EndedStreamMatches' /\ StatusKept
    BY <1>2 DEF DownTask, EndedStreamMatches, StatusKept, LifeInv, LifeParts
  <1> QED BY <1>7, <1>8, <1>9, <1>10, <1>11, <1>12 DEF LifeKept, LifeParts

\* A worker w leaves its job, or takes the lock for it.
LEMMA BeginRunLives ==
    ASSUME LifeInv, NEW w \in Workers, BeginRun(w)
    PROVE  LifeKept
  <1> DEFINE x == worker[w]
             n == [disk[x.job] EXCEPT !.status = "running"]
             y == [x EXCEPT !.pc = "beginning", !.seq = 1,
                            !.ctx = IF Stopping THEN "cancelled" ELSE "live"]
  <1>1. /\ x.pc = "taken" /\ x.job \in Jobs /\ x \in WorkerStates /\ disk[x.job] \in Records
        /\ Owns(w, x.job) /\ disk[x.job].status \in {"queued", "cancelled"} /\ mu = Free
        /\ queued' = [queued EXCEPT ![x.job] = FALSE]
        /\ UNCHANGED <<disk, up, todo, queue>>
    BY ExecutorFacts DEF BeginRun, Lock, diskVars, Owns, LifeInv, LifeParts, TaskFine
  <1>2. up # "down"
    BY <1>1 DEF LifeInv, LifeParts, DownTask
  <1>3. \A i \in 1..Len(queue) : queued'[queue[i]] = queued[queue[i]]
    <2> SUFFICES ASSUME NEW i \in 1..Len(queue) PROVE queued'[queue[i]] = queued[queue[i]]
      OBVIOUS
    <2>1. queue[i] \in Jobs /\ queued \in [Jobs -> BOOLEAN]
      BY DEF LifeInv, EngineInv, TypeOK
    <2>2. queue[i] # x.job
      BY <1>1 DEF LifeInv, LifeParts, OneHome, Waiting
    <2> QED BY <1>1, <2>1, <2>2
  <1>4. ASSUME NEW v \in Workers, v # w, NEW m
        PROVE  TaskFine(worker[v], queued', disk, m)
    <2>1. worker[v].pc # "idle" => worker[v].job \in Jobs /\ worker[v].job # x.job
      BY <1>1, <1>4, OwnedJob DEF LifeInv, LifeParts, OneHome, Owns
    <2>2. worker[v].pc = "taken" /\ queued[worker[v].job] => queued'[worker[v].job]
      BY <1>1, <2>1 DEF LifeInv, EngineInv, TypeOK
    <2>3. SameTask(disk[worker[v].job], disk[worker[v].job])
      BY DEF SameTask
    <2>4. worker[v].pc \notin {"beginning", "ending"} /\ TaskFine(worker[v], queued, disk, mu)
      BY <1>1, NobodyHolds DEF LifeInv, LifeParts
    <2> QED BY <2>2, <2>3, <2>4, SameTaskFine
  <1>5. CASE worker' = [worker EXCEPT ![w] = Idle] /\ mu' = mu
    <2>1. worker'[w] = Idle /\ \A v \in Workers : v # w => worker'[v] = worker[v]
      BY <1>5 DEF LifeInv, EngineInv, TypeOK
    <2>2. \A v \in Workers, j \in Jobs : Owns(v, j)' => Owns(v, j)
      BY <2>1 DEF Owns, Idle
    <2>3. \A v \in Workers : TaskFine(worker'[v], queued', disk', mu')
      BY <1>1, <1>4, <2>1 DEF TaskFine, Idle
    <2>4. LockTask' /\ DownTask'
      BY <1>1, <1>2, <1>5, FreeLock DEF LockTask, DownTask, LifeInv
    <2>5. TodoTask'
      BY <1>1, <1>5, <2>2, SameTodo DEF LifeInv, LifeParts, EngineInv, TypeOK, TodoTask
    <2> QED BY <1>1, <1>3, <2>2, <2>3, <2>4, <2>5, CalmParts DEF LifeKept, LifeParts
  <1>6. CASE /\ disk[x.job].status # "cancelled" /\ Lock(x.job, n)
             /\ worker' = [worker EXCEPT ![w] = y]
    <2>1. worker'[w] = y /\ \A v \in Workers : v # w => worker'[v] = worker[v]
      BY <1>6 DEF LifeInv, EngineInv, TypeOK
    <2>2. y.pc = "beginning" /\ y.job = x.job
      BY <1>1 DEF WorkerStates
    <2>3. /\ n.status = "running" /\ n.last = disk[x.job].last /\ n.phase = disk[x.job].phase
          /\ mu'.job = x.job /\ mu'.rec = n
      BY <1>1, <1>6 DEF Records, Lock
    <2> HIDE DEF y, n
    <2>4. \A v \in Workers, j \in Jobs : Owns(v, j)' => Owns(v, j)
      BY <1>1, <2>1, <2>2 DEF Owns
    <2>5. \A v \in Workers : TaskFine(worker'[v], queued', disk', mu')
      <3>1. TaskFine(y, queued', disk', mu')
        BY <2>2, <2>3 DEF TaskFine, StreamAt
      <3> QED BY <1>1, <1>4, <2>1, <3>1
    <2>6. LockTask' /\ DownTask'
      BY <1>1, <1>2, <1>6, <2>1, <2>2, <2>3 DEF LockTask, DownTask, Recoverable, FinalStatuses
    <2>7. TodoTask'
      <3>1. x.job \notin todo
        BY <1>1 DEF LifeInv, LifeParts, TodoTask
      <3> QED BY <1>1, <2>3, <2>4, <3>1, SameTodo DEF LifeInv, LifeParts, EngineInv, TypeOK, TodoTask
    <2> QED BY <1>1, <1>3, <2>4, <2>5, <2>6, <2>7, CalmParts DEF LifeKept, LifeParts
  <1> QED BY <1>5, <1>6 DEF BeginRun

LEMMA EndRunLives ==
    ASSUME LifeInv, NEW w \in Workers, EndRun(w)
    PROVE  LifeKept
  <1> DEFINE x == worker[w]
             r == disk[x.job]
             n == [r EXCEPT !.status = EndStatus(x),
                            !.result = IF x.res = "panic" THEN r.result ELSE x.total]
             y == [x EXCEPT !.pc = "ending"]
  <1>1. /\ x.pc = "finish" /\ x.job \in Jobs /\ x \in WorkerStates /\ r \in Records
        /\ Owns(w, x.job) /\ r.status \in {"running", "cancelled"} /\ mu = Free
        /\ x.job \in StreamJobs => StreamAt(x, r)
        /\ UNCHANGED <<disk, up, todo, queue, queued>>
    BY ExecutorFacts DEF EndRun, Lock, diskVars, Owns, LifeInv, LifeParts, TaskFine
  <1>2. up # "down"
    BY <1>1 DEF LifeInv, LifeParts, DownTask
  <1>3. ASSUME NEW v \in Workers, NEW m
        PROVE  TaskFine(worker[v], queued, disk, m)
    <2>1. SameTask(disk[worker[v].job], disk[worker[v].job])
      BY DEF SameTask
    <2>2. worker[v].pc \notin {"beginning", "ending"} /\ TaskFine(worker[v], queued, disk, mu)
      BY <1>1, NobodyHolds DEF LifeInv, LifeParts
    <2> QED BY <2>1, <2>2, SameTaskFine
  <1>4. CASE worker' = [worker EXCEPT ![w] = Idle] /\ mu' = mu
    <2>1. worker'[w] = Idle /\ \A v \in Workers : v # w => worker'[v] = worker[v]
      BY <1>4 DEF LifeInv, EngineInv, TypeOK
    <2>2. \A v \in Workers, j \in Jobs : Owns(v, j)' => Owns(v, j)
      BY <2>1 DEF Owns, Idle
    <2>3. \A v \in Workers : TaskFine(worker'[v], queued', disk', mu')
      BY <1>1, <1>3, <2>1 DEF TaskFine, Idle
    <2>4. LockTask' /\ DownTask'
      BY <1>1, <1>2, <1>4, FreeLock DEF LockTask, DownTask, LifeInv
    <2>5. TodoTask'
      BY <1>1, <1>4, <2>2, SameTodo DEF LifeInv, LifeParts, EngineInv, TypeOK, TodoTask
    <2> QED BY <1>1, <2>2, <2>3, <2>4, <2>5, CalmParts DEF LifeKept, LifeParts
  <1>5. CASE /\ r.status # "cancelled" /\ Lock(x.job, n)
             /\ worker' = [worker EXCEPT ![w].pc = "ending"]
    <2>1. worker'[w] = y /\ \A v \in Workers : v # w => worker'[v] = worker[v]
      BY <1>5 DEF LifeInv, EngineInv, TypeOK
    <2>2. y.pc = "ending" /\ y.job = x.job /\ y.res = x.res
      BY <1>1 DEF WorkerStates
    <2>3. /\ n.status = EndStatus(x) /\ n.last = r.last /\ n.phase = r.phase
          /\ mu'.job = x.job /\ mu'.rec = n
      BY <1>1, <1>5 DEF Records, Lock
    <2>4. EndStatus(x) \in FinalStatuses => x.res = EndStatus(x)
      BY <1>1 DEF EndStatus, FinalStatuses
    <2>5. x.job \in StreamJobs /\ x.res \in FinalStatuses => r.phase = x.res /\ r.pending = NoBatch
      BY <1>1 DEF StreamAt
    <2> HIDE DEF y, n
    <2>6. \A v \in Workers, j \in Jobs : Owns(v, j)' => Owns(v, j)
      BY <1>1, <2>1, <2>2 DEF Owns
    <2>7. \A v \in Workers : TaskFine(worker'[v], queued', disk', mu')
      <3>1. TaskFine(y, queued', disk', mu')
        BY <1>1, <2>2, <2>3, <2>5 DEF TaskFine, StreamAt
      <3> QED BY <1>1, <1>3, <2>1, <3>1
    <2>8. LockTask' /\ DownTask'
      BY <1>1, <1>2, <1>5, <2>1, <2>2, <2>3, <2>4, <2>5 DEF LockTask, DownTask, Recoverable
    <2>9. TodoTask'
      <3>1. x.job \notin todo
        BY <1>1 DEF LifeInv, LifeParts, TodoTask
      <3> QED BY <1>1, <2>3, <2>6, <3>1, SameTodo DEF LifeInv, LifeParts, EngineInv, TypeOK, TodoTask
    <2> QED BY <1>1, <2>6, <2>7, <2>8, <2>9, CalmParts DEF LifeKept, LifeParts
  <1> QED BY <1>4, <1>5 DEF EndRun

\* The Save of the lock's holder: the record takes the new status and keeps
\* its checkpoint, and the worker that held the lock goes on.
LEMMA SaveLives ==
    ASSUME LifeInv, SaveRecord
    PROVE  LifeKept
  <1> DEFINE j == mu.job
             r == disk[j]
             n == mergeCallbackCheckpoint(mu.rec, r)
  <1>1. /\ j \in Jobs /\ mu.rec \in Records /\ r \in Records /\ PendingIsNext(r)
        /\ ReadFrom(mu.rec, r) /\ LockTask
    BY FreeLock DEF SaveRecord, LifeInv, LifeParts, EngineInv, TypeOK, StreamFine, LockFine
  <1>2. /\ n.last = r.last /\ n.pending = r.pending /\ n.status = mu.rec.status
        /\ n.phase = r.phase
    <2>1. n.last = r.last /\ n.pending = r.pending
      BY <1>1, MergeKeepsCheckpoint
    <2>2. n.status = mu.rec.status
      BY <1>1 DEF mergeCallbackCheckpoint, Records
    <2>3. n.phase = IF r.last > mu.rec.last THEN r.phase ELSE mu.rec.phase
      BY <1>1 DEF mergeCallbackCheckpoint, Records
    <2>4. r.last \in Nat /\ mu.rec.last \in Nat /\ mu.rec.last <= r.last
      BY <1>1 DEF Records, ReadFrom
    <2> QED BY <1>1, <2>1, <2>2, <2>3, <2>4 DEF LockTask
  <1>3. /\ disk'[j] = n /\ \A k \in Jobs : k # j => disk'[k] = disk[k]
        /\ UNCHANGED <<up, todo, queue, queued>> /\ mu' = Free /\ mu'.job \notin Jobs
    BY <1>1 DEF SaveRecord, Unlock, Free, LifeInv, EngineInv, TypeOK
  <1> HIDE DEF n
  <1>4. ASSUME NEW w \in Workers
        PROVE  /\ worker[w].pc = "beginning" =>
                      /\ worker'[w].job = worker[w].job
                      /\ worker'[w].pc = IF worker[w].job \in StreamJobs THEN "resume" ELSE "started"
               /\ worker[w].pc = "ending" => worker'[w].pc = "idle"
               /\ worker[w].pc \notin {"beginning", "ending"} => worker'[w] = worker[w]
    <2>1. worker[w] \in WorkerStates
      BY DEF LifeInv, EngineInv, TypeOK
    <2> QED BY <2>1 DEF SaveRecord, Unlock, Idle, WorkerStates
  <1>5. \A v \in Workers, k \in Jobs : Owns(v, k)' => Owns(v, k)
    BY <1>4 DEF Owns
  <1>6. \/ mu.rec.status = "cancelled"
        \/ \E w \in Workers : worker[w].pc \in {"beginning", "ending"} /\ Owns(w, j)
    BY <1>1 DEF LockTask, Owns
  <1>7. Waiting(j) => mu.rec.status = "cancelled"
    BY <1>1, <1>6 DEF LifeInv, LifeParts, OneHome
  <1>8. \A w \in Workers : Owns(w, j) /\ worker[w].pc \notin {"beginning", "ending"} =>
                               mu.rec.status = "cancelled"
    BY <1>1, <1>6 DEF LifeInv, LifeParts, OneHome
  <1>9. QueueFine'
    <2> SUFFICES ASSUME NEW i \in 1..Len(queue)
                 PROVE  queued[queue[i]] /\ disk'[queue[i]].status \in {"queued", "cancelled"}
      BY <1>3 DEF QueueFine
    <2>1. /\ queue[i] \in Jobs /\ queued[queue[i]]
          /\ disk[queue[i]].status \in {"queued", "cancelled"} /\ Waiting(queue[i])
      BY DEF LifeInv, LifeParts, QueueFine, EngineInv, TypeOK, Waiting
    <2> QED BY <1>2, <1>3, <1>7, <2>1
  <1>10. OneHome'
    BY <1>3, <1>5, SameHomes DEF LifeInv, LifeParts
  <1>11. ASSUME NEW w \in Workers PROVE TaskFine(worker'[w], queued', disk', mu')
    <2> DEFINE x == worker[w]
    <2>1. TaskFine(x, queued, disk, mu) /\ (x.pc # "idle" => x.job \in Jobs)
      BY OwnedJob DEF LifeInv, LifeParts
    <2>2. CASE x.pc = "beginning"
      <3>1. x.job = j /\ mu.rec.status = "running"
        BY <2>1, <2>2 DEF TaskFine
      <3> QED BY <1>2, <1>3, <1>4, <2>2, <3>1 DEF TaskFine, StreamAt
    <2>3. CASE x.pc = "ending"
      BY <1>4, <2>3 DEF TaskFine
    <2>4. CASE x.pc \notin {"beginning", "ending"} /\ (x.pc = "idle" \/ x.job # j)
      <3>1. x.pc # "idle" => SameTask(disk[x.job], disk'[x.job])
        BY <1>3, <2>1, <2>4 DEF SameTask
      <3> QED BY <1>3, <1>4, <2>1, <2>4, <3>1, SameTaskFine
    <2>5. CASE x.pc \notin {"beginning", "ending", "idle"} /\ x.job = j
      <3>1. n.status = "cancelled"
        BY <1>2, <1>8, <2>5 DEF Owns
      <3>2. worker'[w] = x /\ disk'[x.job] = n
        BY <1>3, <1>4, <2>5
      <3> QED BY <1>2, <1>3, <2>1, <2>5, <3>1, <3>2 DEF TaskFine, StreamAt
    <2> QED BY <2>2, <2>3, <2>4, <2>5
  <1>12. LockTask'
    BY <1>3 DEF LockTask
  <1>13. TodoTask'
    <2>1. todo \subseteq Jobs /\ TodoTask
      BY DEF LifeInv, LifeParts, EngineInv, TypeOK
    <2>2. \A k \in todo : k # j /\ disk'[k].status \in Recoverable
      BY <1>3, <2>1 DEF TodoTask
    <2> QED BY <1>3, <1>5, <2>1, <2>2, SameTodo DEF TodoTask
  <1>14. DownTask'
    BY <1>3, <1>4 DEF DownTask, LifeInv, LifeParts
  <1>15. EndedStreamMatches'
    BY <1>1, <1>2, <1>3 DEF EndedStreamMatches, LockTask, LifeInv, LifeParts
  <1>16. StatusKept
    BY <1>1, <1>3 DEF StatusKept, LockTask, Terminal, FinalStatuses, Recoverable
  <1> QED BY <1>9, <1>10, <1>11, <1>12, <1>13, <1>14, <1>15, <1>16 DEF LifeKept, LifeParts

LEMMA GoneLives ==
    ASSUME LifeInv, Gone
    PROVE  LifeKept
  <1>1. /\ disk' = disk /\ queue' = <<>> /\ todo' = {} /\ mu' = Free /\ mu'.job \notin Jobs
        /\ \A w \in Workers : worker'[w].pc = "idle"
    BY DEF Gone, diskVars, Free, Idle
  <1>2. QueueFine' /\ OneHome'
    BY <1>1 DEF QueueFine, OneHome, Owns
  <1>3. \A w \in Workers : TaskFine(worker'[w], queued', disk', mu')
    BY <1>1 DEF TaskFine
  <1>4. LockTask' /\ TodoTask' /\ DownTask'
    BY <1>1 DEF LockTask, TodoTask, DownTask
  <1>5. EndedStreamMatches' /\ StatusKept
    BY <1>1 DEF EndedStreamMatches, StatusKept, LifeInv, LifeParts
  <1> QED BY <1>2, <1>3, <1>4, <1>5 DEF LifeKept, LifeParts

LEMMA StartLives ==
    ASSUME LifeInv, Start \/ StartDone
    PROVE  LifeKept
  <1>1. UNCHANGED <<disk, queue, queued, mu, worker>> /\ up' \in {"starting", "up"}
    BY DEF Start, StartDone, diskVars, memVars
  <1>2. QueueFine' /\ OneHome' /\ EndedStreamMatches' /\ StatusKept
    BY <1>1, CalmParts DEF Owns
  <1>3. \A w \in Workers : TaskFine(worker'[w], queued', disk', mu')
    BY <1>1 DEF LifeInv, LifeParts
  <1>4. LockTask' /\ DownTask'
    BY <1>1 DEF LockTask, DownTask, LifeInv, LifeParts
  <1>5. TodoTask'
    <2>1. CASE Start
      <3>1. /\ queue = <<>> /\ mu = Free /\ \A w \in Workers : worker[w].pc = "idle"
        BY <2>1 DEF Start, DownTask, LifeInv, LifeParts
      <3>2. \A k \in Jobs : ~Waiting(k) /\ mu.job # k /\ \A w \in Workers : ~Owns(w, k)
        BY <3>1 DEF Waiting, Owns, Free
      <3>3. \A k : Waiting(k)' <=> Waiting(k)
        BY <1>1 DEF Waiting
      <3>4. \A w \in Workers : \A k : Owns(w, k)' <=> Owns(w, k)
        BY <1>1 DEF Owns
      <3>5. up' = "starting" /\ todo' = {k \in Jobs : disk[k].status \in Recoverable}
        BY <2>1 DEF Start
      <3> QED BY <1>1, <3>2, <3>3, <3>4, <3>5 DEF TodoTask
    <2>2. CASE StartDone
      BY <2>2 DEF StartDone, TodoTask
    <2> QED BY <2>1, <2>2
  <1> QED BY <1>2, <1>3, <1>4, <1>5 DEF LifeKept, LifeParts

\* CancelRoot alone.
LEMMA CancelRootSame ==
    ASSUME LifeInv, NEW next, CancelRoot(next)
    PROVE  /\ \A w \in Workers : SameButContext(worker[w], worker'[w])
           /\ \A v \in Workers, k \in Jobs : Owns(v, k)' <=> Owns(v, k)
  <1>1. \A w \in Workers : SameButContext(worker[w], worker'[w])
    BY ContextSame DEF CancelRoot, LifeInv, EngineInv, TypeOK
  <1>2. \A v \in Workers, k \in Jobs : Owns(v, k)' <=> Owns(v, k)
    BY <1>1 DEF Owns, SameButContext
  <1> QED BY <1>1, <1>2

LEMMA ContextLock ==
    ASSUME LockTask, mu' = mu,
           mu.job \in Jobs => SameTask(disk[mu.job], disk'[mu.job]),
           \A w \in Workers : SameButContext(worker[w], worker'[w])
    PROVE  LockTask'
  BY DEF LockTask, SameTask, SameButContext

LEMMA ShutdownLives ==
    ASSUME LifeInv, Shutdown
    PROVE  LifeKept
  <1>1. /\ UNCHANGED <<disk, todo, queue, queued, mu>> /\ up' = "stopping" /\ todo = {}
        /\ CancelRoot("stopping")
    BY ServingTodo DEF Shutdown, CancelRoot, diskVars, memVars
  <1>2. QueueFine' /\ OneHome' /\ EndedStreamMatches' /\ StatusKept
    BY <1>1, CancelRootSame, CalmParts
  <1>3. \A w \in Workers : TaskFine(worker'[w], queued', disk', mu')
    BY <1>1, CancelRootSame, ContextTask DEF LifeInv, LifeParts
  <1>4. LockTask'
    BY <1>1, CancelRootSame, ContextLock DEF SameTask, LifeInv, LifeParts
  <1>5. DownTask' /\ TodoTask'
    BY <1>1 DEF DownTask, TodoTask
  <1> QED BY <1>2, <1>3, <1>4, <1>5 DEF LifeKept, LifeParts

\* Job j, in no place so far, is put at the end of the queue or left out, with
\* status "queued" and its checkpoint as it was.
LEMMA EnqueueLives ==
    ASSUME LifeInv, NEW j \in Jobs, ~Waiting(j), \A w \in Workers : ~Owns(w, j), mu.job # j,
           disk[j].status \notin Terminal, disk'[j].status = "queued",
           \A k \in Jobs : k # j => disk'[k] = disk[k],
           \/ queue' = queue
           \/ queue' = Append(queue, j) /\ queued'[j],
           \A k \in Jobs : queued[k] => queued'[k],
           \A w \in Workers : SameButContext(worker[w], worker'[w]),
           mu' = mu, up' # "down"
    PROVE  /\ QueueFine' /\ OneHome' /\ LockTask' /\ DownTask' /\ EndedStreamMatches'
           /\ \A w \in Workers : TaskFine(worker'[w], queued', disk', mu')
           /\ StatusKept
           /\ \A k \in Jobs : k # j => (Waiting(k)' <=> Waiting(k))
           /\ \A v \in Workers, k \in Jobs : Owns(v, k)' <=> Owns(v, k)
  <1>1. queue \in Seq(Jobs)
    BY DEF LifeInv, EngineInv, TypeOK
  <1>2. /\ \A i \in 1..Len(queue) : i \in 1..Len(queue') /\ queue'[i] = queue[i]
        /\ \A i \in 1..Len(queue') :
              i \in 1..Len(queue) \/ (i = Len(queue) + 1 /\ queue'[i] = j /\ queued'[j])
    <2>1. CASE queue' = queue
      BY <2>1
    <2>2. CASE queue' = Append(queue, j) /\ queued'[j]
      BY <1>1, <2>2
    <2> QED BY <2>1, <2>2
  <1>3. \A i \in 1..Len(queue) : queue[i] \in Jobs /\ queue[i] # j
    BY <1>1 DEF Waiting
  <1>4. \A k \in Jobs : k # j => (Waiting(k)' <=> Waiting(k))
    <2> SUFFICES ASSUME NEW k \in Jobs, k # j PROVE Waiting(k)' <=> Waiting(k)
      OBVIOUS
    <2>1. Waiting(k) => Waiting(k)'
      BY <1>2 DEF Waiting
    <2>2. ASSUME NEW i \in 1..Len(queue'), queue'[i] = k PROVE Waiting(k)
      BY <1>2, <2>2 DEF Waiting
    <2>3. Waiting(k)' => Waiting(k)
      BY <2>2 DEF Waiting
    <2> QED BY <2>1, <2>3
  <1>5. \A v \in Workers, k \in Jobs : Owns(v, k)' <=> Owns(v, k)
    BY DEF Owns, SameButContext
  <1>6. QueueFine'
    BY <1>2, <1>3 DEF QueueFine, LifeInv, LifeParts
  <1>7. OneHome'
    <2>1. \A i, k \in 1..Len(queue') : queue'[i] = queue'[k] => i = k
      BY <1>2, <1>3 DEF LifeInv, LifeParts, OneHome
    <2> QED BY <1>4, <1>5, <2>1 DEF LifeInv, LifeParts, OneHome
  <1>8. ASSUME NEW w \in Workers PROVE TaskFine(worker'[w], queued', disk', mu')
    <2>1. worker[w].pc # "idle" => worker[w].job \in Jobs /\ worker[w].job # j
      BY OwnedJob DEF LifeInv, Owns
    <2>2. worker[w].pc # "idle" => SameTask(disk[worker[w].job], disk'[worker[w].job])
      BY <2>1 DEF SameTask
    <2>3. TaskFine(worker[w], queued, disk, mu)
      BY DEF LifeInv, LifeParts
    <2>4. TaskFine(worker[w], queued', disk', mu')
      BY <2>1, <2>2, <2>3, SameTaskFine
    <2> QED BY <2>4, ContextTask
  <1>9. LockTask'
    BY ContextLock DEF SameTask, LifeInv, LifeParts
  <1>10. EndedStreamMatches' /\ StatusKept
    BY DEF EndedStreamMatches, StatusKept, FinalStatuses, LifeInv, LifeParts
  <1> QED BY <1>4, <1>5, <1>6, <1>7, <1>8, <1>9, <1>10 DEF DownTask

LEMMA SameContexts ==
    ASSUME LifeInv, worker' = worker
    PROVE  \A w \in Workers : SameButContext(worker[w], worker'[w])
  BY ContextSame DEF LifeInv, EngineInv, TypeOK

LEMMA SubmitLives ==
    ASSUME LifeInv, NEW j \in Jobs, Submit(j)
    PROVE  LifeKept
  <1> DEFINE fresh == disk[j].status = "absent"
             offer == fresh \/ (disk[j].status = "queued" /\ ~queued[j])
  <1>1. /\ mu = Free /\ mu' = mu /\ worker' = worker /\ todo' = todo /\ up' = up
        /\ todo = {} /\ up # "down" /\ mu.job # j
    BY ServingTodo, FreeLock DEF Submit, Serving, LifeInv
  <1>2. TodoTask'
    BY <1>1 DEF TodoTask
  <1>3. CASE offer
    <2>1. ~Waiting(j)
      BY <1>3 DEF Waiting, LifeInv, LifeParts, QueueFine
    <2>2. ASSUME NEW w \in Workers, Owns(w, j) PROVE FALSE
      <3>1. TaskFine(worker[w], queued, disk, mu) /\ worker[w].pc \notin {"beginning", "ending"}
        BY <1>1, NobodyHolds DEF LifeInv, LifeParts
      <3> QED BY <1>3, <2>2, <3>1 DEF TaskFine, Owns
    <2>3. /\ disk'[j].status = "queued" /\ \A k \in Jobs : k # j => disk'[k] = disk[k]
      BY <1>3 DEF Submit, LifeInv, EngineInv, TypeOK, Records
    <2>4. /\ \/ queue' = queue
             \/ queue' = Append(queue, j) /\ queued'[j]
      <3>1. CASE Room
        <4>1. queued' = [queued EXCEPT ![j] = TRUE]
          BY <1>3, <3>1 DEF Submit
        <4>2. queued'[j]
          BY <4>1 DEF LifeInv, EngineInv, TypeOK
        <4> QED BY <1>3, <3>1, <4>2 DEF Submit
      <3>2. CASE ~Room
        BY <3>2 DEF Submit
      <3> QED BY <3>1, <3>2
    <2>5. \A k \in Jobs : queued[k] => queued'[k]
      BY DEF Submit, LifeInv, EngineInv, TypeOK
    <2>6. disk[j].status \notin Terminal
      BY <1>3 DEF Terminal, FinalStatuses
    <2> QED BY <1>1, <1>2, <2>1, <2>2, <2>3, <2>4, <2>5, <2>6, EnqueueLives, SameContexts
            DEF LifeKept, LifeParts
  <1>4. CASE ~offer
    <2>1. disk' = disk
      BY <1>4 DEF Submit, LifeInv, EngineInv, TypeOK, Records
    <2>2. queue' = queue
      BY <1>4 DEF Submit
    <2>3. queued' = queued
      BY <1>4 DEF Submit, LifeInv, EngineInv, TypeOK
    <2>4. QueueFine' /\ OneHome' /\ EndedStreamMatches' /\ StatusKept
      BY <1>1, <2>1, <2>2, <2>3, CalmParts DEF Owns
    <2>5. \A w \in Workers : TaskFine(worker'[w], queued', disk', mu')
      BY <1>1, <2>1, <2>3 DEF LifeInv, LifeParts
    <2>6. LockTask' /\ DownTask'
      BY <1>1, <2>1, <2>2 DEF LockTask, DownTask, LifeInv, LifeParts
    <2> QED BY <1>2, <2>4, <2>5, <2>6 DEF LifeKept, LifeParts
  <1> QED BY <1>3, <1>4

LEMMA RequeuedStatus ==
    ASSUME LifeInv, NEW j \in Jobs, disk' = Requeued(j)
    PROVE  disk'[j].status = "queued" /\ \A k \in Jobs : k # j => disk'[k] = disk[k]
  BY DEF Requeued, mergeCallbackCheckpoint, LifeInv, EngineInv, TypeOK, Records

LEMMA RestoreLives ==
    ASSUME LifeInv, MaxSaveFaults = 0, NEW j \in Jobs, Restore(j) \/ RestoreFails(j)
    PROVE  LifeKept
  <1>1. /\ j \in todo /\ mu' = mu /\ disk' = Requeued(j) /\ up = "starting"
        /\ todo' = IF Restore(j) THEN todo \ {j} ELSE todo
    <2>1. ~SaveFault
      BY DEF SaveFault, LifeInv, EngineInv, TypeOK
    <2> QED BY <2>1 DEF Restore, RestoreFails, memVars
  <1>2. /\ ~Waiting(j) /\ mu.job # j /\ disk[j].status \in Recoverable
        /\ \A w \in Workers : ~Owns(w, j)
    BY <1>1 DEF LifeInv, LifeParts, TodoTask
  <1>3. disk[j].status \notin Terminal
    BY <1>2 DEF Terminal, FinalStatuses, Recoverable
  <1>4. /\ \A w \in Workers : SameButContext(worker[w], worker'[w])
        /\ up' \in {"starting", "failing"}
    <2>1. CASE Restore(j)
      BY <2>1, SameContexts DEF Restore
    <2>2. CASE RestoreFails(j)
      <3>1. CancelRoot("failing")
        BY <2>2 DEF RestoreFails
      <3> QED BY <3>1, CancelRootSame DEF CancelRoot
    <2> QED BY <2>1, <2>2
  <1>5. \A k \in Jobs : queued[k] => queued'[k]
    BY DEF Restore, RestoreFails, memVars, LifeInv, EngineInv, TypeOK
  <1>6. \/ queue' = Append(queue, j) /\ queued'[j] /\ todo' = todo \ {j}
        \/ queue' = queue
    BY DEF Restore, RestoreFails, memVars, LifeInv, EngineInv, TypeOK
  <1>7. /\ QueueFine' /\ OneHome' /\ LockTask' /\ DownTask' /\ EndedStreamMatches'
        /\ \A w \in Workers : TaskFine(worker'[w], queued', disk', mu')
        /\ StatusKept
        /\ \A k \in Jobs : k # j => (Waiting(k)' <=> Waiting(k))
        /\ \A v \in Workers, k \in Jobs : Owns(v, k)' <=> Owns(v, k)
    BY <1>1, <1>2, <1>3, <1>4, <1>5, <1>6, RequeuedStatus, EnqueueLives
  <1>8. TodoTask'
    <2> SUFFICES ASSUME NEW k \in todo'
                 PROVE  /\ disk'[k].status \in Recoverable
                        /\ ~Waiting(k)' /\ mu'.job # k
                        /\ \A w \in Workers : ~Owns(w, k)'
      BY <1>4 DEF TodoTask
    <2>1. k \in todo /\ k \in Jobs
      BY <1>1 DEF LifeInv, EngineInv, TypeOK
    <2>2. CASE k # j
      BY <1>1, <1>7, <2>1, <2>2, RequeuedStatus DEF LifeInv, LifeParts, TodoTask
    <2>3. CASE k = j
      <3>1. queue' = queue
        BY <1>6, <2>3
      <3>2. ~Waiting(j)'
        BY <1>2, <3>1 DEF Waiting
      <3> QED BY <1>1, <1>2, <1>7, <2>3, <3>2, RequeuedStatus DEF Recoverable
    <2> QED BY <2>2, <2>3
  <1> QED BY <1>7, <1>8 DEF LifeKept, LifeParts

LEMMA LifeStart == Init => LifeInv
  <1> SUFFICES ASSUME Init PROVE LifeInv
    OBVIOUS
  <1>1. /\ queue = <<>> /\ todo = {} /\ mu = Free /\ mu.job \notin Jobs /\ up = "up"
        /\ \A w \in Workers : worker[w].pc = "idle"
        /\ \A j \in Jobs : disk[j].status = "absent"
    BY DEF Init, Free, Idle, NoRecord
  <1>2. QueueFine /\ OneHome
    BY <1>1 DEF QueueFine, OneHome, Owns
  <1>3. \A w \in Workers : TaskFine(worker[w], queued, disk, mu)
    BY <1>1 DEF TaskFine
  <1>4. LockTask /\ TodoTask /\ DownTask
    BY <1>1 DEF LockTask, TodoTask, DownTask
  <1>5. EndedStreamMatches
    BY <1>1 DEF EndedStreamMatches, FinalStatuses
  <1> QED BY <1>2, <1>3, <1>4, <1>5, InitFine DEF LifeInv, LifeParts

LEMMA LifeNext ==
    ASSUME MaxSaveFaults = 0
    PROVE  LifeInv /\ [Next]_vars => LifeInv' /\ StatusKept
  <1> SUFFICES ASSUME LifeInv, [Next]_vars PROVE LifeKept
    BY NextKeeps DEF LifeInv, LifeKept, Kept
  <1>1. CASE UNCHANGED vars
    <2>1. /\ disk' = disk /\ up' = up /\ todo' = todo /\ queue' = queue /\ queued' = queued
          /\ mu' = mu /\ worker' = worker
      BY <1>1 DEF vars
    <2>2. QueueFine' /\ OneHome' /\ EndedStreamMatches' /\ StatusKept
      BY <2>1, CalmParts DEF Owns
    <2>3. /\ \A w \in Workers : TaskFine(worker'[w], queued', disk', mu')
          /\ LockTask' /\ DownTask'
      BY <2>1 DEF LockTask, DownTask, LifeInv, LifeParts
    <2>4. TodoTask'
      BY <2>1, SameTodo DEF LifeInv, LifeParts, EngineInv, TypeOK, TodoTask, Owns
    <2> QED BY <2>2, <2>3, <2>4 DEF LifeKept, LifeParts
  <1>2. CASE ProcessStep
    BY <1>2, SaveLives, GoneLives, StartLives, RestoreLives DEF ProcessStep, Exit
  <1>3. CASE SaveFails \/ Shutdown \/ Crash
    <2>1. ~SaveFails
      BY DEF SaveFails, SaveFault, LifeInv, EngineInv, TypeOK
    <2> QED BY <1>3, <2>1, ShutdownLives, GoneLives DEF Crash
  <1>4. CASE \E j \in Jobs : Submit(j) \/ Cancel(j) \/ RestoreFails(j)
    BY <1>4, SubmitLives, CancelLives, RestoreLives
  <1>5. CASE \E w \in Workers :
                \/ Take(w) \/ BeginRun(w) \/ EndRun(w)
                \/ ExecutorStep(w) \/ ExecutionFails(w) \/ Deadline(w)
    BY <1>5, TakeLives, BeginRunLives, EndRunLives, ExecutorLives
  <1> QED BY <1>1, <1>2, <1>3, <1>4, <1>5 DEF Next

\* run and ResumeStream: while the saves of records succeed, a stream that
\* ended by itself has the status of its final batch, whichever of its
\* executions sent that batch, and nothing of it is undelivered.
THEOREM EndedStreamIsDelivered ==
    ASSUME MaxSaveFaults = 0
    PROVE  Spec => []EndedStreamMatches
  <1>1. LifeInv /\ [Next]_vars => LifeInv'
    BY LifeNext
  <1>2. LifeInv => EndedStreamMatches
    BY DEF LifeInv, LifeParts
  <1> QED BY <1>1, <1>2, LifeStart, PTL DEF Spec

\* beginRun, run, Cancel and Start: while the saves of records succeed, no
\* step changes the status of a job that has ended.
THEOREM EndedJobStaysEnded ==
    ASSUME MaxSaveFaults = 0
    PROVE  Spec => TerminalStays
  <1>1. LifeInv /\ [Next]_vars => LifeInv'
    BY LifeNext
  <1> DEFINE A == \A j \in Jobs : disk[j].status \in Terminal => disk'[j].status = disk[j].status
  <1>2. LifeInv /\ [Next]_vars => [A]_vars
    BY LifeNext DEF StatusKept
  <1> QED BY <1>1, <1>2, LifeStart, PTL DEF Spec, TerminalStays

-----------------------------------------------------------------------------
(* Sums.  Total is a recursive function of an index: it has its value by a *)
(* least index for which no such function exists, and what changes it is   *)
(* shown at the least index where the two sums differ otherwise.           *)
LEMMA LeastNat ==
    ASSUME NEW S, S \subseteq Nat, S # {} PROVE \E x \in S : \A y \in S : x <= y
  <1> DEFINE R == OpToRel(<, Nat)
  <1>1. IsWellFoundedOn(R, Nat)
    BY NatLessThanWellFounded
  <1>2. \A a, b \in Nat : a < b => <<a, b>> \in R
    BY DEF OpToRel
  <1> HIDE DEF R
  <1>3. PICK x \in S : \A y \in S : ~(<<y, x>> \in R)
    BY <1>1, WFMin
  <1>4. \A y \in S : ~(y < x)
    BY <1>2, <1>3
  <1> QED BY <1>4

\* "sum" holds the partial sums of f up to n.
Sums(f, sum, n) == sum = [i \in 0..n |-> IF i = 0 THEN 0 ELSE sum[i - 1] + f[i]]

LEMMA SumsExist == ASSUME NEW f, NEW n \in Nat PROVE \E sum : Sums(f, sum, n)
  <1> DEFINE S == {m \in Nat : ~\E sum : Sums(f, sum, m)}
  <1> SUFFICES ASSUME S # {} PROVE FALSE
    OBVIOUS
  <1>1. PICK m \in S : \A y \in S : m <= y
    BY LeastNat
  <1>2. CASE m = 0
    <2> DEFINE h == [i \in 0..0 |-> 0]
    <2>1. \A i \in 0..0 : i = 0
      OBVIOUS
    <2>2. Sums(f, h, 0)
      BY <2>1 DEF Sums
    <2> QED BY <1>1, <1>2, <2>2
  <1>3. CASE m # 0
    <2>1. m - 1 \in Nat /\ m - 1 \notin S
      BY <1>1, <1>3
    <2>2. PICK h : Sums(f, h, m - 1)
      BY <2>1
    <2> DEFINE g == [i \in 0..m |-> IF i = m THEN h[m - 1] + f[m] ELSE h[i]]
    <2>3. \A i \in 0..m : g[i] = IF i = 0 THEN 0 ELSE g[i - 1] + f[i]
      <3> SUFFICES ASSUME NEW i \in 0..m PROVE g[i] = IF i = 0 THEN 0 ELSE g[i - 1] + f[i]
        OBVIOUS
      <3>1. CASE i = 0
        BY <1>3, <2>1, <2>2, <3>1 DEF Sums
      <3>2. CASE i # 0 /\ i = m
        BY <1>3, <2>1, <3>2
      <3>3. CASE i # 0 /\ i # m
        <4>1. i \in 0..(m - 1) /\ i - 1 \in 0..m /\ i - 1 # m
          BY <1>1, <3>3
        <4> QED BY <2>2, <3>3, <4>1 DEF Sums
      <3> QED BY <3>1, <3>2, <3>3
    <2>4. Sums(f, g, m)
      BY <2>3 DEF Sums
    <2> QED BY <1>1, <2>4
  <1> QED BY <1>2, <1>3

LEMMA TotalOfSums ==
    ASSUME NEW f, NEW n \in Nat
    PROVE  \E sum : Total(f, n) = sum[n] /\ Sums(f, sum, n)
  <1> DEFINE sum[i \in 0..n] == IF i = 0 THEN 0 ELSE sum[i - 1] + f[i]
  <1>1. \E h : h = [i \in 0..n |-> IF i = 0 THEN 0 ELSE h[i - 1] + f[i]]
    BY SumsExist DEF Sums
  <1>2. Sums(f, sum, n)
    BY <1>1 DEF Sums
  <1>3. Total(f, n) = sum[n]
    BY DEF Total
  <1> HIDE DEF sum
  <1> QED BY <1>2, <1>3

\* The sum of numbers is a number, and nothing adds up to nothing.
LEMMA TotalType ==
    ASSUME NEW n \in Nat, NEW f, \A i \in 1..n : f[i] \in Nat
    PROVE  /\ Total(f, n) \in Nat
           /\ (\A i \in 1..n : f[i] = 0) => Total(f, n) = 0
  <1>1. PICK sum : Total(f, n) = sum[n] /\ Sums(f, sum, n)
    BY TotalOfSums
  <1>2. \A i \in 0..n : sum[i] = IF i = 0 THEN 0 ELSE sum[i - 1] + f[i]
    BY <1>1 DEF Sums
  <1> DEFINE Good(i) == sum[i] \in Nat /\ ((\A j \in 1..n : f[j] = 0) => sum[i] = 0)
             S == {i \in 0..n : ~Good(i)}
  <1>3. ASSUME S # {} PROVE FALSE
    <2>1. PICK m \in S : \A y \in S : m <= y
      <3>1. S \subseteq Nat
        OBVIOUS
      <3> HIDE DEF S
      <3> QED BY <1>3, <3>1, LeastNat
    <2>2. m # 0
      BY <1>2, <2>1
    <2>3. m \in 1..n /\ m - 1 \in 0..n /\ m - 1 \notin S
      BY <2>1, <2>2
    <2>4. Good(m - 1)
      BY <2>3
    <2>5. sum[m] = sum[m - 1] + f[m]
      BY <1>2, <2>2, <2>3
    <2> QED BY <2>1, <2>3, <2>4, <2>5
  <1>4. Good(n)
    BY <1>3
  <1> QED BY <1>1, <1>4

\* g is f with d more at s.
AddsAt(f, g, n, s, d) ==
    \A i \in 1..n : f[i] \in Nat /\ g[i] = f[i] + (IF i = s THEN d ELSE 0)

\* Adding d to one summand adds d to the sum.
LEMMA TotalMoves ==
    ASSUME NEW n \in Nat, NEW f, NEW g, NEW s \in 1..n, NEW d \in Nat, AddsAt(f, g, n, s, d)
    PROVE  Total(g, n) = Total(f, n) + d
  <1>1. PICK a : Total(f, n) = a[n] /\ Sums(f, a, n)
    BY TotalOfSums
  <1>2. PICK b : Total(g, n) = b[n] /\ Sums(g, b, n)
    BY TotalOfSums
  <1>3. /\ \A i \in 0..n : a[i] = IF i = 0 THEN 0 ELSE a[i - 1] + f[i]
        /\ \A i \in 0..n : b[i] = IF i = 0 THEN 0 ELSE b[i - 1] + g[i]
    BY <1>1, <1>2 DEF Sums
  <1> DEFINE Good(i) == a[i] \in Nat /\ b[i] = a[i] + (IF s <= i THEN d ELSE 0)
             S == {i \in 0..n : ~Good(i)}
  <1>4. ASSUME S # {} PROVE FALSE
    <2>1. PICK m \in S : \A y \in S : m <= y
      <3>1. S \subseteq Nat
        OBVIOUS
      <3> HIDE DEF S
      <3> QED BY <1>4, <3>1, LeastNat
    <2>2. m # 0
      BY <1>3, <2>1
    <2>3. m \in 1..n /\ m - 1 \in 0..n /\ m - 1 \notin S
      BY <2>1, <2>2
    <2>4. Good(m - 1)
      BY <2>3
    <2>5. a[m] = a[m - 1] + f[m] /\ b[m] = b[m - 1] + g[m]
      BY <1>3, <2>2, <2>3
    <2>6. f[m] \in Nat /\ g[m] = f[m] + (IF m = s THEN d ELSE 0)
      BY <2>3 DEF AddsAt
    <2>7. Good(m)
      BY <2>3, <2>4, <2>5, <2>6
    <2> QED BY <2>1, <2>7
  <1>5. Good(n)
    BY <1>4
  <1> QED BY <1>1, <1>2, <1>5

-----------------------------------------------------------------------------
(* The count of a stream.  CallbackResultCount of a record is the number   *)
(* of facts in the batches acknowledged so far, whatever is saved over it; *)
(* an execution of a stream carries that number, and the job ends with it. *)

\* The facts of each seq up to the checkpoint n.
Acked(got, n) == [s \in Seqs |-> IF s <= n THEN FactsIn(got[s]) ELSE 0]

SumFine(r, got) == r.sum = Total(Acked(got, r.last), MaxSeq)

\* A record read at the present checkpoint has its sum.
LockSum(m, d) == m.job \in Jobs /\ m.rec.last = d[m.job].last => m.rec.sum = d[m.job].sum

SumInv == LockSum(mu, disk) /\ \A j \in Jobs : SumFine(disk[j], received[j])

\* A step from record r to n counts the batch it acknowledges, if any.
SumMoves(r, n) ==
    \/ n.last = r.last /\ n.sum = r.sum
    \/ n.last = r.last + 1 /\ n.sum = r.sum + r.pending.count

LEMMA FactsInOne ==
    /\ \A b \in Batches : FactsIn({b}) = b.count /\ b.count \in Nat
    /\ FactsIn({}) = 0
  <1>1. ASSUME NEW b PROVE FactsIn({b}) = b.count
    <2>1. (CHOOSE c \in {b} : TRUE) = b
      OBVIOUS
    <2> QED BY <2>1 DEF FactsIn
  <1> QED BY <1>1, BatchFacts DEF FactsIn

LEMMA SumStep ==
    ASSUME EngineInv, EngineInv', Forward(disk, received, disk', received'), NEW j \in Jobs,
           SumMoves(disk[j], disk'[j]), SumFine(disk[j], received[j])
    PROVE  SumFine(disk'[j], received'[j])
  <1> DEFINE r == disk[j]
             n == disk'[j]
             g == received[j]
             h == received'[j]
  <1>1. /\ r \in Records /\ n \in Records
        /\ g \in [Seqs -> SUBSET Batches] /\ h \in [Seqs -> SUBSET Batches]
        /\ StreamFine(r, g) /\ StreamFine(n, h)
    BY DEF EngineInv, TypeOK
  <1>2. r.last \in Nat /\ n.last \in 0..MaxSeq /\ r.pending \in Batches \cup {NoBatch}
    BY <1>1 DEF Records
  <1>3. /\ \A s \in Seqs : g[s] \subseteq h[s]
        /\ n.last = r.last \/ (n.last = r.last + 1 /\ r.pending \in h[n.last])
        /\ n.last = r.last + 1 => r.pending \in h[n.last]
    BY <1>2 DEF Forward
  <1> HIDE DEF r, n, g, h
  <1>4. \A s \in Seqs : s <= r.last => g[s] = h[s] /\ \E b \in Batches : g[s] = {b}
    <2> SUFFICES ASSUME NEW s \in Seqs, s <= r.last
                 PROVE  g[s] = h[s] /\ \E b \in Batches : g[s] = {b}
      OBVIOUS
    <2>1. s <= n.last
      BY <1>2, <1>3 DEF Seqs
    <2>2. PICK b \in Batches : g[s] = {b}
      BY <1>1 DEF StreamFine
    <2>3. PICK c \in Batches : h[s] = {c}
      BY <1>1, <2>1 DEF StreamFine
    <2>4. b = c
      BY <1>3, <2>2, <2>3
    <2> QED BY <2>2, <2>3, <2>4
  <1>5. \A s \in Seqs : s <= r.last => FactsIn(g[s]) \in Nat /\ FactsIn(h[s]) = FactsIn(g[s])
    BY <1>4, FactsInOne
  <1>6. CASE n.last = r.last
    <2>1. Acked(h, n.last) = Acked(g, r.last)
      BY <1>5, <1>6 DEF Acked
    <2>2. n.sum = r.sum
      BY <1>2, <1>6 DEF SumMoves, r, n
    <2>3. r.sum = Total(Acked(g, r.last), MaxSeq)
      BY DEF SumFine, r, g
    <2>4. n.sum = Total(Acked(h, n.last), MaxSeq)
      BY <2>1, <2>2, <2>3
    <2> QED BY <2>4 DEF SumFine, n, h
  <1>7. CASE n.last = r.last + 1
    <2> DEFINE m == n.last
               p == r.pending
    <2>1. m \in 1..MaxSeq /\ m \in Seqs /\ p \in h[m]
      BY <1>2, <1>3, <1>7 DEF Seqs
    <2>2. h[m] = {p} /\ p \in Batches
      BY <1>1, <2>1 DEF StreamFine
    <2>3. FactsIn(h[m]) = p.count /\ p.count \in Nat
      BY <2>2, FactsInOne
    <2>4. \A i \in 1..MaxSeq :
             /\ Acked(g, r.last)[i] = IF i <= r.last THEN FactsIn(g[i]) ELSE 0
             /\ Acked(h, m)[i] = IF i <= m THEN FactsIn(h[i]) ELSE 0
      BY DEF Acked, Seqs
    <2>5. \A i \in 1..MaxSeq : i <= m <=> (i <= r.last \/ i = m)
      BY <1>2, <1>7
    <2>6. \A i \in 1..MaxSeq : i <= r.last => i # m
      BY <1>2, <1>7
    <2>7. AddsAt(Acked(g, r.last), Acked(h, m), MaxSeq, m, p.count)
      BY <1>5, <2>1, <2>3, <2>4, <2>5, <2>6 DEF AddsAt, Seqs
    <2>8. Total(Acked(h, m), MaxSeq) = Total(Acked(g, r.last), MaxSeq) + p.count
      BY <2>1, <2>3, <2>7, TotalMoves
    <2>9. n.sum = r.sum + p.count
      BY <1>2, <1>7 DEF SumMoves, r, n
    <2>10. r.sum = Total(Acked(g, r.last), MaxSeq)
      BY DEF SumFine, r, g
    <2>11. n.sum = Total(Acked(h, n.last), MaxSeq)
      BY <2>8, <2>9, <2>10
    <2> QED BY <2>11 DEF SumFine, n, h
  <1> QED BY <1>3, <1>6, <1>7

\* Merging a record read earlier keeps the stored sum.
LEMMA MergeKeepsSum ==
    ASSUME NEW r \in Records, NEW old \in Records, ReadFrom(r, old),
           r.last = old.last => r.sum = old.sum
    PROVE  mergeCallbackCheckpoint(r, old).sum = old.sum
  <1>1. r.last \in Nat /\ old.last \in Nat /\ r.last <= old.last
    BY DEF ReadFrom, Records
  <1>2. mergeCallbackCheckpoint(r, old).sum = IF old.last > r.last THEN old.sum ELSE r.sum
    BY DEF mergeCallbackCheckpoint, Records
  <1> QED BY <1>1, <1>2

Counting == LockSum(mu', disk') /\ \A j \in Jobs : SumMoves(disk[j], disk'[j])

LEMMA SaveCounts ==
    ASSUME EngineInv, SumInv, SaveRecord PROVE Counting
  <1> DEFINE j == mu.job
             n == mergeCallbackCheckpoint(mu.rec, disk[j])
  <1>1. /\ j \in Jobs /\ mu.rec \in Records /\ disk[j] \in Records
        /\ PendingIsNext(disk[j]) /\ ReadFrom(mu.rec, disk[j])
    BY DEF SaveRecord, EngineInv, TypeOK, LockFine, StreamFine
  <1>2. n.last = disk[j].last
    BY <1>1, MergeKeepsCheckpoint
  <1>3. n.sum = disk[j].sum
    BY <1>1, MergeKeepsSum DEF SumInv, LockSum
  <1>4. disk'[j] = n /\ \A k \in Jobs : k # j => disk'[k] = disk[k]
    BY <1>1 DEF SaveRecord, EngineInv, TypeOK
  <1> HIDE DEF n
  <1>5. mu'.job \notin Jobs
    BY DEF SaveRecord, Unlock, Free
  <1> QED BY <1>2, <1>3, <1>4, <1>5 DEF Counting, SumMoves, LockSum

LEMMA RequeueCounts ==
    ASSUME EngineInv, SumInv, NEW j \in Jobs, disk' = Requeued(j), mu' = mu PROVE Counting
  <1> DEFINE q == [disk[j] EXCEPT !.status = "queued"]
             n == mergeCallbackCheckpoint(q, disk[j])
  <1>1. disk[j] \in Records /\ PendingIsNext(disk[j])
    BY DEF EngineInv, TypeOK, StreamFine
  <1>2. /\ q \in Records /\ q.last = disk[j].last /\ q.sum = disk[j].sum
        /\ q.pending = disk[j].pending
    BY <1>1 DEF Records, JobStatuses, Recoverable
  <1>3. disk[j].last \in Nat
    BY <1>1 DEF Records
  <1>4. ReadFrom(q, disk[j])
    BY <1>1, <1>2, <1>3 DEF ReadFrom, PendingIsNext
  <1>5. disk'[j] = n /\ \A k \in Jobs : k # j => disk'[k] = disk[k]
    BY DEF Requeued, EngineInv, TypeOK
  <1> HIDE DEF q
  <1>6. n.last = disk[j].last /\ n.sum = disk[j].sum
    BY <1>1, <1>2, <1>4, MergeKeepsCheckpoint, MergeKeepsSum
  <1> HIDE DEF n
  <1>7. \A k \in Jobs : disk'[k].last = disk[k].last /\ disk'[k].sum = disk[k].sum
    BY <1>5, <1>6
  <1> QED BY <1>7 DEF Counting, SumMoves, LockSum, SumInv

LEMMA LockCounts ==
    ASSUME EngineInv, SumInv, disk' = disk,
           \/ mu' = mu
           \/ mu' = Free
           \/ \E j \in Jobs : \E r : Lock(j, r) /\ r.sum = disk[j].sum
    PROVE  Counting
  <1>1. \A j \in Jobs : SumMoves(disk[j], disk'[j])
    BY DEF SumMoves
  <1>2. LockSum(mu', disk')
    BY DEF SumInv, LockSum, Lock, Free
  <1> QED BY <1>1, <1>2 DEF Counting

LEMMA StoreCounts ==
    ASSUME EngineInv, SumInv, NEW w \in Workers, PrepareCallback(w) \/ AcknowledgeCallback(w)
    PROVE  Counting
  <1> DEFINE x == worker[w]
             r == disk[x.job]
  <1>1. x.pc \in {"prepare", "ack"} /\ mu' = mu
    BY DEF PrepareCallback, AcknowledgeCallback, At, Step, memVars
  <1>2. x.job \in Jobs /\ r \in Records
    BY <1>1, OwnedJob DEF EngineInv, TypeOK
  <1>3. CASE disk' = disk
    BY <1>1, <1>3, LockCounts
  <1>4. CASE disk' = [disk EXCEPT ![x.job].pending = x.batch]
    <2>1. \A j \in Jobs : disk'[j].last = disk[j].last /\ disk'[j].sum = disk[j].sum
      BY <1>2, <1>4 DEF EngineInv, TypeOK, Records
    <2> QED BY <1>1, <2>1 DEF Counting, SumMoves, LockSum, SumInv
  <1>5. CASE /\ x.out.seq = r.last + 1
             /\ disk' = [disk EXCEPT ![x.job] =
                           [r EXCEPT !.last = x.out.seq, !.sum = r.sum + r.pending.count,
                                     !.phase = r.pending.status, !.pending = NoBatch]]
    <2> DEFINE n == [r EXCEPT !.last = x.out.seq, !.sum = r.sum + r.pending.count,
                              !.phase = r.pending.status, !.pending = NoBatch]
    <2>1. n.last = r.last + 1 /\ n.sum = r.sum + r.pending.count
      BY <1>2, <1>5 DEF Records
    <2>2. disk'[x.job] = n /\ \A j \in Jobs : j # x.job => disk'[j] = disk[j]
      BY <1>2, <1>5 DEF EngineInv, TypeOK
    <2> HIDE DEF n
    <2>3. mu.job = x.job => mu.rec.last <= r.last /\ mu.rec.last \in Nat /\ r.last \in Nat
      <3> SUFFICES ASSUME mu.job = x.job
                   PROVE  mu.rec.last <= r.last /\ mu.rec.last \in Nat /\ r.last \in Nat
        OBVIOUS
      <3>1. ReadFrom(mu.rec, r)
        BY <1>2, FreeLock DEF EngineInv, LockFine
      <3>2. mu.rec \in Records
        BY DEF EngineInv, TypeOK
      <3> QED BY <1>2, <3>1, <3>2 DEF ReadFrom, Records
    <2>4. mu.job = x.job => mu.rec.last # disk'[x.job].last
      BY <2>1, <2>2, <2>3
    <2>5. LockSum(mu', disk')
      BY <1>1, <2>2, <2>4 DEF LockSum, SumInv
    <2>6. \A j \in Jobs : SumMoves(disk[j], disk'[j])
      BY <2>1, <2>2 DEF SumMoves
    <2> QED BY <2>5, <2>6 DEF Counting
  <1> QED BY <1>3, <1>4, <1>5 DEF PrepareCallback, AcknowledgeCallback, RecordOf

LEMMA WorkerCounts ==
    ASSUME EngineInv, SumInv, NEW w \in Workers,
           \/ Take(w) \/ BeginRun(w) \/ EndRun(w)
           \/ ExecutorStep(w) \/ ExecutionFails(w) \/ Deadline(w)
    PROVE  Counting
  <1>1. CASE PrepareCallback(w) \/ AcknowledgeCallback(w)
    BY <1>1, StoreCounts
  <1>2. CASE BeginRun(w)
    <2>1. worker[w].job \in Jobs /\ disk[worker[w].job] \in Records
      BY <1>2, OwnedJob DEF BeginRun, EngineInv, TypeOK
    <2>2. [disk[worker[w].job] EXCEPT !.status = "running"].sum = disk[worker[w].job].sum
      BY <2>1 DEF Records
    <2> QED BY <1>2, <2>1, <2>2, LockCounts DEF BeginRun, diskVars
  <1>3. CASE EndRun(w)
    <2> DEFINE x == worker[w]
               n == [disk[x.job] EXCEPT !.status = EndStatus(x),
                                        !.result = IF x.res = "panic" THEN @ ELSE x.total]
    <2>1. x.job \in Jobs /\ disk[x.job] \in Records
      BY <1>3, OwnedJob DEF EndRun, EngineInv, TypeOK
    <2>2. n.sum = disk[x.job].sum
      BY <2>1 DEF Records
    <2>3. mu' = mu \/ Lock(x.job, n)
      BY <1>3 DEF EndRun
    <2> HIDE DEF n
    <2> QED BY <1>3, <2>1, <2>2, <2>3, LockCounts DEF EndRun, diskVars
  <1>4. CASE disk' = disk /\ mu' = mu
    BY <1>4, LockCounts
  <1> QED BY <1>1, <1>2, <1>3, <1>4
          DEF Take, ExecutorStep, Resume, Resumed, Started, Produce, Sends, Deliver,
              ExecutionFails, Deadline, Step, diskVars, memVars

LEMMA NextCounts == ASSUME EngineInv, SumInv, [Next]_vars PROVE Counting
  <1>1. CASE ProcessStep
    <2>1. CASE Exit \/ Start \/ StartDone
      BY <2>1, LockCounts DEF Exit, Gone, Start, StartDone, diskVars, memVars
    <2>2. CASE \E j \in Jobs : Restore(j)
      BY <2>2, RequeueCounts DEF Restore
    <2> QED BY <1>1, <2>1, <2>2, SaveCounts DEF ProcessStep
  <1>2. CASE SaveFails \/ Shutdown \/ Crash \/ UNCHANGED vars
    BY <1>2, LockCounts DEF SaveFails, Unlock, Shutdown, Crash, Gone, diskVars, memVars, vars
  <1>3. ASSUME NEW j \in Jobs, Submit(j) PROVE Counting
    <2>1. \A k \in Jobs : disk'[k].last = disk[k].last /\ disk'[k].sum = disk[k].sum
      BY <1>3 DEF Submit, EngineInv, TypeOK, Records
    <2> QED BY <1>3, <2>1 DEF Submit, Counting, SumMoves, LockSum, SumInv
  <1>4. ASSUME NEW j \in Jobs, Cancel(j) PROVE Counting
    <2>1. [disk[j] EXCEPT !.status = "cancelled"].sum = disk[j].sum
      BY DEF EngineInv, TypeOK, Records
    <2> QED BY <1>4, <2>1, LockCounts DEF Cancel
  <1>5. ASSUME NEW j \in Jobs, RestoreFails(j) PROVE Counting
    BY <1>5, RequeueCounts, LockCounts DEF RestoreFails, memVars
  <1> QED BY <1>1, <1>2, <1>3, <1>4, <1>5, WorkerCounts DEF Next

LEMMA SumStart == Init => SumInv
  <1> SUFFICES ASSUME Init PROVE SumInv
    OBVIOUS
  <1>1. LockSum(mu, disk)
    BY DEF Init, Free, LockSum
  <1>2. ASSUME NEW j \in Jobs PROVE SumFine(disk[j], received[j])
    <2>1. disk[j].sum = 0 /\ disk[j].last = 0
      BY DEF Init, NoRecord
    <2>2. \A i \in 1..MaxSeq : Acked(received[j], 0)[i] = 0
      BY DEF Acked, Seqs
    <2>3. Total(Acked(received[j], 0), MaxSeq) = 0
      BY <2>2, TotalType
    <2> QED BY <2>1, <2>3 DEF SumFine
  <1> QED BY <1>1, <1>2 DEF SumInv

LEMMA SumNext == EngineInv /\ SumInv /\ [Next]_vars => SumInv'
  <1> SUFFICES ASSUME EngineInv, SumInv, [Next]_vars PROVE SumInv'
    OBVIOUS
  <1>1. EngineInv' /\ Forward(disk, received, disk', received')
    BY NextKeeps DEF Kept
  <1>2. Counting
    BY NextCounts
  <1>3. \A j \in Jobs : SumFine(disk'[j], received'[j])
    BY <1>1, <1>2, SumStep DEF Counting, SumInv
  <1> QED BY <1>2, <1>3 DEF Counting, SumInv

\* The number an execution x of a stream carries, its record being r.
SumAt(x, r) ==
    /\ x.pc \in {"started", "produce"} => x.total = r.sum
    /\ x.pc \in {"prepare", "deliver", "ack"} /\ ~x.resuming => x.total = r.sum
    /\ x.pc \in {"finish", "ending"} /\ x.res \in FinalStatuses => x.total = r.sum

WorkerSum(x, d) == x.pc # "idle" /\ x.job \in StreamJobs => SumAt(x, d[x.job])

\* The record an ending execution of a stream is about to save, and the
\* records saved so.
LockResult ==
    mu.job \in StreamJobs /\ mu.rec.status \in FinalStatuses => mu.rec.result = disk[mu.job].sum

EndedSum ==
    \A j \in StreamJobs : disk[j].status \in FinalStatuses => disk[j].result = disk[j].sum

CountParts == LockResult /\ EndedSum /\ \A w \in Workers : WorkerSum(worker[w], disk)

CountInv == LifeInv /\ SumInv /\ CountParts

\* Worker state x goes on to y with the number it carries, or carries none.
CarriesOn(x, y) ==
    \/ y.pc \in {"idle", "taken", "beginning", "resume"}
    \/ y.job \notin StreamJobs
    \/ /\ x.pc # "idle" /\ y.job = x.job /\ y.total = x.total
       /\ y.resuming = x.resuming /\ y.res = x.res
       /\ y.pc = x.pc \/ (x.pc = "finish" /\ y.pc = "ending")

LEMMA WorkersCarryOn ==
    ASSUME CountInv, \A j \in Jobs : disk'[j].sum = disk[j].sum,
           \A w \in Workers : CarriesOn(worker[w], worker'[w])
    PROVE  \A w \in Workers : WorkerSum(worker'[w], disk')
  <1> SUFFICES ASSUME NEW w \in Workers PROVE WorkerSum(worker'[w], disk')
    OBVIOUS
  <1>1. WorkerSum(worker[w], disk) /\ CarriesOn(worker[w], worker'[w])
    BY DEF CountInv, CountParts
  <1>2. \A j \in StreamJobs : disk'[j].sum = disk[j].sum
    OBVIOUS
  <1> QED BY <1>1, <1>2 DEF WorkerSum, CarriesOn, SumAt

\* Records of ended streams are left alone but for the Save of one.
LEMMA SameEnds ==
    ASSUME CountInv,
           \A j \in StreamJobs : disk'[j].status \in FinalStatuses =>
              /\ disk[j].status \in FinalStatuses
              /\ disk'[j].result = disk[j].result /\ disk'[j].sum = disk[j].sum
    PROVE  EndedSum'
  BY DEF EndedSum, CountInv, CountParts

\* A step of an execution: its own number is right, no other has its job.
LEMMA ExecutionCounts ==
    ASSUME CountInv, NEW w \in Workers, NEW y, Executing(w), Step(w, y),
           y.job = worker[w].job,
           \A j \in Jobs : j # y.job => disk'[j] = disk[j],
           disk'[y.job].status = disk[y.job].status,
           y.job \in StreamJobs => SumAt(y, disk'[y.job])
    PROVE  CountParts'
  <1> DEFINE x == worker[w]
  <1>1. /\ x.pc \notin {"idle", "taken", "beginning", "finish", "ending"} /\ x.job \in Jobs
        /\ disk[x.job].status \in {"running", "cancelled"} /\ Owns(w, x.job)
    <2>1. x.pc \notin {"idle", "taken", "beginning", "finish", "ending"}
      BY DEF Executing
    <2> QED BY <2>1, OwnedJob DEF CountInv, LifeInv, LifeParts, TaskFine, Owns
  <1>2. /\ worker'[w] = y /\ \A v \in Workers : v # w => worker'[v] = worker[v]
        /\ mu' = mu
    BY DEF Step, memVars, CountInv, LifeInv, EngineInv, TypeOK
  <1>3. ASSUME NEW v \in Workers PROVE WorkerSum(worker'[v], disk')
    <2>1. CASE v = w
      BY <1>2, <2>1 DEF WorkerSum
    <2>2. CASE v # w
      <3>1. worker[v].pc # "idle" => worker[v].job \in Jobs /\ worker[v].job # x.job
        BY <1>1, <2>2, OwnedJob DEF CountInv, LifeInv, LifeParts, OneHome, Owns
      <3>2. WorkerSum(worker[v], disk)
        BY DEF CountInv, CountParts
      <3> QED BY <1>2, <2>2, <3>1, <3>2 DEF WorkerSum
    <2> QED BY <2>1, <2>2
  <1>4. LockResult'
    <2> SUFFICES ASSUME mu.job \in StreamJobs, mu.rec.status \in FinalStatuses
                 PROVE  mu.rec.result = disk'[mu.job].sum
      BY <1>2 DEF LockResult
    <2>1. PICK v \in Workers : worker[v].pc \in {"beginning", "ending"} /\ worker[v].job = mu.job
      BY DEF CountInv, LifeInv, LifeParts, LockTask, FinalStatuses
    <2>2. Owns(v, mu.job) /\ v # w
      BY <1>1, <2>1 DEF Owns
    <2>3. mu.job # x.job /\ mu.job \in Jobs
      BY <1>1, <2>2 DEF CountInv, LifeInv, LifeParts, OneHome
    <2> QED BY <2>3 DEF CountInv, CountParts, LockResult
  <1>5. EndedSum'
    <2>1. ASSUME NEW j \in StreamJobs, disk'[j].status \in FinalStatuses
          PROVE  disk'[j] = disk[j]
      BY <1>1, <2>1 DEF FinalStatuses
    <2> QED BY <2>1, SameEnds
  <1> QED BY <1>3, <1>4, <1>5 DEF CountParts

\* What an execution starts a step from.
LEMMA CountFacts ==
    ASSUME CountInv, NEW w \in Workers, worker[w].pc # "idle"
    PROVE  /\ worker[w] \in WorkerStates /\ worker[w].job \in Jobs
           /\ disk[worker[w].job] \in Records
           /\ worker[w].job \in StreamJobs =>
                 StreamAt(worker[w], disk[worker[w].job]) /\ SumAt(worker[w], disk[worker[w].job])
  BY ExecutorFacts DEF CountInv, CountParts, WorkerSum

LEMMA ResumeCounts ==
    ASSUME CountInv, NEW w \in Workers, Resume(w) \/ Resumed(w) PROVE CountParts'
  <1> DEFINE x == worker[w]
             r == disk[x.job]
  <1>1. x.pc \in {"resume", "resumed"} /\ disk' = disk /\ Executing(w)
    BY DEF Resume, Resumed, At, diskVars, Executing, PCs
  <1>2. x \in WorkerStates /\ r \in Records
    BY <1>1, CountFacts
  <1>3. CASE Resume(w)
    <2> DEFINE y == IF r.pending # NoBatch
                    THEN [x EXCEPT !.pc = "prepare", !.batch = r.pending, !.resuming = TRUE]
                    ELSE [x EXCEPT !.pc = "resumed"]
    <2>1. Step(w, y)
      BY <1>3 DEF Resume, RecordOf
    <2>2. /\ y.job = x.job
          /\ (y.pc = "prepare" /\ y.resuming = TRUE) \/ y.pc = "resumed"
      BY <1>2 DEF WorkerStates
    <2> HIDE DEF y
    <2>3. SumAt(y, r)
      BY <2>2 DEF SumAt
    <2> QED BY <1>1, <2>1, <2>2, <2>3, ExecutionCounts
  <1>4. CASE Resumed(w)
    <2> DEFINE y == [x EXCEPT !.pc = IF r.phase = "running" THEN "started" ELSE "finish",
                              !.resuming = FALSE, !.total = r.sum, !.seq = r.last + 1,
                              !.res = IF r.phase = "running" THEN "none" ELSE r.phase]
    <2>1. Step(w, y)
      BY <1>4 DEF Resumed, RecordOf
    <2>2. y.job = x.job /\ y.total = r.sum
      BY <1>2 DEF WorkerStates
    <2> HIDE DEF y
    <2>3. SumAt(y, r)
      BY <2>2 DEF SumAt
    <2> QED BY <1>1, <2>1, <2>2, <2>3, ExecutionCounts
  <1> QED BY <1>3, <1>4

LEMMA SendsCounts ==
    ASSUME CountInv, NEW w \in Workers, NEW st, NEW n,
           worker[w].pc \in {"started", "produce"}, Sends(w, st, n)
    PROVE  CountParts'
  <1> DEFINE x == worker[w]
             r == disk[x.job]
             y == [x EXCEPT !.pc = "prepare",
                            !.batch = [seq |-> x.seq, status |-> st, count |-> n]]
  <1>1. disk' = disk /\ Executing(w) /\ Step(w, y)
    BY DEF Sends, diskVars, Executing, PCs
  <1>2. x \in WorkerStates /\ (x.job \in StreamJobs => SumAt(x, r))
    BY CountFacts
  <1>3. y.job = x.job /\ y.pc = "prepare" /\ y.total = x.total
    BY <1>2 DEF WorkerStates
  <1> HIDE DEF y
  <1>4. y.job \in StreamJobs => SumAt(y, r)
    BY <1>2, <1>3 DEF SumAt
  <1> QED BY <1>1, <1>3, <1>4, ExecutionCounts

LEMMA ErrsCounts ==
    ASSUME CountInv, NEW w \in Workers, Executing(w), NEW y, Step(w, y), disk' = disk,
           y.job = worker[w].job, y.pc = "finish", y.res \in {"error", "panic"}
    PROVE  CountParts'
  <1>1. SumAt(y, disk[y.job])
    BY DEF SumAt, FinalStatuses
  <1> QED BY <1>1, ExecutionCounts

LEMMA DeliverCounts ==
    ASSUME CountInv, NEW w \in Workers, Deliver(w) \/ ExecutionFails(w) \/ Deadline(w)
    PROVE  CountParts'
  <1> DEFINE x == worker[w]
  <1>1. Executing(w) /\ disk' = disk
    BY DEF Deliver, ExecutionFails, Deadline, At, Executing, PCs, diskVars
  <1>2. x.pc # "idle"
    BY <1>1 DEF Executing
  <1>3. x \in WorkerStates /\ (x.job \in StreamJobs => SumAt(x, disk[x.job]))
    BY <1>2, CountFacts
  <1>4. CASE Deliver(w)
    <2> DEFINE y == [x EXCEPT !.pc = "ack"]
    <2>1. /\ x.pc = "deliver" /\ y.job = x.job /\ y.pc = "ack" /\ y.total = x.total
          /\ y.resuming = x.resuming
      BY <1>3, <1>4 DEF WorkerStates, Deliver, At
    <2>2. Step(w, y)
      BY <1>4 DEF Deliver
    <2> HIDE DEF y
    <2>3. y.job \in StreamJobs => SumAt(y, disk[y.job])
      BY <1>3, <2>1 DEF SumAt
    <2> QED BY <1>1, <2>1, <2>2, <2>3, ExecutionCounts
  <1>5. CASE ExecutionFails(w)
    <2>1. PICK res \in {"error", "panic"} : Step(w, [x EXCEPT !.pc = "finish", !.res = res])
      BY <1>5 DEF ExecutionFails
    <2> DEFINE y == [x EXCEPT !.pc = "finish", !.res = res]
    <2>2. y.job = x.job /\ y.pc = "finish" /\ y.res = res
      BY <1>3 DEF WorkerStates
    <2> QED BY <1>1, <2>1, <2>2, ErrsCounts
  <1>6. CASE Deadline(w)
    <2> DEFINE y == [x EXCEPT !.ctx = "deadline"]
    <2>1. /\ y.job = x.job /\ y.pc = x.pc /\ y.total = x.total /\ y.res = x.res
          /\ y.resuming = x.resuming
      BY <1>3 DEF WorkerStates
    <2>2. Step(w, y)
      BY <1>6 DEF Deadline
    <2> HIDE DEF y
    <2>3. y.job \in StreamJobs => SumAt(y, disk[y.job])
      BY <1>3, <2>1 DEF SumAt
    <2> QED BY <1>1, <2>1, <2>2, <2>3, ExecutionCounts
  <1> QED BY <1>4, <1>5, <1>6

LEMMA PrepareCounts ==
    ASSUME CountInv, NEW w \in Workers, PrepareCallback(w) PROVE CountParts'
  <1> DEFINE x == worker[w]
             r == disk[x.job]
  <1>1. /\ x.pc = "prepare" /\ Executing(w) /\ x.job \in Jobs /\ x \in WorkerStates
        /\ r \in Records /\ PendingIsNext(r) /\ x.batch \in Batches
        /\ x.job \in StreamJobs => StreamAt(x, r) /\ SumAt(x, r)
    BY ExecutorFacts, CountFacts DEF CountInv, PrepareCallback, At, Executing, PCs
  <1>2. x.batch # NoBatch /\ x.batch.seq \in Nat /\ r.last \in Nat
    BY <1>1, BatchFacts DEF Records
  <1>3. x.job \in StreamJobs => x.batch.seq = r.last + 1
    BY <1>1, <1>2 DEF StreamAt, PendingIsNext
  <1>4. CASE x.batch.seq <= r.last /\ Step(w, Sent(x)) /\ disk' = disk
    <2>1. Sent(x).job = x.job /\ x.job \notin StreamJobs
      BY <1>1, <1>2, <1>3, <1>4 DEF Sent, WorkerStates
    <2> QED BY <1>1, <1>4, <2>1, ExecutionCounts
  <1>5. CASE Step(w, Errs(x)) /\ disk' = disk
    <2>1. Errs(x).job = x.job /\ Errs(x).pc = "finish" /\ Errs(x).res = "error"
      BY <1>1 DEF Errs, WorkerStates
    <2> QED BY <1>1, <1>5, <2>1, ErrsCounts
  <1>6. ASSUME NEW o, Step(w, [x EXCEPT !.pc = "deliver", !.out = o]),
               disk' = disk \/ disk' = [disk EXCEPT ![x.job].pending = x.batch]
        PROVE  CountParts'
    <2> DEFINE y == [x EXCEPT !.pc = "deliver", !.out = o]
    <2>1. y.job = x.job /\ y.pc = "deliver" /\ y.total = x.total /\ y.resuming = x.resuming
      BY <1>1 DEF WorkerStates
    <2>2. /\ \A j \in Jobs : j # x.job => disk'[j] = disk[j]
          /\ disk'[x.job].status = r.status /\ disk'[x.job].sum = r.sum
      <3>1. CASE disk' = disk
        BY <3>1
      <3>2. CASE disk' = [disk EXCEPT ![x.job].pending = x.batch]
        BY <1>1, <3>2 DEF CountInv, LifeInv, EngineInv, TypeOK, Records
      <3> QED BY <1>6, <3>1, <3>2
    <2>3. Step(w, y)
      BY <1>6
    <2> HIDE DEF y
    <2>4. y.job \in StreamJobs => SumAt(y, disk'[y.job])
      BY <1>1, <2>1, <2>2 DEF SumAt
    <2> QED BY <1>1, <2>1, <2>2, <2>3, <2>4, ExecutionCounts
  <1> QED BY <1>4, <1>5, <1>6 DEF PrepareCallback, RecordOf

LEMMA AcknowledgeCounts ==
    ASSUME CountInv, NEW w \in Workers, AcknowledgeCallback(w) PROVE CountParts'
  <1> DEFINE x == worker[w]
             r == disk[x.job]
             y == Sent(x)
  <1>1. /\ x.pc = "ack" /\ Executing(w) /\ x.job \in Jobs /\ x \in WorkerStates
        /\ r \in Records /\ PendingIsNext(r) /\ x.out \in Batches
        /\ x.job \in StreamJobs => StreamAt(x, r) /\ SumAt(x, r)
    BY ExecutorFacts, CountFacts DEF CountInv, AcknowledgeCallback, At, Executing, PCs
  <1>2. x.out # NoBatch /\ x.out.seq \in Nat /\ r.last \in Nat
    BY <1>1, BatchFacts DEF Records
  <1>3. x.job \in StreamJobs => x.out.seq = r.last + 1 /\ x.batch = r.pending
    BY <1>1, <1>2 DEF StreamAt, PendingIsNext
  <1>4. y.job = x.job
    BY <1>1 DEF Sent, WorkerStates
  <1>5. CASE x.out.seq <= r.last /\ Step(w, y) /\ disk' = disk
    BY <1>1, <1>2, <1>3, <1>4, <1>5, ExecutionCounts
  <1>6. CASE Step(w, Errs(x)) /\ disk' = disk
    <2>1. Errs(x).job = x.job /\ Errs(x).pc = "finish" /\ Errs(x).res = "error"
      BY <1>1 DEF Errs, WorkerStates
    <2> QED BY <1>1, <1>6, <2>1, ErrsCounts
  <1>7. CASE /\ x.out.seq = r.last + 1 /\ Step(w, y)
             /\ disk' = [disk EXCEPT ![x.job] =
                           [r EXCEPT !.last = x.out.seq, !.sum = r.sum + r.pending.count,
                                     !.phase = r.pending.status, !.pending = NoBatch]]
    <2>1. /\ \A j \in Jobs : j # x.job => disk'[j] = disk[j]
          /\ disk'[x.job].status = r.status /\ disk'[x.job].sum = r.sum + r.pending.count
      BY <1>1, <1>7 DEF CountInv, LifeInv, EngineInv, TypeOK, Records
    <2>2. x.job \in StreamJobs => SumAt(y, disk'[x.job])
      <3> SUFFICES ASSUME x.job \in StreamJobs PROVE SumAt(y, disk'[x.job])
        OBVIOUS
      <3>1. CASE x.resuming
        <4>1. y.pc = "resumed"
          BY <1>1, <3>1 DEF Sent, WorkerStates
        <4> QED BY <4>1 DEF SumAt
      <3>2. CASE ~x.resuming
        <4>1. y.total = x.total + x.batch.count
          BY <1>1, <3>2 DEF Sent, WorkerStates
        <4>2. x.total = r.sum
          BY <1>1, <3>2 DEF SumAt
        <4> HIDE DEF y
        <4> QED BY <1>3, <2>1, <4>1, <4>2 DEF SumAt
      <3> QED BY <3>1, <3>2
    <2> HIDE DEF y
    <2> QED BY <1>1, <1>4, <1>7, <2>1, <2>2, ExecutionCounts
  <1> QED BY <1>5, <1>6, <1>7 DEF AcknowledgeCallback, RecordOf

LEMMA ExecutorCounts ==
    ASSUME CountInv, NEW w \in Workers, ExecutorStep(w) \/ ExecutionFails(w) \/ Deadline(w)
    PROVE  CountParts'
  <1>1. CASE Started(w)
    BY <1>1, SendsCounts DEF Started, At
  <1>2. CASE Produce(w)
    BY <1>2, SendsCounts DEF Produce, At
  <1> QED BY <1>1, <1>2, ResumeCounts, PrepareCounts, AcknowledgeCounts, DeliverCounts DEF ExecutorStep

\* A step that changes no sum and saves no end, its workers carrying on.
LEMMA CalmCounts ==
    ASSUME CountInv,
           \A j \in Jobs :
              /\ disk'[j].sum = disk[j].sum
              /\ disk'[j].status \in FinalStatuses =>
                    disk[j].status \in FinalStatuses /\ disk'[j].result = disk[j].result,
           \A w \in Workers : CarriesOn(worker[w], worker'[w]),
           mu' = mu \/ mu'.job \notin StreamJobs \/ mu'.rec.status \notin FinalStatuses
    PROVE  CountParts'
  <1>1. \A w \in Workers : WorkerSum(worker'[w], disk')
    BY WorkersCarryOn
  <1>2. EndedSum'
    BY SameEnds
  <1>3. LockResult'
    BY DEF LockResult, CountInv, CountParts
  <1> QED BY <1>1, <1>2, <1>3 DEF CountParts

LEMMA ContextCarriesOn ==
    ASSUME NEW x \in WorkerStates
    PROVE  CarriesOn(x, x) /\ CarriesOn(x, [x EXCEPT !.ctx = "cancelled"])
  BY DEF CarriesOn, WorkerStates

\* Every step but the Save of an end and those of executions.
LEMMA TakeCounts ==
    ASSUME CountInv, NEW w \in Workers, Take(w) \/ BeginRun(w) PROVE CountParts'
  <1>1. worker \in [Workers -> WorkerStates] /\ disk' = disk
    BY DEF CountInv, LifeInv, EngineInv, TypeOK, Take, BeginRun, diskVars
  <1>2. CASE Take(w)
    <2>1. \A v \in Workers : CarriesOn(worker[v], worker'[v])
      BY <1>1, <1>2, ContextCarriesOn DEF Take, CarriesOn, Idle
    <2> QED BY <1>1, <1>2, <2>1, CalmCounts DEF Take
  <1>3. CASE BeginRun(w)
    <2>1. disk[worker[w].job] \in Records
      BY <1>3, ExecutorFacts DEF BeginRun, CountInv
    <2>2. \A v \in Workers : CarriesOn(worker[v], worker'[v])
      <3>1. \A v \in Workers : v # w => worker'[v] = worker[v]
        BY <1>1, <1>3 DEF BeginRun
      <3>2. worker'[w].pc \in {"idle", "beginning"}
        <4>1. worker[w] \in WorkerStates
          BY <1>1
        <4>2. CASE worker' = [worker EXCEPT ![w] = Idle]
          BY <1>1, <4>2 DEF Idle
        <4>3. CASE worker' = [worker EXCEPT
                                ![w] = [worker[w] EXCEPT
                                          !.pc = "beginning", !.seq = 1,
                                          !.ctx = IF Stopping THEN "cancelled" ELSE "live"]]
          BY <1>1, <4>1, <4>3 DEF WorkerStates
        <4> QED BY <1>3, <4>2, <4>3 DEF BeginRun
      <3> QED BY <1>1, <3>1, <3>2, ContextCarriesOn DEF CarriesOn
    <2>3. mu' = mu \/ mu'.rec.status = "running"
      BY <1>3, <2>1 DEF BeginRun, Lock, Records
    <2> QED BY <1>1, <2>2, <2>3, CalmCounts DEF FinalStatuses
  <1> QED BY <1>2, <1>3

LEMMA EndRunCounts ==
    ASSUME CountInv, NEW w \in Workers, EndRun(w) PROVE CountParts'
  <1> DEFINE x == worker[w]
             r == disk[x.job]
             n == [r EXCEPT !.status = EndStatus(x),
                            !.result = IF x.res = "panic" THEN r.result ELSE x.total]
  <1>1. /\ worker \in [Workers -> WorkerStates] /\ disk' = disk /\ x.pc = "finish"
        /\ x.job \in Jobs /\ r \in Records /\ (x.job \in StreamJobs => SumAt(x, r))
    BY CountFacts DEF EndRun, diskVars, CountInv, LifeInv, EngineInv, TypeOK
  <1>2. \A v \in Workers : CarriesOn(worker[v], worker'[v])
    BY <1>1, ContextCarriesOn DEF EndRun, CarriesOn, Idle, WorkerStates
  <1>3. \A v \in Workers : WorkerSum(worker'[v], disk')
    BY <1>1, <1>2, WorkersCarryOn
  <1>4. EndedSum'
    BY <1>1 DEF EndedSum, CountInv, CountParts
  <1>5. LockResult'
    <2>1. CASE mu' = mu
      BY <1>1, <2>1 DEF LockResult, CountInv, CountParts
    <2>2. CASE Lock(x.job, n)
      <3>1. n.status = EndStatus(x) /\ n.result = IF x.res = "panic" THEN r.result ELSE x.total
        BY <1>1 DEF Records
      <3>2. mu'.job = x.job /\ mu'.rec = n
        BY <2>2 DEF Lock
      <3>3. EndStatus(x) \in FinalStatuses => x.res = EndStatus(x)
        BY <1>1 DEF EndStatus, FinalStatuses
      <3> HIDE DEF n
      <3>4. "panic" \notin FinalStatuses
        BY DEF FinalStatuses
      <3> QED BY <1>1, <3>1, <3>2, <3>3, <3>4 DEF LockResult, SumAt
    <2> QED BY <2>1, <2>2 DEF EndRun
  <1> QED BY <1>3, <1>4, <1>5 DEF CountParts

LEMMA SaveEndCounts ==
    ASSUME CountInv, SaveRecord PROVE CountParts'
  <1> DEFINE j == mu.job
             r == disk[j]
             n == mergeCallbackCheckpoint(mu.rec, r)
  <1>1. j \in Jobs /\ mu.rec \in Records /\ r \in Records /\ ReadFrom(mu.rec, r)
    BY FreeLock DEF SaveRecord, CountInv, LifeInv, EngineInv, TypeOK, LockFine
  <1>2. n.sum = r.sum
    BY <1>1, MergeKeepsSum DEF CountInv, SumInv, LockSum
  <1>3. n.status = mu.rec.status /\ n.result = mu.rec.result
    BY <1>1 DEF mergeCallbackCheckpoint, Records
  <1>4. /\ disk'[j] = n /\ \A k \in Jobs : k # j => disk'[k] = disk[k]
        /\ mu'.job \notin Jobs
    BY <1>1 DEF SaveRecord, Unlock, Free, CountInv, LifeInv, EngineInv, TypeOK
  <1> HIDE DEF n
  <1>5. ASSUME NEW w \in Workers PROVE CarriesOn(worker[w], worker'[w])
    <2>1. worker[w] \in WorkerStates
      BY DEF CountInv, LifeInv, EngineInv, TypeOK
    <2>2. worker'[w] = CASE worker[w].pc = "beginning" ->
                              [worker[w] EXCEPT
                                 !.pc = IF worker[w].job \in StreamJobs THEN "resume" ELSE "started"]
                         [] worker[w].pc = "ending" -> Idle
                         [] OTHER -> worker[w]
      BY DEF SaveRecord, Unlock
    <2>3. CASE worker[w].pc = "beginning"
      BY <2>1, <2>2, <2>3 DEF CarriesOn, WorkerStates
    <2>4. CASE worker[w].pc = "ending"
      BY <2>2, <2>4 DEF CarriesOn, Idle
    <2>5. CASE worker[w].pc \notin {"beginning", "ending"}
      BY <2>1, <2>2, <2>5, ContextCarriesOn
    <2> QED BY <2>3, <2>4, <2>5
  <1>6. \A w \in Workers : WorkerSum(worker'[w], disk')
    BY <1>2, <1>4, <1>5, WorkersCarryOn
  <1>7. LockResult'
    BY <1>4 DEF LockResult
  <1>8. EndedSum'
    <2> SUFFICES ASSUME NEW k \in StreamJobs, disk'[k].status \in FinalStatuses
                 PROVE  disk'[k].result = disk'[k].sum
      BY DEF EndedSum
    <2>1. CASE k = j
      BY <1>2, <1>3, <1>4, <2>1 DEF CountInv, CountParts, LockResult
    <2>2. CASE k # j
      BY <1>4, <2>2 DEF CountInv, CountParts, EndedSum
    <2> QED BY <2>1, <2>2
  <1> QED BY <1>6, <1>7, <1>8 DEF CountParts

LEMMA ProcessCounts ==
    ASSUME CountInv, MaxSaveFaults = 0,
           \/ ProcessStep \/ SaveFails \/ Shutdown \/ Crash
           \/ \E j \in Jobs : Submit(j) \/ Cancel(j) \/ RestoreFails(j)
           \/ UNCHANGED vars
    PROVE  CountParts'
  <1>0. worker \in [Workers -> WorkerStates] /\ disk \in [Jobs -> Records]
    BY DEF CountInv, LifeInv, EngineInv, TypeOK
  <1>1. \A w \in Workers : worker'[w] = worker[w] => CarriesOn(worker[w], worker'[w])
    BY <1>0, ContextCarriesOn
  <1>2. ~SaveFault
    BY DEF SaveFault, CountInv, LifeInv, EngineInv, TypeOK
  <1>3. CASE Exit \/ Crash
    <2>1. Gone
      BY <1>3 DEF Exit, Crash
    <2>2. /\ \A w \in Workers : CarriesOn(worker[w], worker'[w])
          /\ disk' = disk /\ mu'.job \notin Jobs
      BY <2>1 DEF Gone, CarriesOn, Idle, Free, diskVars
    <2> QED BY <2>2, CalmCounts
  <1>4. CASE Start \/ StartDone \/ UNCHANGED vars
    <2>1. disk' = disk /\ mu' = mu /\ worker' = worker
      BY <1>4 DEF Start, StartDone, vars, diskVars, memVars
    <2> QED BY <1>1, <2>1, CalmCounts
  <1>5. ASSUME NEW next, CancelRoot(next) PROVE \A w \in Workers : CarriesOn(worker[w], worker'[w])
    BY <1>0, <1>5, ContextCarriesOn DEF CancelRoot
  <1>6. CASE Shutdown
    <2>1. disk' = disk /\ mu' = mu /\ CancelRoot("stopping")
      BY <1>6 DEF Shutdown, diskVars, memVars
    <2> QED BY <1>5, <2>1, CalmCounts
  <1>7. ASSUME NEW j \in Jobs, Submit(j) PROVE CountParts'
    <2>1. \A k \in Jobs : /\ disk'[k].sum = disk[k].sum /\ disk'[k].result = disk[k].result
                          /\ disk'[k].status = disk[k].status \/ disk'[k].status = "queued"
      BY <1>0, <1>7 DEF Submit, Records
    <2>2. mu' = mu /\ worker' = worker
      BY <1>7 DEF Submit
    <2> QED BY <1>1, <2>1, <2>2, CalmCounts DEF FinalStatuses
  <1>8. ASSUME NEW j \in Jobs, Cancel(j) PROVE CountParts'
    <2>1. \A w \in Workers : CarriesOn(worker[w], worker'[w])
      BY <1>0, <1>8, ContextCarriesOn DEF Cancel
    <2>2. disk' = disk /\ mu'.rec.status = "cancelled"
      BY <1>0, <1>8 DEF Cancel, Lock, Records
    <2> QED BY <2>1, <2>2, CalmCounts DEF FinalStatuses
  <1>9. ASSUME NEW j \in Jobs, Restore(j) \/ RestoreFails(j) PROVE CountParts'
    <2>1. disk' = Requeued(j) /\ mu' = mu
      BY <1>2, <1>9 DEF Restore, RestoreFails, memVars
    <2>2. \A w \in Workers : CarriesOn(worker[w], worker'[w])
      BY <1>1, <1>5, <1>9 DEF Restore, RestoreFails
    <2>3. /\ disk'[j].status = "queued"
          /\ \A k \in Jobs : k # j => disk'[k] = disk[k]
      BY <2>1, RequeuedStatus DEF CountInv
    <2>4. disk'[j].sum = disk[j].sum
      <3> DEFINE q == [disk[j] EXCEPT !.status = "queued"]
      <3>1. q.sum = disk[j].sum
        BY <1>0 DEF Records
      <3>2. disk'[j] = mergeCallbackCheckpoint(q, disk[j]) /\ q \in Records
        BY <1>0, <2>1 DEF Requeued, Records, JobStatuses, Recoverable
      <3> HIDE DEF q
      <3> QED BY <1>0, <3>1, <3>2 DEF mergeCallbackCheckpoint, Records
    <2> QED BY <2>1, <2>2, <2>3, <2>4, CalmCounts DEF FinalStatuses
  <1> QED BY <1>2, <1>3, <1>4, <1>6, <1>7, <1>8, <1>9, SaveEndCounts DEF ProcessStep, SaveFails

LEMMA CountNext ==
    ASSUME MaxSaveFaults = 0
    PROVE  CountInv /\ [Next]_vars => CountInv'
  <1> SUFFICES ASSUME CountInv, [Next]_vars PROVE CountInv'
    OBVIOUS
  <1>1. LifeInv' /\ SumInv'
    BY LifeNext, SumNext DEF CountInv, LifeInv
  <1>2. CountParts'
    BY ProcessCounts, TakeCounts, EndRunCounts, ExecutorCounts DEF Next
  <1> QED BY <1>1, <1>2 DEF CountInv

LEMMA CountStart == Init => CountInv
  <1> SUFFICES ASSUME Init PROVE CountInv
    OBVIOUS
  <1>1. CountParts
    BY DEF Init, CountParts, LockResult, EndedSum, WorkerSum, Free, Idle, NoRecord, FinalStatuses
  <1> QED BY <1>1, LifeStart, SumStart DEF CountInv

\* An ended stream has nothing beyond its checkpoint, so its sum is the number
\* of facts the platform received.
LEMMA CountedAll == CountInv => ResultCountsEveryFact
  <1> SUFFICES ASSUME CountInv, NEW j \in StreamJobs, disk[j].status \in FinalStatuses
               PROVE  disk[j].result = Total([s \in Seqs |-> FactsIn(received[j][s])], MaxSeq)
    BY DEF ResultCountsEveryFact
  <1>1. /\ disk[j].result = disk[j].sum /\ disk[j].pending = NoBatch
        /\ disk[j].sum = Total(Acked(received[j], disk[j].last), MaxSeq)
        /\ StreamFine(disk[j], received[j])
    BY DEF CountInv, CountParts, EndedSum, LifeInv, LifeParts, EndedStreamMatches, SumInv,
           SumFine, EngineInv
  <1>2. disk[j].last \in Nat /\ received[j] \in [Seqs -> SUBSET Batches]
    BY DEF CountInv, LifeInv, EngineInv, TypeOK, Records
  <1>3. \A s \in Seqs : ~(s <= disk[j].last) => received[j][s] = {}
    <2> SUFFICES ASSUME NEW s \in Seqs, ~(s <= disk[j].last) PROVE received[j][s] = {}
      OBVIOUS
    <2>1. s > disk[j].last
      BY <1>2 DEF Seqs
    <2>2. received[j][s] \subseteq {NoBatch} /\ received[j][s] \subseteq Batches
      BY <1>1, <1>2, <2>1 DEF StreamFine
    <2> QED BY <2>2, BatchFacts
  <1>4. \A s \in Seqs :
           (IF s <= disk[j].last THEN FactsIn(received[j][s]) ELSE 0) = FactsIn(received[j][s])
    BY <1>3, FactsInOne
  <1>5. Acked(received[j], disk[j].last) = [s \in Seqs |-> FactsIn(received[j][s])]
    BY <1>4 DEF Acked
  <1> QED BY <1>1, <1>5

\* What the checkpoints say, for every job.
CheckpointSums == \A j \in Jobs : SumFine(disk[j], received[j])

\* AcknowledgeCallback and FileStore.Save: CallbackResultCount of a record is
\* the number of facts in the batches acknowledged so far, each counted once,
\* also when records read earlier are saved over it and when saves fail.
THEOREM CheckpointCountsAcknowledged == Spec => []CheckpointSums
  <1>1. EngineInv /\ SumInv /\ [Next]_vars => (EngineInv /\ SumInv)'
    BY SumNext, NextKeeps DEF Kept
  <1>2. Init => EngineInv /\ SumInv
    BY InitFine, SumStart
  <1>3. EngineInv /\ SumInv => CheckpointSums
    BY DEF SumInv, CheckpointSums
  <1> QED BY <1>1, <1>2, <1>3, PTL DEF Spec

\* ResumeStream and run: while the saves of records succeed, the count a
\* finished stream reports is the number of facts the platform received, each
\* batch counted once, through any number of executions, crashes and replays.
THEOREM ResultIsExact ==
    ASSUME MaxSaveFaults = 0
    PROVE  Spec => []ResultCountsEveryFact
  <1>1. CountInv /\ [Next]_vars => CountInv'
    BY CountNext
  <1> QED BY <1>1, CountStart, CountedAll, PTL DEF Spec
=============================================================================
