----------------------------- MODULE FactsProofs -----------------------------
(***************************************************************************)
(* Proofs about what becomes of the facts engines report: the results of   *)
(* an active run, for any number of pollers, targets and pages, the asset  *)
(* tables that imports, edits, callbacks and closings write, for any       *)
(* number of assets, people and runs; and what the engine reports: one     *)
(* execution of a job, for any targets, sources and answers, and the       *)
(* command line, for any requests and any number of kills.                 *)
(***************************************************************************)
EXTENDS ActiveEngine, Assets, Executors, LegacyScan, FiniteSetTheorems, SequenceTheorems, WellFoundedInduction, TLAPS

-----------------------------------------------------------------------------
(* Folding over the results of a page.                                     *)

LEMMA LeastNat ==
  ASSUME NEW S, S \subseteq Nat, S # {} PROVE \E x \in S : \A y \in S : x <= y
<1> DEFINE R == OpToRel(<, Nat)
<1>1. IsWellFoundedOn(R, Nat)
  BY NatLessThanWellFounded
<1>2. \A a, b \in Nat : a < b => <<a, b>> \in R
  BY DEF OpToRel
<1> HIDE DEF R
<1>3. PICK x \in S : \A y \in S : ~(<<y, x>> \in R)
  BY <1>1, WFMin
<1>4. \A y \in S : ~(y < x)
  BY <1>2, <1>3
<1> QED
  BY <1>4

(* The batches of a page hold targets of the page. *)
FilledFor(results, f, n) ==
  f = [i \in 0..n |-> IF i = 0 THEN EmptyBatch ELSE BatchWith(f[i - 1], results[i])]

Batched(T, b) == b.done \in Seq(Seq(T)) /\ b.now \in Seq(T)

LEMMA BatchWithFits ==
  ASSUME NEW T, NEW b, Batched(T, b), NEW t \in T PROVE Batched(T, BatchWith(b, t))
<1> DEFINE full == b.cost > 0 /\ b.cost + Cost(ResultOf[t]) > BatchLimit
<1>1. /\ BatchWith(b, t).done = IF full THEN Append(b.done, b.now) ELSE b.done
      /\ BatchWith(b, t).now = IF full THEN <<t>> ELSE Append(b.now, t)
  BY DEF BatchWith
<1> HIDE DEF full
<1>2. Append(b.done, b.now) \in Seq(Seq(T)) /\ <<t>> \in Seq(T) /\ Append(b.now, t) \in Seq(T)
  BY DEF Batched
<1> QED
  BY <1>1, <1>2 DEF Batched

LEMMA FilledExists ==
  ASSUME NEW results, NEW n \in Nat PROVE \E f : FilledFor(results, f, n)
<1> DEFINE S == {m \in Nat : ~\E f : FilledFor(results, f, m)}
<1> SUFFICES ASSUME S # {} PROVE FALSE
  OBVIOUS
<1>1. PICK m \in S : \A y \in S : m <= y
  BY LeastNat
<1>2. CASE m = 0
  <2> DEFINE f == [i \in 0..0 |-> EmptyBatch]
  <2>1. \A i \in 0..0 : i = 0
    OBVIOUS
  <2>2. FilledFor(results, f, 0)
    BY <2>1 DEF FilledFor
  <2> QED
    BY <1>1, <1>2, <2>2
<1>3. CASE m # 0
  <2>1. m - 1 \in Nat /\ m - 1 \notin S
    BY <1>1, <1>3
  <2>2. PICK f : FilledFor(results, f, m - 1)
    BY <2>1
  <2> DEFINE g == [i \in 0..m |-> IF i = m THEN BatchWith(f[m - 1], results[m]) ELSE f[i]]
  <2>3. \A i \in 0..m : g[i] = IF i = 0 THEN EmptyBatch ELSE BatchWith(g[i - 1], results[i])
    <3> SUFFICES ASSUME NEW i \in 0..m PROVE g[i] = IF i = 0 THEN EmptyBatch ELSE BatchWith(g[i - 1], results[i])
      OBVIOUS
    <3>1. CASE i = 0
      BY <1>3, <2>1, <2>2, <3>1 DEF FilledFor
    <3>2. CASE i # 0 /\ i = m
      BY <1>3, <2>1, <3>2
    <3>3. CASE i # 0 /\ i # m
      <4>1. i \in 0..(m-1) /\ i - 1 \in 0..m /\ i - 1 # m
        BY <1>1, <3>3
      <4> QED
        BY <2>2, <3>3, <4>1 DEF FilledFor
    <3> QED
      BY <3>1, <3>2, <3>3
  <2>4. FilledFor(results, g, m)
    BY <2>3 DEF FilledFor
  <2> QED
    BY <1>1, <2>4
<1> QED
  BY <1>2, <1>3

LEMMA FilledFits ==
  ASSUME NEW T, NEW results \in Seq(T), NEW f, FilledFor(results, f, Len(results))
  PROVE  Batched(T, f[Len(results)])
<1> DEFINE n == Len(results)
           S == {m \in 0..n : ~Batched(T, f[m])}
<1>1. n \in Nat /\ \A i \in 1..n : results[i] \in T
  OBVIOUS
<1>2. \A i \in 0..n : f[i] = IF i = 0 THEN EmptyBatch ELSE BatchWith(f[i - 1], results[i])
  BY DEF FilledFor
<1> HIDE DEF n
<1>3. S = {}
  <2> SUFFICES ASSUME S # {} PROVE FALSE
    OBVIOUS
  <2>1. PICK m \in S : \A y \in S : m <= y
    <3>1. S \subseteq Nat
      BY <1>1
    <3> HIDE DEF S
    <3> QED
      BY <3>1, LeastNat
  <2>2. CASE m = 0
    <3>1. Batched(T, EmptyBatch)
      BY DEF Batched, EmptyBatch
    <3> QED
      BY <1>1, <1>2, <2>1, <2>2, <3>1
  <2>3. CASE m # 0
    <3>1. m \in 1..n /\ m - 1 \in 0..n /\ m - 1 \notin S
      BY <1>1, <2>1, <2>3
    <3>2. Batched(T, f[m - 1])
      BY <3>1
    <3>3. Batched(T, BatchWith(f[m - 1], results[m]))
      BY <1>1, <3>1, <3>2, BatchWithFits
    <3> QED
      BY <1>2, <2>1, <2>3, <3>3
  <2> QED
    BY <2>2, <2>3
<1> QED
  BY <1>1, <1>3 DEF n

LEMMA SplitFits ==
  ASSUME NEW T, NEW results \in Seq(T)
  PROVE  splitActiveResultPage(results) \in Seq(Seq(T)) /\ splitActiveResultPage(results) # <<>>
<1> DEFINE n == Len(results)
           filled[i \in 0..n] == IF i = 0 THEN EmptyBatch ELSE BatchWith(filled[i - 1], results[i])
           end == filled[n]
<1>1. n \in Nat
  OBVIOUS
<1>2. \E f : f = [i \in 0..n |-> IF i = 0 THEN EmptyBatch ELSE BatchWith(f[i - 1], results[i])]
  BY <1>1, FilledExists DEF FilledFor
<1>3. FilledFor(results, filled, n)
  BY <1>2 DEF FilledFor
<1>4. splitActiveResultPage(results) = IF end.cost > 0 \/ end.done = <<>> THEN Append(end.done, end.now) ELSE end.done
  BY DEF splitActiveResultPage
<1> HIDE DEF filled
<1>5. Batched(T, end)
  BY <1>3, FilledFits
<1> HIDE DEF end
<1>6. end.done \in Seq(Seq(T)) /\ end.now \in Seq(T)
  BY <1>5 DEF Batched
<1>7. Append(end.done, end.now) \in Seq(Seq(T)) /\ Append(end.done, end.now) # <<>>
  BY <1>6, AppendProperties
<1> QED
  BY <1>4, <1>6, <1>7

-----------------------------------------------------------------------------
(* The active pull.                                                        *)

ActiveEnds == {"success", "partial_success", "failed", "cancelled"}

AllFacts(T) == UNION {FactsOf(ResultOf[t]) : t \in T}

PollerType(T) ==
  [pc : {"idle", "fetch", "ingest", "close"}, engine : ActiveEnds \cup {"running"}, page : 0..Cardinality(T),
   total : Nat, finished : Nat, batches : Seq(Seq(T)), facts : SUBSET AllFacts(T), targets : SUBSET T]

JobType(T) == [status : EngineStatuses \cup {"none", "waiting"}, order : Seq(T)]

(* A poller's facts are those of the targets it has seen, and the run has  *)
(* them while it takes any.                                                *)
PollerFits(s, status, facts) ==
  /\ s.facts = AllFacts(s.targets)
  /\ status \in {"pending", "running"} => s.facts \subseteq facts
  /\ s.pc = "idle" => s.targets = {}
  /\ s.pc # "idle" => status # "pending" /\ s.engine \in ActiveEnds /\ s.page >= 1
  /\ s.pc = "ingest" => s.batches # <<>>

(* What a poller compares its targets with is the number the run has. *)
TotalIsKnown(s, n) == s.pc \in {"ingest", "close"} => s.total = n

ActiveRunFits ==
  /\ DOMAIN activeRun = {"kind", "status", "count", "lifecycle"}
  /\ activeRun.kind \in DOMAIN ActiveTargets /\ activeRun.status \in ActiveEnds \cup {"pending", "running"}
  /\ activeRun.lifecycle \in 0..1
  /\ activeRun.status \in {"pending", "running"} => activeRun.lifecycle = 0

ActiveInv ==
  /\ ActiveRunFits
  /\ activeJob \in JobType(RunTargets)
  /\ activeFacts \subseteq AllFacts(RunTargets)
  /\ pollers \in [ActivePollers -> PollerType(RunTargets)]
  /\ \A p \in ActivePollers : /\ PollerFits(pollers[p], activeRun.status, activeFacts)
                              /\ TotalIsKnown(pollers[p], Cardinality(RunTargets))
  /\ ActiveSuccessIsComplete

LEMMA FactsOfTargets ==
  ASSUME NEW S, NEW T
  PROVE  /\ AllFacts(S \cup T) = AllFacts(S) \cup AllFacts(T)
         /\ S \subseteq T => AllFacts(S) \subseteq AllFacts(T)
         /\ AllFacts({}) = {}
<1>1. \A U, x : x \in AllFacts(U) <=> \E t \in U : x \in FactsOf(ResultOf[t])
  BY DEF AllFacts
<1> QED
  BY <1>1

(* What is built from a batch are the facts of its targets. *)
LEMMA PayloadFacts ==
  ASSUME NEW T, NEW batch \in Seq(T)
  PROVE  /\ buildActiveResultPayload(batch).targets \subseteq T
         /\ buildActiveResultPayload(batch).facts = AllFacts(buildActiveResultPayload(batch).targets)
<1> DEFINE P == buildActiveResultPayload(batch)
<1>1. /\ P.targets = {batch[i] : i \in DOMAIN batch}
      /\ P.facts = UNION {FactsOf(ResultOf[batch[i]]) : i \in DOMAIN batch}
  BY DEF buildActiveResultPayload
<1>2. \A i \in DOMAIN batch : batch[i] \in T
  OBVIOUS
<1> HIDE DEF P
<1>3. \A x : x \in P.facts <=> \E t \in P.targets : x \in FactsOf(ResultOf[t])
  BY <1>1
<1>4. P.facts = AllFacts(P.targets)
  BY <1>3 DEF AllFacts
<1> QED
  BY <1>1, <1>2, <1>4 DEF P

LEMMA TargetsFinite ==
  ASSUME ActiveInv
  PROVE  IsFiniteSet(RunTargets) /\ Cardinality(RunTargets) \in Nat \ {0}
<1>1. IsFiniteSet(RunTargets) /\ RunTargets # {}
  BY ActiveAssumption DEF ActiveInv, ActiveRunFits, RunTargets
<1> QED
  BY <1>1, FS_CardinalityType, FS_EmptySet

LEMMA IdleFits ==
  ASSUME NEW T, Cardinality(T) \in Nat
  PROVE  /\ IdlePoller \in PollerType(T)
         /\ IdlePoller.pc = "idle" /\ IdlePoller.facts = {} /\ IdlePoller.targets = {}
<1>1. IdlePoller \in PollerType(T)
  BY DEF IdlePoller, Poller, PollerType, ActiveEnds
<1> QED
  BY <1>1 DEF IdlePoller, Poller

LEMMA IdleKept == IdlePoller.pc = "idle" /\ IdlePoller.facts = AllFacts(IdlePoller.targets)
                  /\ IdlePoller.targets = {} /\ IdlePoller.facts = {}
<1>1. IdlePoller.pc = "idle" /\ IdlePoller.targets = {} /\ IdlePoller.facts = {}
  BY DEF IdlePoller, Poller
<1> QED
  BY <1>1, FactsOfTargets

LEMMA ActiveInitFits == ActiveInit => ActiveInv
<1> SUFFICES ASSUME ActiveInit PROVE ActiveInv
  OBVIOUS
<1>1. PICK k \in DOMAIN ActiveTargets : activeRun = [kind |-> k, status |-> "pending", count |-> 0, lifecycle |-> 0]
  BY DEF ActiveInit
<1>2. ActiveRunFits /\ activeRun.status = "pending"
  BY <1>1 DEF ActiveRunFits
<1>3. Cardinality(RunTargets) \in Nat
  BY <1>2, ActiveAssumption, FS_CardinalityType DEF ActiveRunFits, RunTargets
<1>4. activeJob \in JobType(RunTargets)
  BY DEF ActiveInit, JobType
<1>5. pollers \in [ActivePollers -> PollerType(RunTargets)] /\ \A p \in ActivePollers : pollers[p] = IdlePoller
  BY <1>3, IdleFits DEF ActiveInit
<1>6. \A p \in ActivePollers : /\ PollerFits(pollers[p], activeRun.status, activeFacts)
                              /\ TotalIsKnown(pollers[p], Cardinality(RunTargets))
  BY <1>5, IdleKept DEF PollerFits, TotalIsKnown
<1>7. ActiveSuccessIsComplete
  BY <1>2 DEF ActiveSuccessIsComplete
<1> QED
  BY <1>2, <1>4, <1>5, <1>6, <1>7 DEF ActiveInv, ActiveInit

(* The engine's own steps, and time. *)
LEMMA EngineStepKeeps ==
  ASSUME ActiveInv, UNCHANGED <<activeRun, activeFacts, pollers>>, activeJob' \in JobType(RunTargets)
  PROVE  ActiveInv'
<1>1. RunTargets' = RunTargets
  BY DEF RunTargets
<1>2. ActiveRunFits' /\ ActiveSuccessIsComplete'
  BY <1>1 DEF ActiveInv, ActiveRunFits, ActiveSuccessIsComplete
<1> QED
  BY <1>1, <1>2 DEF ActiveInv

LEMMA TargetFinishesKeeps ==
  ASSUME ActiveInv, NEW t \in RunTargets, TargetFinishes(t) PROVE ActiveInv'
<1>1. activeJob' \in JobType(RunTargets)
  <2>1. Append(activeJob.order, t) \in Seq(RunTargets)
    BY AppendProperties DEF ActiveInv, JobType
  <2> QED
    BY <2>1 DEF TargetFinishes, ActiveInv, JobType
<1> QED
  BY <1>1, EngineStepKeeps DEF TargetFinishes

LEMMA ListedAnewKeeps ==
  ASSUME ActiveInv, ListedAnew PROVE ActiveInv'
<1>1. activeJob' \in JobType(RunTargets)
  <2>1. activeJob.order \in Seq(RunTargets) /\ activeJob.order # <<>>
    BY DEF ActiveInv, JobType, ListedAnew
  <2>2. Append(Tail(activeJob.order), Head(activeJob.order)) \in Seq(RunTargets)
    BY <2>1, HeadTailProperties, AppendProperties
  <2> QED
    BY <2>2 DEF ListedAnew, ActiveInv, JobType
<1> QED
  BY <1>1, EngineStepKeeps DEF ListedAnew

LEMMA JobMovesKeeps ==
  ASSUME ActiveInv, NEW status \in EngineStatuses, JobMoves(status) PROVE ActiveInv'
<1>1. activeJob' \in JobType(RunTargets)
  BY DEF JobMoves, ActiveInv, JobType
<1> QED
  BY <1>1, EngineStepKeeps DEF JobMoves

LEMMA DispatchActiveKeeps ==
  ASSUME ActiveInv, NEW ports, DispatchActive(ports) PROVE ActiveInv'
<1>1. PICK s \in {"running", "failed"} : activeRun' = [activeRun EXCEPT !.status = s]
  BY DEF DispatchActive
<1>2. activeRun.status = "pending" /\ ActiveRunFits /\ UNCHANGED <<activeFacts, pollers>>
  BY DEF DispatchActive, ActiveInv
<1>3. activeRun'.kind = activeRun.kind /\ activeRun'.status = s /\ activeRun'.lifecycle = activeRun.lifecycle
      /\ DOMAIN activeRun' = DOMAIN activeRun
  BY <1>1, <1>2 DEF ActiveRunFits
<1>4. ActiveRunFits' /\ RunTargets' = RunTargets
  BY <1>2, <1>3 DEF ActiveRunFits, RunTargets, ActiveEnds
<1>5. activeJob' \in JobType(RunTargets)
  BY DEF DispatchActive, ActiveInv, JobType
<1>6. \A p \in ActivePollers : PollerFits(pollers[p], s, activeFacts)
  <2>1. \A p \in ActivePollers : PollerFits(pollers[p], "pending", activeFacts)
    BY <1>2 DEF ActiveInv
  <2> QED
    BY <2>1 DEF PollerFits
<1>7. ActiveSuccessIsComplete'
  BY <1>3 DEF ActiveSuccessIsComplete
<1> QED
  BY <1>2, <1>3, <1>4, <1>5, <1>6, <1>7 DEF ActiveInv

(* A poller's step that leaves the run alone. *)
LEMMA PollerStepKeeps ==
  ASSUME ActiveInv, NEW p \in ActivePollers, NEW s \in PollerType(RunTargets),
         pollers' = [pollers EXCEPT ![p] = s], UNCHANGED <<activeRun, activeJob>>,
         activeFacts \subseteq activeFacts', activeFacts' \subseteq AllFacts(RunTargets),
         activeRun.status = "success" => activeFacts' = activeFacts,
         PollerFits(s, activeRun.status, activeFacts'), TotalIsKnown(s, Cardinality(RunTargets))
  PROVE  ActiveInv'
<1>1. RunTargets' = RunTargets
  BY DEF RunTargets
<1>2. ActiveRunFits' /\ ActiveSuccessIsComplete'
  BY <1>1 DEF ActiveInv, ActiveRunFits, ActiveSuccessIsComplete
<1>3. pollers' \in [ActivePollers -> PollerType(RunTargets)]
      /\ \A x \in ActivePollers : pollers'[x] = s \/ pollers'[x] = pollers[x]
  BY DEF ActiveInv
<1>4. \A x \in ActivePollers : PollerFits(pollers[x], activeRun.status, activeFacts')
  <2>1. \A x \in ActivePollers : PollerFits(pollers[x], activeRun.status, activeFacts)
    BY DEF ActiveInv
  <2> QED
    BY <2>1 DEF PollerFits
<1>5. \A x \in ActivePollers : /\ PollerFits(pollers'[x], activeRun.status, activeFacts')
                              /\ TotalIsKnown(pollers'[x], Cardinality(RunTargets))
  BY <1>3, <1>4 DEF ActiveInv
<1> QED
  BY <1>1, <1>2, <1>3, <1>5 DEF ActiveInv

LEMMA GiveUpKeeps ==
  ASSUME ActiveInv, NEW p \in ActivePollers, GiveUp(p), UNCHANGED <<activeRun, activeJob, activeFacts>>
  PROVE  ActiveInv'
<1>1. IdlePoller \in PollerType(RunTargets)
  BY IdleFits, TargetsFinite
<1>2. PollerFits(IdlePoller, activeRun.status, activeFacts) /\ TotalIsKnown(IdlePoller, Cardinality(RunTargets))
  BY IdleKept DEF PollerFits, TotalIsKnown
<1>3. activeFacts \subseteq AllFacts(RunTargets) /\ pollers' = [pollers EXCEPT ![p] = IdlePoller]
  BY DEF ActiveInv, GiveUp
<1> QED
  BY <1>1, <1>2, <1>3, PollerStepKeeps

(* The end of a run that is open: the pollers keep what they have. *)
LEMMA EndKeeps ==
  ASSUME ActiveInv, Running, NEW status \in ActiveEnds, NEW count, NEW lifecycle \in BOOLEAN,
         recordRunStatusWithLifecycle(status, count, lifecycle), UNCHANGED <<activeJob, activeFacts>>,
         pollers' \in [ActivePollers -> PollerType(RunTargets)],
         \A p \in ActivePollers : pollers'[p] \in {pollers[p], IdlePoller},
         status = "success" => activeFacts = AllFacts(RunTargets) /\ count = Cardinality(activeFacts)
  PROVE  ActiveInv'
<1>1. ActiveRunFits /\ activeRun.lifecycle = 0 /\ activeRun.status = "running"
  BY DEF ActiveInv, ActiveRunFits, Running
<1>2. /\ DOMAIN activeRun' = DOMAIN activeRun /\ activeRun'.kind = activeRun.kind
      /\ activeRun'.status = status /\ activeRun'.count = count /\ activeRun'.lifecycle \in 0..1
  BY <1>1 DEF recordRunStatusWithLifecycle, ActiveRunFits
<1>3. ActiveRunFits' /\ RunTargets' = RunTargets
  BY <1>1, <1>2 DEF ActiveRunFits, RunTargets, ActiveEnds
<1>4. ActiveSuccessIsComplete'
  BY <1>2, <1>3 DEF ActiveSuccessIsComplete, AllFacts
<1>5. \A p \in ActivePollers : /\ PollerFits(pollers'[p], status, activeFacts)
                              /\ TotalIsKnown(pollers'[p], Cardinality(RunTargets))
  <2>1. \A p \in ActivePollers : /\ PollerFits(pollers[p], activeRun.status, activeFacts)
                                /\ TotalIsKnown(pollers[p], Cardinality(RunTargets))
    BY DEF ActiveInv
  <2>2. \A p \in ActivePollers : PollerFits(pollers[p], status, activeFacts)
    BY <1>1, <2>1 DEF PollerFits, ActiveEnds
  <2>3. PollerFits(IdlePoller, status, activeFacts) /\ TotalIsKnown(IdlePoller, Cardinality(RunTargets))
    BY IdleKept DEF PollerFits, TotalIsKnown
  <2> QED
    BY <2>1, <2>2, <2>3
<1> QED
  BY <1>2, <1>3, <1>4, <1>5 DEF ActiveInv

LEMMA StatusKeeps ==
  ASSUME ActiveInv, NEW p \in ActivePollers, Status(p) PROVE ActiveInv'
<1> DEFINE e == normalizeActiveAPIStatus(activeJob.status)
           s == Poller("fetch", e, 1)
<1>1. Running /\ UNCHANGED <<activeJob, activeFacts>>
  BY DEF Status
<1>2. \/ recordRunStatusWithLifecycle("failed", activeRun.count, FALSE) /\ UNCHANGED pollers
      \/ UNCHANGED <<activeRun, pollers>>
      \/ e \in ActiveEnds /\ pollers' = [pollers EXCEPT ![p] = s] /\ UNCHANGED activeRun
  <2>1. e \in ActiveEnds \cup {"running", "invalid"}
    BY DEF normalizeActiveAPIStatus, ActiveEnds
  <2>2. \/ e = "running" /\ late /\ recordRunStatusWithLifecycle("failed", activeRun.count, FALSE) /\ UNCHANGED pollers
        \/ UNCHANGED <<activeRun, pollers>>
        \/ e \notin {"running", "invalid"} /\ pollers' = [pollers EXCEPT ![p] = s] /\ UNCHANGED activeRun
    BY DEF Status
  <2> QED
    BY <2>1, <2>2
<1>3. CASE recordRunStatusWithLifecycle("failed", activeRun.count, FALSE) /\ UNCHANGED pollers
  <2>1. pollers' \in [ActivePollers -> PollerType(RunTargets)] /\ "failed" \in ActiveEnds
    BY <1>3 DEF ActiveInv, ActiveEnds
  <2> QED
    BY <1>1, <1>3, <2>1, EndKeeps
<1>4. CASE UNCHANGED <<activeRun, pollers>>
  BY <1>1, <1>4, EngineStepKeeps DEF ActiveInv
<1>5. CASE e \in ActiveEnds /\ pollers' = [pollers EXCEPT ![p] = s] /\ UNCHANGED activeRun
  <2>1. Cardinality(RunTargets) \in Nat \ {0}
    BY TargetsFinite
  <2> HIDE DEF e
  <2>2. /\ s.pc = "fetch" /\ s.engine = e /\ s.page = 1 /\ s.facts = {} /\ s.targets = {}
        /\ s \in PollerType(RunTargets)
    BY <1>5, <2>1 DEF PollerType, Poller
  <2>3. s.facts = AllFacts(s.targets)
    BY <2>2, FactsOfTargets
  <2> HIDE DEF s
  <2>4. PollerFits(s, activeRun.status, activeFacts) /\ TotalIsKnown(s, Cardinality(RunTargets))
    BY <1>1, <1>5, <2>2, <2>3 DEF PollerFits, TotalIsKnown, Running
  <2> QED
    BY <1>1, <1>5, <2>2, <2>4, PollerStepKeeps DEF ActiveInv
<1> QED
  BY <1>2, <1>3, <1>4, <1>5

(* A page holds targets of the run, as many as it says. *)
LEMMA PageFits ==
  ASSUME ActiveInv, NEW n \in Nat \ {0}
  PROVE  /\ ResultPage(n).results \in Seq(RunTargets)
         /\ ResultPage(n).total = Cardinality(RunTargets) /\ ResultPage(n).finished \in Nat
<1> DEFINE from == (n - 1) * ActivePageSize + 1
           to == IF n * ActivePageSize < Len(activeJob.order) THEN n * ActivePageSize ELSE Len(activeJob.order)
<1>1. /\ ResultPage(n).results = SubSeq(activeJob.order, from, to)
      /\ ResultPage(n).total = Cardinality(RunTargets) /\ ResultPage(n).finished = Len(activeJob.order)
  BY DEF ResultPage
<1>2. activeJob.order \in Seq(RunTargets) /\ Len(activeJob.order) \in Nat
  BY DEF ActiveInv, JobType
<1>3. (n - 1) * ActivePageSize \in Nat /\ n * ActivePageSize \in Nat
  <2>1. n - 1 \in Nat /\ ActivePageSize \in Nat
    BY ActiveAssumption
  <2>2. \A x, y \in Nat : x * y \in Nat
    OBVIOUS
  <2> QED
    BY <2>1, <2>2
<1>4. from \in Int /\ from >= 1 /\ to \in Int /\ to <= Len(activeJob.order)
  BY <1>2, <1>3
<1> HIDE DEF from, to
<1>5. \A i \in from..to : activeJob.order[i] \in RunTargets
  BY <1>2, <1>4
<1> QED
  BY <1>1, <1>2, <1>4, <1>5, SubSeqProperties

LEMMA FetchResultPageKeeps ==
  ASSUME ActiveInv, NEW p \in ActivePollers, FetchResultPage(p) PROVE ActiveInv'
<1> DEFINE s == pollers[p]
           g == ResultPage(s.page)
           b == splitActiveResultPage(g.results)
           t == [s EXCEPT !.pc = "ingest", !.total = g.total, !.finished = g.finished, !.batches = b]
<1>1. /\ s.pc = "fetch" /\ UNCHANGED <<activeRun, activeJob, activeFacts>>
      /\ GiveUp(p) \/ pollers' = [pollers EXCEPT ![p] = t]
  BY DEF FetchResultPage
<1>2. CASE GiveUp(p)
  BY <1>1, <1>2, GiveUpKeeps
<1>3. CASE pollers' = [pollers EXCEPT ![p] = t]
  <2>1. s \in PollerType(RunTargets) /\ PollerFits(s, activeRun.status, activeFacts)
    BY DEF ActiveInv
  <2>2. s.page \in Nat \ {0}
    BY <1>1, <2>1, TargetsFinite DEF PollerType, PollerFits
  <2>3. g.results \in Seq(RunTargets) /\ g.total = Cardinality(RunTargets) /\ g.finished \in Nat /\ g.total \in Nat
    BY <2>2, PageFits, TargetsFinite
  <2>4. b \in Seq(Seq(RunTargets)) /\ b # <<>>
    <3> HIDE DEF g
    <3> QED
      BY <2>3, SplitFits
  <2> HIDE DEF s, g, b
  <2>5. /\ t \in PollerType(RunTargets) /\ t.pc = "ingest" /\ t.total = g.total /\ t.batches = b
        /\ t.facts = s.facts /\ t.targets = s.targets /\ t.engine = s.engine /\ t.page = s.page
    BY <2>1, <2>3, <2>4 DEF PollerType
  <2> HIDE DEF t
  <2>6. PollerFits(t, activeRun.status, activeFacts) /\ TotalIsKnown(t, Cardinality(RunTargets))
    BY <1>1, <2>1, <2>3, <2>4, <2>5 DEF PollerFits, TotalIsKnown
  <2> QED
    BY <1>1, <1>3, <2>5, <2>6, PollerStepKeeps DEF ActiveInv
<1> QED
  BY <1>1, <1>2, <1>3

LEMMA pullKeeps ==
  ASSUME ActiveInv, NEW p \in ActivePollers, pullActiveRunResults(p) PROVE ActiveInv'
<1> DEFINE s == pollers[p]
           b == buildActiveResultPayload(Head(s.batches))
           more == Tail(s.batches) # <<>>
           last == s.page * ActivePageSize >= s.total
           t == [s EXCEPT !.batches = Tail(s.batches),
                          !.facts = s.facts \cup b.facts, !.targets = s.targets \cup b.targets,
                          !.pc = IF more THEN "ingest" ELSE IF last THEN "close" ELSE "fetch",
                          !.page = IF more \/ last THEN s.page ELSE s.page + 1]
<1>1. /\ s.pc = "ingest" /\ UNCHANGED <<activeRun, activeJob>>
      /\ \/ GiveUp(p) /\ UNCHANGED activeFacts
         \/ ingestActiveResultPayload(b.facts) /\ pollers' = [pollers EXCEPT ![p] = t]
  BY DEF pullActiveRunResults
<1>2. CASE GiveUp(p) /\ UNCHANGED activeFacts
  BY <1>1, <1>2, GiveUpKeeps
<1>3. CASE ingestActiveResultPayload(b.facts) /\ pollers' = [pollers EXCEPT ![p] = t]
  <2>1. /\ s \in PollerType(RunTargets) /\ PollerFits(s, activeRun.status, activeFacts)
        /\ TotalIsKnown(s, Cardinality(RunTargets))
    BY DEF ActiveInv
  <2>2. s.batches \in Seq(Seq(RunTargets)) /\ s.batches # <<>> /\ s.total = Cardinality(RunTargets)
    BY <1>1, <2>1 DEF PollerType, PollerFits, TotalIsKnown
  <2>3. Head(s.batches) \in Seq(RunTargets) /\ Tail(s.batches) \in Seq(Seq(RunTargets))
    BY <2>2, HeadTailProperties
  <2>4. b.targets \subseteq RunTargets /\ b.facts = AllFacts(b.targets)
    BY <2>3, PayloadFacts
  <2> HIDE DEF b
  <2>5. /\ b.facts \subseteq AllFacts(RunTargets)
        /\ s.facts \cup b.facts = AllFacts(s.targets \cup b.targets)
    BY <2>1, <2>4, FactsOfTargets DEF PollerFits
  <2>6. s.page \in 1..Cardinality(RunTargets) /\ Cardinality(RunTargets) \in Nat
    BY <1>1, <2>1, TargetsFinite DEF PollerType, PollerFits
  <2>7. ~last => s.page + 1 \in 0..Cardinality(RunTargets)
    <3>1. ActivePageSize \in Nat \ {0}
      BY ActiveAssumption
    <3>2. \A x, y \in Nat \ {0} : x * y >= x /\ x * y \in Nat
      OBVIOUS
    <3>3. s.page * ActivePageSize >= s.page /\ s.page * ActivePageSize \in Nat
      BY <2>6, <3>1, <3>2
    <3> QED
      BY <2>2, <2>6, <3>3
  <2> HIDE DEF last, more, s
  <2>8. /\ t \in PollerType(RunTargets) /\ t.batches = Tail(s.batches) /\ t.facts = s.facts \cup b.facts
        /\ t.targets = s.targets \cup b.targets /\ t.engine = s.engine /\ t.total = s.total
        /\ t.pc = (IF more THEN "ingest" ELSE IF last THEN "close" ELSE "fetch")
        /\ t.page = (IF more \/ last THEN s.page ELSE s.page + 1)
    BY <2>1, <2>3, <2>4, <2>5, <2>6, <2>7 DEF PollerType
  <2> HIDE DEF t
  <2>9. /\ activeFacts \subseteq activeFacts' /\ activeFacts' \subseteq AllFacts(RunTargets)
        /\ activeRun.status = "success" => activeFacts' = activeFacts
        /\ activeRun.status = "running" => activeFacts' = activeFacts \cup b.facts
    BY <1>3, <2>5 DEF ingestActiveResultPayload, Running, ActiveInv
  <2>10. PollerFits(t, activeRun.status, activeFacts')
    <3>1. t.facts = AllFacts(t.targets)
      BY <2>5, <2>8
    <3>2. activeRun.status # "pending" /\ s.engine \in ActiveEnds /\ t.page >= 1
      BY <1>1, <2>1, <2>6, <2>8 DEF PollerFits
    <3>3. activeRun.status = "running" => t.facts \subseteq activeFacts'
      BY <2>1, <2>8, <2>9 DEF PollerFits
    <3>4. t.pc # "idle" /\ (t.pc = "ingest" => t.batches # <<>>)
      BY <2>8 DEF more
    <3> QED
      BY <2>8, <3>1, <3>2, <3>3, <3>4 DEF PollerFits
  <2>11. TotalIsKnown(t, Cardinality(RunTargets))
    BY <2>2, <2>8 DEF TotalIsKnown
  <2> QED
    BY <1>1, <1>3, <2>8, <2>9, <2>10, <2>11, PollerStepKeeps
<1> QED
  BY <1>1, <1>2, <1>3

(* As many targets as the run has, all of them the run's: every one. *)
LEMMA reconcileRunKeeps ==
  ASSUME ActiveInv, NEW p \in ActivePollers, reconcileRun(p) PROVE ActiveInv'
<1> DEFINE s == pollers[p]
           lifecycle == s.engine \in {"success", "partial_success"}
<1>1. /\ s.pc = "close" /\ GiveUp(p) /\ UNCHANGED <<activeJob, activeFacts>>
      /\ \/ UNCHANGED activeRun
         \/ /\ s.engine = "success" => PulledEverything(s)
            /\ recordRunStatusWithLifecycle(s.engine, Cardinality(s.facts), lifecycle)
  BY DEF reconcileRun
<1>2. CASE UNCHANGED activeRun
  BY <1>1, <1>2, GiveUpKeeps
<1>3. CASE ~Running /\ ~UNCHANGED activeRun
  BY <1>1, <1>3 DEF recordRunStatusWithLifecycle
<1>4. CASE /\ Running
           /\ s.engine = "success" => PulledEverything(s)
           /\ recordRunStatusWithLifecycle(s.engine, Cardinality(s.facts), lifecycle)
  <2>1. /\ s \in PollerType(RunTargets) /\ PollerFits(s, activeRun.status, activeFacts)
        /\ TotalIsKnown(s, Cardinality(RunTargets))
    BY DEF ActiveInv
  <2>2. s.engine \in ActiveEnds /\ s.facts \subseteq activeFacts /\ s.targets \subseteq RunTargets
        /\ s.facts = AllFacts(s.targets) /\ s.total = Cardinality(RunTargets)
    BY <1>1, <1>4, <2>1 DEF PollerFits, PollerType, TotalIsKnown, Running
  <2>3. IsFiniteSet(RunTargets)
    BY TargetsFinite
  <2>4. s.engine = "success" => activeFacts = AllFacts(RunTargets) /\ Cardinality(s.facts) = Cardinality(activeFacts)
    <3> SUFFICES ASSUME s.engine = "success"
                 PROVE  activeFacts = AllFacts(RunTargets) /\ Cardinality(s.facts) = Cardinality(activeFacts)
      OBVIOUS
    <3>1. Cardinality(s.targets) = Cardinality(RunTargets)
      BY <1>4, <2>2 DEF PulledEverything
    <3>2. s.targets = RunTargets
      BY <2>2, <2>3, <3>1, FS_Subset
    <3>3. activeFacts \subseteq AllFacts(RunTargets)
      BY DEF ActiveInv
    <3>4. s.facts = activeFacts
      BY <2>2, <3>2, <3>3
    <3> QED
      BY <2>2, <3>2, <3>4
  <2>5. /\ pollers' \in [ActivePollers -> PollerType(RunTargets)]
        /\ \A x \in ActivePollers : pollers'[x] \in {pollers[x], IdlePoller}
    <3>1. IdlePoller \in PollerType(RunTargets)
      BY IdleFits, TargetsFinite
    <3>2. pollers \in [ActivePollers -> PollerType(RunTargets)] /\ pollers' = [pollers EXCEPT ![p] = IdlePoller]
      BY <1>1 DEF ActiveInv, GiveUp
    <3> QED
      BY <3>1, <3>2
  <2>6. lifecycle \in BOOLEAN
    OBVIOUS
  <2> HIDE DEF s, lifecycle
  <2> QED
    BY <1>1, <1>4, <2>2, <2>4, <2>5, <2>6, EndKeeps
<1> QED
  BY <1>1, <1>2, <1>3, <1>4

LEMMA PullFailsKeeps ==
  ASSUME ActiveInv, NEW p \in ActivePollers, PullFails(p) PROVE ActiveInv'
BY GiveUpKeeps DEF PullFails

LEMMA DeadlineKeeps ==
  ASSUME ActiveInv, DeadlinePasses PROVE ActiveInv'
BY EngineStepKeeps DEF DeadlinePasses, ActiveInv

LEMMA ActiveStep == ActiveInv /\ [ActiveNext]_activeVars => ActiveInv'
<1> SUFFICES ASSUME ActiveInv, [ActiveNext]_activeVars PROVE ActiveInv'
  OBVIOUS
<1>1. ASSUME NEW p \in ActivePollers, PollerStep(p) PROVE ActiveInv'
  BY <1>1, StatusKeeps, FetchResultPageKeeps, pullKeeps, reconcileRunKeeps DEF PollerStep
<1>2. CASE UNCHANGED activeVars
  BY <1>2, EngineStepKeeps DEF activeVars, ActiveInv
<1> QED
  BY <1>1, <1>2, DispatchActiveKeeps, DeadlineKeeps, TargetFinishesKeeps, JobMovesKeeps, ListedAnewKeeps,
     PullFailsKeeps DEF ActiveNext, ActiveMoves

(* The run, its job and its pollers keep their types, a run's misses are   *)
(* counted at most once, and no poller asks for a page or holds a target   *)
(* the run does not have (pullActiveRunResults).                           *)
THEOREM ActiveTypeCorrect == ActiveSpec => []ActiveTypeOK
<1>1. ActiveInv => ActiveTypeOK
  BY DEF ActiveInv, ActiveRunFits, ActiveTypeOK, PollerType, ActiveEnds
<1> QED
  BY <1>1, ActiveInitFits, ActiveStep, PTL DEF ActiveSpec

(* For every set of targets, page size, batch limit and number of pollers, *)
(* however the engine lists and relists its results: a run closed as a     *)
(* success has the facts of every target it was dispatched for, no others, *)
(* and counts each once (reconcileRun, pullActiveRunResults).              *)
THEOREM SuccessIsComplete == ActiveSpec => []ActiveSuccessIsComplete
<1>1. ActiveInv => ActiveSuccessIsComplete
  BY DEF ActiveInv
<1> QED
  BY <1>1, ActiveInitFits, ActiveStep, PTL DEF ActiveSpec

-----------------------------------------------------------------------------
(* Assets.                                                                 *)

Table == [AssetKeys -> AssetRow \cup {NoAsset}]

LEMMA NoAssetIsNone ==
  /\ NoAsset.status = "absent" /\ NoAsset \notin AssetRow
  /\ \A row \in AssetRow : row # NoAsset /\ row.status \in AssetStatuses
<1>1. NoAsset.status = "absent"
  BY DEF NoAsset
<1>2. \A row \in AssetRow : row.status \in AssetStatuses
  BY DEF AssetRow
<1>3. "absent" \notin AssetStatuses
  BY DEF AssetStatuses
<1> QED
  BY <1>1, <1>2, <1>3

(* What a row of an import leaves: rows that were there keep their status  *)
(* and their misses, and the only new one is its own.                      *)
Grown(before, after, fresh) ==
  /\ after \in Table
  /\ \A k \in AssetKeys :
       /\ before[k] # NoAsset => /\ after[k] # NoAsset /\ after[k].status = before[k].status
                                 /\ after[k].miss = before[k].miss
       /\ before[k] = NoAsset => (after[k] # NoAsset <=> k \in fresh)
       /\ before[k] = NoAsset /\ after[k] # NoAsset => after[k].miss = 0

RowKey(in) == IF IsImportable(in) THEN {in.key} ELSE {}

LEMMA UpsertGrows ==
  ASSUME NEW tab \in Table, NEW key \in AssetKeys, NEW p, p.key = key, p.status \in AssetStatuses,
         p.owner \in AssetUsers \cup {NoOwner}, p.source \in Sources, p.confidence \in 0..MaxConfidence,
         p.at \in 0..MaxTime
  PROVE  Grown(tab, UpsertAsset(tab, p), {key})
<1> DEFINE row == tab[key]
           fresh == [status |-> p.status, miss |-> 0, owner |-> p.owner, source |-> p.source,
                     confidence |-> p.confidence, lastSeen |-> p.at]
           old == [row EXCEPT !.lastSeen = p.at,
                              !.source = IF row.source \in {"", "discovery"} THEN p.source ELSE row.source,
                              !.confidence = IF row.confidence > p.confidence THEN row.confidence ELSE p.confidence]
           new == IF row = NoAsset THEN fresh ELSE old
<1>1. UpsertAsset(tab, p) = [tab EXCEPT ![key] = new]
  BY DEF UpsertAsset
<1>2. fresh \in AssetRow /\ fresh.miss = 0
  BY DEF AssetRow
<1>3. ASSUME row # NoAsset PROVE old \in AssetRow /\ old.status = row.status /\ old.miss = row.miss
  <2>1. row \in AssetRow
    BY <1>3 DEF Table
  <2> HIDE DEF row
  <2> QED
    BY <2>1 DEF AssetRow
<1> HIDE DEF fresh, old
<1>4. /\ new \in AssetRow /\ new # NoAsset
      /\ row = NoAsset => new.miss = 0
      /\ row # NoAsset => new.status = row.status /\ new.miss = row.miss
  BY <1>2, <1>3, NoAssetIsNone
<1> HIDE DEF new
<1>5. UpsertAsset(tab, p) \in Table
  BY <1>1, <1>4 DEF Table
<1>6. ASSUME NEW k \in AssetKeys PROVE UpsertAsset(tab, p)[k] = IF k = key THEN new ELSE tab[k]
  BY <1>1 DEF Table
<1> HIDE DEF row
<1> QED
  BY <1>4, <1>5, <1>6 DEF Grown, row

LEMMA ImportGrows ==
  ASSUME NEW tab \in Table, NEW in \in ImportInput PROVE Grown(tab, importWith(tab, in), RowKey(in))
<1>1. CASE IsImportable(in)
  <2> DEFINE p == [in EXCEPT !.status = IF in.status = "" THEN "active" ELSE in.status,
                             !.confidence = IF in.confidence > MaxConfidence THEN MaxConfidence ELSE in.confidence]
  <2>1. /\ p.key = in.key /\ p.status \in AssetStatuses /\ p.owner \in AssetUsers \cup {NoOwner}
        /\ p.source \in Sources /\ p.confidence \in 0..MaxConfidence /\ p.at \in 0..MaxTime
        /\ in.key \in AssetKeys
    <3>1. in.status \in AssetStatuses \cup {""}
      BY <1>1 DEF IsImportable, validateRowFields
    <3>2. "active" \in AssetStatuses /\ MaxConfidence \in Nat
      BY AssetsAssumption DEF AssetStatuses
    <3>3. /\ in.key \in AssetKeys /\ in.owner \in AssetUsers \cup {NoOwner} /\ in.source \in Sources
          /\ in.confidence \in 0..(MaxConfidence + 1) /\ in.at \in 0..MaxTime
      BY DEF ImportInput
    <3>4. /\ p.key = in.key /\ p.owner = in.owner /\ p.source = in.source /\ p.at = in.at
          /\ p.status = (IF in.status = "" THEN "active" ELSE in.status)
          /\ p.confidence = (IF in.confidence > MaxConfidence THEN MaxConfidence ELSE in.confidence)
      BY DEF ImportInput
    <3> HIDE DEF p
    <3>5. p.status \in AssetStatuses
      BY <3>1, <3>2, <3>4
    <3>6. p.confidence \in 0..MaxConfidence
      <4>1. in.confidence \in Nat /\ MaxConfidence \in Nat
        BY <3>2, <3>3
      <4> DEFINE x == in.confidence
                 y == p.confidence
      <4>5. y = IF x > MaxConfidence THEN MaxConfidence ELSE x
        BY <3>4
      <4>6. x \in Nat
        BY <4>1
      <4> HIDE DEF x, y
      <4>7. y \in 0..MaxConfidence
        BY <4>1, <4>5, <4>6
      <4> QED
        BY <4>7 DEF y
    <3> QED
      BY <3>3, <3>4, <3>5, <3>6
  <2>2. importWith(tab, in) = UpsertAsset(tab, p) /\ RowKey(in) = {in.key}
    BY <1>1 DEF importWith, RowKey
  <2> HIDE DEF p
  <2> QED
    BY <2>1, <2>2, UpsertGrows
<1>2. CASE ~IsImportable(in)
  BY <1>2 DEF importWith, RowKey, Grown
<1> QED
  BY <1>1, <1>2

LEMMA GrowsOn ==
  ASSUME NEW a, NEW b, NEW c, NEW S, NEW T, Grown(a, b, S), Grown(b, c, T) PROVE Grown(a, c, S \cup T)
BY DEF Grown

(* The import of a batch, row by row.                                      *)

AfterRows(tab, rows, f, n) ==
  f = [i \in 0..n |-> IF i = 0 THEN tab ELSE importWith(f[i - 1], rows[i])]

LEMMA AfterExists ==
  ASSUME NEW tab, NEW rows, NEW n \in Nat PROVE \E f : AfterRows(tab, rows, f, n)
<1> DEFINE S == {m \in Nat : ~\E f : AfterRows(tab, rows, f, m)}
<1> SUFFICES ASSUME S # {} PROVE FALSE
  OBVIOUS
<1>1. PICK m \in S : \A y \in S : m <= y
  BY LeastNat
<1>2. CASE m = 0
  <2> DEFINE f == [i \in 0..0 |-> tab]
  <2>1. \A i \in 0..0 : i = 0
    OBVIOUS
  <2>2. AfterRows(tab, rows, f, 0)
    BY <2>1 DEF AfterRows
  <2> QED
    BY <1>1, <1>2, <2>2
<1>3. CASE m # 0
  <2>1. m - 1 \in Nat /\ m - 1 \notin S
    BY <1>1, <1>3
  <2>2. PICK f : AfterRows(tab, rows, f, m - 1)
    BY <2>1
  <2> DEFINE g == [i \in 0..m |-> IF i = m THEN importWith(f[m - 1], rows[m]) ELSE f[i]]
  <2>3. \A i \in 0..m : g[i] = IF i = 0 THEN tab ELSE importWith(g[i - 1], rows[i])
    <3> SUFFICES ASSUME NEW i \in 0..m PROVE g[i] = IF i = 0 THEN tab ELSE importWith(g[i - 1], rows[i])
      OBVIOUS
    <3>1. CASE i = 0
      BY <1>3, <2>1, <2>2, <3>1 DEF AfterRows
    <3>2. CASE i # 0 /\ i = m
      BY <1>3, <2>1, <3>2
    <3>3. CASE i # 0 /\ i # m
      <4>1. i \in 0..(m-1) /\ i - 1 \in 0..m /\ i - 1 # m
        BY <1>1, <3>3
      <4> QED
        BY <2>2, <3>3, <4>1 DEF AfterRows
    <3> QED
      BY <3>1, <3>2, <3>3
  <2>4. AfterRows(tab, rows, g, m)
    BY <2>3 DEF AfterRows
  <2> QED
    BY <1>1, <2>4
<1> QED
  BY <1>2, <1>3

KeysOf(rows, n) == {rows[i].key : i \in {j \in 1..n : IsImportable(rows[j])}}

LEMMA AfterGrows ==
  ASSUME NEW tab \in Table, NEW rows \in Seq(ImportInput), NEW f, AfterRows(tab, rows, f, Len(rows))
  PROVE  Grown(tab, f[Len(rows)], KeysOf(rows, Len(rows)))
<1> DEFINE n == Len(rows)
           S == {m \in 0..n : ~Grown(tab, f[m], KeysOf(rows, m))}
<1>1. n \in Nat /\ \A i \in 1..n : rows[i] \in ImportInput
  OBVIOUS
<1>2. \A i \in 0..n : f[i] = IF i = 0 THEN tab ELSE importWith(f[i - 1], rows[i])
  BY DEF AfterRows
<1> HIDE DEF n
<1>3. S = {}
  <2> SUFFICES ASSUME S # {} PROVE FALSE
    OBVIOUS
  <2>1. PICK m \in S : \A y \in S : m <= y
    <3>1. S \subseteq Nat
      BY <1>1
    <3> HIDE DEF S
    <3> QED
      BY <3>1, LeastNat
  <2>2. CASE m = 0
    <3>1. KeysOf(rows, 0) = {}
      BY DEF KeysOf
    <3>2. Grown(tab, tab, {})
      BY DEF Grown
    <3> QED
      BY <1>1, <1>2, <2>1, <2>2, <3>1, <3>2
  <2>3. CASE m # 0
    <3>1. m \in 1..n /\ m - 1 \in 0..n /\ m - 1 \notin S
      BY <1>1, <2>1, <2>3
    <3>2. Grown(tab, f[m - 1], KeysOf(rows, m - 1))
      BY <3>1
    <3>3. Grown(f[m - 1], importWith(f[m - 1], rows[m]), RowKey(rows[m]))
      BY <1>1, <3>1, <3>2, ImportGrows DEF Grown
    <3>4. KeysOf(rows, m) = KeysOf(rows, m - 1) \cup RowKey(rows[m])
      <4>1. \A x : x \in KeysOf(rows, m) <=> \E i \in 1..m : IsImportable(rows[i]) /\ x = rows[i].key
        BY DEF KeysOf
      <4>2. \A x : x \in KeysOf(rows, m - 1) <=> \E i \in 1..(m - 1) : IsImportable(rows[i]) /\ x = rows[i].key
        BY DEF KeysOf
      <4>3. \A x : x \in RowKey(rows[m]) <=> IsImportable(rows[m]) /\ x = rows[m].key
        BY DEF RowKey
      <4>4. m \in Nat /\ \A i : i \in 1..m <=> i \in 1..(m - 1) \/ i = m
        BY <3>1, <1>1
      <4> QED
        BY <4>1, <4>2, <4>3, <4>4
    <3>5. Grown(tab, f[m], KeysOf(rows, m))
      BY <1>2, <2>3, <3>1, <3>2, <3>3, <3>4, GrowsOn
    <3> QED
      BY <2>1, <3>5
  <2> QED
    BY <2>2, <2>3
<1> QED
  BY <1>1, <1>3 DEF n

LEMMA ImportedGrows ==
  ASSUME NEW tab \in Table, NEW rows \in Seq(ImportInput)
  PROVE  Grown(tab, ImportedRows(tab, rows), KeysOf(rows, Len(rows)))
<1> DEFINE step(f) == [i \in 0..Len(rows) |-> IF i = 0 THEN tab ELSE importWith(f[i - 1], rows[i])]
           after == CHOOSE f : f = step(f)
<1>1. Len(rows) \in Nat
  OBVIOUS
<1>2. \E f : f = step(f)
  <2>1. PICK f : AfterRows(tab, rows, f, Len(rows))
    BY <1>1, AfterExists
  <2>2. f = step(f)
    BY <2>1 DEF AfterRows
  <2> HIDE DEF step
  <2> QED
    BY <2>2
<1>3. ImportedRows(tab, rows) = after[Len(rows)]
  BY DEF ImportedRows
<1> HIDE DEF step
<1>4. after = step(after)
  BY <1>2
<1> HIDE DEF after
<1>5. AfterRows(tab, rows, after, Len(rows))
  BY <1>4 DEF AfterRows, step
<1> QED
  BY <1>3, <1>5, AfterGrows

-----------------------------------------------------------------------------
(* The views.                                                              *)

LEMMA DryRunIsRight ==
  ASSUME asset \in Table, NEW rows \in Seq(ImportInput)
  PROVE  {k \in AssetKeys : ~Known(k) /\ ImportedRows(asset, rows)[k] # NoAsset}
           = {rows[i].key : i \in {j \in DOMAIN rows : DryRun(asset, rows)[j] = "new"}}
<1> DEFINE n == Len(rows)
           New(j) == /\ IsImportable(rows[j]) /\ ~Known(rows[j].key)
                     /\ ~\E h \in 1..(j - 1) : IsImportable(rows[h]) /\ rows[h].key = rows[j].key
           tab == ImportedRows(asset, rows)
<1>1. n \in Nat /\ DOMAIN rows = 1..n /\ \A i \in 1..n : rows[i].key \in AssetKeys
  <2>1. n \in Nat /\ DOMAIN rows = 1..n /\ \A i \in 1..n : rows[i] \in ImportInput
    OBVIOUS
  <2>2. \A x \in ImportInput : x.key \in AssetKeys
    BY DEF ImportInput
  <2> QED
    BY <2>1, <2>2
<1>2. \A j \in DOMAIN rows : DryRun(asset, rows)[j] = "new" <=> New(j)
  BY DEF DryRun, Known, GetAssetByKey
<1>3. \A k \in AssetKeys : ~Known(k) => (tab[k] # NoAsset <=> k \in KeysOf(rows, n))
  BY ImportedGrows DEF Grown, Known
<1> HIDE DEF n, New, tab
<1>4. ASSUME NEW k, ~Known(k), k \in KeysOf(rows, n) PROVE \E j \in DOMAIN rows : New(j) /\ k = rows[j].key
  <2> DEFINE S == {j \in 1..n : IsImportable(rows[j]) /\ rows[j].key = k}
  <2>1. S # {} /\ S \subseteq Nat
    BY <1>1, <1>4 DEF KeysOf
  <2>2. PICK j \in S : \A h \in S : j <= h
    <3> HIDE DEF S
    <3> QED
      BY <2>1, LeastNat
  <2>3. ASSUME NEW h \in 1..(j - 1), IsImportable(rows[h]) /\ rows[h].key = rows[j].key PROVE FALSE
    <3>1. h \in S /\ h < j
      BY <1>1, <2>2, <2>3
    <3> QED
      BY <1>1, <2>2, <3>1
  <2>4. New(j)
    BY <1>4, <2>2, <2>3 DEF New
  <2> QED
    BY <1>1, <2>2, <2>4
<1>5. ASSUME NEW j \in DOMAIN rows, New(j) PROVE ~Known(rows[j].key) /\ rows[j].key \in KeysOf(rows, n) /\ rows[j].key \in AssetKeys
  BY <1>1, <1>5 DEF New, KeysOf
<1>6. KeysOf(rows, n) \subseteq AssetKeys
  BY <1>1 DEF KeysOf
<1>7. \A k : k \in {x \in AssetKeys : ~Known(x) /\ tab[x] # NoAsset} <=> \E j \in DOMAIN rows : New(j) /\ k = rows[j].key
  BY <1>3, <1>4, <1>5, <1>6
<1>8. \A k : k \in {rows[i].key : i \in {j \in DOMAIN rows : DryRun(asset, rows)[j] = "new"}}
               <=> \E j \in DOMAIN rows : New(j) /\ k = rows[j].key
  BY <1>2
<1> QED
  BY <1>7, <1>8 DEF tab

EdgesEnd == \A e \in relation : Known(e[1]) /\ Known(e[3])

LEMMA BatchesHoldRows == Batches \subseteq Seq(ImportInput)
<1> SUFFICES ASSUME NEW rows \in Batches PROVE rows \in Seq(ImportInput)
  OBVIOUS
<1>1. ASSUME NEW x \in ImportInput PROVE <<x>> \in Seq(ImportInput)
  OBVIOUS
<1>2. ASSUME NEW x \in ImportInput, NEW y \in ImportInput PROVE <<x, y>> \in Seq(ImportInput)
  OBVIOUS
<1>3. (\E x \in ImportRows : rows = <<x>>) \/ (\E x, y \in ImportRows : rows = <<x, y>>)
  BY DEF Batches
<1> QED
  BY <1>1, <1>2, <1>3, ImportAssumption

LEMMA ViewsFollow ==
  ASSUME asset \in Table, EdgesEnd PROVE ViewsAgree
<1>1. Batches \subseteq Seq(ImportInput)
  BY BatchesHoldRows
<1>2. ASSUME NEW k \in AssetKeys, Known(k), NEW g \in Graphs(k)
      PROVE  /\ \A e \in g.edges : {e[1], e[3]} \subseteq g.nodes
             /\ \A x \in g.nodes : Known(x)
             /\ ~g.truncated => g.edges = ListRelationsByAsset(k)
  <2>1. PICK edges \in SUBSET ListRelationsByAsset(k) :
          g = [nodes |-> GraphNodes(k, edges), edges |-> edges, truncated |-> edges # ListRelationsByAsset(k)]
    BY DEF Graphs
  <2>2. edges \subseteq relation
    BY DEF ListRelationsByAsset
  <2>3. g.nodes = GraphNodes(k, edges) /\ g.edges = edges /\ (~g.truncated => edges = ListRelationsByAsset(k))
    BY <2>1
  <2>4. \A e \in edges : {e[1], e[3]} \subseteq GraphNodes(k, edges)
    BY DEF GraphNodes
  <2>5. \A x \in GraphNodes(k, edges) : Known(x)
    BY <1>2, <2>2 DEF GraphNodes, EdgesEnd
  <2> QED
    BY <2>3, <2>4, <2>5
<1> QED
  BY <1>1, <1>2, DryRunIsRight DEF ViewsAgree

-----------------------------------------------------------------------------
(* The tables.                                                             *)

EditFine(row, w) ==
  w # NoPlan => row # NoAsset /\ w.to \in AssetStatuses /\ w.owner \in AssetUsers \cup {NoOwner} /\ w.source \in Sources

PlanFine(row, w) ==
  w # NoPlan => row # NoAsset /\ w.to \in AssetStatuses /\ w.miss \in Nat

(* What a closing means for the misses of one asset, while nobody has      *)
(* written them since it read: a hit leaves none, a miss adds one, and an   *)
(* active asset is given up at the threshold.                              *)
PlanCounts(row, w, hit) ==
  /\ hit => row # NoAsset
  /\ hit /\ w = NoPlan => row.miss = 0
  /\ hit /\ w # NoPlan => w.miss = 0 /\ ~(w.from = "active" /\ w.to = "inactive")
  /\ ~hit /\ w # NoPlan => /\ w.miss = row.miss + 1
                           /\ w.from = "active" /\ w.to = "inactive" => w.miss >= MissThreshold

PlansFit ==
  /\ edit = [k \in AssetKeys |-> edit[k]] /\ \A k \in AssetKeys : EditFine(asset[k], edit[k])
  /\ life = [r \in DiscRuns |-> life[r]]
  /\ \A r \in DiscRuns : life[r] # NoPlan =>
       /\ life[r].hits \subseteq AssetKeys
       /\ \A k \in AssetKeys : PlanFine(asset[k], life[r].rows[k])
       /\ r \notin overtaken => \A k \in AssetKeys : PlanCounts(asset[k], life[r].rows[k], k \in life[r].hits)

(* No row counts more misses than closings in a row have missed the asset. *)
MissesCounted == \A k \in AssetKeys : Known(k) /\ k \notin mixed => asset[k].miss <= streak[k]

JudgedFits ==
  /\ attribution = [k \in AssetKeys |-> attribution[k]] /\ judged = [k \in AssetKeys |-> judged[k]]
  /\ \A k \in AssetKeys : /\ attribution[k].at \in Nat /\ attribution[k].role \in {"none", "cdn_edge", "cdn_served"}
                          /\ judged[k] \subseteq DiscRuns \X Nat
                          /\ judged[k] = {} => attribution[k].at = 0
  /\ AttributionIsLatest

TablesFit ==
  /\ asset \in Table
  /\ relation \subseteq AssetKeys \X RelationTypes \X AssetKeys
  /\ observed \subseteq DiscRuns \X AssetKeys /\ closed \subseteq DiscRuns
  /\ streak \in [AssetKeys -> Nat] /\ overtaken \subseteq DiscRuns /\ mixed \subseteq AssetKeys
  /\ born \in [AssetKeys -> AssetStatuses \cup {"absent"}]
  /\ onRecord \in [AssetKeys -> AssetStatuses \cup {"none"}]

AssetInv == TablesFit /\ PlansFit /\ MissesCounted /\ EdgesEnd /\ JudgedFits /\ StatusOnRecord

LEMMA AssetInitFits == AssetInit => AssetInv
<1> SUFFICES ASSUME AssetInit PROVE AssetInv
  OBVIOUS
<1>1. NoAttribution.at = 0 /\ NoAttribution.role = "none" /\ NoAsset.status = "absent"
  BY DEF NoAttribution, NoAsset
<1>2. TablesFit
  BY DEF AssetInit, TablesFit, Table
<1>3. PlansFit
  BY DEF AssetInit, PlansFit, EditFine
<1>4. MissesCounted /\ EdgesEnd
  BY DEF AssetInit, MissesCounted, EdgesEnd, Known
<1>5. JudgedFits
  BY <1>1 DEF AssetInit, JudgedFits, AttributionIsLatest
<1>6. StatusOnRecord
  BY <1>1 DEF AssetInit, StatusOnRecord
<1> QED
  BY <1>2, <1>3, <1>4, <1>5, <1>6 DEF AssetInv

(* Rows that come in keep what was there and what is planned for it. *)
LEMMA GrowthKeeps ==
  ASSUME AssetInv, NEW S, Grown(asset, asset', S), UNCHANGED <<edit, life, misses>>
  PROVE  /\ asset' \in Table /\ PlansFit' /\ MissesCounted'
         /\ \A k \in AssetKeys : Known(k) => Known(k)' /\ asset'[k].status = asset[k].status
<1>1. asset' \in Table /\ \A k \in AssetKeys : Known(k) => /\ Known(k)' /\ asset'[k].status = asset[k].status
                                                          /\ asset'[k].miss = asset[k].miss
  BY DEF Grown, Known
<1>2. PlansFit'
  <2>1. \A k \in AssetKeys : EditFine(asset'[k], edit'[k])
    BY <1>1 DEF AssetInv, PlansFit, EditFine, Known
  <2>2. ASSUME NEW r \in DiscRuns, life'[r] # NoPlan, NEW k \in AssetKeys
        PROVE  /\ PlanFine(asset'[k], life'[r].rows[k])
               /\ r \notin overtaken' => PlanCounts(asset'[k], life'[r].rows[k], k \in life'[r].hits)
    <3>1. /\ life'[r] = life[r] /\ overtaken' = overtaken /\ PlanFine(asset[k], life[r].rows[k])
          /\ r \notin overtaken => PlanCounts(asset[k], life[r].rows[k], k \in life[r].hits)
      BY <2>2 DEF AssetInv, PlansFit, misses
    <3> QED
      BY <1>1, <3>1 DEF PlanFine, PlanCounts, Known
  <2>3. \A r \in DiscRuns : life'[r] # NoPlan => life'[r].hits \subseteq AssetKeys
    BY DEF AssetInv, PlansFit
  <2> QED
    BY <2>1, <2>2, <2>3 DEF AssetInv, PlansFit
<1>3. MissesCounted'
  <2> SUFFICES ASSUME NEW k \in AssetKeys, Known(k)', k \notin mixed' PROVE asset'[k].miss <= streak'[k]
    BY DEF MissesCounted
  <2>1. CASE Known(k)
    BY <1>1, <2>1 DEF AssetInv, MissesCounted, misses
  <2>2. CASE ~Known(k)
    <3>1. asset'[k].miss = 0
      BY <2>2 DEF Grown, Known
    <3> QED
      BY <3>1 DEF AssetInv, TablesFit, misses
  <2> QED
    BY <2>1, <2>2
<1> QED
  BY <1>1, <1>2, <1>3

LEMMA importKeeps ==
  ASSUME AssetInv, NEW rows \in Seq(ImportInput), ImportBatch(rows) PROVE AssetInv'
<1> DEFINE tab == ImportedRows(asset, rows)
           done == {rows[i].key : i \in {j \in DOMAIN rows : IsImportable(rows[j])}}
<1>1. /\ asset' = tab
      /\ relation' = relation \cup {e \in AssetKeys \X {"contains"} \X done : e[1] \in FindProjectRootDomainAsset(tab, e[3])}
      /\ born' = [k \in AssetKeys |-> IF Known(k) THEN born[k] ELSE tab[k].status]
      /\ UNCHANGED <<attribution, observed, closed, life, edit, misses, judged, onRecord>>
  BY DEF ImportBatch
<1>2. asset \in Table /\ DOMAIN rows = 1..Len(rows) /\ \A i \in DOMAIN rows : rows[i] \in ImportInput
  BY DEF AssetInv, TablesFit
<1>3. Grown(asset, tab, KeysOf(rows, Len(rows))) /\ done = KeysOf(rows, Len(rows))
  BY <1>2, ImportedGrows DEF KeysOf
<1>4. done \subseteq AssetKeys
  <2>1. \A x \in ImportInput : x.key \in AssetKeys
    BY DEF ImportInput
  <2> QED
    BY <1>2, <2>1
<1> HIDE DEF tab, done
<1>5. /\ asset' \in Table /\ PlansFit' /\ MissesCounted'
      /\ \A k \in AssetKeys : Known(k) => Known(k)' /\ asset'[k].status = asset[k].status
  BY <1>1, <1>3, GrowthKeeps
<1>6. \A k \in done : Known(k)'
  BY <1>1, <1>3, <1>4, <1>5 DEF Grown, Known
<1>7. EdgesEnd'
  <2> SUFFICES ASSUME NEW e \in relation' PROVE Known(e[1])' /\ Known(e[3])'
    BY DEF EdgesEnd
  <2>1. CASE e \in relation
    <3>1. e[1] \in AssetKeys /\ e[3] \in AssetKeys /\ Known(e[1]) /\ Known(e[3])
      BY <2>1 DEF AssetInv, TablesFit, EdgesEnd
    <3> QED
      BY <1>5, <3>1
  <2>2. CASE e \in AssetKeys \X {"contains"} \X done /\ e[1] \in FindProjectRootDomainAsset(tab, e[3])
    BY <1>1, <1>6, <2>2, AssetsAssumption DEF FindProjectRootDomainAsset, GetAssetByKey, Known
  <2> QED
    BY <1>1, <2>1, <2>2
<1>8. StatusOnRecord' /\ born' \in [AssetKeys -> AssetStatuses \cup {"absent"}]
  <2>1. \A k \in AssetKeys : asset'[k].status \in AssetStatuses \cup {"absent"}
    BY <1>5, NoAssetIsNone DEF Table
  <2>2. \A k \in AssetKeys : Known(k) => born'[k] = born[k] /\ asset'[k].status = asset[k].status
    BY <1>1, <1>5
  <2>3. \A k \in AssetKeys : ~Known(k) => born'[k] = asset'[k].status /\ onRecord[k] = "none"
    <3>1. "absent" \notin AssetStatuses
      BY DEF AssetStatuses
    <3> QED
      BY <1>1, <3>1, NoAssetIsNone DEF AssetInv, TablesFit, StatusOnRecord, Known
  <2>4. \A k \in AssetKeys : born'[k] \in AssetStatuses \cup {"absent"}
    BY <2>1, <2>2, <2>3 DEF AssetInv, TablesFit
  <2>5. StatusOnRecord'
    BY <1>1, <2>2, <2>3 DEF AssetInv, StatusOnRecord
  <2> QED
    BY <1>1, <2>4, <2>5
<1>9. JudgedFits'
  BY <1>1 DEF AssetInv, JudgedFits, AttributionIsLatest
<1>10. relation' \subseteq AssetKeys \X RelationTypes \X AssetKeys
  BY <1>1, <1>4 DEF AssetInv, TablesFit, RelationTypes
<1> QED
  BY <1>1, <1>5, <1>7, <1>8, <1>9, <1>10 DEF AssetInv, TablesFit, misses

LEMMA createRelationKeeps ==
  ASSUME AssetInv, NEW u, NEW from \in AssetKeys, NEW to \in AssetKeys, NEW type, createRelation(u, from, type, to)
  PROVE  AssetInv'
<1>1. /\ relation' = UpsertRelation(relation, asset, from, type, to)
      /\ UNCHANGED <<asset, attribution, observed, closed, life, edit, streak, overtaken, mixed, judged, born, onRecord>>
  BY DEF createRelation, misses
<1>2. relation' = relation \/ (type \in RelationTypes /\ Known(from) /\ Known(to) /\ relation' = relation \cup {<<from, type, to>>})
  BY <1>1 DEF UpsertRelation, UpsertRelationRow, GetAssetByKey, Known
<1>3. relation' \subseteq AssetKeys \X RelationTypes \X AssetKeys /\ EdgesEnd'
  BY <1>1, <1>2 DEF AssetInv, TablesFit, EdgesEnd, Known
<1>4. JudgedFits' /\ StatusOnRecord' /\ MissesCounted'
  BY <1>1 DEF AssetInv, JudgedFits, AttributionIsLatest, StatusOnRecord, MissesCounted, Known
<1>5. PlansFit'
  BY <1>1 DEF AssetInv, PlansFit
<1> QED
  BY <1>1, <1>3, <1>4, <1>5 DEF AssetInv, TablesFit

LEMMA updateReadKeeps ==
  ASSUME AssetInv, NEW u, NEW k \in AssetKeys, NEW fields \in UpdateFields, updateRead(u, k, fields)
  PROVE  AssetInv'
<1> DEFINE w == [to |-> Merged(fields.status, asset[k].status),
                 owner |-> Merged(fields.owner, asset[k].owner),
                 source |-> Merged(fields.source, asset[k].source)]
<1>1. /\ Known(k) /\ edit' = [edit EXCEPT ![k] = w]
      /\ UNCHANGED <<asset, relation, attribution, observed, closed, life, streak, overtaken, mixed, judged, born, onRecord>>
  BY DEF updateRead, misses
<1>2. EditFine(asset[k], w)
  <2>1. asset[k] \in AssetRow
    BY <1>1 DEF AssetInv, TablesFit, Table, Known
  <2>2. w.to \in AssetStatuses /\ w.owner \in AssetUsers \cup {NoOwner} /\ w.source \in Sources
    BY <2>1 DEF AssetRow, UpdateFields, Merged
  <2> HIDE DEF w
  <2> QED
    BY <1>1, <2>2 DEF EditFine, Known
<1> HIDE DEF w
<1>3. edit' = [x \in AssetKeys |-> edit'[x]] /\ \A x \in AssetKeys : EditFine(asset[x], edit'[x])
  BY <1>1, <1>2 DEF AssetInv, PlansFit
<1>4. PlansFit'
  BY <1>1, <1>3 DEF AssetInv, PlansFit
<1>5. JudgedFits' /\ StatusOnRecord' /\ MissesCounted' /\ EdgesEnd'
  BY <1>1 DEF AssetInv, JudgedFits, AttributionIsLatest, StatusOnRecord, MissesCounted, EdgesEnd, Known
<1> QED
  BY <1>1, <1>4, <1>5 DEF AssetInv, TablesFit

LEMMA UpdateKeeps ==
  ASSUME AssetInv, NEW k \in AssetKeys, Update(k) PROVE AssetInv'
<1> DEFINE w == edit[k]
           row == [asset[k] EXCEPT !.status = w.to, !.owner = w.owner, !.source = w.source]
<1>1. /\ w # NoPlan /\ asset' = [asset EXCEPT ![k] = row]
      /\ onRecord' = [onRecord EXCEPT ![k] = w.to] /\ edit' = [edit EXCEPT ![k] = NoPlan]
      /\ UNCHANGED <<relation, attribution, observed, closed, life, streak, overtaken, mixed, judged, born>>
  BY DEF Update, UpdateAssetFields, misses
<1>2. /\ Known(k) /\ asset[k] \in AssetRow
      /\ w.to \in AssetStatuses /\ w.owner \in AssetUsers \cup {NoOwner} /\ w.source \in Sources
  BY <1>1 DEF AssetInv, PlansFit, EditFine, TablesFit, Table, Known
<1> HIDE DEF w
<1>3. row \in AssetRow /\ row.status = w.to /\ row.miss = asset[k].miss
  BY <1>2 DEF AssetRow
<1> HIDE DEF row
<1>4. /\ asset' \in Table
      /\ \A x \in AssetKeys : asset'[x] = IF x = k THEN row ELSE asset[x]
  BY <1>1, <1>3 DEF AssetInv, TablesFit, Table
<1>5. \A x \in AssetKeys : (Known(x)' <=> Known(x)) /\ (Known(x) => asset'[x].miss = asset[x].miss)
  BY <1>2, <1>3, <1>4, NoAssetIsNone DEF Known
<1>6. PlansFit'
  <2>1. edit' = [x \in AssetKeys |-> edit'[x]] /\ \A x \in AssetKeys : edit'[x] = NoPlan \/ edit'[x] = edit[x]
    BY <1>1 DEF AssetInv, PlansFit
  <2>2. \A x \in AssetKeys : EditFine(asset'[x], edit'[x])
    BY <1>5, <2>1 DEF AssetInv, PlansFit, EditFine, Known
  <2>3. ASSUME NEW r \in DiscRuns, life'[r] # NoPlan, NEW x \in AssetKeys
        PROVE  /\ PlanFine(asset'[x], life'[r].rows[x])
               /\ r \notin overtaken' => PlanCounts(asset'[x], life'[r].rows[x], x \in life'[r].hits)
    <3>1. /\ PlanFine(asset[x], life[r].rows[x])
          /\ r \notin overtaken => PlanCounts(asset[x], life[r].rows[x], x \in life[r].hits)
      BY <1>1, <2>3 DEF AssetInv, PlansFit
    <3> QED
      BY <1>1, <1>5, <3>1 DEF PlanFine, PlanCounts, Known
  <2>4. \A r \in DiscRuns : life'[r] # NoPlan => life'[r].hits \subseteq AssetKeys
    BY <1>1 DEF AssetInv, PlansFit
  <2> QED
    BY <1>1, <2>1, <2>2, <2>3, <2>4 DEF AssetInv, PlansFit
<1>7. MissesCounted'
  BY <1>1, <1>5 DEF AssetInv, MissesCounted
<1>8. EdgesEnd'
  <2>1. \A e \in relation : e[1] \in AssetKeys /\ e[3] \in AssetKeys
    BY DEF AssetInv, TablesFit
  <2> QED
    BY <1>1, <1>5, <2>1 DEF AssetInv, EdgesEnd
<1>9. StatusOnRecord' /\ onRecord' \in [AssetKeys -> AssetStatuses \cup {"none"}]
  <2>1. "none" \notin AssetStatuses
    BY DEF AssetStatuses
  <2> QED
    BY <1>1, <1>2, <1>3, <1>4, <2>1 DEF AssetInv, TablesFit, StatusOnRecord
<1>10. JudgedFits'
  BY <1>1 DEF AssetInv, JudgedFits, AttributionIsLatest
<1> QED
  BY <1>1, <1>4, <1>6, <1>7, <1>8, <1>9, <1>10 DEF AssetInv, TablesFit

(* The newest identification wins, whenever it comes in. *)
LEMMA JudgedStays ==
  ASSUME JudgedFits, NEW r \in DiscRuns, NEW f \in AssetFact,
         attribution' = upsertNetworkAttribution(attribution, r, f),
         judged' = [judged EXCEPT ![f.key] =
                      IF attributionRole(f) = "none" THEN judged[f.key] ELSE judged[f.key] \cup {<<r, f.at>>}]
  PROVE  JudgedFits'
<1> DEFINE k == f.key
           new == [role |-> attributionRole(f), run |-> r, at |-> f.at]
<1>1. k \in AssetKeys /\ f.at \in Nat /\ f.at >= 1
  BY AssetsAssumption DEF AssetFact
<1>2. attributionRole(f) \in {"none", "cdn_edge", "cdn_served"}
  BY DEF attributionRole
<1>3. new.run = r /\ new.at = f.at /\ new.role = attributionRole(f)
  OBVIOUS
<1> HIDE DEF k, new
<1>4. CASE attributionRole(f) = "none"
  <2>1. attribution' = attribution /\ judged' = judged
    BY <1>4 DEF upsertNetworkAttribution, JudgedFits
  <2> QED
    BY <2>1 DEF JudgedFits, AttributionIsLatest
<1>5. CASE attributionRole(f) # "none"
  <2>1. judged' = [judged EXCEPT ![k] = judged[k] \cup {<<r, f.at>>}]
    BY <1>5 DEF k
  <2>2. /\ judged' = [x \in AssetKeys |-> judged'[x]]
        /\ \A x \in AssetKeys : judged'[x] = IF x = k THEN judged[k] \cup {<<r, f.at>>} ELSE judged[x]
    BY <2>1 DEF JudgedFits
  <2>3. CASE f.at < attribution[k].at
    <3>1. attribution' = attribution
      BY <2>3 DEF upsertNetworkAttribution, k
    <3>2. judged[k] # {}
      BY <1>1, <2>3 DEF JudgedFits
    <3>3. \A x \in AssetKeys : judged'[x] # {} =>
            /\ <<attribution[x].run, attribution[x].at>> \in judged'[x]
            /\ \A j \in judged'[x] : j[2] <= attribution[x].at
      <4> SUFFICES ASSUME NEW x \in AssetKeys, judged'[x] # {}
                   PROVE  /\ <<attribution[x].run, attribution[x].at>> \in judged'[x]
                          /\ \A j \in judged'[x] : j[2] <= attribution[x].at
        OBVIOUS
      <4>1. CASE x = k
        <5>1. judged'[x] = judged[k] \cup {<<r, f.at>>}
          BY <2>2, <4>1
        <5>2. /\ <<attribution[k].run, attribution[k].at>> \in judged[k]
              /\ \A j \in judged[k] : j[2] <= attribution[k].at
              /\ attribution[k].at \in Nat
          BY <1>1, <3>2 DEF JudgedFits, AttributionIsLatest
        <5>3. ASSUME NEW j \in judged'[x] PROVE j[2] <= attribution[k].at
          <6>1. CASE j \in judged[k]
            BY <5>2, <6>1
          <6>2. CASE j = <<r, f.at>>
            <7>1. j[2] = f.at
              BY <6>2
            <7> QED
              BY <1>1, <2>3, <5>2, <7>1
          <6> QED
            BY <5>1, <6>1, <6>2
        <5> QED
          BY <4>1, <5>1, <5>2, <5>3
      <4>2. CASE x # k
        <5>1. judged'[x] = judged[x]
          BY <2>2, <4>2
        <5> QED
          BY <5>1 DEF JudgedFits, AttributionIsLatest
      <4> QED
        BY <4>1, <4>2
    <3>4. ASSUME NEW x \in AssetKeys
          PROVE  /\ attribution[x].at \in Nat /\ attribution[x].role \in {"none", "cdn_edge", "cdn_served"}
                 /\ judged'[x] \subseteq DiscRuns \X Nat /\ (judged'[x] = {} => attribution[x].at = 0)
      <4>1. /\ attribution[x].at \in Nat /\ attribution[x].role \in {"none", "cdn_edge", "cdn_served"}
            /\ judged[x] \subseteq DiscRuns \X Nat /\ (judged[x] = {} => attribution[x].at = 0)
        BY DEF JudgedFits
      <4>2. <<r, f.at>> \in DiscRuns \X Nat
        BY <1>1
      <4>3. judged'[x] = judged[x] \/ judged'[x] = judged[x] \cup {<<r, f.at>>}
        BY <2>2
      <4> QED
        BY <4>1, <4>2, <4>3
    <3> QED
      BY <2>2, <3>1, <3>3, <3>4 DEF JudgedFits, AttributionIsLatest
  <2>4. CASE ~(f.at < attribution[k].at)
    <3>1. attribution' = [attribution EXCEPT ![k] = new]
      BY <1>5, <2>4 DEF upsertNetworkAttribution, k, new
    <3>2. /\ attribution' = [x \in AssetKeys |-> attribution'[x]]
          /\ \A x \in AssetKeys : attribution'[x] = IF x = k THEN new ELSE attribution[x]
      BY <3>1 DEF JudgedFits
    <3>3. ASSUME NEW j \in judged[k] PROVE j[2] <= f.at
      <4>1. judged[k] \subseteq DiscRuns \X Nat /\ attribution[k].at \in Nat /\ j[2] <= attribution[k].at
        BY <1>1 DEF JudgedFits, AttributionIsLatest
      <4>2. j[2] \in Nat
        BY <4>1
      <4> QED
        BY <1>1, <2>4, <4>1, <4>2
    <3>4. \A x \in AssetKeys : judged'[x] # {} =>
            /\ <<attribution'[x].run, attribution'[x].at>> \in judged'[x]
            /\ \A j \in judged'[x] : j[2] <= attribution'[x].at
      <4> SUFFICES ASSUME NEW x \in AssetKeys, judged'[x] # {}
                   PROVE  /\ <<attribution'[x].run, attribution'[x].at>> \in judged'[x]
                          /\ \A j \in judged'[x] : j[2] <= attribution'[x].at
        OBVIOUS
      <4>1. CASE x = k
        <5>1. attribution'[x] = new /\ judged'[x] = judged[k] \cup {<<r, f.at>>}
          BY <2>2, <3>2, <4>1
        <5>2. ASSUME NEW j \in judged'[x] PROVE j[2] <= f.at
          <6>1. CASE j \in judged[k]
            BY <3>3, <6>1
          <6>2. CASE j = <<r, f.at>>
            BY <1>1, <6>2
          <6> QED
            BY <5>1, <6>1, <6>2
        <5> QED
          BY <1>3, <5>1, <5>2
      <4>2. CASE x # k
        <5>1. attribution'[x] = attribution[x] /\ judged'[x] = judged[x]
          BY <2>2, <3>2, <4>2
        <5> QED
          BY <5>1 DEF JudgedFits, AttributionIsLatest
      <4> QED
        BY <4>1, <4>2
    <3>5. \A x \in AssetKeys :
            /\ attribution'[x].at \in Nat /\ attribution'[x].role \in {"none", "cdn_edge", "cdn_served"}
            /\ judged'[x] \subseteq DiscRuns \X Nat /\ (judged'[x] = {} => attribution'[x].at = 0)
      <4> SUFFICES ASSUME NEW x \in AssetKeys
                   PROVE  /\ attribution'[x].at \in Nat /\ attribution'[x].role \in {"none", "cdn_edge", "cdn_served"}
                          /\ judged'[x] \subseteq DiscRuns \X Nat /\ (judged'[x] = {} => attribution'[x].at = 0)
        OBVIOUS
      <4>1. CASE x = k
        <5>1. attribution'[x] = new /\ judged'[x] = judged[k] \cup {<<r, f.at>>}
          BY <2>2, <3>2, <4>1
        <5>2. judged[k] \subseteq DiscRuns \X Nat
          BY <4>1 DEF JudgedFits
        <5>3. <<r, f.at>> \in DiscRuns \X Nat
          BY <1>1
        <5> QED
          BY <1>1, <1>2, <1>3, <5>1, <5>2, <5>3
      <4>2. CASE x # k
        <5>1. attribution'[x] = attribution[x] /\ judged'[x] = judged[x]
          BY <2>2, <3>2, <4>2
        <5> QED
          BY <5>1 DEF JudgedFits
      <4> QED
        BY <4>1, <4>2
    <3> QED
      BY <2>2, <3>2, <3>4, <3>5 DEF JudgedFits, AttributionIsLatest
  <2> QED
    BY <2>3, <2>4
<1> QED
  BY <1>4, <1>5

LEMMA ingestKeeps ==
  ASSUME AssetInv, NEW r \in DiscRuns, NEW f \in AssetFact,
         NEW edges \in SUBSET (AssetKeys \X {"resolves_to"} \X AssetKeys), NEW exposures,
         ingestCallbackFactsWith(r, f, edges, exposures)
  PROVE  AssetInv'
<1> DEFINE k == f.key
           in == [key |-> k, valid |-> TRUE, owner |-> NoOwner, source |-> "discovery", status |-> "active",
                  confidence |-> f.confidence, at |-> f.at]
           tab == importWith(asset, in)
<1>1. /\ \A e \in edges : resolveFactReference({f}, e[1]) /\ resolveFactReference({f}, e[3])
      /\ asset' = tab
      /\ onRecord' = [onRecord EXCEPT ![k] = IF assetMateriallyChanged(asset[k], tab[k]) THEN tab[k].status ELSE onRecord[k]]
      /\ born' = [born EXCEPT ![k] = IF Known(k) THEN born[k] ELSE tab[k].status]
      /\ attribution' = upsertNetworkAttribution(attribution, r, f)
      /\ judged' = [judged EXCEPT ![k] = IF attributionRole(f) = "none" THEN judged[k] ELSE judged[k] \cup {<<r, f.at>>}]
      /\ observed' = observed \cup {<<r, k>>} /\ relation' = relation \cup edges
      /\ UNCHANGED <<closed, life, edit, misses>>
  BY DEF ingestCallbackFactsWith, UpsertDiscoveryObservation
<1>2. /\ k \in AssetKeys /\ f.confidence \in 0..MaxConfidence /\ f.at \in 1..MaxTime
      /\ MaxConfidence \in Nat /\ MaxTime \in Nat
  BY AssetsAssumption DEF AssetFact
<1>3. in \in ImportInput /\ in.key = k /\ IsImportable(in)
  <2>1. "active" \in AssetStatuses /\ "discovery" \in Sources
    BY DEF AssetStatuses, Sources
  <2>2. f.confidence \in 0..(MaxConfidence + 1) /\ f.at \in 0..MaxTime
    BY <1>2
  <2>3. in \in ImportInput
    BY <1>2, <2>1, <2>2 DEF ImportInput
  <2>4. in.key = k /\ in.valid /\ in.status = "active"
    OBVIOUS
  <2> HIDE DEF in
  <2> QED
    BY <2>1, <2>3, <2>4 DEF IsImportable, validateRowFields
<1> HIDE DEF in
<1>4. Grown(asset, tab, {k})
  BY <1>3, ImportGrows DEF AssetInv, TablesFit, RowKey
<1> HIDE DEF tab
<1>5. /\ asset' \in Table /\ PlansFit' /\ MissesCounted'
      /\ \A x \in AssetKeys : Known(x) => Known(x)' /\ asset'[x].status = asset[x].status
  BY <1>1, <1>4, GrowthKeeps
<1>6. Known(k)' /\ \A x \in AssetKeys : x # k /\ ~Known(x) => asset'[x] = asset[x]
  BY <1>1, <1>2, <1>4, <1>5 DEF Grown, Known
<1>7. EdgesEnd'
  <2> SUFFICES ASSUME NEW e \in relation' PROVE Known(e[1])' /\ Known(e[3])'
    BY DEF EdgesEnd
  <2>1. CASE e \in relation
    <3>1. e[1] \in AssetKeys /\ e[3] \in AssetKeys /\ Known(e[1]) /\ Known(e[3])
      BY <2>1 DEF AssetInv, TablesFit, EdgesEnd
    <3> QED
      BY <1>5, <3>1
  <2>2. CASE e \in edges
    <3>1. e[1] \in AssetKeys /\ e[3] \in AssetKeys
      BY <2>2
    <3>2. (e[1] = k \/ Known(e[1])) /\ (e[3] = k \/ Known(e[3]))
      BY <1>1, <2>2 DEF resolveFactReference
    <3> QED
      BY <1>5, <1>6, <3>1, <3>2
  <2> QED
    BY <1>1, <2>1, <2>2
<1>8. /\ StatusOnRecord' /\ onRecord' \in [AssetKeys -> AssetStatuses \cup {"none"}]
      /\ born' \in [AssetKeys -> AssetStatuses \cup {"absent"}]
  <2>1. asset'[k].status \in AssetStatuses /\ "none" \notin AssetStatuses
    <3>1. asset'[k] \in AssetRow
      BY <1>2, <1>5, <1>6 DEF Table, Known
    <3>2. "none" \notin AssetStatuses
      BY DEF AssetStatuses
    <3> QED
      BY <3>1, <3>2, NoAssetIsNone
  <2>2. /\ onRecord' = [x \in AssetKeys |-> onRecord'[x]] /\ born' = [x \in AssetKeys |-> born'[x]]
        /\ \A x \in AssetKeys : x # k => onRecord'[x] = onRecord[x] /\ born'[x] = born[x]
        /\ onRecord'[k] = IF assetMateriallyChanged(asset[k], tab[k]) THEN tab[k].status ELSE onRecord[k]
        /\ born'[k] = IF Known(k) THEN born[k] ELSE tab[k].status
    BY <1>1, <1>2 DEF AssetInv, TablesFit
  <2>3. asset'[k].status = IF onRecord'[k] = "none" THEN born'[k] ELSE onRecord'[k]
    <3>1. CASE assetMateriallyChanged(asset[k], tab[k])
      BY <1>1, <2>1, <2>2, <3>1
    <3>2. CASE ~assetMateriallyChanged(asset[k], tab[k])
      BY <1>1, <1>2, <2>2, <3>2 DEF AssetInv, StatusOnRecord, assetMateriallyChanged, Known
    <3> QED
      BY <3>1, <3>2
  <2>4. ASSUME NEW x \in AssetKeys, x # k
        PROVE  asset'[x].status = IF onRecord'[x] = "none" THEN born'[x] ELSE onRecord'[x]
    BY <1>5, <1>6, <2>2, <2>4 DEF AssetInv, StatusOnRecord
  <2>5. \A x \in AssetKeys : onRecord'[x] \in AssetStatuses \cup {"none"} /\ born'[x] \in AssetStatuses \cup {"absent"}
    BY <1>1, <1>2, <2>1, <2>2 DEF AssetInv, TablesFit
  <2>6. StatusOnRecord'
    BY <2>3, <2>4 DEF StatusOnRecord
  <2> QED
    BY <2>2, <2>5, <2>6
<1>9. JudgedFits'
  BY <1>1, JudgedStays DEF AssetInv
<1>10. relation' \subseteq AssetKeys \X RelationTypes \X AssetKeys /\ observed' \subseteq DiscRuns \X AssetKeys
  BY <1>1, <1>2 DEF AssetInv, TablesFit, RelationTypes
<1> QED
  BY <1>1, <1>5, <1>7, <1>8, <1>9, <1>10 DEF AssetInv, TablesFit, misses

(* Closings.                                                               *)

LEMMA TargetFits ==
  ASSUME NEW row \in AssetRow, NEW hit \in BOOLEAN, NEW success \in BOOLEAN, NEW w,
         LET t == lifecycleTarget(row, hit, success) IN w = IF Unchanged(row, t) THEN NoPlan ELSE t
  PROVE  PlanFine(row, w) /\ PlanCounts(row, w, hit)
<1> DEFINE woken == [from |-> row.status, miss |-> 0, to |-> IF row.status = "inactive" THEN "active" ELSE row.status]
           lost == [from |-> row.status, miss |-> row.miss + 1,
                    to |-> IF row.status = "active" /\ row.miss + 1 >= MissThreshold THEN "inactive" ELSE row.status]
<1>1. /\ row.status \in AssetStatuses /\ row.miss \in Nat /\ {"active", "inactive"} \subseteq AssetStatuses
      /\ row # NoAsset
  BY NoAssetIsNone DEF AssetRow, AssetStatuses
<1>2. /\ woken.to = (IF row.status = "inactive" THEN "active" ELSE row.status)
      /\ woken.miss = 0 /\ woken.from = row.status
      /\ lost.to = (IF row.status = "active" /\ row.miss + 1 >= MissThreshold THEN "inactive" ELSE row.status)
      /\ lost.miss = row.miss + 1 /\ lost.from = row.status
  OBVIOUS
<1>3. woken # NoPlan /\ lost # NoPlan
  <2>1. "none" \notin AssetStatuses /\ NoPlan.to = "none"
    BY DEF AssetStatuses, NoPlan
  <2>2. woken.to \in AssetStatuses /\ lost.to \in AssetStatuses
    BY <1>1, <1>2
  <2> HIDE DEF woken, lost
  <2> QED
    BY <2>1, <2>2
<1>4. lifecycleTarget(row, hit, success) = IF hit THEN woken ELSE IF ~success \/ row.status = "ignored" THEN NoPlan ELSE lost
  BY DEF lifecycleTarget
<1> HIDE DEF woken, lost
<1>5. CASE hit
  <2>1. w = IF woken.to = row.status /\ woken.miss = row.miss THEN NoPlan ELSE woken
    BY <1>3, <1>4, <1>5 DEF Unchanged
  <2>2. CASE woken.to = row.status /\ woken.miss = row.miss
    <3>1. w = NoPlan /\ row.miss = 0
      BY <1>2, <2>1, <2>2
    <3> QED
      BY <1>1, <1>5, <3>1 DEF PlanFine, PlanCounts
  <2>3. CASE ~(woken.to = row.status /\ woken.miss = row.miss)
    <3>1. w = woken
      BY <2>1, <2>3
    <3>2. w # NoPlan /\ w.to \in AssetStatuses /\ w.miss = 0
      BY <1>1, <1>2, <1>3, <3>1
    <3>3. ~(w.from = "active" /\ w.to = "inactive")
      BY <1>2, <3>1
    <3>4. PlanFine(row, w)
      BY <1>1, <3>2 DEF PlanFine
    <3>5. PlanCounts(row, w, hit)
      BY <1>1, <1>5, <3>2, <3>3 DEF PlanCounts
    <3> QED
      BY <3>4, <3>5
  <2> QED
    BY <2>2, <2>3
<1>6. CASE ~hit
  <2>1. w = NoPlan \/ w = lost
    BY <1>4, <1>6
  <2> QED
    BY <1>1, <1>2, <1>6, <2>1 DEF PlanFine, PlanCounts
<1> QED
  BY <1>5, <1>6

LEMMA ApplyKeeps ==
  ASSUME AssetInv, NEW r \in DiscRuns, NEW success \in BOOLEAN, ApplyDiscoveryObservationLifecycle(r, success)
  PROVE  AssetInv'
<1> DEFINE listed == ListDiscoveryLifecycleAssets
           hit(k) == k \in ListCurrentDiscoveryAssetObservationKeys(r)
           t(k) == lifecycleTarget(asset[k], hit(k), success)
           rows == [k \in AssetKeys |-> IF k \notin listed THEN NoPlan
                                        ELSE IF Unchanged(asset[k], t(k)) THEN NoPlan ELSE t(k)]
           hits == ListCurrentDiscoveryAssetObservationKeys(r) \cap listed
           plan == [to |-> "close", hits |-> hits, rows |-> rows]
<1>1. /\ life' = [life EXCEPT ![r] = plan]
      /\ UNCHANGED <<asset, relation, attribution, observed, closed, edit, streak, overtaken, mixed, judged, born, onRecord>>
  BY DEF ApplyDiscoveryObservationLifecycle, misses
<1>2. ASSUME NEW k \in AssetKeys
      PROVE  PlanFine(asset[k], rows[k]) /\ PlanCounts(asset[k], rows[k], k \in hits)
  <2>1. CASE k \notin listed
    BY <2>1 DEF PlanFine, PlanCounts
  <2>2. CASE k \in listed
    <3>1. asset[k] \in AssetRow
      BY <2>2 DEF ListDiscoveryLifecycleAssets, AssetInv, TablesFit, Table, Known
    <3>2. rows[k] = (IF Unchanged(asset[k], t(k)) THEN NoPlan ELSE t(k)) /\ hit(k) \in BOOLEAN /\ (k \in hits <=> hit(k))
      BY <2>2
    <3> HIDE DEF hit, rows, hits
    <3>3. PlanFine(asset[k], rows[k]) /\ PlanCounts(asset[k], rows[k], hit(k))
      BY <3>1, <3>2, TargetFits
    <3> QED
      BY <3>2, <3>3 DEF PlanCounts
  <2> QED
    BY <2>1, <2>2
<1>3. plan.rows = rows /\ plan.hits = hits /\ hits \subseteq AssetKeys
  BY DEF ListDiscoveryLifecycleAssets
<1> HIDE DEF rows, hits, plan, listed
<1>4. life' = [x \in DiscRuns |-> life'[x]] /\ \A x \in DiscRuns : life'[x] = life[x] \/ (life'[x] = plan /\ x = r)
  BY <1>1 DEF AssetInv, PlansFit
<1>5. PlansFit'
  <2>1. ASSUME NEW x \in DiscRuns, life'[x] # NoPlan
        PROVE  /\ life'[x].hits \subseteq AssetKeys
               /\ \A k \in AssetKeys : PlanFine(asset'[k], life'[x].rows[k])
               /\ x \notin overtaken' => \A k \in AssetKeys : PlanCounts(asset'[k], life'[x].rows[k], k \in life'[x].hits)
    <3>1. CASE life'[x] = life[x]
      BY <1>1, <2>1, <3>1 DEF AssetInv, PlansFit
    <3>2. CASE life'[x] = plan
      BY <1>1, <1>2, <1>3, <3>2
    <3> QED
      BY <1>4, <3>1, <3>2
  <2>2. edit' = edit /\ \A k \in AssetKeys : EditFine(asset'[k], edit'[k])
    BY <1>1 DEF AssetInv, PlansFit
  <2>3. edit' = [k \in AssetKeys |-> edit'[k]]
    BY <2>2 DEF AssetInv, PlansFit
  <2> QED
    BY <1>4, <2>1, <2>2, <2>3 DEF PlansFit
<1>6. JudgedFits' /\ StatusOnRecord' /\ MissesCounted' /\ EdgesEnd'
  BY <1>1 DEF AssetInv, JudgedFits, AttributionIsLatest, StatusOnRecord, MissesCounted, EdgesEnd, Known
<1> QED
  BY <1>1, <1>5, <1>6 DEF AssetInv, TablesFit

LEMMA CloseRunKeeps ==
  ASSUME AssetInv, NEW r \in DiscRuns, CloseRun(r) PROVE AssetInv' /\ InactiveAfterMisses
<1> DEFINE t == life[r].rows
           hits == life[r].hits
           counted == {k \in AssetKeys : t[k] # NoPlan} \ hits
<1>1. /\ life[r] # NoPlan
      /\ asset' = [k \in AssetKeys |-> UpdateAssetLifecycle(asset[k], t[k])]
      /\ onRecord' = [k \in AssetKeys |-> IF t[k] = NoPlan THEN onRecord[k] ELSE t[k].to]
      /\ closed' = closed \cup {r} /\ life' = [life EXCEPT ![r] = NoPlan]
      /\ streak' = [k \in AssetKeys |-> IF k \in hits THEN 0 ELSE IF k \in counted THEN streak[k] + 1 ELSE streak[k]]
      /\ mixed' = IF r \in overtaken THEN mixed \cup hits \cup counted ELSE mixed \ hits
      /\ overtaken' = (overtaken \cup {q \in DiscRuns : life[q] # NoPlan}) \ {r}
      /\ UNCHANGED <<relation, attribution, observed, edit, judged, born>>
  BY DEF CloseRun, CountMisses
<1>2. /\ hits \subseteq AssetKeys
      /\ \A k \in AssetKeys : PlanFine(asset[k], t[k]) /\ streak[k] \in Nat
      /\ r \notin overtaken => \A k \in AssetKeys : PlanCounts(asset[k], t[k], k \in hits)
  BY <1>1 DEF AssetInv, PlansFit, TablesFit
<1>3. \A k \in AssetKeys : k \in counted <=> t[k] # NoPlan /\ k \notin hits
  OBVIOUS
<1>4. counted \subseteq AssetKeys
  OBVIOUS
<1> HIDE DEF t, hits, counted
<1>5. ASSUME NEW k \in AssetKeys
      PROVE  /\ asset'[k] \in AssetRow \cup {NoAsset} /\ (asset'[k] # NoAsset <=> asset[k] # NoAsset)
             /\ asset'[k].status = IF onRecord'[k] = "none" THEN born'[k] ELSE onRecord'[k]
             /\ onRecord'[k] \in AssetStatuses \cup {"none"}
             /\ t[k] = NoPlan => asset'[k] = asset[k]
             /\ t[k] # NoPlan => asset'[k].miss = t[k].miss
  <2>1. /\ asset[k] \in AssetRow \cup {NoAsset} /\ onRecord[k] \in AssetStatuses \cup {"none"}
        /\ asset[k].status = IF onRecord[k] = "none" THEN born[k] ELSE onRecord[k]
    BY DEF AssetInv, TablesFit, Table, StatusOnRecord
  <2>2. CASE t[k] = NoPlan
    <3>1. asset'[k] = asset[k] /\ onRecord'[k] = onRecord[k] /\ born' = born
      BY <1>1, <2>2 DEF UpdateAssetLifecycle
    <3> QED
      BY <2>1, <2>2, <3>1
  <2>3. CASE t[k] # NoPlan
    <3> DEFINE row == [asset[k] EXCEPT !.status = t[k].to, !.miss = t[k].miss]
    <3>1. asset'[k] = row /\ onRecord'[k] = t[k].to
      BY <1>1, <2>3 DEF UpdateAssetLifecycle
    <3>2. asset[k] # NoAsset /\ t[k].to \in AssetStatuses /\ t[k].miss \in Nat
      BY <1>2, <2>3 DEF PlanFine
    <3>3. asset[k] \in AssetRow
      BY <2>1, <3>2
    <3>4. row \in AssetRow /\ row.status = t[k].to /\ row.miss = t[k].miss
      BY <3>2, <3>3 DEF AssetRow
    <3>5. "none" \notin AssetStatuses
      BY DEF AssetStatuses
    <3> HIDE DEF row
    <3> QED
      BY <2>3, <3>1, <3>2, <3>4, <3>5, NoAssetIsNone
  <2> QED
    BY <2>2, <2>3
<1>6. asset' \in Table
  BY <1>1, <1>5 DEF Table
<1>7. /\ streak' \in [AssetKeys -> Nat] /\ overtaken' \subseteq DiscRuns /\ mixed' \subseteq AssetKeys
  <2>1. \A k \in AssetKeys : streak[k] + 1 \in Nat
    BY <1>2
  <2> QED
    BY <1>1, <1>2, <1>4, <2>1 DEF AssetInv, TablesFit
<1>8. onRecord' \in [AssetKeys -> AssetStatuses \cup {"none"}] /\ StatusOnRecord'
  <2>1. onRecord' = [k \in AssetKeys |-> onRecord'[k]]
    BY <1>1
  <2> QED
    BY <1>5, <2>1 DEF StatusOnRecord
<1>9. EdgesEnd'
  <2>1. \A e \in relation : e[1] \in AssetKeys /\ e[3] \in AssetKeys
    BY DEF AssetInv, TablesFit
  <2> QED
    BY <1>1, <1>5, <2>1 DEF AssetInv, EdgesEnd, Known
<1>10. MissesCounted'
  <2> SUFFICES ASSUME NEW k \in AssetKeys, Known(k)', k \notin mixed' PROVE asset'[k].miss <= streak'[k]
    BY DEF MissesCounted
  <2>1. Known(k) /\ asset[k] \in AssetRow /\ asset[k].miss \in Nat
    <3>1. Known(k) /\ asset[k] \in AssetRow
      BY <1>5 DEF Known, AssetInv, TablesFit, Table
    <3> QED
      BY <3>1 DEF AssetRow
  <2>2. streak'[k] = IF k \in hits THEN 0 ELSE IF k \in counted THEN streak[k] + 1 ELSE streak[k]
    BY <1>1
  <2>3. CASE k \notin hits /\ k \notin counted
    <3>1. k \notin mixed
      BY <1>1, <2>3
    <3>2. t[k] = NoPlan
      BY <1>3, <2>3
    <3>3. asset'[k] = asset[k] /\ streak'[k] = streak[k]
      BY <1>5, <2>2, <2>3, <3>2
    <3> QED
      BY <2>1, <3>1, <3>3 DEF AssetInv, MissesCounted
  <2>4. CASE k \in hits
    <3>1. r \notin overtaken
      BY <1>1, <2>4
    <3>2. PlanCounts(asset[k], t[k], TRUE)
      BY <1>2, <2>4, <3>1
    <3>3. asset'[k].miss = 0
      BY <1>5, <3>2 DEF PlanCounts
    <3> QED
      BY <2>2, <2>4, <3>3
  <2>5. CASE k \notin hits /\ k \in counted
    <3>1. r \notin overtaken
      BY <1>1, <2>5
    <3>2. k \notin mixed
      BY <1>1, <2>5, <3>1
    <3>3. PlanCounts(asset[k], t[k], k \in hits) /\ t[k] # NoPlan
      BY <1>2, <1>3, <2>5, <3>1
    <3>4. asset'[k].miss = asset[k].miss + 1 /\ streak'[k] = streak[k] + 1
      BY <1>5, <2>2, <2>5, <3>3 DEF PlanCounts
    <3>5. asset[k].miss <= streak[k] /\ streak[k] \in Nat
      BY <1>2, <2>1, <3>2 DEF AssetInv, MissesCounted
    <3> QED
      BY <2>1, <3>4, <3>5
  <2> QED
    BY <2>3, <2>4, <2>5
<1>11. PlansFit'
  <2>1. /\ life' = [x \in DiscRuns |-> life'[x]]
        /\ \A x \in DiscRuns : life'[x] = NoPlan \/ (x # r /\ life'[x] = life[x])
    BY <1>1 DEF AssetInv, PlansFit
  <2>2. ASSUME NEW x \in DiscRuns, life'[x] # NoPlan
        PROVE  /\ x \in overtaken' /\ life'[x].hits \subseteq AssetKeys
               /\ \A k \in AssetKeys : PlanFine(asset'[k], life'[x].rows[k])
    <3>1. x # r /\ life'[x] = life[x]
      BY <2>1, <2>2
    <3>2. x \in overtaken'
      BY <1>1, <2>2, <3>1
    <3>3. life[x].hits \subseteq AssetKeys /\ \A k \in AssetKeys : PlanFine(asset[k], life[x].rows[k])
      BY <2>2, <3>1 DEF AssetInv, PlansFit
    <3> QED
      BY <1>5, <3>1, <3>2, <3>3 DEF PlanFine
  <2>3. \A k \in AssetKeys : EditFine(asset'[k], edit'[k])
    BY <1>1, <1>5 DEF AssetInv, PlansFit, EditFine
  <2>4. edit' = [k \in AssetKeys |-> edit'[k]]
    BY <1>1 DEF AssetInv, PlansFit
  <2> QED
    BY <2>1, <2>2, <2>3, <2>4 DEF PlansFit
<1>12. JudgedFits'
  BY <1>1 DEF AssetInv, JudgedFits, AttributionIsLatest
<1>13. AssetInv'
  BY <1>1, <1>6, <1>7, <1>8, <1>9, <1>10, <1>11, <1>12 DEF AssetInv, TablesFit
<1>14. InactiveAfterMisses
  <2> SUFFICES ASSUME NEW x \in DiscRuns, NEW k \in AssetKeys, x \in closed' \ closed, life[x].rows[k] # NoPlan,
                      life[x].rows[k].from = "active", life[x].rows[k].to = "inactive",
                      x \notin overtaken, k \notin mixed
               PROVE  streak[k] + 1 >= MissThreshold
    BY DEF InactiveAfterMisses
  <2>1. x = r
    BY <1>1
  <2>2. t[k] # NoPlan /\ t[k].from = "active" /\ t[k].to = "inactive" /\ PlanCounts(asset[k], t[k], k \in hits)
    BY <1>2, <2>1 DEF t
  <2>3. t[k].miss = asset[k].miss + 1 /\ t[k].miss >= MissThreshold
    BY <2>2 DEF PlanCounts
  <2>4. Known(k) /\ asset[k] \in AssetRow
    BY <1>2, <2>2 DEF PlanFine, Known, AssetInv, TablesFit, Table
  <2>5. asset[k].miss \in Nat /\ asset[k].miss <= streak[k] /\ streak[k] \in Nat /\ MissThreshold \in Nat
    BY <1>2, <2>4, AssetsAssumption DEF AssetRow, AssetInv, MissesCounted
  <2> QED
    BY <2>3, <2>5
<1> QED
  BY <1>13, <1>14

LEMMA CloseRollbackKeeps ==
  ASSUME AssetInv, NEW r \in DiscRuns, CloseRollback(r) PROVE AssetInv'
<1>1. /\ life' = [life EXCEPT ![r] = NoPlan] /\ overtaken' = overtaken \ {r}
      /\ UNCHANGED <<asset, relation, attribution, observed, closed, edit, streak, mixed, judged, born, onRecord>>
  BY DEF CloseRollback
<1>2. /\ life' = [x \in DiscRuns |-> life'[x]]
      /\ \A x \in DiscRuns : life'[x] = NoPlan \/ (x # r /\ life'[x] = life[x])
  BY <1>1 DEF AssetInv, PlansFit
<1>3. PlansFit'
  <2>1. ASSUME NEW x \in DiscRuns, life'[x] # NoPlan
        PROVE  /\ life'[x].hits \subseteq AssetKeys
               /\ \A k \in AssetKeys : PlanFine(asset'[k], life'[x].rows[k])
               /\ x \notin overtaken' => \A k \in AssetKeys : PlanCounts(asset'[k], life'[x].rows[k], k \in life'[x].hits)
    BY <1>1, <1>2, <2>1 DEF AssetInv, PlansFit
  <2> QED
    BY <1>1, <1>2, <2>1 DEF AssetInv, PlansFit
<1>4. JudgedFits' /\ StatusOnRecord' /\ MissesCounted' /\ EdgesEnd'
  BY <1>1 DEF AssetInv, JudgedFits, AttributionIsLatest, StatusOnRecord, MissesCounted, EdgesEnd, Known
<1> QED
  BY <1>1, <1>3, <1>4 DEF AssetInv, TablesFit

(* Only the commit of a closing gives anything up. *)
LEMMA NoCloseNoLoss == ASSUME closed' = closed PROVE InactiveAfterMisses
BY DEF InactiveAfterMisses

LEMMA AssetStep ==
  ASSUME AssetInv, [AssetNext]_assetVars PROVE AssetInv' /\ [InactiveAfterMisses]_assetVars
<1>1. ASSUME NEW u \in AssetUsers, NEW rows \in Batches, importAssets(u, rows)
      PROVE  AssetInv' /\ InactiveAfterMisses
  <2>1. closed' = closed
    BY <1>1 DEF importAssets, ImportBatch
  <2>2. rows \in Seq(ImportInput)
    BY BatchesHoldRows
  <2>3. AssetInv'
    BY <1>1, <2>2, importKeeps DEF importAssets
  <2> QED
    BY <2>1, <2>3, NoCloseNoLoss
<1>2. ASSUME NEW u \in AssetUsers, NEW from \in AssetKeys, NEW to \in AssetKeys, NEW type \in RelationTypes,
             createRelation(u, from, type, to)
      PROVE  AssetInv' /\ InactiveAfterMisses
  <2>1. closed' = closed
    BY <1>2 DEF createRelation
  <2> QED
    BY <1>2, <2>1, createRelationKeeps, NoCloseNoLoss
<1>3. ASSUME NEW k \in AssetKeys, NEW u \in AssetUsers, NEW f \in UpdateFields, updateRead(u, k, f)
      PROVE  AssetInv' /\ InactiveAfterMisses
  <2>1. closed' = closed
    BY <1>3 DEF updateRead
  <2> QED
    BY <1>3, <2>1, updateReadKeeps, NoCloseNoLoss
<1>4. ASSUME NEW k \in AssetKeys, Update(k) PROVE AssetInv' /\ InactiveAfterMisses
  <2>1. closed' = closed
    BY <1>4 DEF Update
  <2> QED
    BY <1>4, <2>1, UpdateKeeps, NoCloseNoLoss
<1>5. ASSUME NEW r \in DiscRuns, AssetIngest(r) PROVE AssetInv' /\ InactiveAfterMisses
  <2>1. PICK f \in AssetFact, edges \in SUBSET (AssetKeys \X {"resolves_to"} \X AssetKeys),
             exposures \in {{}} \cup {{x} : x \in ExposureFact} :
               ingestCallbackFactsWith(r, f, edges, exposures)
    BY <1>5 DEF AssetIngest
  <2>2. closed' = closed
    BY <2>1 DEF ingestCallbackFactsWith
  <2>3. AssetInv'
    BY <2>1, ingestKeeps
  <2> QED
    BY <2>2, <2>3, NoCloseNoLoss
<1>6. ASSUME NEW r \in DiscRuns, NEW success \in BOOLEAN, ApplyDiscoveryObservationLifecycle(r, success)
      PROVE  AssetInv' /\ InactiveAfterMisses
  <2>1. closed' = closed
    BY <1>6 DEF ApplyDiscoveryObservationLifecycle
  <2> QED
    BY <1>6, <2>1, ApplyKeeps, NoCloseNoLoss
<1>7. ASSUME NEW r \in DiscRuns, CloseRun(r) PROVE AssetInv' /\ InactiveAfterMisses
  BY <1>7, CloseRunKeeps
<1>8. ASSUME NEW r \in DiscRuns, CloseRollback(r) PROVE AssetInv' /\ InactiveAfterMisses
  <2>1. closed' = closed
    BY <1>8 DEF CloseRollback
  <2> QED
    BY <1>8, <2>1, CloseRollbackKeeps, NoCloseNoLoss
<1>9. ASSUME UNCHANGED assetVars PROVE AssetInv'
  BY <1>9 DEF assetVars, misses, AssetInv, TablesFit, PlansFit, MissesCounted, EdgesEnd, JudgedFits, StatusOnRecord,
              AttributionIsLatest, Known
<1> QED
  BY <1>1, <1>2, <1>3, <1>4, <1>5, <1>6, <1>7, <1>8, <1>9
     DEF AssetNext, AssetImport, AssetEdit, AssetClose

LEMMA AssetInvariant == AssetSpec => []AssetInv
<1>1. AssetInit => AssetInv
  BY AssetInitFits
<1>2. AssetInv /\ [AssetNext]_assetVars => AssetInv'
  BY AssetStep
<1> QED
  BY <1>1, <1>2, PTL DEF AssetSpec

(* Every row, edge, observation and event of the asset tables has its type *)
(* in every state, whatever is imported, edited, ingested and closed       *)
(* (importWith, updateWith, ingestCallbackFactsWith, the lifecycle).       *)
THEOREM AssetTypeCorrect == AssetSpec => []AssetTypeOK
<1>1. AssetInv => AssetTypeOK
  BY DEF AssetInv, TablesFit, Table, JudgedFits, AssetTypeOK
<1> QED
  BY <1>1, AssetInvariant, PTL

(* What the tables and the views say agrees with what was done and         *)
(* ingested, for any assets, people, runs and import rows: the newest event *)
(* shows the status of the asset, its attribution is the newest             *)
(* identification (upsertNetworkAttribution), a dry run names exactly the   *)
(* assets the import adds (DryRun), and every edge of a graph ends in nodes *)
(* the graph shows (Graph).                                                *)
THEOREM AssetsAgree == AssetSpec => []AssetRecordAgrees
<1>1. AssetInv => AssetRecordAgrees
  BY ViewsFollow DEF AssetInv, TablesFit, JudgedFits, AssetRecordAgrees
<1> QED
  BY <1>1, AssetInvariant, PTL

(* A closing gives an active asset up only when as many closings in a row  *)
(* as the threshold asks for, itself included, have missed it since one    *)
(* that hit it, whatever edits, imports and failed closings came between   *)
(* its read and its write; closings that overlapped each other, and what   *)
(* they wrote, are excepted (lifecycleTarget, UpdateAssetLifecycle).       *)
THEOREM MissesBeforeInactive == AssetSpec => [][InactiveAfterMisses]_assetVars
<1>1. AssetInv /\ [AssetNext]_assetVars => [InactiveAfterMisses]_assetVars
  BY AssetStep
<1> QED
  BY <1>1, AssetInvariant, PTL DEF AssetSpec

-----------------------------------------------------------------------------
(* An execution of the engine: it reports what can be ingested and calls a *)
(* success only what is whole.                                             *)

ScanPhases == {"start", "next", "collect", "dns", "org", "done", "stopped"}
SourcePhases == {"none", "queued", "slot", "running", "ending", "gone"}
AllOffers == UNION {Offer[s] : s \in ScanSources}
SourceEvents ==
  [source : ScanSources, found : SUBSET AllOffers, sites : {{}} \cup {SitesOf[s] : s \in ScanSources},
   started : BOOLEAN, done : BOOLEAN, err : BOOLEAN]

ScanShape ==
  /\ DOMAIN job = DOMAIN NewScan
  /\ job.pc \in ScanPhases /\ job.at \in 0 .. Len(ScanTargets) /\ job.failed \in BOOLEAN
  /\ IsFiniteSet(job.wanted) /\ IsFiniteSet(job.hosts)
  /\ job.todo \in Seq(job.hosts)
  /\ job.kind = "passive_intel" => Cardinality(job.hosts) <= MaxHosts
  /\ sources \in [ScanSources -> [pc : SourcePhases, left : SUBSET AllOffers, err : BOOLEAN]]
  /\ events \in Seq(SourceEvents) /\ Len(events) <= ChannelSize
  /\ ctxDone \in BOOLEAN

(* Which executor is at work in which phase, and when it has ended. *)
KindFits ==
  /\ job.pc = "start" => job.at = 0
  /\ job.pc \in {"next", "dns"} => job.kind \in {"passive_intel", "dns"}
  /\ job.pc = "collect" => job.kind = "passive_intel" /\ job.at # 0
  /\ job.pc = "dns" => job.at = Len(ScanTargets)
  /\ job.pc = "done" => ~ctxDone /\ (job.kind = "passive_intel" => job.at = Len(ScanTargets))
  /\ job.pc = "org" => job.kind = "org_intel"
  /\ job.status \in {"running", "success", "partial_success"}
  /\ job.status # "running" => job.pc = "done"

(* Sources and events are those of the target being collected. *)
ScanQuiet ==
  job.pc \notin {"collect", "stopped"} =>
    events = <<>> /\ \A s \in ScanSources : sources[s].pc \in {"none", "gone"}

HostsReported ==
  /\ job.kind = "passive_intel" => \A h \in job.hosts : Asset("subdomain", h) \in sent
  /\ job.pc = "collect" =>
       /\ Asset("domain", Root) \in sent
       /\ \A x \in job.seen : Asset("subdomain", x[2]) \in sent

(* A name that was published is reported, over the limit, or still on the  *)
(* channel.                                                                *)
NameSettled(p) ==
  \/ p[2] \in {"", p[1]} \/ ~withinRoot(p[2], p[1]) \/ Asset("subdomain", p[2]) \in sent
  \/ Cardinality(job.hosts) >= MaxHosts

OnChannel(name) == \E i \in 1 .. Len(events) : \E r \in events[i].found : normalizeDomain(r) = name

NamesTaken ==
  job.kind = "passive_intel" /\ job.pc # "stopped" =>
    \A p \in published : NameSettled(p) \/ (job.pc = "collect" /\ p[1] = Root /\ OnChannel(p[2]))

(* Without an error on record, every source asked has answered, is at work *)
(* or has its error on the channel.                                        *)
SourceAwaited(s) ==
  \/ sources[s].pc \in {"queued", "slot", "running", "ending"}
  \/ <<Root, s>> \in answered
  \/ \E i \in 1 .. Len(events) : events[i].done /\ events[i].err

SourcesAnswer ==
  job.kind = "passive_intel" /\ job.pc \notin {"start", "stopped"} /\ ~ctxDone /\ job.errs = {} =>
    /\ requestedProviderSources \subseteq ScanSources
    /\ \A i \in 1 .. job.at : i < job.at \/ job.pc # "collect" =>
         \A s \in requestedProviderSources : <<ScanTargets[i], s>> \in answered
    /\ job.pc = "collect" => \A s \in requestedProviderSources : SourceAwaited(s)

HostsResolved ==
  /\ job.pc = "dns" /\ ~job.failed => job.hosts \subseteq job.resolved \cup ToSet(job.todo)
  /\ job.status = "success" => (job.kind = "passive_intel" => job.errs = {} /\ job.hosts \subseteq job.resolved)

(* While companies are left there is room, so that a company is never cut: *)
(* what refers to it finds it.                                             *)
HasOrg(orgs, name) == \E j \in 1 .. Len(orgs) : orgs[j].name = name

OrgsFit ==
  /\ job.looked \in 0 .. Len(Companies)
  /\ job.orgs \in Seq(ToSet(job.orgs)) /\ Len(job.orgs) <= MaxOrgs
  /\ job.looked < Len(Companies) => Len(job.orgs) < MaxOrgs
  /\ \A i \in 1 .. Len(job.orgs) : job.orgs[i].parent = "" \/ HasOrg(job.orgs, job.orgs[i].parent)
  /\ \A f \in job.filings : HasOrg(job.orgs, f.holder) \/ NamedHolder(HolderOf(f))

(* Only the last batch of an enterprise lookup can leave a holder out. *)
Dangles ==
  /\ job.pc # "done" => dangling = {}
  /\ \A r \in dangling : NamedHolder(r)

ScanInv ==
  /\ ScanShape /\ KindFits /\ ScanQuiet /\ HostsReported /\ NamesTaken /\ SourcesAnswer /\ HostsResolved
  /\ OrgsFit /\ Dangles

Ends(relations) == {r[1] : r \in relations} \cup {r[2] : r \in relations}

LEMMA SeqFacts ==
  ASSUME NEW S, NEW q \in Seq(S)
  PROVE  Len(q) \in Nat /\ DOMAIN q = 1 .. Len(q) /\ \A i \in 1 .. Len(q) : q[i] \in S
  OBVIOUS

LEMMA ExecutorLimits ==
  /\ Len(ScanTargets) \in Nat /\ DOMAIN ScanTargets = 1 .. Len(ScanTargets)
  /\ Len(Companies) \in Nat /\ DOMAIN Companies = 1 .. Len(Companies)
  /\ MaxHosts \in Nat /\ ChannelSize \in Nat
  /\ FlushSize \in Nat \ {0} /\ ChunkSize \in Nat \ {0} /\ MaxOrgs \in Nat \ {0}
<1>1. ScanTargets \in Seq(ToSet(ScanTargets)) /\ Companies \in Seq(ToSet(Companies))
  BY ExecutorAssumption, Zenon
<1>2. {MaxHosts, ChannelSize} \subseteq Nat /\ {FlushSize, ChunkSize, MaxOrgs} \subseteq Nat \ {0}
  BY ExecutorAssumption, Zenon
<1>3. MaxHosts \in Nat /\ ChannelSize \in Nat
      /\ FlushSize \in Nat \ {0} /\ ChunkSize \in Nat \ {0} /\ MaxOrgs \in Nat \ {0}
  BY <1>2
<1>4. Len(ScanTargets) \in Nat /\ DOMAIN ScanTargets = 1 .. Len(ScanTargets)
  BY <1>1, SeqFacts
<1>5. Len(Companies) \in Nat /\ DOMAIN Companies = 1 .. Len(Companies)
  BY <1>1, SeqFacts
<1> QED
  BY <1>3, <1>4, <1>5

LEMMA OrgsKept ==
  ASSUME OrgsFit, job'.looked = job.looked, job'.orgs = job.orgs, job'.filings = job.filings
  PROVE  OrgsFit'
  BY DEF OrgsFit

LEMMA NothingDangles == ASSUME dangling' = {} PROVE Dangles'
  BY DEF Dangles

LEMMA SetToSeqFits ==
  ASSUME NEW S, IsFiniteSet(S)
  PROVE  SetToSeq(S) \in Seq(S) /\ ToSet(SetToSeq(S)) = S
<1> DEFINE n == Cardinality(S)
           q == SetToSeq(S)
<1>1. n \in Nat /\ ExistsBijection(1 .. n, S)
  BY FS_CardinalityType
<1>2. \E f \in [1 .. n -> S] : IsInjective(f)
  BY <1>1 DEF ExistsBijection, Bijection, Injection
<1>3. q \in [1 .. n -> S] /\ IsInjective(q)
  BY <1>2 DEF SetToSeq
<1>4. q \in Injection(1 .. n, S)
  BY <1>3 DEF Injection
<1>5. Cardinality(1 .. n) = n
  BY <1>1, FS_Interval
<1> HIDE DEF n, q
<1>6. q \in Surjection(1 .. n, S)
  BY <1>4, <1>5, FS_Injection DEF n
<1>7. \A x \in S : \E i \in 1 .. n : q[i] = x
  BY <1>6 DEF Surjection
<1>8. ToSet(q) = S
  BY <1>3, <1>7 DEF ToSet
<1>9. q \in Seq(S)
  BY <1>1, <1>3
<1> QED
  BY <1>8, <1>9 DEF q

(* The chunks of a set are sets of its members, and every member is in one. *)
CoveredBy(S, ch) ==
  \E n \in Nat : /\ DOMAIN ch = 1 .. n
                 /\ \A i \in 1 .. n : ch[i] \subseteq S
                 /\ \A x \in S : \E i \in 1 .. n : x \in ch[i]

LEMMA ChunksFit ==
  ASSUME NEW S, IsFiniteSet(S), NEW c \in Nat \ {0}
  PROVE  CoveredBy(S, Chunks(S, c))
<1> DEFINE s == SetToSeq(S)
           n == (Len(s) + c - 1) \div c
           last(i) == IF i * c < Len(s) THEN i * c ELSE Len(s)
           ch == [i \in 1 .. n |-> {s[j] : j \in ((i - 1) * c + 1) .. last(i)}]
<1>1. Chunks(S, c) = ch
  BY DEF Chunks
<1>2. s \in Seq(S) /\ ToSet(s) = S
  BY SetToSeqFits
<1> HIDE DEF s
<1>3. Len(s) \in Nat /\ DOMAIN s = 1 .. Len(s) /\ \A j \in 1 .. Len(s) : s[j] \in S
  BY <1>2
<1>4. n \in Nat /\ n * c >= Len(s)
  BY <1>3
<1> HIDE DEF n
<1>5. ASSUME NEW i \in 1 .. n PROVE ch[i] \subseteq S
  <2>1. i \in Nat /\ i - 1 \in Nat
    BY <1>4
  <2>2. i * c \in Nat /\ (i - 1) * c \in Nat
    BY <2>1
  <2>3. \A j \in ((i - 1) * c + 1) .. last(i) : j \in 1 .. Len(s)
    BY <1>3, <2>2
  <2> QED
    BY <1>3, <2>3
<1>6. ASSUME NEW x \in S PROVE \E i \in 1 .. n : x \in ch[i]
  <2>1. PICK j \in 1 .. Len(s) : s[j] = x
    BY <1>2, <1>3 DEF ToSet
  <2> DEFINE I == {i \in Nat : j <= i * c}
  <2>2. n \in I
    BY <1>3, <1>4, <2>1
  <2>3. I \subseteq Nat /\ I # {}
    BY <2>2
  <2>4. PICK i \in I : \A k \in I : i <= k
    <3> HIDE DEF I
    <3> QED
      BY <2>3, LeastNat
  <2>5. i \in 1 .. n
    <3>1. i # 0
      BY <2>1, <2>4
    <3> QED
      BY <1>4, <2>2, <2>4, <3>1
  <2>6. i - 1 \in Nat /\ i - 1 \notin I
    BY <1>4, <2>4, <2>5
  <2>7. (i - 1) * c \in Nat /\ (i - 1) * c < j
    BY <2>1, <2>6, <1>3
  <2>8. i * c \in Nat /\ j <= i * c
    BY <2>4
  <2>9. j \in ((i - 1) * c + 1) .. last(i)
    BY <1>3, <2>1, <2>7, <2>8
  <2> QED
    BY <2>1, <2>5, <2>9
<1>7. DOMAIN ch = 1 .. n
  OBVIOUS
<1> HIDE DEF ch
<1> QED
  BY <1>1, <1>4, <1>5, <1>6, <1>7 DEF CoveredBy

LEMMA ScanFields ==
  DOMAIN NewScan = {"pc", "kind", "wanted", "at", "hosts", "seen", "errs", "todo", "wild", "failed",
                    "resolved", "looked", "orgs", "filings", "domains", "status"}
  BY DEF NewScan

LEMMA SeqGrows ==
  ASSUME NEW S, NEW T, S \subseteq T, NEW q \in Seq(S) PROVE q \in Seq(T)
  OBVIOUS

LEMMA SeqOfItself ==
  ASSUME NEW S, NEW q \in Seq(S) PROVE q \in Seq(ToSet(q))
<1>1. Len(q) \in Nat /\ DOMAIN q = 1 .. Len(q) /\ q = [i \in 1 .. Len(q) |-> q[i]]
  OBVIOUS
<1>2. \A i \in 1 .. Len(q) : q[i] \in ToSet(q)
  BY <1>1 DEF ToSet
<1> QED
  BY <1>1, <1>2

(* Batches whose relations name what is reported with them or before them  *)
(* leave nothing dangling, whether all of them arrive or the sending ends. *)
LEMMA SendAllGives ==
  ASSUME NEW bs, NEW next, Len(bs) \in Nat, dangling = {},
         \A i \in 1 .. Len(bs) : Ends(bs[i].relations) \subseteq sent \cup Prefix(bs, i),
         SendAll(bs, next)
  PROVE  /\ dangling' = {} /\ sent \subseteq sent'
         /\ \/ ~ctxDone /\ ctxDone' = ctxDone /\ job' = next /\ sent' = sent \cup Prefix(bs, Len(bs))
            \/ job' = [job EXCEPT !.pc = "stopped"] /\ ctxDone' = TRUE
<1>1. ASSUME NEW k \in 0 .. Len(bs) PROVE Unreported(bs, k) = {}
  BY DEF Unreported, Ends
<1>2. Len(bs) \in 0 .. Len(bs) /\ \A k \in 0 .. (Len(bs) - 1) : k \in 0 .. Len(bs)
  OBVIOUS
<1> QED
  BY <1>1, <1>2 DEF SendAll

LEMMA PlainBatch == Batch({}, {}).relations = {} /\ Ends({}) = {}
  BY DEF Batch, Ends

LEMMA StoppedKeeps ==
  ASSUME ScanInv, job.pc # "done", job' = [job EXCEPT !.pc = "stopped"], dangling' = {}, sent \subseteq sent',
         ctxDone' \in BOOLEAN, sources' = sources,
         events' \in Seq(SourceEvents), Len(events') <= ChannelSize
  PROVE  ScanInv'
<1>1. /\ DOMAIN job' = DOMAIN NewScan /\ job'.pc = "stopped" /\ job.status = "running"
      /\ \A f \in {"kind", "wanted", "at", "hosts", "todo", "failed", "orgs", "filings", "looked", "status"} : job'[f] = job[f]
  BY ScanFields DEF ScanInv, ScanShape, KindFits
<1>2. ScanShape'
  BY <1>1 DEF ScanInv, ScanShape, ScanPhases
<1>3. KindFits' /\ ScanQuiet' /\ NamesTaken' /\ SourcesAnswer' /\ HostsResolved'
  BY <1>1 DEF ScanInv, KindFits, ScanQuiet, NamesTaken, SourcesAnswer, HostsResolved
<1>4. HostsReported'
  BY <1>1 DEF ScanInv, HostsReported
<1>5. OrgsFit' /\ Dangles'
  BY <1>1, OrgsKept, NothingDangles DEF ScanInv
<1> QED
  BY <1>2, <1>3, <1>4, <1>5 DEF ScanInv

(* What is settled stays settled while hosts and reports only grow. *)
LEMMA NameStaysSettled ==
  ASSUME ScanInv, sent \subseteq sent', job.hosts \subseteq job'.hosts, IsFiniteSet(job'.hosts),
         NEW p, NameSettled(p)
  PROVE  NameSettled(p)'
<1>1. CASE Cardinality(job.hosts) >= MaxHosts
  <2>1. Cardinality(job.hosts) \in Nat /\ Cardinality(job'.hosts) \in Nat
        /\ Cardinality(job.hosts) <= Cardinality(job'.hosts) /\ MaxHosts \in Nat
    BY FS_Subset, FS_CardinalityType, ExecutorAssumption
  <2>2. Cardinality(job'.hosts) >= MaxHosts
    BY <1>1, <2>1
  <2> QED
    BY <2>2 DEF NameSettled
<1> QED
  BY <1>1 DEF NameSettled

LEMMA SameSources ==
  ASSUME job'.wanted = job.wanted PROVE requestedProviderSources' = requestedProviderSources
  BY DEF requestedProviderSources

LEMMA ScanInitInv == ExecutorInit => ScanInv
<1> SUFFICES ASSUME ExecutorInit PROVE ScanInv
  OBVIOUS
<1>1. PICK k \in ScanKinds, w \in Wanted : job = [NewScan EXCEPT !.kind = k, !.wanted = w]
  BY DEF ExecutorInit
<1>2. /\ sources = [s \in ScanSources |-> NoSource] /\ events = <<>>
      /\ ctxDone = FALSE /\ sent = {} /\ dangling = {} /\ published = {} /\ answered = {}
  BY DEF ExecutorInit
<1>3. /\ DOMAIN job = DOMAIN NewScan /\ job.pc = "start" /\ job.wanted = w /\ job.at = 0 /\ job.hosts = {}
      /\ job.failed = FALSE /\ job.todo = <<>> /\ job.status = "running"
      /\ job.looked = 0 /\ job.orgs = <<>> /\ job.filings = {}
  BY <1>1 DEF NewScan
<1>4. ScanShape
  <2>1. Len(ScanTargets) \in Nat /\ MaxHosts \in Nat /\ ChannelSize \in Nat /\ IsFiniteSet(w)
    <3>1. \A x \in Wanted : IsFiniteSet(x)
      BY ExecutorAssumption, Zenon
    <3> QED
      BY <3>1, ExecutorLimits
  <2>2. IsFiniteSet({}) /\ Cardinality({}) = 0
    BY FS_EmptySet
  <2>3. sources \in [ScanSources -> [pc : SourcePhases, left : SUBSET AllOffers, err : BOOLEAN]]
    BY <1>2 DEF NoSource, SourcePhases
  <2>4. job.at \in 0 .. Len(ScanTargets) /\ Len(events) <= ChannelSize
        /\ events \in Seq(SourceEvents) /\ job.todo \in Seq(job.hosts)
    BY <1>2, <1>3, <2>1
  <2>5. Cardinality(job.hosts) <= MaxHosts
    BY <1>3, <2>1, <2>2
  <2> QED
    BY <1>2, <1>3, <2>1, <2>2, <2>3, <2>4, <2>5 DEF ScanShape, ScanPhases
<1>5. KindFits /\ HostsReported /\ NamesTaken /\ SourcesAnswer /\ HostsResolved
  BY <1>2, <1>3 DEF KindFits, HostsReported, NamesTaken, SourcesAnswer, HostsResolved
<1>6. ScanQuiet
  BY <1>2 DEF ScanQuiet, NoSource
<1>7. OrgsFit
  <2>1. Len(Companies) \in Nat /\ MaxOrgs \in Nat \ {0}
    BY ExecutorLimits
  <2>2. job.orgs \in Seq(ToSet(job.orgs)) /\ Len(job.orgs) = 0
    BY <1>3
  <2> QED
    BY <1>3, <2>1, <2>2 DEF OrgsFit
<1> QED
  BY <1>2, <1>4, <1>5, <1>6, <1>7 DEF ScanInv, Dangles

-----------------------------------------------------------------------------
(* The sources.                                                            *)

LEMMA PublishGives ==
  ASSUME ScanInv, NEW e \in SourceEvents, Publish(e)
  PROVE  /\ events' \in Seq(SourceEvents) /\ Len(events') <= ChannelSize
         /\ \A i \in 1 .. Len(events) : i \in 1 .. Len(events') /\ events'[i] = events[i]
         /\ Len(events') \in 1 .. Len(events') /\ events'[Len(events')] = e
<1>1. events \in Seq(SourceEvents) /\ Len(events) < ChannelSize /\ events' = Append(events, e) /\ ChannelSize \in Nat
  BY ExecutorAssumption DEF ScanInv, ScanShape, Publish
<1> QED
  BY <1>1

(* A source's step leaves the job alone; only while the job collects does  *)
(* it matter what it says.                                                 *)
LEMMA SourceStepKeeps ==
  ASSUME ScanInv, UNCHANGED <<job, ctxDone, sent, dangling>>, NEW s \in ScanSources,
         sources[s].pc \notin {"none", "gone"},
         NEW v \in [pc : SourcePhases, left : SUBSET AllOffers, err : BOOLEAN], SetSource(s, v),
         events' \in Seq(SourceEvents), Len(events') <= ChannelSize, answered \subseteq answered',
         \A i \in 1 .. Len(events) : i \in 1 .. Len(events') /\ events'[i] = events[i],
         \A p \in published' : p \in published \/ (p[1] = Root /\ OnChannel(p[2])'),
         ctxDone \/ SourceAwaited(s)'
  PROVE  ScanInv'
<1>1. job.pc \in {"collect", "stopped"}
  BY DEF ScanInv, ScanQuiet
<1>2. ScanShape'
  <2>1. sources' \in [ScanSources -> [pc : SourcePhases, left : SUBSET AllOffers, err : BOOLEAN]]
    BY DEF ScanInv, ScanShape, SetSource
  <2> QED
    BY <2>1 DEF ScanInv, ScanShape
<1>3. KindFits' /\ ScanQuiet' /\ HostsResolved'
  BY <1>1 DEF ScanInv, KindFits, ScanQuiet, HostsResolved
<1>4. Root' = Root
  BY DEF Root
<1>5. HostsReported'
  BY <1>4 DEF ScanInv, HostsReported
<1>6. \A n : OnChannel(n) => OnChannel(n)'
  BY DEF OnChannel
<1>7. \A p : NameSettled(p) => NameSettled(p)'
  BY DEF NameSettled
<1>8. NamesTaken'
  BY <1>1, <1>4, <1>6, <1>7 DEF ScanInv, NamesTaken
<1>9. SourcesAnswer'
  <2>1. requestedProviderSources' = requestedProviderSources
    BY SameSources
  <2>2. ASSUME NEW x \in ScanSources, x # s, SourceAwaited(x) PROVE SourceAwaited(x)'
    <3>1. sources'[x] = sources[x]
      BY <2>2 DEF SetSource, ScanInv, ScanShape
    <3> QED
      BY <1>4, <2>2, <3>1 DEF SourceAwaited
  <2> QED
    BY <1>4, <2>1, <2>2 DEF ScanInv, SourcesAnswer
<1>10. OrgsFit' /\ Dangles'
  BY OrgsKept DEF ScanInv, Dangles
<1> QED
  BY <1>2, <1>3, <1>5, <1>8, <1>9, <1>10 DEF ScanInv

LEMMA SourceFits ==
  ASSUME ScanInv, NEW s \in ScanSources
  PROVE  /\ sources[s] \in [pc : SourcePhases, left : SUBSET AllOffers, err : BOOLEAN]
         /\ NoEvent(s) \in SourceEvents
         /\ \A v : SetSource(s, v) => sources'[s] = v
         /\ \A i \in 1 .. Len(events) : i \in 1 .. Len(events) /\ events[i] = events[i]
<1>1. sources[s] \in [pc : SourcePhases, left : SUBSET AllOffers, err : BOOLEAN]
  BY DEF ScanInv, ScanShape
<1>2. NoEvent(s) \in SourceEvents
  BY DEF NoEvent, SourceEvents
<1>3. \A v : SetSource(s, v) => sources'[s] = v
  BY DEF SetSource, ScanInv, ScanShape
<1> QED
  BY <1>1, <1>2, <1>3

LEMMA TakeSlotKeeps == ASSUME ScanInv, NEW s \in ScanSources, TakeSlot(s) PROVE ScanInv'
<1> DEFINE v == [sources[s] EXCEPT !.pc = "slot"]
<1>1. v \in [pc : SourcePhases, left : SUBSET AllOffers, err : BOOLEAN] /\ v.pc = "slot"
  BY SourceFits DEF SourcePhases
<1>2. /\ sources[s].pc = "queued" /\ SetSource(s, v)
      /\ UNCHANGED <<job, events, ctxDone, sent, dangling, published, answered>>
  BY DEF TakeSlot
<1> HIDE DEF v
<1>3. SourceAwaited(s)'
  BY <1>1, <1>2, SourceFits DEF SourceAwaited
<1>4. events' \in Seq(SourceEvents) /\ Len(events') <= ChannelSize
  BY <1>2 DEF ScanInv, ScanShape
<1> QED
  BY <1>1, <1>2, <1>3, <1>4, SourceStepKeeps

LEMMA PublishStartKeeps == ASSUME ScanInv, NEW s \in ScanSources, PublishStart(s) PROVE ScanInv'
<1> DEFINE v == [sources[s] EXCEPT !.pc = "running"]
           e == [NoEvent(s) EXCEPT !.started = TRUE]
<1>1. v \in [pc : SourcePhases, left : SUBSET AllOffers, err : BOOLEAN] /\ v.pc = "running"
  BY SourceFits DEF SourcePhases
<1>2. e \in SourceEvents
  BY DEF NoEvent, SourceEvents
<1>3. /\ sources[s].pc = "slot" /\ SetSource(s, v) /\ Publish(e)
      /\ UNCHANGED <<job, ctxDone, sent, dangling, published, answered>>
  BY DEF PublishStart
<1> HIDE DEF v, e
<1>4. SourceAwaited(s)'
  BY <1>1, <1>3, SourceFits DEF SourceAwaited
<1> QED
  BY <1>1, <1>2, <1>3, <1>4, PublishGives, SourceStepKeeps

LEMMA DiscoverKeeps ==
  ASSUME ScanInv, NEW s \in ScanSources, NEW found, Discover(s, found) PROVE ScanInv'
<1> DEFINE stream == s \in StreamSources
           names == {normalizeDomain(r) : r \in found}
           e == [NoEvent(s) EXCEPT !.found = found, !.sites = IF stream THEN {} ELSE SitesOf[s]]
<1>1. /\ sources[s].pc = "running" /\ found \subseteq sources[s].left /\ Publish(e)
      /\ published' = published \cup {<<Root, n>> : n \in names}
      /\ UNCHANGED <<job, ctxDone, sent, dangling, answered>>
  BY DEF Discover
<1>2. PICK err \in BOOLEAN : SetSource(s, IF stream THEN [sources[s] EXCEPT !.left = @ \ found]
                                          ELSE [pc |-> "ending", left |-> {}, err |-> err])
  BY DEF Discover
<1> DEFINE v == IF stream THEN [sources[s] EXCEPT !.left = @ \ found]
                ELSE [pc |-> "ending", left |-> {}, err |-> err]
<1>3. v \in [pc : SourcePhases, left : SUBSET AllOffers, err : BOOLEAN] /\ v.pc \in {"running", "ending"}
  BY <1>1, SourceFits DEF SourcePhases
<1>4. e \in SourceEvents /\ e.found = found
  <2>1. found \in SUBSET AllOffers
    BY <1>1, SourceFits
  <2> QED
    BY <2>1 DEF NoEvent, SourceEvents
<1>5. SetSource(s, v)
  BY <1>2
<1> HIDE DEF v, e
<1>6. SourceAwaited(s)'
  BY <1>3, <1>5, SourceFits DEF SourceAwaited
<1>7. \A p \in published' : p \in published \/ (p[1] = Root /\ OnChannel(p[2])')
  <2>1. /\ Len(events') \in 1 .. Len(events') /\ events'[Len(events')].found = found
    BY <1>1, <1>4, PublishGives
  <2>2. ASSUME NEW n \in names PROVE OnChannel(n)'
    BY <2>1 DEF OnChannel
  <2> QED
    BY <1>1, <2>2
<1> HIDE DEF names, stream
<1>8. /\ events' \in Seq(SourceEvents) /\ Len(events') <= ChannelSize
      /\ \A i \in 1 .. Len(events) : i \in 1 .. Len(events') /\ events'[i] = events[i]
  BY <1>1, <1>4, PublishGives
<1> QED
  BY <1>1, <1>3, <1>5, <1>6, <1>7, <1>8, SourceStepKeeps

LEMMA SearchEndsKeeps ==
  ASSUME ScanInv, NEW s \in ScanSources, NEW err \in BOOLEAN, SearchEnds(s, err) PROVE ScanInv'
<1> DEFINE v == [pc |-> "ending", left |-> {}, err |-> err]
<1>1. v \in [pc : SourcePhases, left : SUBSET AllOffers, err : BOOLEAN] /\ v.pc = "ending"
  BY DEF SourcePhases
<1>2. /\ sources[s].pc = "running" /\ SetSource(s, v)
      /\ UNCHANGED <<job, events, ctxDone, sent, dangling, published, answered>>
  BY DEF SearchEnds
<1> HIDE DEF v
<1>3. SourceAwaited(s)'
  BY <1>1, <1>2, SourceFits DEF SourceAwaited
<1>4. events' \in Seq(SourceEvents) /\ Len(events') <= ChannelSize
  BY <1>2 DEF ScanInv, ScanShape
<1> QED
  BY <1>1, <1>2, <1>3, <1>4, SourceStepKeeps

LEMMA PublishEndKeeps == ASSUME ScanInv, NEW s \in ScanSources, PublishEnd(s) PROVE ScanInv'
<1> DEFINE err == sources[s].err
           v == [NoSource EXCEPT !.pc = "gone"]
           e == [NoEvent(s) EXCEPT !.done = TRUE, !.err = err]
<1>1. v \in [pc : SourcePhases, left : SUBSET AllOffers, err : BOOLEAN]
  BY DEF SourcePhases, NoSource
<1>2. err \in BOOLEAN
  BY SourceFits
<1>3. e \in SourceEvents /\ e.done = TRUE /\ e.err = err
  BY <1>2 DEF NoEvent, SourceEvents
<1>4. /\ sources[s].pc = "ending" /\ SetSource(s, v) /\ Publish(e)
      /\ answered' = IF err THEN answered ELSE answered \cup {<<Root, s>>}
      /\ UNCHANGED <<job, ctxDone, sent, dangling, published>>
  BY DEF PublishEnd
<1> HIDE DEF v, e, err
<1>5. /\ events' \in Seq(SourceEvents) /\ Len(events') <= ChannelSize
      /\ \A i \in 1 .. Len(events) : i \in 1 .. Len(events') /\ events'[i] = events[i]
      /\ Len(events') \in 1 .. Len(events') /\ events'[Len(events')] = e
  BY <1>3, <1>4, PublishGives
<1>6. SourceAwaited(s)'
  <2>1. CASE err
    BY <1>3, <1>5, <2>1 DEF SourceAwaited
  <2>2. CASE ~err
    BY <1>4, <2>2 DEF SourceAwaited, Root
  <2> QED
    BY <2>1, <2>2
<1> QED
  BY <1>1, <1>4, <1>5, <1>6, SourceStepKeeps

LEMMA SourceStopsKeeps == ASSUME ScanInv, NEW s \in ScanSources, SourceStops(s) PROVE ScanInv'
<1> DEFINE v == [NoSource EXCEPT !.pc = "gone"]
<1>1. v \in [pc : SourcePhases, left : SUBSET AllOffers, err : BOOLEAN]
  BY DEF SourcePhases, NoSource
<1>2. /\ ctxDone /\ sources[s].pc \notin {"none", "gone"} /\ SetSource(s, v)
      /\ UNCHANGED <<job, events, ctxDone, sent, dangling, published, answered>>
  BY DEF SourceStops
<1> HIDE DEF v
<1>3. events' \in Seq(SourceEvents) /\ Len(events') <= ChannelSize
  BY <1>2 DEF ScanInv, ScanShape
<1> QED
  BY <1>1, <1>2, <1>3, SourceStepKeeps

-----------------------------------------------------------------------------
(* The executing goroutine, apart from the collector.                      *)

(* Between targets, in DNS and in an enterprise lookup nothing is awaited. *)
LEMMA QuietStepKeeps ==
  ASSUME ScanInv, job.pc \notin {"start", "collect", "stopped"}, job'.pc \notin {"start", "collect", "stopped"},
         UNCHANGED <<sources, events, published, answered, ctxDone>>, sent \subseteq sent',
         job'.kind = job.kind, job'.wanted = job.wanted, job'.hosts = job.hosts, job.errs \subseteq job'.errs,
         job.kind = "passive_intel" => job'.at = job.at
  PROVE  ScanQuiet' /\ HostsReported' /\ NamesTaken' /\ SourcesAnswer'
<1>1. ScanQuiet' /\ HostsReported'
  BY DEF ScanInv, ScanQuiet, HostsReported
<1>2. NamesTaken'
  <2>1. \A p : NameSettled(p) => NameSettled(p)'
    BY NameStaysSettled DEF ScanInv, ScanShape
  <2> QED
    BY <2>1 DEF ScanInv, NamesTaken
<1>3. SourcesAnswer'
  BY SameSources DEF ScanInv, SourcesAnswer
<1> QED
  BY <1>1, <1>2, <1>3

LEMMA SendPlain ==
  ASSUME ScanInv, job.pc # "done", NEW bs, NEW next, Len(bs) \in Nat, \A i \in 1 .. Len(bs) : bs[i].relations = {}, SendAll(bs, next)
  PROVE  /\ dangling' = {} /\ sent \subseteq sent'
         /\ \/ ~ctxDone /\ ctxDone' = ctxDone /\ job' = next /\ sent' = sent \cup Prefix(bs, Len(bs))
            \/ job' = [job EXCEPT !.pc = "stopped"] /\ ctxDone' = TRUE
<1>1. \A i \in 1 .. Len(bs) : Ends(bs[i].relations) \subseteq sent \cup Prefix(bs, i)
  BY PlainBatch
<1> QED
  BY <1>1, SendAllGives DEF ScanInv, Dangles

LEMMA StopsKeep ==
  ASSUME ScanInv, job.pc # "done", job' = [job EXCEPT !.pc = "stopped"], ctxDone' \in BOOLEAN,
         dangling' = {}, sent \subseteq sent', UNCHANGED <<sources, events>>
  PROVE  ScanInv'
  BY StoppedKeeps DEF ScanInv, ScanShape

LEMMA EndingsKeep ==
  ASSUME ScanInv, Route \/ Stop \/ HeartbeatFails PROVE ScanInv'
<1>1. /\ job.pc # "done" /\ job' = [job EXCEPT !.pc = "stopped"] /\ ctxDone' \in {ctxDone, TRUE}
      /\ UNCHANGED <<sources, events, sent, dangling>>
  BY DEF Route, Stop, HeartbeatFails
<1> QED
  BY <1>1, StopsKeep DEF ScanInv, ScanShape, Dangles

LEMMA CancelScanKeeps == ASSUME ScanInv, CancelScan PROVE ScanInv'
<1>1. /\ ctxDone' = TRUE /\ job.pc \notin {"done", "stopped"}
      /\ UNCHANGED <<job, sources, events, sent, dangling, published, answered>>
  BY DEF CancelScan
<1>2. ScanShape' /\ KindFits' /\ ScanQuiet' /\ HostsResolved' /\ SourcesAnswer'
  BY <1>1 DEF ScanInv, ScanShape, KindFits, ScanQuiet, HostsResolved, SourcesAnswer
<1>3. HostsReported' /\ NamesTaken'
  BY <1>1 DEF ScanInv, HostsReported, NamesTaken, NameSettled, OnChannel, Root
<1>4. OrgsFit' /\ Dangles'
  BY <1>1, OrgsKept DEF ScanInv, Dangles
<1> QED
  BY <1>1, <1>2, <1>3, <1>4 DEF ScanInv

LEMMA StartScanKeeps == ASSUME ScanInv, StartScan PROVE ScanInv'
<1> DEFINE missing == IF job.kind = "passive_intel" THEN requestedProviderSources \ ScanSources ELSE {}
           m == Cardinality(missing)
           rest == [i \in 1 .. m |-> Batch({}, {})]
           bs == <<Batch({}, {})>> \o rest
           next == [job EXCEPT !.pc = "next", !.errs = {<<s, "PROVIDER_NOT_CONFIGURED">> : s \in missing}]
<1>1. /\ job.pc = "start" /\ job.kind \in {"passive_intel", "dns"} /\ SendAll(bs, next)
      /\ UNCHANGED <<sources, events, published, answered>>
  BY DEF StartScan
<1>2. IsFiniteSet(missing)
  <2>1. IsFiniteSet(requestedProviderSources)
    <3>1. IsFiniteSet(job.wanted) /\ IsFiniteSet(ScanSources) /\ IsFiniteSet({"engine"})
      BY ExecutorAssumption, FS_Singleton DEF ScanInv, ScanShape
    <3> QED
      BY <3>1 DEF requestedProviderSources
  <2> QED
    BY <2>1, FS_Difference, FS_EmptySet
<1>3. m \in Nat
  BY <1>2, FS_CardinalityType
<1> HIDE DEF m
<1>4. rest \in Seq({Batch({}, {})}) /\ <<Batch({}, {})>> \in Seq({Batch({}, {})})
  BY <1>3
<1> HIDE DEF rest
<1>5. bs \in Seq({Batch({}, {})})
  BY <1>4
<1> HIDE DEF bs
<1>6. Len(bs) \in Nat /\ \A i \in 1 .. Len(bs) : bs[i].relations = {}
  BY <1>5, PlainBatch
<1>7. CASE job' = [job EXCEPT !.pc = "stopped"] /\ ctxDone' = TRUE
  BY <1>1, <1>6, <1>7, SendPlain, StopsKeep
<1>8. CASE ~ctxDone /\ ctxDone' = ctxDone /\ job' = next
  <2>0. dangling' = {} /\ sent \subseteq sent'
    BY <1>1, <1>6, SendPlain
  <2>1. /\ DOMAIN job' = DOMAIN NewScan /\ job'.pc = "next"
        /\ \A f \in {"kind", "wanted", "at", "hosts", "todo", "failed", "orgs", "filings", "looked", "status"} : job'[f] = job[f]
        /\ job'.errs = {<<s, "PROVIDER_NOT_CONFIGURED">> : s \in missing}
    BY <1>8, ScanFields DEF ScanInv, ScanShape
  <2> HIDE DEF missing, next
  <2>2. ScanShape'
    BY <1>1, <1>8, <2>1 DEF ScanInv, ScanShape, ScanPhases
  <2>3. KindFits' /\ HostsResolved'
    BY <1>1, <2>1 DEF ScanInv, KindFits, HostsResolved
  <2>4. ScanQuiet' /\ HostsReported'
    BY <1>1, <2>0, <2>1 DEF ScanInv, ScanQuiet, HostsReported
  <2>5. NamesTaken'
    <3>1. \A p : NameSettled(p) => NameSettled(p)'
      BY <2>0, <2>1, NameStaysSettled DEF ScanInv, ScanShape
    <3> QED
      BY <1>1, <2>1, <3>1 DEF ScanInv, NamesTaken
  <2>6. SourcesAnswer'
    <3>1. requestedProviderSources' = requestedProviderSources
      BY <2>1, SameSources
    <3>2. job'.errs = {} => missing = {}
      BY <2>1
    <3>3. job'.at = 0
      BY <1>1, <2>1 DEF ScanInv, KindFits
    <3> QED
      BY <2>1, <3>1, <3>2, <3>3 DEF SourcesAnswer, missing
  <2>7. OrgsFit' /\ Dangles'
    BY <2>0, <2>1, OrgsKept, NothingDangles DEF ScanInv
  <2> QED
    BY <2>2, <2>3, <2>4, <2>5, <2>6, <2>7 DEF ScanInv
<1> QED
  BY <1>1, <1>6, <1>7, <1>8, SendPlain

LEMMA NextTargetKeeps == ASSUME ScanInv, NextTarget PROVE ScanInv'
<1> DEFINE root == ScanTargets[job.at + 1]
           moved == [job EXCEPT !.at = @ + 1, !.seen = {}]
           first == Asset(TargetKind(root), root)
           bs == <<Batch({first}, {})>>
           next == IF job.kind = "dns" THEN [moved EXCEPT !.hosts = @ \cup {root}] ELSE [moved EXCEPT !.pc = "collect"]
<1>1. /\ job.pc = "next" /\ job.at < Len(ScanTargets) /\ SendAll(bs, next)
      /\ sources' = IF job'.pc # "collect" THEN sources
                    ELSE [s \in ScanSources |-> IF s \in requestedProviderSources
                                                THEN [NoSource EXCEPT !.pc = "queued", !.left = Offer[s]]
                                                ELSE NoSource]
      /\ UNCHANGED <<events, published, answered>>
  BY DEF NextTarget
<1>2. Len(bs) = 1 /\ bs[1].relations = {} /\ Prefix(bs, 1) = {first}
  <2> HIDE DEF first
  <2>1. Len(bs) = 1 /\ bs[1] = Batch({first}, {})
    OBVIOUS
  <2>2. bs[1].relations = {} /\ bs[1].assets = {first}
    BY <2>1 DEF Batch
  <2> HIDE DEF bs
  <2>3. Prefix(bs, 1) = bs[1].assets
    BY DEF Prefix
  <2> QED
    BY <2>1, <2>2, <2>3
<1> HIDE DEF bs, next
<1>3. Len(bs) \in Nat /\ \A i \in 1 .. Len(bs) : bs[i].relations = {}
  BY <1>2
<1>4. CASE job' = [job EXCEPT !.pc = "stopped"] /\ ctxDone' = TRUE
  <2>1. job'.pc = "stopped"
    BY <1>4, ScanFields DEF ScanInv, ScanShape
  <2> QED
    BY <1>1, <1>3, <1>4, <2>1, SendPlain, StopsKeep
<1>5. CASE ~ctxDone /\ ctxDone' = ctxDone /\ job' = next
  <2>0. dangling' = {} /\ sent \subseteq sent'
    BY <1>1, <1>3, SendPlain
  <2>a. job.at \in Nat /\ Len(ScanTargets) \in Nat /\ job.at + 1 \in 1 .. Len(ScanTargets)
    <3>1. Len(ScanTargets) \in Nat
      BY ExecutorLimits
    <3>2. job.at \in 0 .. Len(ScanTargets)
      BY DEF ScanInv, ScanShape
    <3>3. job.at < Len(ScanTargets)
      BY <1>1
    <3> QED
      BY <3>1, <3>2, <3>3
  <2>1. /\ DOMAIN job' = DOMAIN NewScan /\ job'.at = job.at + 1 /\ job'.seen = {}
        /\ \A f \in {"kind", "wanted", "errs", "todo", "failed", "orgs", "filings", "looked", "status"} : job'[f] = job[f]
        /\ job.kind = "dns" => job'.pc = "next" /\ job'.hosts = job.hosts \cup {root}
        /\ job.kind # "dns" => job'.pc = "collect" /\ job'.hosts = job.hosts
    BY <1>1, <1>5, ScanFields DEF ScanInv, ScanShape, next
  <2>2. job.hosts \subseteq job'.hosts /\ IsFiniteSet(job'.hosts) /\ job.todo \in Seq(job'.hosts)
    <3>1. IsFiniteSet(job.hosts) /\ job.todo \in Seq(job.hosts)
      BY DEF ScanInv, ScanShape
    <3>2. job.hosts \subseteq job'.hosts /\ IsFiniteSet(job'.hosts)
      <4>1. IsFiniteSet(job.hosts \cup {root})
        BY <3>1, FS_AddElement
      <4>2. job'.hosts = job.hosts \cup {root} \/ job'.hosts = job.hosts
        BY <2>1
      <4> QED
        BY <3>1, <4>1, <4>2
    <3> QED
      BY <3>1, <3>2, SeqGrows
  <2>3. sources' \in [ScanSources -> [pc : SourcePhases, left : SUBSET AllOffers, err : BOOLEAN]]
    <3>1. CASE job'.pc # "collect"
      BY <1>1, <3>1 DEF ScanInv, ScanShape
    <3>2. CASE job'.pc = "collect"
      BY <1>1, <3>2 DEF NoSource, SourcePhases, AllOffers
    <3> QED
      BY <3>1, <3>2
  <2>4. job.kind \in {"passive_intel", "dns"}
    BY <1>1 DEF ScanInv, KindFits
  <2>5. ScanShape'
    <3>1. job'.kind = "passive_intel" => Cardinality(job'.hosts) <= MaxHosts
      BY <2>1 DEF ScanInv, ScanShape
    <3>2. job'.at \in 0 .. Len(ScanTargets) /\ job'.pc \in ScanPhases
      BY <2>a, <2>1 DEF ScanPhases
    <3> QED
      BY <1>1, <1>5, <2>1, <2>2, <2>3, <3>1, <3>2 DEF ScanInv, ScanShape
  <2>6. KindFits' /\ HostsResolved'
    <3>1. job'.at # 0
      BY <2>a, <2>1
    <3> QED
      BY <1>1, <2>1, <2>4, <3>1 DEF ScanInv, KindFits, HostsResolved
  <2>7. ScanQuiet'
    BY <1>1, <2>1 DEF ScanInv, ScanQuiet
  <2>8. HostsReported'
    <3>1. job.kind # "dns" => Asset("domain", root) \in sent'
      <4>1. first \in sent'
        BY <1>1, <1>2, <1>3, <1>5, SendPlain
      <4> QED
        BY <4>1 DEF TargetKind
    <3>2. Root' = root
      BY <2>1 DEF Root
    <3> QED
      BY <2>0, <2>1, <2>4, <3>1, <3>2 DEF ScanInv, HostsReported
  <2>9. NamesTaken'
    <3>1. \A p : NameSettled(p) => NameSettled(p)'
      BY <2>0, <2>2, NameStaysSettled
    <3> QED
      BY <1>1, <2>1, <3>1 DEF ScanInv, NamesTaken
  <2>10. SourcesAnswer'
    <3> SUFFICES ASSUME job'.kind = "passive_intel", job'.errs = {} PROVE SourcesAnswer'
      BY DEF SourcesAnswer
    <3>1. requestedProviderSources' = requestedProviderSources
      BY <2>1, SameSources
    <3>2. /\ requestedProviderSources \subseteq ScanSources
          /\ \A i \in 1 .. job.at : \A s \in requestedProviderSources : <<ScanTargets[i], s>> \in answered
      BY <1>1, <1>5, <2>1 DEF ScanInv, SourcesAnswer
    <3>3. \A i \in 1 .. job'.at : i < job'.at => i \in 1 .. job.at
      BY <2>a, <2>1
    <3>4. job'.pc = "collect" /\ \A s \in requestedProviderSources : sources'[s].pc = "queued"
      BY <1>1, <2>1, <3>2 DEF NoSource
    <3> QED
      BY <1>1, <3>1, <3>2, <3>3, <3>4 DEF SourcesAnswer, SourceAwaited
  <2>11. OrgsFit' /\ Dangles'
    BY <2>0, <2>1, OrgsKept, NothingDangles DEF ScanInv
  <2> QED
    BY <2>5, <2>6, <2>7, <2>8, <2>9, <2>10, <2>11 DEF ScanInv
<1> QED
  BY <1>1, <1>3, <1>4, <1>5, SendPlain

LEMMA TargetDoneKeeps == ASSUME ScanInv, TargetDone PROVE ScanInv'
<1>1. /\ job.pc = "collect" /\ events = <<>> /\ \A s \in ScanSources : sources[s].pc \in {"none", "gone"}
      /\ job' = [job EXCEPT !.pc = "next"]
      /\ UNCHANGED <<sources, events, ctxDone, sent, dangling, published, answered>>
  BY DEF TargetDone
<1>2. /\ DOMAIN job' = DOMAIN NewScan /\ job'.pc = "next"
      /\ \A f \in DOMAIN NewScan \ {"pc"} : job'[f] = job[f]
  BY <1>1, ScanFields DEF ScanInv, ScanShape
<1>3. \A f \in {"kind", "wanted", "at", "hosts", "todo", "failed", "orgs", "filings", "looked", "status", "errs"} : job'[f] = job[f]
  BY <1>2, ScanFields
<1>4. ScanShape'
  BY <1>1, <1>2, <1>3 DEF ScanInv, ScanShape, ScanPhases
<1>5. KindFits' /\ HostsResolved' /\ ScanQuiet' /\ HostsReported'
  BY <1>1, <1>2, <1>3 DEF ScanInv, KindFits, HostsResolved, ScanQuiet, HostsReported
<1>6. NamesTaken'
  <2>1. \A p : NameSettled(p) => NameSettled(p)'
    BY <1>1, <1>3 DEF NameSettled
  <2>2. \A n : ~OnChannel(n)
    BY <1>1 DEF OnChannel
  <2> QED
    BY <1>1, <1>3, <2>1, <2>2 DEF ScanInv, NamesTaken
<1>7. SourcesAnswer'
  <2> SUFFICES ASSUME job'.kind = "passive_intel", job'.errs = {}, ~ctxDone PROVE SourcesAnswer'
    BY <1>1 DEF SourcesAnswer
  <2>1. requestedProviderSources' = requestedProviderSources
    BY <1>3, SameSources
  <2>2. /\ requestedProviderSources \subseteq ScanSources
        /\ \A i \in 1 .. job.at : i < job.at => \A s \in requestedProviderSources : <<ScanTargets[i], s>> \in answered
        /\ \A s \in requestedProviderSources : SourceAwaited(s)
    BY <1>1, <1>3 DEF ScanInv, SourcesAnswer
  <2>3. \A s \in requestedProviderSources : <<ScanTargets[job.at], s>> \in answered
    BY <1>1, <2>2 DEF SourceAwaited, Root
  <2>4. \A i \in 1 .. job.at : i < job.at \/ i = job.at
    BY DEF ScanInv, ScanShape
  <2> QED
    BY <1>1, <1>2, <1>3, <2>1, <2>2, <2>3, <2>4 DEF SourcesAnswer
<1>8. OrgsFit' /\ Dangles'
  BY <1>1, <1>3, OrgsKept DEF ScanInv, Dangles
<1> QED
  BY <1>4, <1>5, <1>6, <1>7, <1>8 DEF ScanInv

LEMMA BeginDNSKeeps == ASSUME ScanInv, NEW found, BeginDNS(found) PROVE ScanInv'
<1>1. /\ job.pc = "next" /\ job.at = Len(ScanTargets)
      /\ job' = [job EXCEPT !.pc = "dns", !.todo = SetToSeq(job.hosts), !.wild = found]
      /\ UNCHANGED <<sources, events, ctxDone, sent, dangling, published, answered>>
  BY DEF BeginDNS
<1>2. /\ DOMAIN job' = DOMAIN NewScan /\ job'.pc = "dns" /\ job'.todo = SetToSeq(job.hosts)
      /\ \A f \in {"kind", "wanted", "at", "hosts", "failed", "orgs", "filings", "looked", "status", "errs"} : job'[f] = job[f]
  BY <1>1, ScanFields DEF ScanInv, ScanShape
<1>3. job'.todo \in Seq(job'.hosts) /\ ToSet(job'.todo) = job'.hosts
  BY <1>2, SetToSeqFits DEF ScanInv, ScanShape
<1>4. ScanShape'
  BY <1>1, <1>2, <1>3 DEF ScanInv, ScanShape, ScanPhases
<1>5. KindFits'
  BY <1>1, <1>2 DEF ScanInv, KindFits
<1>6. HostsResolved'
  BY <1>1, <1>2, <1>3 DEF ScanInv, HostsResolved, KindFits
<1>7. ScanQuiet' /\ HostsReported' /\ NamesTaken' /\ SourcesAnswer'
  BY <1>1, <1>2, QuietStepKeeps DEF ScanInv, Dangles
<1>8. OrgsFit' /\ Dangles'
  BY <1>1, <1>2, OrgsKept DEF ScanInv, Dangles
<1> QED
  BY <1>4, <1>5, <1>6, <1>7, <1>8 DEF ScanInv

IsRest(r, t, n, S) ==
  r \in Seq(S) /\ Len(r) = Len(t) - n /\ \A i \in 1 .. Len(r) : r[i] = t[n + i]

LEMMA RestOf ==
  ASSUME NEW S, NEW t \in Seq(S), NEW n \in 0 .. Len(t)
  PROVE  IsRest(SubSeq(t, n + 1, Len(t)), t, n, S)
<1>1. SubSeq(t, n + 1, Len(t)) \in Seq(S)
  OBVIOUS
<1>2. Len(SubSeq(t, n + 1, Len(t))) = Len(t) - n
  OBVIOUS
<1>3. \A i \in 1 .. Len(t) - n : SubSeq(t, n + 1, Len(t))[i] = t[n + i]
  OBVIOUS
<1> QED
  BY <1>1, <1>2, <1>3, Zenon DEF IsRest

(* An answer relates a name only to what it reports with the name. *)
LEMMA AnswerIsWhole == ASSUME NEW h PROVE Ends(AnswerBatch(h).relations) \subseteq AnswerBatch(h).assets
<1> DEFINE r == DNSRecord[h]
           zone == parentZone(h)
           ips == IF "A" \in requestedDNSRecordTypes THEN r.ips ELSE {}
           own == IF "CNAME" \in requestedDNSRecordTypes THEN {c \in r.cnames : matchingRoot(c)} ELSE {}
           to == {Asset("ip", i) : i \in ips} \cup {Asset("subdomain", c) : c \in own}
           marks == UNION {addressAttribution(i, hostAttribution(r)) : i \in ips}
           plain == Batch({HostKey(h)}, {})
           full == Batch({HostKey(h)} \cup to \cup marks, {<<HostKey(h), a>> : a \in to})
<1>1. AnswerBatch(h) = IF zone \in job.wild /\ matchesWildcard(zone, r) THEN plain ELSE full
  BY DEF AnswerBatch
<1> HIDE DEF to, marks
<1>2. plain.relations = {} /\ full.relations = {<<HostKey(h), a>> : a \in to}
      /\ full.assets = {HostKey(h)} \cup to \cup marks
  BY DEF Batch
<1> HIDE DEF plain, full
<1>3. Ends(plain.relations) = {} /\ Ends(full.relations) \subseteq full.assets
  BY <1>2 DEF Ends
<1> QED
  BY <1>1, <1>3

LEMMA ResolveChunkKeeps ==
  ASSUME ScanInv, NEW ok, NEW error \in BOOLEAN, ResolveChunk(ok, error) PROVE ScanInv'
<1> DEFINE n == IF Len(job.todo) < ChunkSize THEN Len(job.todo) ELSE ChunkSize
           chunk == {job.todo[i] : i \in 1 .. n}
           A == UNION {AnswerBatch(h).assets : h \in ok}
           R == UNION {AnswerBatch(h).relations : h \in ok}
           bs == <<Batch({}, {}), Batch(A, R), Batch({}, {})>>
           next == [job EXCEPT !.todo = SubSeq(@, n + 1, Len(@)), !.failed = @ \/ error, !.resolved = @ \cup ok]
<1>1. /\ job.pc = "dns" /\ job.todo # <<>> /\ ok \subseteq chunk /\ (ok # chunk => error)
      /\ SendAll(bs, next) /\ UNCHANGED <<sources, events, published, answered>>
  BY DEF ResolveChunk
<1>2. Len(bs) \in Nat /\ \A i \in 1 .. Len(bs) : Ends(bs[i].relations) \subseteq sent \cup Prefix(bs, i)
  <2>1. Ends(R) \subseteq A
    BY AnswerIsWhole DEF Ends
  <2> HIDE DEF A, R
  <2>2. Len(bs) = 3 /\ bs[1] = Batch({}, {}) /\ bs[2] = Batch(A, R) /\ bs[3] = Batch({}, {})
    OBVIOUS
  <2> HIDE DEF bs
  <2>3. bs[2].relations = R /\ bs[2].assets = A /\ bs[1].relations = {} /\ bs[3].relations = {}
    BY <2>2 DEF Batch
  <2>4. A \subseteq Prefix(bs, 2)
    BY <2>3 DEF Prefix
  <2>5. Ends(bs[1].relations) = {} /\ Ends(bs[3].relations) = {} /\ Ends(bs[2].relations) \subseteq Prefix(bs, 2)
    BY <2>1, <2>3, <2>4, PlainBatch
  <2>6. \A i \in 1 .. Len(bs) : i = 1 \/ i = 2 \/ i = 3
    BY <2>2
  <2> QED
    BY <2>2, <2>5, <2>6
<1> HIDE DEF bs, next
<1>3. /\ dangling' = {} /\ sent \subseteq sent'
      /\ \/ ~ctxDone /\ ctxDone' = ctxDone /\ job' = next
         \/ job' = [job EXCEPT !.pc = "stopped"] /\ ctxDone' = TRUE
  BY <1>1, <1>2, SendAllGives DEF ScanInv, Dangles
<1>4. CASE job' = [job EXCEPT !.pc = "stopped"] /\ ctxDone' = TRUE
  BY <1>1, <1>3, <1>4, StopsKeep
<1>5. CASE ctxDone' = ctxDone /\ job' = next
  <2>1. /\ DOMAIN job' = DOMAIN NewScan /\ job'.todo = SubSeq(job.todo, n + 1, Len(job.todo))
        /\ job'.failed = (job.failed \/ error) /\ job'.resolved = job.resolved \cup ok
        /\ \A f \in {"pc", "kind", "wanted", "at", "hosts", "orgs", "filings", "looked", "status", "errs"} : job'[f] = job[f]
    BY <1>5, ScanFields DEF ScanInv, ScanShape, next
  <2>2. job.todo \in Seq(job.hosts) /\ ChunkSize \in Nat /\ Len(job.todo) \in Nat /\ n \in 0 .. Len(job.todo)
    BY ExecutorLimits, SeqFacts DEF ScanInv, ScanShape
  <2> HIDE DEF n
  <2>3. /\ job'.todo \in Seq(job.hosts)
        /\ Len(job'.todo) = Len(job.todo) - n
        /\ \A i \in 1 .. Len(job'.todo) : job'.todo[i] = job.todo[n + i]
    <3> DEFINE t == job.todo
    <3>1. t \in Seq(job.hosts) /\ n \in 0 .. Len(t) /\ job'.todo = SubSeq(t, n + 1, Len(t))
      BY <2>1, <2>2
    <3> HIDE DEF t
    <3>2. IsRest(job'.todo, t, n, job.hosts)
      BY <3>1, RestOf, Zenon
    <3> QED
      BY <3>2 DEF t, IsRest
  <2>4. ToSet(job.todo) \subseteq chunk \cup ToSet(job'.todo)
    <3> SUFFICES ASSUME NEW j \in 1 .. Len(job.todo) PROVE job.todo[j] \in chunk \cup ToSet(job'.todo)
      BY <2>2 DEF ToSet
    <3>1. CASE j <= n
      BY <2>2, <3>1
    <3>2. CASE j > n
      <4>1. j - n \in 1 .. Len(job'.todo) /\ job'.todo[j - n] = job.todo[j]
        BY <2>2, <2>3, <3>2
      <4>2. DOMAIN job'.todo = 1 .. Len(job'.todo)
        BY <2>3
      <4> QED
        BY <4>1, <4>2 DEF ToSet
    <3> QED
      BY <2>2, <3>1, <3>2
  <2> HIDE DEF chunk
  <2>5. ScanShape'
    <3>1. job'.failed \in BOOLEAN
      BY <2>1
    <3> QED
      BY <1>1, <1>5, <2>1, <2>3, <3>1 DEF ScanInv, ScanShape
  <2>6. KindFits'
    BY <1>1, <2>1 DEF ScanInv, KindFits
  <2>7. HostsResolved'
    <3>1. job.status = "running"
      BY <1>1 DEF ScanInv, KindFits
    <3>2. ASSUME ~job'.failed PROVE job.hosts \subseteq job'.resolved \cup ToSet(job'.todo)
      <4>1. ~job.failed /\ ~error
        BY <2>1, <3>2
      <4>2. ok = chunk /\ job.hosts \subseteq job.resolved \cup ToSet(job.todo)
        BY <1>1, <4>1 DEF ScanInv, HostsResolved
      <4> QED
        BY <2>1, <2>4, <4>2
    <3> QED
      BY <2>1, <3>1, <3>2 DEF HostsResolved
  <2>8. ScanQuiet' /\ HostsReported' /\ NamesTaken' /\ SourcesAnswer'
    BY <1>1, <1>3, <1>5, <2>1, QuietStepKeeps
  <2>9. OrgsFit' /\ Dangles'
    BY <1>3, <2>1, OrgsKept, NothingDangles DEF ScanInv
  <2> QED
    BY <2>5, <2>6, <2>7, <2>8, <2>9 DEF ScanInv
<1> QED
  BY <1>3, <1>4, <1>5

(* The last batch reports the organizations it refers to, unless a row     *)
(* named the holder.                                                       *)
LEMMA OrgBatchSays ==
  ASSUME ScanInv, NEW r \in OrgBatch.relations
  PROVE  {r[1], r[2]} \subseteq OrgBatch.assets \/ NamedHolder(r)
<1> DEFINE O == {Asset("org", o.name) : o \in ToSet(job.orgs)}
           F == {Asset("filing", f.no) : f \in job.filings}
           D == {Asset("domain", d) : d \in job.domains}
           P == {ParentOf(o) : o \in {x \in ToSet(job.orgs) : x.parent # ""}}
           H == {HolderOf(f) : f \in job.filings}
<1>1. OrgBatch.assets = O \cup F \cup D /\ OrgBatch.relations = P \cup H
  BY DEF OrgBatch, Batch
<1>2. /\ \A i \in 1 .. Len(job.orgs) : job.orgs[i] \in ToSet(job.orgs)
      /\ \A o \in ToSet(job.orgs) : \E i \in 1 .. Len(job.orgs) : o = job.orgs[i]
  <2>1. DOMAIN job.orgs = 1 .. Len(job.orgs)
    BY SeqFacts DEF ScanInv, OrgsFit
  <2> QED
    BY <2>1 DEF ToSet
<1>3. ASSUME NEW n, HasOrg(job.orgs, n) PROVE Asset("org", n) \in O
  BY <1>2, <1>3 DEF HasOrg
<1>4. CASE r \in P
  <2>1. PICK o \in ToSet(job.orgs) : o.parent # "" /\ r = ParentOf(o)
    BY <1>4
  <2>2. HasOrg(job.orgs, o.parent)
    BY <1>2, <2>1 DEF ScanInv, OrgsFit
  <2>3. r[1] = Asset("org", o.name) /\ r[2] = Asset("org", o.parent)
    BY <2>1 DEF ParentOf
  <2>4. r[1] \in O /\ r[2] \in O
    BY <1>3, <2>1, <2>2, <2>3
  <2> HIDE DEF O, F, D
  <2> QED
    BY <1>1, <2>4
<1>5. CASE r \in H
  <2>1. PICK f \in job.filings : r = HolderOf(f)
    BY <1>5
  <2>2. HasOrg(job.orgs, f.holder) \/ NamedHolder(r)
    BY <2>1 DEF ScanInv, OrgsFit
  <2>3. r[1] = Asset("filing", f.no) /\ r[2] = Asset("org", f.holder)
    BY <2>1 DEF HolderOf
  <2>4. r[1] \in F /\ (r[2] \in O \/ NamedHolder(r))
    BY <1>3, <2>1, <2>2, <2>3
  <2> HIDE DEF O, F, D
  <2> QED
    BY <1>1, <2>4
<1> HIDE DEF P, H
<1> QED
  BY <1>1, <1>4, <1>5

LEMMA CompletedKeeps == ASSUME ScanInv, Completed PROVE ScanInv'
<1> DEFINE errs == job.errs \cup (IF job.failed THEN {<<"dns", "DNS_PARTIAL_FAILURE">>} ELSE {})
           status == IF errs = {} THEN "success" ELSE "partial_success"
           bs == <<OrgBatch>>
           next == [job EXCEPT !.pc = "done", !.errs = errs, !.status = status]
<1>1. /\ \/ job.pc = "dns" /\ job.todo = <<>>
         \/ job.pc = "org" /\ job.looked = Len(Companies)
      /\ SendAll(bs, next) /\ UNCHANGED <<sources, events, published, answered>>
  BY DEF Completed
<1>2. Len(bs) = 1 /\ bs[1] = OrgBatch
  OBVIOUS
<1> HIDE DEF bs, next
<1>3. Unreported(bs, 0) = {} /\ \A r \in Unreported(bs, 1) : NamedHolder(r)
  <2>1. Prefix(bs, 1) = OrgBatch.assets
    BY <1>2 DEF Prefix
  <2>2. \A r \in Unreported(bs, 1) : r \in OrgBatch.relations /\ ~({r[1], r[2]} \subseteq OrgBatch.assets)
    BY <1>2, <2>1 DEF Unreported
  <2>3. Unreported(bs, 0) = {}
    BY DEF Unreported
  <2> QED
    BY <2>2, <2>3, OrgBatchSays
<1>4. /\ dangling = {} /\ sent \subseteq sent' /\ \A r \in dangling' : NamedHolder(r)
      /\ \/ ~ctxDone /\ ctxDone' = ctxDone /\ job' = next
         \/ dangling' = {} /\ job' = [job EXCEPT !.pc = "stopped"] /\ ctxDone' = TRUE
  <2>1. dangling = {}
    BY <1>1 DEF ScanInv, Dangles
  <2>2. \A k \in 0 .. (Len(bs) - 1) : k = 0
    BY <1>2
  <2> QED
    BY <1>1, <1>2, <1>3, <2>1, <2>2 DEF SendAll
<1>5. CASE dangling' = {} /\ job' = [job EXCEPT !.pc = "stopped"] /\ ctxDone' = TRUE
  BY <1>1, <1>4, <1>5, StopsKeep
<1>6. CASE ~ctxDone /\ ctxDone' = ctxDone /\ job' = next
  <2>1. /\ DOMAIN job' = DOMAIN NewScan /\ job'.pc = "done" /\ job'.errs = errs /\ job'.status = status
        /\ \A f \in {"kind", "wanted", "at", "hosts", "todo", "failed", "orgs", "filings", "looked", "resolved"} :
             job'[f] = job[f]
    BY <1>6, ScanFields DEF ScanInv, ScanShape, next
  <2>2. ScanShape'
    BY <1>1, <1>6, <2>1 DEF ScanInv, ScanShape, ScanPhases
  <2>3. KindFits'
    BY <1>1, <1>6, <2>1 DEF ScanInv, KindFits
  <2>4. HostsResolved'
    <3> SUFFICES ASSUME job'.status = "success", job'.kind = "passive_intel"
                 PROVE  job'.errs = {} /\ job'.hosts \subseteq job'.resolved
      BY <2>1 DEF HostsResolved
    <3>1. errs = {} /\ ~job.failed
      BY <2>1
    <3>2. job.pc = "dns" /\ job.todo = <<>>
      BY <1>1, <2>1 DEF ScanInv, KindFits
    <3>3. ToSet(job.todo) = {}
      BY <3>2 DEF ToSet
    <3>4. job.hosts \subseteq job.resolved
      BY <3>1, <3>2, <3>3 DEF ScanInv, HostsResolved
    <3> QED
      BY <2>1, <3>1, <3>4
  <2>5. ScanQuiet' /\ HostsReported' /\ NamesTaken' /\ SourcesAnswer'
    <3>1. job.errs \subseteq job'.errs /\ job.pc \in {"dns", "org"}
      BY <1>1, <2>1
    <3> QED
      BY <1>1, <1>4, <1>6, <2>1, <3>1, QuietStepKeeps
  <2>6. OrgsFit' /\ Dangles'
    BY <1>4, <2>1, OrgsKept DEF ScanInv, Dangles
  <2> QED
    BY <2>2, <2>3, <2>4, <2>5, <2>6 DEF ScanInv
<1> QED
  BY <1>4, <1>5, <1>6

LEMMA StartOrgKeeps == ASSUME ScanInv, NEW available \in BOOLEAN, StartOrg(available) PROVE ScanInv'
<1> DEFINE bs == <<Batch({}, {})>>
           next == IF ~available
                     THEN [job EXCEPT !.pc = "org", !.looked = Len(Companies),
                                      !.errs = {<<"enscan", "PROVIDER_NOT_CONFIGURED">>}]
                     ELSE [job EXCEPT !.pc = IF requestedEnscanSources \subseteq enscanSources THEN "org" ELSE "stopped"]
<1>1. /\ job.pc = "start" /\ job.kind = "org_intel" /\ SendAll(bs, next)
      /\ UNCHANGED <<sources, events, published, answered>>
  BY DEF StartOrg
<1>2. Len(bs) = 1 /\ bs[1].relations = {}
  BY DEF Batch
<1> HIDE DEF bs, next
<1>3. Len(bs) \in Nat /\ \A i \in 1 .. Len(bs) : bs[i].relations = {}
  BY <1>2
<1>4. /\ dangling' = {} /\ sent \subseteq sent'
      /\ \/ ~ctxDone /\ ctxDone' = ctxDone /\ job' = next
         \/ job' = [job EXCEPT !.pc = "stopped"] /\ ctxDone' = TRUE
  BY <1>1, <1>3, SendPlain
<1>5. CASE job' = [job EXCEPT !.pc = "stopped"] /\ ctxDone' = TRUE
  BY <1>1, <1>4, <1>5, StopsKeep
<1>6. CASE ~ctxDone /\ ctxDone' = ctxDone /\ job' = next
  <2>1. /\ DOMAIN job' = DOMAIN NewScan /\ job'.pc \in {"org", "stopped"}
        /\ job'.looked \in {job.looked, Len(Companies)}
        /\ \A f \in {"kind", "wanted", "at", "hosts", "todo", "failed", "orgs", "filings", "status"} : job'[f] = job[f]
    BY <1>6, ScanFields DEF ScanInv, ScanShape, next
  <2>2. ScanShape'
    BY <1>1, <1>6, <2>1 DEF ScanInv, ScanShape, ScanPhases
  <2>3. OrgsFit'
    <3>1. Len(Companies) \in Nat /\ Len(Companies) \in 0 .. Len(Companies) /\ ~(Len(Companies) < Len(Companies))
      BY ExecutorLimits
    <3> QED
      BY <2>1, <3>1 DEF ScanInv, OrgsFit
  <2>4. KindFits' /\ HostsResolved' /\ ScanQuiet' /\ HostsReported' /\ NamesTaken' /\ SourcesAnswer'
    BY <1>1, <2>1 DEF ScanInv, KindFits, HostsResolved, ScanQuiet, HostsReported, NamesTaken, SourcesAnswer
  <2> QED
    BY <1>4, <2>2, <2>3, <2>4, NothingDangles DEF ScanInv
<1> QED
  BY <1>4, <1>5, <1>6

(* A step of the lookup touches nothing but what was found. *)
LEMMA LookupKeeps ==
  ASSUME ScanInv, job.pc = "org", UNCHANGED <<sources, events, ctxDone, sent, dangling, published, answered>>,
         DOMAIN job' = DOMAIN NewScan, job.errs \subseteq job'.errs,
         \A f \in {"pc", "kind", "wanted", "at", "hosts", "todo", "failed", "status"} : job'[f] = job[f],
         OrgsFit'
  PROVE  ScanInv'
<1>1. ScanShape'
  BY DEF ScanInv, ScanShape
<1>2. KindFits' /\ HostsResolved' /\ Dangles'
  BY DEF ScanInv, KindFits, HostsResolved, Dangles
<1>3. ScanQuiet' /\ HostsReported' /\ NamesTaken' /\ SourcesAnswer'
  BY QuietStepKeeps
<1> QED
  BY <1>1, <1>2, <1>3 DEF ScanInv

LEMMA MoreCompanies ==
  ASSUME ScanInv, job.looked < Len(Companies)
  PROVE  /\ job.looked \in Nat /\ Len(Companies) \in Nat
         /\ job.looked + 1 \in 0 .. Len(Companies) /\ Len(Companies) \in 0 .. Len(Companies)
         /\ Companies[job.looked + 1] \in ToSet(Companies)
<1>1. Len(Companies) \in Nat /\ DOMAIN Companies = 1 .. Len(Companies)
  BY ExecutorLimits
<1>2. job.looked \in 0 .. Len(Companies)
  BY DEF ScanInv, OrgsFit
<1>3. job.looked + 1 \in 1 .. Len(Companies)
  BY <1>1, <1>2
<1> QED
  BY <1>1, <1>2, <1>3 DEF ToSet

LEMMA SkipCompanyKeeps == ASSUME ScanInv, SkipCompany PROVE ScanInv'
<1>1. /\ job.pc = "org" /\ job.looked < Len(Companies) /\ job' = [job EXCEPT !.looked = @ + 1]
      /\ UNCHANGED <<sources, events, ctxDone, sent, dangling, published, answered>>
  BY DEF SkipCompany
<1>2. /\ DOMAIN job' = DOMAIN NewScan /\ job'.looked = job.looked + 1
      /\ \A f \in {"pc", "kind", "wanted", "at", "hosts", "todo", "failed", "orgs", "filings", "status", "errs"} :
           job'[f] = job[f]
  BY <1>1, ScanFields DEF ScanInv, ScanShape
<1>3. OrgsFit'
  BY <1>1, <1>2, MoreCompanies DEF ScanInv, OrgsFit
<1> QED
  BY <1>1, <1>2, <1>3, LookupKeeps

LEMMA KeptFinite ==
  ASSUME NEW rows, NEW S, NEW q \in Seq(S), NEW idx \in SUBSET DOMAIN q, NEW limit
  PROVE  IsFiniteSet(Kept(rows, idx, limit)) /\ Kept(rows, idx, limit) \subseteq idx
<1>1. Kept(rows, idx, limit) \subseteq idx
  BY DEF Kept
<1>2. IsFiniteSet(1 .. Len(q)) /\ DOMAIN q = 1 .. Len(q)
  BY FS_Interval
<1> QED
  BY <1>1, <1>2, FS_Subset

Begins(q, x, rest, T) ==
  /\ q \in Seq(T) /\ Len(q) >= 1 /\ q[1] = x
  /\ \A i \in 1 .. Len(q) : i = 1 \/ (i - 1 \in 1 .. Len(rest) /\ q[i] = rest[i - 1])

LEMMA FirstAndRest == ASSUME NEW T, NEW x \in T, NEW rest \in Seq(T) PROVE Begins(<<x>> \o rest, x, rest, T)
<1> DEFINE q == <<x>> \o rest
<1>1. <<x>> \in Seq(T) /\ Len(<<x>>) = 1 /\ <<x>>[1] = x /\ Len(rest) \in Nat
  OBVIOUS
<1>2. q \in Seq(T) /\ Len(q) = 1 + Len(rest)
  BY <1>1
<1>3. \A i \in 1 .. 1 + Len(rest) : q[i] = IF i <= 1 THEN <<x>>[i] ELSE rest[i - 1]
  BY <1>1
<1> HIDE DEF q
<1>4. Len(q) >= 1 /\ q[1] = x
  BY <1>1, <1>2, <1>3
<1>5. \A i \in 1 .. Len(q) : i = 1 \/ (i - 1 \in 1 .. Len(rest) /\ q[i] = rest[i - 1])
  BY <1>1, <1>2, <1>3
<1> QED
  BY <1>2, <1>4, <1>5 DEF Begins, q

LEMMA FunctionIsSeq == ASSUME NEW T, NEW c \in Nat, NEW f \in [1 .. c -> T] PROVE f \in Seq(T) /\ Len(f) = c
  OBVIOUS

LEMMA LongerHas ==
  ASSUME NEW a \in Nat, NEW b \in Nat, b > a
  PROVE  /\ \A i \in 1 .. a : i \in 1 .. b
         /\ a + 1 \in 1 .. b /\ a + 1 > a /\ a + 1 - a = 1
         /\ \A i \in 1 .. b : i \in 1 .. a \/ i > a
  OBVIOUS

(* What is found for a company begins with the company; the others refer   *)
(* to it, and so does a filing whose row names no holder.                  *)
FoundFor(c, out) ==
  /\ \E T : out.orgs \in Seq(T)
  /\ Len(out.orgs) >= 1 /\ out.orgs[1].name = c /\ out.orgs[1].parent = ""
  /\ \A i \in 1 .. Len(out.orgs) : out.orgs[i].parent \in {"", c}
  /\ \A f \in out.filings : f.holder = c \/ NamedHolder(HolderOf(f))

LEMMA ParsedFits ==
  ASSUME NEW company \in ToSet(Companies) \ {""} PROVE FoundFor(company, parseOutputDir(company))
<1> DEFINE rows == CompanyRecords[company]
           found == collectOrganization(company)
           filed == collectFiling(company)
           holder(i) == IF rows[i].holder = "" THEN company ELSE rows[i].holder
           root == [name |-> company, parent |-> ""]
           member(n) == [name |-> rows[Nth(found, n)].name, parent |-> company]
           rest == [n \in 1 .. Cardinality(found) |-> member(n)]
           filings == {[no |-> rows[i].name, holder |-> holder(i)] : i \in filed}
           out == parseOutputDir(company)
<1>1. out.orgs = <<root>> \o rest /\ out.filings = filings
  BY DEF parseOutputDir
<1>2. rows \in Seq(ToSet(rows))
  BY ExecutorAssumption
<1>3. IsFiniteSet(found)
  <2> DEFINE idx == {i \in DOMAIN rows : rows[i].section = "enterprise" /\ rows[i].name \notin {"", company}}
  <2>1. found = Kept(rows, idx, MaxOrgs - 1) /\ idx \in SUBSET DOMAIN rows
    BY DEF collectOrganization
  <2> HIDE DEF idx, rows, found
  <2> QED
    BY <1>2, <2>1, KeptFinite
<1>4. filed \subseteq DOMAIN rows
  <2> DEFINE idx == {i \in DOMAIN rows : rows[i].section = "icp" /\ rows[i].legal}
  <2>1. filed = Kept(rows, idx, MaxFilings) /\ idx \in SUBSET DOMAIN rows
    BY DEF collectFiling
  <2> HIDE DEF idx, rows, filed
  <2> QED
    BY <1>2, <2>1, KeptFinite
<1>5. Cardinality(found) \in Nat
  BY <1>3, FS_CardinalityType
<1> DEFINE T == {root} \cup {member(n) : n \in 1 .. Cardinality(found)}
<1>6. ASSUME NEW f \in filings PROVE f.holder = company \/ NamedHolder(HolderOf(f))
  <2>1. PICK i \in filed : f = [no |-> rows[i].name, holder |-> holder(i)]
    BY <1>6
  <2>2. rows[i] \in ToSet(rows)
    BY <1>4 DEF ToSet
  <2>3. CASE rows[i].holder = ""
    BY <2>1, <2>3
  <2>4. CASE rows[i].holder # ""
    <3>1. f = [no |-> rows[i].name, holder |-> rows[i].holder]
      BY <2>1, <2>4
    <3> QED
      BY <2>2, <2>4, <3>1 DEF NamedHolder
  <2> QED
    BY <2>3, <2>4
<1>7. root \in T /\ root.name = company /\ root.parent = ""
      /\ \A n \in 1 .. Cardinality(found) : member(n) \in T /\ member(n).parent = company
  OBVIOUS
<1> HIDE DEF member, root, T, found, rows
<1>8. rest \in Seq(T) /\ Len(rest) = Cardinality(found) /\ \A n \in 1 .. Len(rest) : rest[n].parent = company
  <2> DEFINE c == Cardinality(found)
  <2>1. c \in Nat /\ rest \in [1 .. c -> T] /\ \A n \in 1 .. c : rest[n].parent = company
    BY <1>5, <1>7
  <2> HIDE DEF rest, c
  <2>2. rest \in Seq(T) /\ Len(rest) = c
    BY <2>1, FunctionIsSeq, Zenon
  <2> QED
    BY <2>1, <2>2 DEF c
<1> DEFINE orgs == <<root>> \o rest
<1> HIDE DEF rest
<1>9. Begins(orgs, root, rest, T)
  BY <1>7, <1>8, FirstAndRest
<1> HIDE DEF orgs
<1>10. \A i \in 1 .. Len(orgs) : orgs[i].parent \in {"", company}
  <2> SUFFICES ASSUME NEW i \in 1 .. Len(orgs) PROVE orgs[i].parent \in {"", company}
    OBVIOUS
  <2>1. i = 1 \/ (i - 1 \in 1 .. Len(rest) /\ orgs[i] = rest[i - 1])
    BY <1>9 DEF Begins
  <2>2. CASE i = 1
    BY <1>7, <1>9, <2>2 DEF Begins
  <2>3. CASE i - 1 \in 1 .. Len(rest) /\ orgs[i] = rest[i - 1]
    <3>1. rest[i - 1].parent = company
      BY <1>8, <2>3
    <3> QED
      BY <2>3, <3>1
  <2> QED
    BY <2>1, <2>2, <2>3
<1>11. out.orgs = orgs
  BY <1>1 DEF orgs
<1> HIDE DEF out, filings
<1>12. Len(orgs) >= 1 /\ orgs[1].name = company /\ orgs[1].parent = ""
  BY <1>7, <1>9 DEF Begins
<1>13. \E W : orgs \in Seq(W)
  BY <1>9 DEF Begins
<1>14. /\ \A i \in 1 .. Len(out.orgs) : out.orgs[i].parent \in {"", company}
       /\ Len(out.orgs) >= 1 /\ out.orgs[1].name = company /\ out.orgs[1].parent = ""
       /\ \E W : out.orgs \in Seq(W)
  BY <1>10, <1>11, <1>12, <1>13, Zenon
<1>15. \A f \in out.filings : f.holder = company \/ NamedHolder(HolderOf(f))
  BY <1>1, <1>6, Zenon
<1> QED
  <2> HIDE DEF out, orgs
  <2> QED
    BY <1>14, <1>15 DEF FoundFor, out

(* Appending what was found for a company and cutting at the limit.        *)
Extended(new, old, more, m) ==
  /\ \E T : new \in Seq(T)
  /\ Len(new) <= m /\ Len(new) > Len(old)
  /\ Len(old \o more) < m => Len(new) < m
  /\ \A i \in 1 .. Len(old) : new[i] = old[i]
  /\ \A i \in 1 .. Len(new) : i > Len(old) => i - Len(old) \in 1 .. Len(more) /\ new[i] = more[i - Len(old)]

LEMMA CutExtends ==
  ASSUME NEW S, NEW old \in Seq(S), NEW T, NEW more \in Seq(T), Len(more) >= 1, Len(old) < MaxOrgs
  PROVE  Extended(IF Len(old \o more) >= MaxOrgs THEN CutLast(old \o more) ELSE old \o more, old, more, MaxOrgs)
<1> DEFINE U == S \cup T
           all == old \o more
           cut == SubSeq(all, 1, MaxOrgs)
           new == IF Len(all) >= MaxOrgs THEN CutLast(all) ELSE all
<1>1. MaxOrgs \in Nat /\ Len(old) \in Nat /\ Len(more) \in Nat
  BY ExecutorLimits
<1>2. old \in Seq(U) /\ more \in Seq(U)
  OBVIOUS
<1> HIDE DEF U
<1>3. /\ all \in Seq(U) /\ Len(all) = Len(old) + Len(more)
      /\ \A i \in 1 .. Len(all) : all[i] = IF i <= Len(old) THEN old[i] ELSE more[i - Len(old)]
  BY <1>2
<1> HIDE DEF all
<1>4. CASE Len(all) >= MaxOrgs
  <2>1. MaxOrgs \in 0 .. Len(all) /\ 1 <= MaxOrgs /\ \A i \in 1 .. MaxOrgs : all[i] \in U
    BY <1>1, <1>3, <1>4
  <2>2. cut \in Seq(U) /\ Len(cut) = MaxOrgs
    BY <1>1, <2>1, SubSeqProperties
  <2>3. \A i \in 1 .. MaxOrgs : cut[i] = all[i]
    BY <1>1, <1>3, <2>1
  <2> HIDE DEF cut
  <2>4. new = cut
    BY <1>4 DEF CutLast, cut
  <2> HIDE DEF new
  <2>5. \A i \in 1 .. Len(old) : new[i] = old[i]
    BY <1>1, <1>3, <1>4, <2>3, <2>4
  <2>6. \A i \in 1 .. Len(new) : i > Len(old) => i - Len(old) \in 1 .. Len(more) /\ new[i] = more[i - Len(old)]
    BY <1>1, <1>3, <1>4, <2>2, <2>3, <2>4
  <2>7. Len(new) <= MaxOrgs /\ Len(new) > Len(old) /\ ~(Len(all) < MaxOrgs)
    BY <1>1, <1>3, <1>4, <2>2, <2>4
  <2>8. \E W : new \in Seq(W)
    BY <2>2, <2>4
  <2> QED
    BY <2>5, <2>6, <2>7, <2>8 DEF Extended, new, all
<1>5. CASE ~(Len(all) >= MaxOrgs)
  <2>1. new = all
    BY <1>5
  <2> HIDE DEF new
  <2>2. \A i \in 1 .. Len(old) : new[i] = old[i]
    BY <1>1, <1>3, <2>1
  <2>3. \A i \in 1 .. Len(new) : i > Len(old) => i - Len(old) \in 1 .. Len(more) /\ new[i] = more[i - Len(old)]
    BY <1>1, <1>3, <2>1
  <2>4. Len(new) <= MaxOrgs /\ Len(new) > Len(old) /\ Len(new) < MaxOrgs
    BY <1>1, <1>3, <1>5, <2>1
  <2>5. \E W : new \in Seq(W)
    BY <1>3, <2>1
  <2> QED
    BY <2>2, <2>3, <2>4, <2>5 DEF Extended, new, all
<1> QED
  BY <1>4, <1>5

LEMMA CollectForCompanyKeeps == ASSUME ScanInv, NEW code, collectForCompany(code) PROVE ScanInv'
<1> DEFINE company == Companies[job.looked + 1]
           out == parseOutputDir(company)
           orgs == job.orgs \o out.orgs
           full == Len(orgs) >= MaxOrgs
           kept == IF full THEN CutLast(orgs) ELSE orgs
           looked == IF full THEN Len(Companies) ELSE job.looked + 1
<1>1. /\ job.pc = "org" /\ job.looked < Len(Companies) /\ company # ""
      /\ job' = IF code # "" THEN [job EXCEPT !.looked = @ + 1, !.errs = @ \cup {<<"enscan", code>>}]
                ELSE [job EXCEPT !.looked = looked, !.orgs = kept,
                                 !.filings = @ \cup out.filings, !.domains = @ \cup out.domains]
      /\ UNCHANGED <<sources, events, ctxDone, sent, dangling, published, answered>>
  BY DEF collectForCompany
<1>2. /\ job.looked \in Nat /\ Len(Companies) \in Nat
      /\ job.looked + 1 \in 0 .. Len(Companies) /\ Len(Companies) \in 0 .. Len(Companies)
      /\ company \in ToSet(Companies) \ {""}
  BY <1>1, MoreCompanies
<1>3. FoundFor(company, out)
  <2> HIDE DEF company
  <2> QED
    BY <1>2, ParsedFits
<1>4. /\ job.orgs \in Seq(ToSet(job.orgs)) /\ Len(job.orgs) \in Nat /\ Len(job.orgs) < MaxOrgs /\ MaxOrgs \in Nat
      /\ \A i \in 1 .. Len(job.orgs) : job.orgs[i].parent = "" \/ HasOrg(job.orgs, job.orgs[i].parent)
      /\ \A f \in job.filings : HasOrg(job.orgs, f.holder) \/ NamedHolder(HolderOf(f))
  <2>1. job.orgs \in Seq(ToSet(job.orgs)) /\ Len(job.orgs) < MaxOrgs
    BY <1>1 DEF ScanInv, OrgsFit
  <2>2. Len(job.orgs) \in Nat /\ MaxOrgs \in Nat
    BY <2>1, SeqFacts, ExecutorLimits
  <2> QED
    BY <2>1, <2>2, Zenon DEF ScanInv, OrgsFit
<1> HIDE DEF company, out
<1>5. Extended(kept, job.orgs, out.orgs, MaxOrgs)
  <2>1. PICK T : out.orgs \in Seq(T)
    BY <1>3 DEF FoundFor
  <2>2. Len(out.orgs) >= 1
    BY <1>3 DEF FoundFor
  <2> QED
    BY <1>4, <2>1, <2>2, CutExtends
<1>6. looked \in {Len(Companies), job.looked + 1} /\ (looked < Len(Companies) => Len(orgs) < MaxOrgs)
  <2>1. PICK T : out.orgs \in Seq(T)
    BY <1>3 DEF FoundFor
  <2>2. Len(orgs) \in Nat
    <3> DEFINE U == ToSet(job.orgs) \cup T
               a == job.orgs
               b == out.orgs
    <3>1. a \in Seq(U) /\ b \in Seq(U)
      BY <1>4, <2>1, SeqGrows
    <3> HIDE DEF U, a, b
    <3>2. Len(a \o b) \in Nat
      BY <3>1
    <3> QED
      BY <3>2 DEF a, b
  <2>3. (full => looked = Len(Companies)) /\ (~full => looked = job.looked + 1)
    OBVIOUS
  <2> HIDE DEF orgs, looked
  <2>4. ~full => Len(orgs) < MaxOrgs
    BY <2>2, ExecutorLimits
  <2>5. ~(Len(Companies) < Len(Companies))
    BY ExecutorLimits
  <2> HIDE DEF full
  <2> QED
    BY <2>3, <2>4, <2>5
<1>7. CASE code # ""
  <2>1. /\ DOMAIN job' = DOMAIN NewScan /\ job'.looked = job.looked + 1 /\ job.errs \subseteq job'.errs
        /\ \A f \in {"pc", "kind", "wanted", "at", "hosts", "todo", "failed", "orgs", "filings", "status"} :
             job'[f] = job[f]
    BY <1>1, <1>7, ScanFields DEF ScanInv, ScanShape
  <2>2. OrgsFit'
    BY <1>1, <1>2, <2>1 DEF ScanInv, OrgsFit
  <2> QED
    BY <1>1, <2>1, <2>2, LookupKeeps
<1>8. CASE code = ""
  <2> HIDE DEF kept, looked
  <2>1. /\ DOMAIN job' = DOMAIN NewScan /\ job'.looked = looked /\ job'.orgs = kept
        /\ job'.filings = job.filings \cup out.filings /\ job'.errs = job.errs
        /\ \A f \in {"pc", "kind", "wanted", "at", "hosts", "todo", "failed", "status"} : job'[f] = job[f]
    BY <1>1, <1>8, ScanFields DEF ScanInv, ScanShape
  <2>2. /\ Len(kept) <= MaxOrgs /\ Len(kept) > Len(job.orgs) /\ (Len(orgs) < MaxOrgs => Len(kept) < MaxOrgs)
        /\ \A i \in 1 .. Len(job.orgs) : kept[i] = job.orgs[i]
        /\ \A i \in 1 .. Len(kept) : i > Len(job.orgs) =>
             i - Len(job.orgs) \in 1 .. Len(out.orgs) /\ kept[i] = out.orgs[i - Len(job.orgs)]
    BY <1>5 DEF Extended
  <2>3. kept \in Seq(ToSet(kept)) /\ Len(kept) \in Nat
    <3>1. PICK T : kept \in Seq(T)
      BY <1>5 DEF Extended
    <3> QED
      BY <3>1, SeqOfItself
  <2> HIDE DEF orgs
  <2>a. /\ \A i \in 1 .. Len(job.orgs) : i \in 1 .. Len(kept)
        /\ Len(job.orgs) + 1 \in 1 .. Len(kept) /\ Len(job.orgs) + 1 > Len(job.orgs)
        /\ Len(job.orgs) + 1 - Len(job.orgs) = 1
        /\ \A i \in 1 .. Len(kept) : i \in 1 .. Len(job.orgs) \/ i > Len(job.orgs)
    <3>1. Len(job.orgs) \in Nat /\ Len(kept) \in Nat /\ Len(kept) > Len(job.orgs)
      BY <1>4, <2>2, <2>3, Zenon
    <3> QED
      BY <3>1, LongerHas, Zenon
  <2>4. \A n : HasOrg(job.orgs, n) => HasOrg(kept, n)
    <3>1. \A i \in 1 .. Len(job.orgs) : i \in 1 .. Len(kept)
      BY <2>a
    <3> QED
      BY <2>2, <3>1 DEF HasOrg
  <2>5. HasOrg(kept, company)
    <3>1. Len(job.orgs) + 1 \in 1 .. Len(kept) /\ Len(job.orgs) + 1 > Len(job.orgs)
          /\ Len(job.orgs) + 1 - Len(job.orgs) = 1
      BY <2>a
    <3>2. kept[Len(job.orgs) + 1] = out.orgs[1]
      BY <2>2, <3>1
    <3>3. out.orgs[1].name = company
      BY <1>3 DEF FoundFor
    <3> QED
      BY <3>1, <3>2, <3>3 DEF HasOrg
  <2>6. ASSUME NEW i \in 1 .. Len(kept) PROVE kept[i].parent = "" \/ HasOrg(kept, kept[i].parent)
    <3>1. CASE i \in 1 .. Len(job.orgs)
      BY <1>4, <2>2, <2>4, <3>1
    <3>2. CASE i > Len(job.orgs)
      <4>1. i - Len(job.orgs) \in 1 .. Len(out.orgs) /\ kept[i] = out.orgs[i - Len(job.orgs)]
        BY <2>2, <3>2
      <4>2. kept[i].parent \in {"", company}
        BY <1>3, <4>1 DEF FoundFor
      <4> QED
        BY <2>5, <4>2
    <3> QED
      BY <2>a, <3>1, <3>2
  <2>7. ASSUME NEW f \in job.filings \cup out.filings PROVE HasOrg(kept, f.holder) \/ NamedHolder(HolderOf(f))
    <3>1. CASE f \in job.filings
      BY <1>4, <2>4, <3>1
    <3>2. CASE f \in out.filings
      BY <1>3, <2>5, <3>2 DEF FoundFor
    <3> QED
      BY <3>1, <3>2
  <2>8. looked \in 0 .. Len(Companies)
    BY <1>2, <1>6
  <2>9. OrgsFit'
    BY <1>6, <2>1, <2>2, <2>3, <2>6, <2>7, <2>8 DEF OrgsFit
  <2> QED
    BY <1>1, <2>1, <2>9, LookupKeeps
<1> QED
  BY <1>7, <1>8

-----------------------------------------------------------------------------
(* The collector.                                                          *)

LEMMA OfferedNamesFinite ==
  ASSUME NEW e \in SourceEvents PROVE IsFiniteSet({normalizeDomain(r) : r \in e.found})
<1> DEFINE O == {Offer[s] : s \in ScanSources}
           f == [s \in ScanSources |-> Offer[s]]
           g == [r \in e.found |-> normalizeDomain(r)]
           N == {normalizeDomain(r) : r \in e.found}
<1>1. IsFiniteSet(ScanSources) /\ \A s \in ScanSources : IsFiniteSet(Offer[s])
  BY ExecutorAssumption
<1>2. f \in Surjection(ScanSources, O)
  BY DEF Surjection
<1>3. IsFiniteSet(O)
  <2> HIDE DEF f, O
  <2> QED
    BY <1>1, <1>2, FS_Surjection
<1>4. IsFiniteSet(AllOffers)
  BY <1>1, <1>3, FS_UNION DEF AllOffers
<1>5. IsFiniteSet(e.found)
  <2>1. e.found \in SUBSET AllOffers
    BY DEF SourceEvents
  <2> QED
    BY <1>4, <2>1, FS_Subset
<1>6. g \in Surjection(e.found, N)
  BY DEF Surjection
<1> HIDE DEF g, N
<1>7. IsFiniteSet(N)
  BY <1>5, <1>6, FS_Surjection
<1> QED
  BY <1>7 DEF N

(* What is accepted fits the limit, and what is not accepted found it      *)
(* reached.                                                                *)
LEMMA AcceptedFits ==
  ASSUME ScanInv, job.kind = "passive_intel", NEW e \in SourceEvents, NEW taken, Accepted(e, taken)
  PROVE  /\ IsFiniteSet(taken) /\ IsFiniteSet(job.hosts \cup taken)
         /\ Cardinality(job.hosts \cup taken) <= MaxHosts
         /\ \A r \in e.found :
              LET n == normalizeDomain(r)
              IN  \/ n \in {"", Root} \/ ~withinRoot(n, Root) \/ <<e.source, n>> \in job.seen
                  \/ n \in taken \/ Cardinality(job.hosts \cup taken) >= MaxHosts
<1> DEFINE names == {normalizeDomain(r) : r \in e.found} \ {"", Root}
           fresh == {n \in names : withinRoot(n, Root) /\ <<e.source, n>> \notin job.seen}
           room == MaxHosts - Cardinality(job.hosts)
           new == fresh \ job.hosts
           added == taken \ job.hosts
           hosts == job.hosts \cup taken
<1>1. /\ taken \subseteq fresh /\ fresh \cap job.hosts \subseteq taken
      /\ Cardinality(added) = IF Cardinality(new) <= room THEN Cardinality(new) ELSE room
  BY DEF Accepted
<1>2. IsFiniteSet({normalizeDomain(r) : r \in e.found})
  BY OfferedNamesFinite
<1>3. IsFiniteSet(fresh)
  <2>1. fresh \subseteq {normalizeDomain(r) : r \in e.found}
    OBVIOUS
  <2> HIDE DEF fresh
  <2> QED
    BY <1>2, <2>1, FS_Subset
<1>4. /\ \A r \in e.found : LET n == normalizeDomain(r)
                            IN  \/ n \in {"", Root} \/ ~withinRoot(n, Root) \/ <<e.source, n>> \in job.seen
                                \/ n \in fresh
  OBVIOUS
<1> HIDE DEF fresh
<1>5. IsFiniteSet(taken)
  BY <1>1, <1>3, FS_Subset
<1>6. IsFiniteSet(new) /\ IsFiniteSet(added)
  BY <1>3, <1>5, FS_Difference
<1>7. /\ IsFiniteSet(job.hosts) /\ Cardinality(job.hosts) \in Nat /\ MaxHosts \in Nat
      /\ Cardinality(job.hosts) <= MaxHosts
  BY ExecutorAssumption, FS_CardinalityType DEF ScanInv, ScanShape
<1>8. Cardinality(new) \in Nat /\ Cardinality(added) \in Nat
  BY <1>6, FS_CardinalityType
<1>9. IsFiniteSet(hosts) /\ Cardinality(hosts) = Cardinality(job.hosts) + Cardinality(added)
  <2>1. hosts = job.hosts \cup added /\ job.hosts \cap added = {}
    OBVIOUS
  <2> HIDE DEF added, hosts
  <2>2. /\ IsFiniteSet(job.hosts \cup added)
        /\ Cardinality(job.hosts \cup added)
             = Cardinality(job.hosts) + Cardinality(added) - Cardinality(job.hosts \cap added)
    BY <1>6, <1>7, FS_Union
  <2>3. Cardinality({}) = 0
    BY FS_EmptySet
  <2>4. /\ Cardinality(job.hosts \cap added) = 0 /\ IsFiniteSet(hosts)
        /\ Cardinality(hosts) = Cardinality(job.hosts \cup added)
    BY <2>1, <2>2, <2>3
  <2> QED
    BY <1>7, <1>8, <2>2, <2>4
<1>10. added \subseteq new
  BY <1>1
<1>11. ASSUME NEW n \in fresh, n \notin taken PROVE added # new
  BY <1>1, <1>11
<1> HIDE DEF new, added, hosts
<1>12. Cardinality(hosts) <= MaxHosts
  BY <1>1, <1>7, <1>8, <1>9
<1>13. ASSUME NEW n \in fresh, n \notin taken PROVE Cardinality(hosts) >= MaxHosts
  <2>1. added # new
    BY <1>11, <1>13
  <2>2. Cardinality(added) # Cardinality(new)
    BY <1>6, <1>10, <2>1, FS_Subset
  <2> QED
    BY <1>1, <1>7, <1>8, <1>9, <2>2
<1> QED
  BY <1>4, <1>5, <1>9, <1>12, <1>13 DEF hosts

MadeOf(bs, H, S, P) ==
  /\ Len(bs) \in Nat /\ Len(bs) = Len(H) + Len(S) + Len(P)
  /\ \A i \in 1 .. Len(H) : bs[i] = H[i]
  /\ \A i \in 1 .. Len(S) : bs[Len(H) + i] = S[i]
  /\ \A i \in 1 .. Len(bs) : \/ i \in 1 .. Len(H)
                             \/ \E j \in 1 .. Len(S) : i = Len(H) + j
                             \/ \E j \in 1 .. Len(P) : bs[i] = P[j]

LEMMA ThreeParts ==
  ASSUME NEW X, NEW H \in Seq(X), NEW S \in Seq(X), NEW P \in Seq(X), NEW bs, bs = H \o S \o P
  PROVE  MadeOf(bs, H, S, P)
<1>1. Len(H) \in Nat /\ Len(S) \in Nat /\ Len(P) \in Nat
  OBVIOUS
<1> DEFINE c == H \o S
<1>2. /\ c \in Seq(X) /\ Len(c) = Len(H) + Len(S)
      /\ \A i \in 1 .. Len(H) + Len(S) : c[i] = IF i <= Len(H) THEN H[i] ELSE S[i - Len(H)]
  OBVIOUS
<1> HIDE DEF c
<1>3. /\ Len(bs) = Len(c) + Len(P)
      /\ \A i \in 1 .. Len(c) + Len(P) : bs[i] = IF i <= Len(c) THEN c[i] ELSE P[i - Len(c)]
  <2> DEFINE d == c \o P
  <2>1. bs = d
    BY DEF c
  <2>2. /\ Len(d) = Len(c) + Len(P)
        /\ \A i \in 1 .. Len(c) + Len(P) : d[i] = IF i <= Len(c) THEN c[i] ELSE P[i - Len(c)]
    <3>1. c \in Seq(X)
      BY <1>2
    <3> QED
      BY <3>1
  <2> HIDE DEF d
  <2> QED
    BY <2>1, <2>2
<1>4. \A i \in 1 .. Len(H) : bs[i] = H[i]
  BY <1>1, <1>2, <1>3
<1>5. \A i \in 1 .. Len(S) : bs[Len(H) + i] = S[i]
  <2> SUFFICES ASSUME NEW i \in 1 .. Len(S) PROVE bs[Len(H) + i] = S[i]
    OBVIOUS
  <2>1. Len(H) + i \in 1 .. Len(H) + Len(S) /\ ~(Len(H) + i <= Len(H)) /\ Len(H) + i - Len(H) = i
        /\ Len(H) + i \in 1 .. Len(c) + Len(P) /\ Len(H) + i <= Len(c)
    BY <1>1, <1>2
  <2> QED
    BY <1>2, <1>3, <2>1
<1>6. ASSUME NEW i \in 1 .. Len(bs)
      PROVE  \/ i \in 1 .. Len(H)
             \/ \E j \in 1 .. Len(S) : i = Len(H) + j
             \/ \E j \in 1 .. Len(P) : bs[i] = P[j]
  <2>1. i \in 1 .. Len(c) + Len(P) /\ Len(c) \in Nat
    BY <1>1, <1>2, <1>3
  <2>2. CASE i <= Len(H)
    BY <1>1, <2>1, <2>2
  <2>3. CASE i > Len(H) /\ i <= Len(c)
    <3>1. i - Len(H) \in 1 .. Len(S) /\ i = Len(H) + (i - Len(H))
      BY <1>1, <1>2, <2>1, <2>3
    <3> QED
      BY <3>1
  <2>4. CASE i > Len(c)
    <3>1. i - Len(c) \in 1 .. Len(P) /\ ~(i <= Len(c))
      BY <1>1, <2>1, <2>4
    <3> QED
      BY <1>3, <2>1, <3>1
  <2> QED
    BY <1>1, <1>2, <2>1, <2>2, <2>3, <2>4
<1>7. Len(bs) \in Nat /\ Len(bs) = Len(H) + Len(S) + Len(P)
  BY <1>1, <1>2, <1>3
<1> QED
  BY <1>4, <1>5, <1>6, <1>7, Zenon DEF MadeOf

AtMost(q, X, x) == q \in Seq(X) /\ Len(q) \in {0, 1} /\ \A j \in 1 .. Len(q) : j = 1 /\ q[j] = x

LEMMA AtMostOne ==
  ASSUME NEW X, NEW x \in X, NEW q, q \in {<<>>, <<x>>}
  PROVE  AtMost(q, X, x)
<1>1. CASE q = <<>>
  BY <1>1 DEF AtMost
<1>2. CASE q = <<x>>
  BY <1>2 DEF AtMost
<1> QED
  BY <1>1, <1>2

LEMMA PrefixHas ==
  ASSUME NEW bs, NEW k, NEW i \in 1 .. k PROVE bs[i].assets \subseteq Prefix(bs, k)
  BY DEF Prefix

LEMMA HostBatchSays ==
  ASSUME NEW names
  PROVE  /\ HostBatch(names).assets = {Asset("subdomain", n) : n \in names}
         /\ Ends(HostBatch(names).relations) \subseteq {Asset("domain", Root)} \cup {Asset("subdomain", n) : n \in names}
  BY DEF HostBatch, Batch, Ends

LEMMA SitesSay ==
  ASSUME NEW e, NEW hosts
  PROVE  Ends(siteFacts(e, hosts).relations) \subseteq
           siteFacts(e, hosts).assets \cup {Asset("domain", Root)} \cup {Asset("subdomain", n) : n \in hosts}
<1> DEFINE ok == {n \in e.sites : n = Root \/ (n \in hosts /\ withinRoot(n, Root))}
           key(n) == IF n = Root THEN Asset("domain", n) ELSE Asset("subdomain", n)
<1>1. /\ siteFacts(e, hosts).assets = {Asset("web", n) : n \in ok}
      /\ siteFacts(e, hosts).relations = {<<key(n), Asset("web", n)>> : n \in ok}
  BY DEF siteFacts, Batch
<1>2. \A n \in ok : key(n) \in {Asset("domain", Root)} \cup {Asset("subdomain", x) : x \in hosts}
  OBVIOUS
<1> HIDE DEF ok, key
<1> QED
  BY <1>1, <1>2 DEF Ends

(* The batches of an event: its hosts in chunks, its sites, its progress.  *)
HostBatches(taken) == [i \in DOMAIN Chunks(taken, FlushSize) |-> HostBatch(Chunks(taken, FlushSize)[i])]

SiteBatches(e, hosts) == IF siteFacts(e, hosts).assets = {} THEN <<>> ELSE <<siteFacts(e, hosts)>>

ProgressBatches(e) == IF e.started \/ e.done THEN <<Batch({}, {})>> ELSE <<>>

EventBatches(e, hosts, taken) == HostBatches(taken) \o SiteBatches(e, hosts) \o ProgressBatches(e)

EventShape(bs, site, taken, ch) ==
  \E n \in Nat :
    /\ Len(bs) \in Nat /\ Len(bs) >= n
    /\ \A x \in taken : \E i \in 1 .. n : x \in ch[i]
    /\ \A i \in 1 .. n : bs[i] = HostBatch(ch[i])
    /\ \A i \in 1 .. Len(bs) : i \in 1 .. n \/ (i = n + 1 /\ bs[i] = site) \/ bs[i] = Batch({}, {})

LEMMA EventBatchesAre ==
  ASSUME NEW e, NEW hosts, NEW taken, IsFiniteSet(taken)
  PROVE  EventShape(EventBatches(e, hosts, taken), siteFacts(e, hosts), taken, Chunks(taken, FlushSize))
<1> DEFINE ch == Chunks(taken, FlushSize)
           site == siteFacts(e, hosts)
           none == Batch({}, {})
           H == HostBatches(taken)
           S == SiteBatches(e, hosts)
           P == ProgressBatches(e)
           bs == EventBatches(e, hosts, taken)
<1>1. PICK n \in Nat : DOMAIN ch = 1 .. n /\ \A x \in taken : \E i \in 1 .. n : x \in ch[i]
  <2>1. FlushSize \in Nat \ {0}
    BY ExecutorAssumption
  <2>2. CoveredBy(taken, Chunks(taken, FlushSize))
    BY <2>1, ChunksFit
  <2> QED
    BY <2>2 DEF CoveredBy
<1> DEFINE X == {HostBatch(ch[i]) : i \in 1 .. n} \cup {site, none}
<1>2. H = [i \in DOMAIN ch |-> HostBatch(ch[i])] /\ bs = H \o S \o P
  BY DEF HostBatches, EventBatches
<1>3. S \in {<<>>, <<site>>} /\ P \in {<<>>, <<none>>}
  BY DEF SiteBatches, ProgressBatches
<1>4. site \in X /\ none \in X /\ \A i \in 1 .. n : HostBatch(ch[i]) \in X
  OBVIOUS
<1> HIDE DEF ch, site, none, H, S, P, bs, X
<1>5. H \in Seq(X) /\ Len(H) = n /\ \A i \in 1 .. n : H[i] = HostBatch(ch[i])
  <2>1. H \in [1 .. n -> X] /\ \A i \in 1 .. n : H[i] = HostBatch(ch[i])
    BY <1>1, <1>2, <1>4
  <2> QED
    BY <1>1, <2>1
<1>6. S \in Seq(X) /\ Len(S) \in {0, 1} /\ \A j \in 1 .. Len(S) : j = 1 /\ S[j] = site
  <2>1. AtMost(S, X, site)
    BY <1>3, <1>4, AtMostOne, Zenon
  <2> QED
    BY <2>1 DEF AtMost
<1>7. P \in Seq(X) /\ Len(P) \in {0, 1} /\ \A j \in 1 .. Len(P) : j = 1 /\ P[j] = none
  <2>1. AtMost(P, X, none)
    BY <1>3, <1>4, AtMostOne, Zenon
  <2> QED
    BY <2>1 DEF AtMost
<1>8. MadeOf(bs, H, S, P)
  <2>1. bs = H \o S \o P
    BY <1>2
  <2>2. H \in Seq(X) /\ S \in Seq(X) /\ P \in Seq(X)
    BY <1>5, <1>6, <1>7
  <2> QED
    BY <2>1, <2>2, ThreeParts, Zenon
<1>9. Len(bs) >= n
  BY <1>1, <1>5, <1>6, <1>7, <1>8 DEF MadeOf
<1>10. ASSUME NEW i \in 1 .. Len(bs)
       PROVE  i \in 1 .. n \/ (i = n + 1 /\ bs[i] = site) \/ bs[i] = none
  <2>1. CASE \E j \in 1 .. Len(S) : i = n + j
    <3>1. PICK j \in 1 .. Len(S) : i = n + j
      BY <2>1
    <3>2. j = 1 /\ S[j] = site
      BY <1>6, <3>1
    <3>3. bs[n + j] = S[j]
      BY <1>5, <1>8, <3>1 DEF MadeOf
    <3> QED
      BY <3>1, <3>2, <3>3
  <2>2. CASE \E j \in 1 .. Len(P) : bs[i] = P[j]
    BY <1>7, <2>2
  <2> QED
    BY <1>5, <1>8, <2>1, <2>2 DEF MadeOf
<1>11. \A i \in 1 .. n : bs[i] = HostBatch(ch[i])
  BY <1>5, <1>8 DEF MadeOf
<1>12. Len(bs) \in Nat
  BY <1>8 DEF MadeOf
<1> QED
  BY <1>1, <1>9, <1>10, <1>11, <1>12 DEF bs, ch, site, none, EventShape

LEMMA EventBatchesFit ==
  ASSUME ScanInv, job.pc = "collect", NEW e, NEW taken, IsFiniteSet(taken)
  PROVE  LET bs == EventBatches(e, job.hosts \cup taken, taken)
         IN  /\ Len(bs) \in Nat
             /\ \A i \in 1 .. Len(bs) : Ends(bs[i].relations) \subseteq sent \cup Prefix(bs, i)
             /\ {Asset("subdomain", x) : x \in taken} \subseteq Prefix(bs, Len(bs))
<1> DEFINE hosts == job.hosts \cup taken
           bs == EventBatches(e, hosts, taken)
           ch == Chunks(taken, FlushSize)
<1>1. Asset("domain", Root) \in sent /\ \A h \in job.hosts : Asset("subdomain", h) \in sent
  BY DEF ScanInv, HostsReported, KindFits
<1>2. PICK n \in Nat :
        /\ Len(bs) \in Nat /\ Len(bs) >= n
        /\ \A x \in taken : \E i \in 1 .. n : x \in ch[i]
        /\ \A i \in 1 .. n : bs[i] = HostBatch(ch[i])
        /\ \A i \in 1 .. Len(bs) : i \in 1 .. n \/ (i = n + 1 /\ bs[i] = siteFacts(e, hosts)) \/ bs[i] = Batch({}, {})
  <2>1. EventShape(bs, siteFacts(e, hosts), taken, ch)
    BY EventBatchesAre
  <2> HIDE DEF bs, hosts, ch
  <2> QED
    BY <2>1 DEF EventShape
<1>3. \A h \in hosts : h \in taken \/ Asset("subdomain", h) \in sent
  BY <1>1
<1> HIDE DEF hosts, bs, ch
<1>4. ASSUME NEW k \in Nat, k >= n, NEW x \in taken PROVE Asset("subdomain", x) \in Prefix(bs, k)
  <2>1. PICK i \in 1 .. n : x \in ch[i]
    BY <1>2
  <2>2. i \in 1 .. k
    BY <1>4, <2>1
  <2>3. bs[i] = HostBatch(ch[i])
    BY <1>2, <2>1
  <2>4. Asset("subdomain", x) \in bs[i].assets
    BY <2>1, <2>3, HostBatchSays
  <2> QED
    BY <2>2, <2>4, PrefixHas
<1>5. ASSUME NEW i \in 1 .. Len(bs) PROVE Ends(bs[i].relations) \subseteq sent \cup Prefix(bs, i)
  <2>1. i \in Nat /\ i \in 1 .. i
    BY <1>2
  <2>2. bs[i].assets \subseteq Prefix(bs, i)
    BY <2>1, PrefixHas
  <2>3. CASE i \in 1 .. n
    <3>1. bs[i] = HostBatch(ch[i])
      BY <1>2, <2>3
    <3>2. Ends(bs[i].relations) \subseteq {Asset("domain", Root)} \cup bs[i].assets
      BY <3>1, HostBatchSays
    <3> QED
      BY <1>1, <2>2, <3>2
  <2>4. CASE i = n + 1 /\ bs[i] = siteFacts(e, hosts)
    <3>1. \A x \in taken : Asset("subdomain", x) \in Prefix(bs, i)
      BY <1>4, <2>1, <2>4
    <3>2. {Asset("subdomain", x) : x \in hosts} \subseteq sent \cup Prefix(bs, i)
      BY <1>3, <3>1
    <3>3. Ends(bs[i].relations) \subseteq bs[i].assets \cup {Asset("domain", Root)} \cup {Asset("subdomain", x) : x \in hosts}
      BY <2>4, SitesSay
    <3> QED
      BY <1>1, <2>2, <3>2, <3>3
  <2>5. CASE bs[i] = Batch({}, {})
    BY <2>5, PlainBatch
  <2> QED
    BY <1>2, <2>3, <2>4, <2>5
<1>6. {Asset("subdomain", x) : x \in taken} \subseteq Prefix(bs, Len(bs))
  BY <1>2, <1>4
<1> QED
  BY <1>2, <1>5, <1>6 DEF bs, hosts

LEMMA CollectKeeps == ASSUME ScanInv, Collect PROVE ScanInv'
<1> DEFINE e == Head(events)
<1>1. /\ job.pc = "collect" /\ events # <<>> /\ events' = Tail(events)
      /\ UNCHANGED <<sources, published, answered>>
  BY DEF Collect
<1>2. job.kind = "passive_intel" /\ job.status = "running"
  BY <1>1 DEF ScanInv, KindFits
<1>3. /\ e \in SourceEvents /\ e = events[1] /\ events' \in Seq(SourceEvents) /\ Len(events') = Len(events) - 1
      /\ \A i \in 1 .. Len(events') : events'[i] = events[i + 1]
      /\ Len(events) \in Nat /\ Len(events) <= ChannelSize /\ ChannelSize \in Nat
  <2>1. events \in Seq(SourceEvents) /\ Len(events) <= ChannelSize
    BY DEF ScanInv, ScanShape
  <2>2. ChannelSize \in Nat
    BY ExecutorAssumption
  <2>3. e \in SourceEvents /\ e = events[1] /\ Tail(events) \in Seq(SourceEvents) /\ Len(Tail(events)) = Len(events) - 1
    BY <1>1, <2>1
  <2>4. \A i \in 1 .. Len(Tail(events)) : Tail(events)[i] = events[i + 1]
    BY <1>1, <2>1
  <2> QED
    BY <1>1, <2>1, <2>2, <2>3, <2>4
<1>4. Len(events') <= ChannelSize
  BY <1>3
<1>5. PICK taken \in SUBSET {normalizeDomain(r) : r \in e.found} :
        LET hosts == job.hosts \cup taken
            seen  == job.seen \cup {<<e.source, n>> : n \in taken}
            bs    == [i \in DOMAIN Chunks(taken, FlushSize) |-> HostBatch(Chunks(taken, FlushSize)[i])]
                     \o (IF siteFacts(e, hosts).assets = {} THEN <<>> ELSE <<siteFacts(e, hosts)>>)
                     \o (IF e.started \/ e.done THEN <<Batch({}, {})>> ELSE <<>>)
        IN  /\ Accepted(e, taken)
            /\ SendAll(bs, [job EXCEPT !.hosts = hosts, !.seen = seen,
                              !.errs = IF SourceFailed(e, seen) THEN @ \cup {<<e.source, "PROVIDER_UNAVAILABLE">>} ELSE @])
  BY DEF Collect
<1> HIDE DEF e
<1> DEFINE hosts == job.hosts \cup taken
           seen  == job.seen \cup {<<e.source, n>> : n \in taken}
           bs    == EventBatches(e, hosts, taken)
           next  == [job EXCEPT !.hosts = hosts, !.seen = seen,
                       !.errs = IF SourceFailed(e, seen) THEN @ \cup {<<e.source, "PROVIDER_UNAVAILABLE">>} ELSE @]
<1>6. Accepted(e, taken) /\ SendAll(bs, next)
  BY <1>5 DEF EventBatches, HostBatches, SiteBatches, ProgressBatches
<1>7. /\ IsFiniteSet(taken) /\ IsFiniteSet(hosts) /\ Cardinality(hosts) <= MaxHosts
      /\ \A r \in e.found : LET n == normalizeDomain(r)
                            IN  \/ n \in {"", Root} \/ ~withinRoot(n, Root) \/ <<e.source, n>> \in job.seen
                                \/ n \in taken \/ Cardinality(hosts) >= MaxHosts
  BY <1>2, <1>3, <1>6, AcceptedFits
<1>8. /\ Len(bs) \in Nat
      /\ \A i \in 1 .. Len(bs) : Ends(bs[i].relations) \subseteq sent \cup Prefix(bs, i)
      /\ {Asset("subdomain", x) : x \in taken} \subseteq Prefix(bs, Len(bs))
  BY <1>1, <1>7, EventBatchesFit
<1> HIDE DEF bs, next
<1>9. /\ dangling' = {} /\ sent \subseteq sent'
      /\ \/ ~ctxDone /\ ctxDone' = ctxDone /\ job' = next /\ sent' = sent \cup Prefix(bs, Len(bs))
         \/ job' = [job EXCEPT !.pc = "stopped"] /\ ctxDone' = TRUE
  BY <1>1, <1>6, <1>8, SendAllGives DEF ScanInv, Dangles
<1>10. CASE job' = [job EXCEPT !.pc = "stopped"] /\ ctxDone' = TRUE
  BY <1>1, <1>3, <1>4, <1>9, <1>10, StoppedKeeps
<1>11. CASE ~ctxDone /\ ctxDone' = ctxDone /\ job' = next /\ sent' = sent \cup Prefix(bs, Len(bs))
  <2>1. /\ DOMAIN job' = DOMAIN NewScan /\ job'.hosts = hosts /\ job'.seen = seen
        /\ job'.errs = IF SourceFailed(e, seen) THEN job.errs \cup {<<e.source, "PROVIDER_UNAVAILABLE">>} ELSE job.errs
        /\ \A f \in {"pc", "kind", "wanted", "at", "todo", "failed", "orgs", "filings", "looked", "status", "resolved"} : job'[f] = job[f]
    BY <1>11, ScanFields DEF ScanInv, ScanShape, next
  <2>2. \A x \in taken : Asset("subdomain", x) \in sent'
    BY <1>8, <1>11
  <2>3. Root' = Root
    BY <2>1 DEF Root
  <2>4. ScanShape'
    <3>1. job'.todo \in Seq(job'.hosts)
      BY <2>1, SeqGrows DEF ScanInv, ScanShape
    <3>2. IsFiniteSet(job'.hosts) /\ Cardinality(job'.hosts) <= MaxHosts
      BY <1>7, <2>1
    <3> HIDE DEF hosts, seen
    <3> QED
      BY <1>1, <1>3, <1>4, <1>11, <2>1, <3>1, <3>2 DEF ScanInv, ScanShape
  <2>5. KindFits' /\ HostsResolved' /\ ScanQuiet'
    BY <1>1, <1>2, <2>1 DEF ScanInv, KindFits, HostsResolved, ScanQuiet
  <2>6. HostsReported'
    <3>1. /\ Asset("domain", Root) \in sent
          /\ \A h \in job.hosts : Asset("subdomain", h) \in sent
          /\ \A x \in job.seen : Asset("subdomain", x[2]) \in sent
      BY <1>1, <1>2 DEF ScanInv, HostsReported
    <3>2. \A h \in job'.hosts : Asset("subdomain", h) \in sent'
      BY <1>9, <2>1, <2>2, <3>1
    <3>3. \A x \in job'.seen : Asset("subdomain", x[2]) \in sent'
      BY <1>9, <2>1, <2>2, <3>1
    <3> QED
      BY <1>9, <2>3, <3>1, <3>2, <3>3 DEF HostsReported
  <2>7. NamesTaken'
    <3> SUFFICES ASSUME NEW p \in published
                 PROVE  NameSettled(p)' \/ (p[1] = Root /\ OnChannel(p[2])')
      BY <1>1, <2>1, <2>3 DEF NamesTaken
    <3>1. CASE NameSettled(p)
      <4>1. job.hosts \subseteq job'.hosts /\ IsFiniteSet(job'.hosts)
        BY <1>7, <2>1
      <4> QED
        BY <1>9, <3>1, <4>1, NameStaysSettled
    <3>2. CASE p[1] = Root /\ OnChannel(p[2])
      <4>1. PICK i \in 1 .. Len(events) : \E r \in events[i].found : normalizeDomain(r) = p[2]
        BY <3>2 DEF OnChannel
      <4>2. CASE i = 1
        <5>1. \/ p[2] \in {"", Root} \/ ~withinRoot(p[2], Root) \/ <<e.source, p[2]>> \in job.seen
              \/ p[2] \in taken \/ Cardinality(hosts) >= MaxHosts
          BY <1>3, <1>7, <4>1, <4>2
        <5>2. <<e.source, p[2]>> \in job.seen => Asset("subdomain", p[2]) \in sent
          BY <1>1 DEF ScanInv, HostsReported
        <5>3. Cardinality(hosts) >= MaxHosts => NameSettled(p)'
          BY <2>1 DEF NameSettled
        <5> QED
          BY <1>9, <2>2, <3>2, <5>1, <5>2, <5>3 DEF NameSettled
      <4>3. CASE i # 1
        <5>1. i - 1 \in 1 .. Len(events') /\ events'[i - 1] = events[i]
          BY <1>3, <4>3
        <5> QED
          BY <3>2, <4>1, <5>1 DEF OnChannel
      <4> QED
        BY <4>2, <4>3
    <3> QED
      BY <1>1, <1>2, <3>1, <3>2 DEF ScanInv, NamesTaken
  <2>8. SourcesAnswer'
    <3> SUFFICES ASSUME job'.errs = {} PROVE SourcesAnswer'
      BY DEF SourcesAnswer
    <3>1. job.errs = {} /\ ~(e.done /\ e.err)
      BY <2>1 DEF SourceFailed
    <3>2. requestedProviderSources' = requestedProviderSources
      BY <2>1, SameSources
    <3>3. /\ requestedProviderSources \subseteq ScanSources
          /\ \A i \in 1 .. job.at : i < job.at =>
               \A s \in requestedProviderSources : <<ScanTargets[i], s>> \in answered
          /\ \A s \in requestedProviderSources : SourceAwaited(s)
      BY <1>1, <1>2, <1>11, <3>1 DEF ScanInv, SourcesAnswer
    <3>4. ASSUME NEW s \in requestedProviderSources PROVE SourceAwaited(s)'
      <4>1. CASE \E i \in 1 .. Len(events) : events[i].done /\ events[i].err
        <5>1. PICK i \in 1 .. Len(events) : events[i].done /\ events[i].err
          BY <4>1
        <5>2. i # 1
          BY <1>3, <3>1, <5>1
        <5>3. i - 1 \in 1 .. Len(events') /\ events'[i - 1] = events[i]
          BY <1>3, <5>2
        <5> QED
          BY <5>1, <5>3 DEF SourceAwaited
      <4> QED
        BY <1>1, <2>3, <3>3, <4>1 DEF SourceAwaited
    <3> QED
      BY <1>1, <2>1, <3>2, <3>3, <3>4 DEF SourcesAnswer
  <2>9. OrgsFit' /\ Dangles'
    BY <1>9, <2>1, OrgsKept, NothingDangles DEF ScanInv
  <2> QED
    BY <2>4, <2>5, <2>6, <2>7, <2>8, <2>9 DEF ScanInv
<1> QED
  BY <1>9, <1>10, <1>11

LEMMA ScanUnchanged == ASSUME ScanInv, UNCHANGED executorVars PROVE ScanInv'
<1>1. ScanShape' /\ KindFits' /\ ScanQuiet' /\ HostsReported' /\ HostsResolved' /\ OrgsFit' /\ Dangles'
  BY OrgsKept DEF executorVars, ScanInv, ScanShape, KindFits, ScanQuiet, HostsReported, HostsResolved, Dangles, Root
<1>2. NamesTaken' /\ SourcesAnswer'
  BY DEF executorVars, ScanInv, NamesTaken, NameSettled, OnChannel, SourcesAnswer, SourceAwaited, Root,
         requestedProviderSources
<1> QED
  BY <1>1, <1>2 DEF ScanInv

LEMMA ScanStepKeeps == ScanInv /\ [ExecutorNext]_executorVars => ScanInv'
<1> SUFFICES ASSUME ScanInv, [ExecutorNext]_executorVars PROVE ScanInv'
  OBVIOUS
<1>1. CASE UNCHANGED executorVars
  BY <1>1, ScanUnchanged
<1>2. CASE CancelScan
  BY <1>2, CancelScanKeeps
<1>3. CASE \E s \in ScanSources : SourceStep(s)
  <2>1. PICK s \in ScanSources : SourceStep(s)
    BY <1>3
  <2>2. CASE TakeSlot(s)
    BY <2>2, TakeSlotKeeps
  <2>3. CASE PublishStart(s)
    BY <2>3, PublishStartKeeps
  <2>4. CASE PublishEnd(s)
    BY <2>4, PublishEndKeeps
  <2>5. CASE SourceStops(s)
    BY <2>5, SourceStopsKeeps
  <2>6. CASE \E found \in SUBSET Offer[s] : Discover(s, found)
    BY <2>6, DiscoverKeeps
  <2>7. CASE \E err \in BOOLEAN : SearchEnds(s, err)
    BY <2>7, SearchEndsKeeps
  <2> QED
    BY <2>1, <2>2, <2>3, <2>4, <2>5, <2>6, <2>7 DEF SourceStep
<1>4. CASE ScanStep
  <2>1. CASE StartScan
    BY <2>1, StartScanKeeps
  <2>2. CASE Route \/ Stop \/ HeartbeatFails
    BY <2>2, EndingsKeep
  <2>3. CASE NextTarget
    BY <2>3, NextTargetKeeps
  <2>4. CASE Collect
    BY <2>4, CollectKeeps
  <2>5. CASE TargetDone
    BY <2>5, TargetDoneKeeps
  <2>11. CASE SkipCompany
    BY <2>11, SkipCompanyKeeps
  <2>6. CASE Completed
    BY <2>6, CompletedKeeps
  <2>7. CASE \E found \in SUBSET DOMAIN WildcardOf : BeginDNS(found)
    BY <2>7, BeginDNSKeeps
  <2>8. CASE \E ok \in SUBSET job.hosts, error \in BOOLEAN : ResolveChunk(ok, error)
    BY <2>8, ResolveChunkKeeps
  <2>9. CASE \E available \in BOOLEAN : StartOrg(available)
    BY <2>9, StartOrgKeeps
  <2>10. CASE \E code \in {"", "PROVIDER_TIMEOUT", "PROVIDER_UNAVAILABLE"} : collectForCompany(code)
    BY <2>10, CollectForCompanyKeeps
  <2> QED
    BY <1>4, <2>1, <2>2, <2>3, <2>4, <2>5, <2>6, <2>7, <2>8, <2>9, <2>10, <2>11 DEF ScanStep
<1> QED
  BY <1>1, <1>2, <1>3, <1>4 DEF ExecutorNext

LEMMA ScanInvHolds == ExecutorSpec => []ScanInv
  BY ScanInitInv, ScanStepKeeps, PTL DEF ExecutorSpec

LEMMA ScanTyped == ScanInv => ExecutorTypeOK
  BY DEF ScanInv, ScanShape, KindFits, OrgsFit, ExecutorTypeOK, ScanPhases, SourcePhases

LEMMA ScanReports == ScanInv => ExecutionReports
<1> SUFFICES ASSUME ScanInv, job.status = "success", job.kind = "passive_intel"
             PROVE  /\ Roots \X requestedProviderSources \subseteq answered
                    /\ job.hosts \subseteq job.resolved
                    /\ \A p \in published : NameSettled(p)
  BY DEF ExecutionReports, ReferencesReported, SuccessMeansComplete, NameSettled, ScanInv, Dangles
<1>1. /\ job.pc = "done" /\ ~ctxDone /\ job.at = Len(ScanTargets)
      /\ job.errs = {} /\ job.hosts \subseteq job.resolved
  BY DEF ScanInv, KindFits, HostsResolved
<1>2. \A p \in published : NameSettled(p)
  BY <1>1 DEF ScanInv, NamesTaken
<1>3. ASSUME NEW r \in Roots, NEW s \in requestedProviderSources PROVE <<r, s>> \in answered
  <2>1. DOMAIN ScanTargets = 1 .. Len(ScanTargets)
    BY ExecutorLimits
  <2>2. PICK i \in 1 .. Len(ScanTargets) : r = ScanTargets[i]
    BY <2>1 DEF Roots
  <2> QED
    BY <1>1, <2>2 DEF ScanInv, SourcesAnswer
<1> QED
  BY <1>1, <1>2, <1>3

(* An execution keeps its limits: hosts, organisations and the channel     *)
(* between the sources and the collector never grow past theirs, whatever  *)
(* the sources find (PassiveExecutor.Execute, OrgIntelExecutor.Execute).   *)
THEOREM ExecutorTypeCorrect == ExecutorSpec => []ExecutorTypeOK
  BY ScanInvHolds, ScanTyped, PTL

(* Whatever the order in which sources publish, fail, time out or are      *)
(* cancelled, and wherever the sending ends, what is related was reported, *)
(* but for the holder that a filing's row names; and a passive run that    *)
(* ends as a success had an answer of every source asked for every target, *)
(* resolved every host and reported every name published up to its limit   *)
(* (PassiveExecutor.Execute, OrgIntelExecutor.Execute).                    *)
THEOREM ExecutionReportsCorrectly == ExecutorSpec => []ExecutionReports
  BY ScanInvHolds, ScanReports, PTL

-----------------------------------------------------------------------------
(* The command line: what the checkpoint passes over was done.             *)

Phases == {"off", "target", "done", "written", "names", "prep", "derive",
           "subdomains", "certs", "certscan", "ips", "block", "blockadd", "blocksave"}
NamePhases == {"names", "prep", "derive"}
DomainPhases == NamePhases \cup {"subdomains", "certs", "certscan"}
BlockPhases == {"block", "blockadd", "blocksave"}

(* The process's claims count: its log began with it or with what it       *)
(* resumed from.                                                           *)
Trusted == cli.fresh \/ ~scanLog.abandoned

Claimed == Readable(files.cp) /\ ~scanLog.abandoned

BlockOfTarget == BlockAddresses[CliTarget]

CliShape ==
  /\ DOMAIN cli = DOMAIN NoProcess /\ cli.fresh \in BOOLEAN
  /\ DOMAIN files = {"cp", "subs", "urls", "cidrs"}
  /\ DOMAIN scanLog = {"attempted", "scanned", "overtaken", "abandoned"}
  /\ scanLog.abandoned \in BOOLEAN
  /\ kills \in 0 .. MaxKills

(* A checkpoint is of a target of its request and of the target's kind. *)
CheckpointFits(cp) ==
  /\ cp.phase \in {"none", "unreadable", "target_done", "subdomains_done", "cidr_scanning"}
  /\ Readable(cp) =>
       LET t == TargetList[cp.req][cp.idx]
       IN  /\ cp.req \in CliRequests /\ cp.idx \in 1 .. Len(TargetList[cp.req])
           /\ cp.phase = "subdomains_done" => KindOf[t] = "domain" /\ t \in cp.all
           /\ cp.phase = "cidr_scanning" => KindOf[t] = "cidr" /\ cp.n \in 0 .. Len(BlockAddresses[t])

MidFits ==
  \/ cli.mid.phase = "none"
  \/ /\ cli.pc = "target" /\ cli.mid.phase \in {"subdomains_done", "cidr_scanning"}
     /\ CheckpointFits(cli.mid) /\ cli.mid.req = cli.req /\ cli.mid.idx = cli.idx

ProcessFits ==
  /\ cli.pc \in Phases
  /\ cli.pc # "off" => cli.req \in CliRequests /\ cli.idx \in 1 .. Len(Targets) + 1
  /\ cli.pc \notin {"off", "target", "written"} => cli.idx <= Len(Targets)
  /\ cli.pc \in DomainPhases => KindOf[CliTarget] = "domain" /\ CliTarget \in cli.all
  /\ cli.pc \in BlockPhases => KindOf[CliTarget] = "cidr" /\ cli.n \in 0 .. Len(BlockOfTarget)
  /\ cli.pc \in {"blockadd", "blocksave"} => cli.n < Len(BlockOfTarget)
  /\ cli.pc = "ips" =>
       /\ DOMAIN cli.ips = IPBatch /\ KindOf[CliTarget] = "ip"
       /\ \A i \in IPBatch : cli.ips[i] \in {"todo", "scan", "add", "save", "clash", "done"}

(* What was found and is not yet in the files is in the hands of a scan. *)
HandFits ==
  /\ cli.pc \notin NamePhases => cli.prep = {} /\ cli.tasks = {}
  /\ cli.pc \notin NamePhases \cup {"certscan", "ips", "blockadd"} => cli.hand = {}
  /\ cli.pc = "ips" =>
       \A u \in cli.hand : \E i \in IPBatch : cli.ips[i] = "add" /\ u = <<Targets[i], Targets[i]>>
  /\ cli.pc # "off" => cli.urls = files.urls

Pending(s) ==
  \/ cli.pc \in NamePhases /\ s[1] = cli.idx /\ s[2] = "names"
  \/ cli.pc = "certscan" /\ s[1] = cli.idx /\ s[2] = "cert"
  \/ /\ cli.pc = "ips" /\ s[1] \in IPBatch /\ cli.ips[s[1]] = "add"
     /\ s[3] = <<Targets[s[1]], Targets[s[1]]>>
  \/ cli.pc = "blockadd" /\ s[1] = cli.idx /\ s[2] = BlockOfTarget[cli.n + 1]

ScannedKept ==
  \A s \in scanLog.scanned : s[3] \in files.urls \/ (s[3] \in cli.hand /\ Pending(s))

(* The checkpoint is not ahead of the process that works on its request. *)
Behind ==
  Claimed /\ cli.pc # "off" =>
    /\ files.cp.req = cli.req
    /\ \/ files.cp.idx < cli.idx
       \/ files.cp.idx = cli.idx /\ cli.pc = "target" /\ cli.mid = files.cp
       \/ files.cp.idx = cli.idx /\ cli.pc = "done"
       \/ files.cp.idx = cli.idx /\ files.cp.phase = "subdomains_done" /\ cli.pc \in {"certs", "certscan"}
       \/ files.cp.idx = cli.idx /\ files.cp.phase = "cidr_scanning" /\ cli.pc \in BlockPhases
            /\ files.cp.n <= cli.n
       \/ cli.pc = "ips" /\ files.cp.phase = "target_done" /\ files.cp.idx \in IPBatch

Settled(i, step) == <<i, step>> \in scanLog.attempted \/ i \in scanLog.overtaken

(* What the process has put behind it was done. *)
Progress ==
  Trusted /\ cli.pc # "off" =>
    /\ \A i \in 1 .. Len(Targets) : i < cli.idx \/ (i = cli.idx /\ cli.pc = "done") =>
         \A step \in Steps(Targets[i]) : Settled(i, step)
    /\ cli.pc \in {"subdomains", "certs", "certscan"} => Settled(cli.idx, "names")
    /\ cli.pc \in BlockPhases => \A k \in 1 .. cli.n : Settled(cli.idx, BlockOfTarget[k])
    /\ cli.pc \in {"blockadd", "blocksave"} => Settled(cli.idx, BlockOfTarget[cli.n + 1])
    /\ cli.pc = "ips" =>
         \A i \in IPBatch : cli.ips[i] \notin {"todo", "scan"} => Settled(i, Targets[i])
    /\ cli.mid.phase = "subdomains_done" => Settled(cli.idx, "names")
    /\ cli.mid.phase = "cidr_scanning" => \A k \in 1 .. cli.mid.n : Settled(cli.idx, BlockOfTarget[k])

NamesKept ==
  Trusted /\ cli.pc # "off" =>
    /\ cli.subs \subseteq files.subs
    /\ cli.pc \in {"prep", "derive", "subdomains"} => cli.all \subseteq files.subs
    /\ cli.mid.phase = "subdomains_done" => cli.mid.all \subseteq files.subs

CheckpointHolds ==
  Claimed =>
    /\ \A i \in 1 .. files.cp.idx : \A step \in Steps(TargetList[files.cp.req][i]) :
         Passed(files.cp, i, step) => Settled(i, step)
    /\ files.cp.phase = "subdomains_done" => files.cp.all \subseteq files.subs
    /\ cli.pc = "ips" =>
         \A j \in IPBatch : cli.ips[j] \in {"todo", "scan", "add"} /\ j < startIdx(files.cp) =>
                              j \in scanLog.overtaken

CliInv ==
  /\ CliShape /\ CheckpointFits(files.cp) /\ MidFits /\ ProcessFits /\ HandFits
  /\ ScannedKept /\ Behind /\ Progress /\ NamesKept /\ CheckpointHolds

LEMMA TargetsFit ==
  ASSUME NEW req \in CliRequests
  PROVE  /\ Len(TargetList[req]) \in Nat
         /\ \A i \in 1 .. Len(TargetList[req]) :
              /\ TargetList[req][i] \in DOMAIN KindOf
              /\ KindOf[TargetList[req][i]] \in {"domain", "cidr", "ip", "unknown"}
<1>1. TargetList[req] \in Seq(DOMAIN KindOf)
  BY CliAssumption
<1>2. Len(TargetList[req]) \in Nat /\ \A i \in 1 .. Len(TargetList[req]) : TargetList[req][i] \in DOMAIN KindOf
  BY <1>1
<1> QED
  BY <1>2, CliAssumption

LEMMA BlockListFits ==
  ASSUME NEW t \in DOMAIN KindOf, KindOf[t] = "cidr"
  PROVE  LET b == BlockAddresses[t]
         IN  /\ Len(b) \in Nat /\ DOMAIN b = 1 .. Len(b)
             /\ \A j, k \in 1 .. Len(b) : b[j] = b[k] => j = k
             /\ \A n \in 0 .. Len(b) : ToSet(SubSeq(b, 1, n)) = {b[k] : k \in 1 .. n}
<1> DEFINE b == BlockAddresses[t]
           T == ToSet(b)
<1>1. b \in Seq(T) /\ IsInjective(b)
  BY CliAssumption
<1> HIDE DEF b, T
<1>2. Len(b) \in Nat /\ DOMAIN b = 1 .. Len(b)
  BY <1>1
<1>3. \A j, k \in 1 .. Len(b) : b[j] = b[k] => j = k
  BY <1>1, <1>2 DEF IsInjective
<1>4. ASSUME NEW n \in 0 .. Len(b) PROVE ToSet(SubSeq(b, 1, n)) = {b[k] : k \in 1 .. n}
  <2> DEFINE s == SubSeq(b, 1, n)
  <2>1. Len(s) = n /\ DOMAIN s = 1 .. n /\ \A k \in 1 .. n : s[k] = b[k]
    BY <1>1, <1>2
  <2> HIDE DEF s
  <2> QED
    BY <2>1 DEF ToSet, s
<1> QED
  BY <1>2, <1>3, <1>4 DEF b

LEMMA CliInitInv == CliInit => CliInv
<1> SUFFICES ASSUME CliInit PROVE CliInv
  OBVIOUS
<1>0. kills \in 0 .. MaxKills
  <2>1. MaxKills \in Nat
    BY CliAssumption
  <2>2. kills = 0
    BY DEF CliInit
  <2> QED
    BY <2>1, <2>2
<1> USE DEF CliInit, NoProcess, NoCheckpoint, Checkpoint
<1>1. /\ cli.pc = "off" /\ cli.fresh = FALSE /\ cli.hand = {} /\ cli.prep = {} /\ cli.tasks = {}
      /\ cli.mid.phase = "none" /\ files.cp.phase = "none" /\ scanLog.scanned = {}
  BY DEF NoLog
<1>2. CliShape
  <2>1. DOMAIN files = {"cp", "subs", "urls", "cidrs"}
    OBVIOUS
  <2>2. DOMAIN scanLog = {"attempted", "scanned", "overtaken", "abandoned"} /\ scanLog.abandoned = FALSE
    BY DEF NoLog
  <2>4. DOMAIN cli = DOMAIN NoProcess
    OBVIOUS
  <2> QED
    BY <1>0, <1>1, <2>1, <2>2, <2>4 DEF CliShape
<1>3. ~Readable(files.cp)
  BY <1>1 DEF Readable
<1> QED
  BY <1>1, <1>2, <1>3 DEF CliInv, CheckpointFits, MidFits, ProcessFits, HandFits, ScannedKept, Behind,
     Progress, NamesKept, CheckpointHolds, Claimed, Phases, NamePhases, DomainPhases, BlockPhases

(* Steps that leave the checkpoint alone and only add to the log keep what *)
(* the checkpoint says.                                                    *)
Grows ==
  /\ DOMAIN cli' = DOMAIN NoProcess /\ cli'.req = cli.req /\ cli'.fresh = cli.fresh
  /\ files'.cp = files.cp /\ files.subs \subseteq files'.subs
  /\ DOMAIN files' = DOMAIN files /\ DOMAIN scanLog' = DOMAIN scanLog
  /\ scanLog.attempted \subseteq scanLog'.attempted
  /\ scanLog'.overtaken = scanLog.overtaken /\ scanLog'.abandoned = scanLog.abandoned
  /\ kills' = kills

LEMMA GrowsKeeps ==
  ASSUME CliInv, Grows
  PROVE  /\ CliShape' /\ CheckpointFits(files.cp)' /\ Trusted' = Trusted /\ Claimed' = Claimed
         /\ \A i, step : Settled(i, step) => Settled(i, step)'
         /\ Targets' = Targets
         /\ Claimed' => /\ \A i \in 1 .. files'.cp.idx : \A step \in Steps(TargetList[files'.cp.req][i]) :
                             Passed(files'.cp, i, step) => Settled(i, step)'
                        /\ files'.cp.phase = "subdomains_done" => files'.cp.all \subseteq files'.subs
<1>1. CliShape' /\ Trusted' = Trusted /\ Claimed' = Claimed
  BY DEF CliInv, CliShape, Grows, Trusted, Claimed
<1>2. CheckpointFits(files.cp)'
  BY DEF CliInv, Grows, CheckpointFits
<1>3. \A i, step : Settled(i, step) => Settled(i, step)'
  BY DEF Settled, Grows
<1>4. Targets' = Targets
  BY DEF Targets, Grows
<1>5. Claimed' => /\ \A i \in 1 .. files'.cp.idx : \A step \in Steps(TargetList[files'.cp.req][i]) :
                             Passed(files'.cp, i, step) => Settled(i, step)'
                  /\ files'.cp.phase = "subdomains_done" => files'.cp.all \subseteq files'.subs
  BY <1>1, <1>3 DEF CliInv, CheckpointHolds, Grows
<1> QED
  BY <1>1, <1>2, <1>3, <1>4, <1>5

LEMMA NoProcessFields ==
  DOMAIN NoProcess = {"pc", "req", "slots", "fresh", "idx", "mid", "subs", "urls", "cidrs", "all",
                      "base", "waiting", "prep", "waf", "resolved", "tasks", "cert", "ips", "n",
                      "hand", "book"}
  BY DEF NoProcess

LEMMA DomainStepKeeps ==
  ASSUME CliInv, Grows, cli.pc \in DomainPhases, cli'.pc \in DomainPhases,
         cli'.idx = cli.idx, cli'.mid = cli.mid, cli.all \subseteq cli'.all,
         cli.pc \in {"certs", "certscan"} => cli'.pc \in {"certs", "certscan"},
         cli'.pc \in {"subdomains", "certs", "certscan"} =>
           cli.pc \in {"subdomains", "certs", "certscan"} \/ <<cli.idx, "names">> \in scanLog'.attempted
  PROVE  /\ CliShape' /\ CheckpointFits(files.cp)' /\ MidFits' /\ ProcessFits'
         /\ Behind' /\ Progress' /\ CheckpointHolds'
<1> USE DEF DomainPhases, NamePhases, BlockPhases
<1>1. cli.mid.phase = "none" /\ MidFits'
  BY DEF CliInv, MidFits
<1>2. CliTarget' = CliTarget
  BY GrowsKeeps DEF CliTarget
<1>3. ProcessFits'
  BY <1>2, GrowsKeeps DEF CliInv, ProcessFits, Phases, Grows
<1>4. Behind'
  BY GrowsKeeps DEF CliInv, Behind, Grows
<1>5. Progress'
  <2> SUFFICES ASSUME Trusted' PROVE Progress'
    BY DEF Progress
  <2>0. /\ \A i \in 1 .. Len(Targets) : i < cli.idx => \A step \in Steps(Targets[i]) : Settled(i, step)
        /\ cli.pc \in {"subdomains", "certs", "certscan"} => Settled(cli.idx, "names")
    BY GrowsKeeps DEF CliInv, Progress
  <2>1. \A i \in 1 .. Len(Targets') : i < cli'.idx =>
          \A step \in Steps(Targets'[i]) : Settled(i, step)'
    BY <2>0, GrowsKeeps
  <2>2. cli'.pc \in {"subdomains", "certs", "certscan"} => Settled(cli.idx, "names")'
    BY <2>0 DEF Settled, Grows
  <2>3. cli'.pc \notin {"off", "target", "done", "written", "ips"} \cup BlockPhases
    OBVIOUS
  <2> QED
    BY <1>1, <2>1, <2>2, <2>3 DEF Progress
<1>6. CheckpointHolds'
  BY GrowsKeeps DEF CheckpointHolds
<1> QED
  BY <1>1, <1>3, <1>4, <1>5, <1>6, GrowsKeeps

LEMMA SourceReturnsKeeps ==
  ASSUME CliInv, NEW s \in SubSources, SourceReturns(s), kills' = kills PROVE CliInv'
<1>1. PICK names : cli' = [cli EXCEPT !.waiting = @ \ {s}, !.all = @ \cup names,
                                      !.prep = @ \cup {<<s, name>> : name \in names}]
  BY DEF SourceReturns
<1>2. /\ DOMAIN cli' = DOMAIN NoProcess /\ cli.pc = "names"
      /\ \A f \in {"pc", "req", "fresh", "idx", "mid", "subs", "urls", "tasks", "hand"} : cli'[f] = cli[f]
      /\ cli'.all = cli.all \cup names
  BY <1>1, NoProcessFields DEF CliInv, CliShape, SourceReturns
<1>3. UNCHANGED <<files, scanLog>>
  BY DEF SourceReturns
<1>4. Grows
  BY <1>2, <1>3 DEF Grows
<1> QED
  <2>1. HandFits' /\ NamesKept'
    BY <1>2, <1>3 DEF CliInv, HandFits, NamesKept, NamePhases, Trusted
  <2>2. ScannedKept'
    BY <1>2, <1>3 DEF CliInv, ScannedKept, Pending, NamePhases
  <2> QED
    BY <1>2, <1>4, <2>1, <2>2, DomainStepKeeps DEF CliInv, DomainPhases, NamePhases

LEMMA SkipNameKeeps ==
  ASSUME CliInv, NEW s, NEW name, SkipName(s, name), kills' = kills PROVE CliInv'
<1>1. cli' = [cli EXCEPT !.prep = @ \ {<<s, name>>}] /\ <<s, name>> \in cli.prep
  BY DEF SkipName
<1>2. /\ DOMAIN cli' = DOMAIN NoProcess /\ cli.pc \in NamePhases
      /\ \A f \in {"pc", "req", "fresh", "idx", "mid", "subs", "urls", "all", "tasks", "hand"} : cli'[f] = cli[f]
  BY <1>1, NoProcessFields DEF CliInv, CliShape, HandFits
<1>3. UNCHANGED <<files, scanLog>>
  BY DEF SkipName
<1>4. Grows
  BY <1>2, <1>3 DEF Grows
<1> QED
  <2>1. HandFits' /\ NamesKept'
    BY <1>2, <1>3 DEF CliInv, HandFits, NamesKept, NamePhases, Trusted
  <2>2. ScannedKept'
    BY <1>2, <1>3 DEF CliInv, ScannedKept, Pending, NamePhases
  <2> QED
    BY <1>2, <1>4, <2>1, <2>2, DomainStepKeeps DEF CliInv, DomainPhases, NamePhases

(* A scan of a name finds its url, which is then in its hands, or nothing. *)
LEMMA NameScanKeeps ==
  ASSUME CliInv, cli.pc \in NamePhases, DOMAIN cli' = DOMAIN NoProcess, kills' = kills, files' = files,
         \A f \in {"pc", "req", "fresh", "idx", "mid", "subs", "urls", "all"} : cli'[f] = cli[f],
         \/ cli'.hand = cli.hand /\ scanLog' = scanLog
         \/ \E url : /\ cli'.hand = cli.hand \cup {url}
                     /\ scanLog' = [scanLog EXCEPT !.scanned = @ \cup {<<cli.idx, "names", url>>}]
  PROVE  CliInv'
<1>1. /\ DOMAIN scanLog' = DOMAIN scanLog
      /\ \A f \in {"attempted", "overtaken", "abandoned"} : scanLog'[f] = scanLog[f]
  BY DEF CliInv, CliShape
<1>2. \/ cli'.hand = cli.hand /\ scanLog'.scanned = scanLog.scanned
      \/ \E url : /\ cli'.hand = cli.hand \cup {url}
                  /\ scanLog'.scanned = scanLog.scanned \cup {<<cli.idx, "names", url>>}
  BY DEF CliInv, CliShape
<1>3. Grows
  BY <1>1 DEF Grows
<1>4. HandFits' /\ NamesKept'
  BY <1>1 DEF CliInv, HandFits, NamesKept, NamePhases, Trusted
<1>5. ScannedKept'
  <2> SUFFICES ASSUME NEW x \in scanLog'.scanned PROVE x[3] \in files'.urls \/ (x[3] \in cli'.hand /\ Pending(x)')
    BY DEF ScannedKept
  <2>1. CASE x \in scanLog.scanned
    <3>1. Pending(x) => Pending(x)'
      BY DEF Pending, NamePhases
    <3> QED
      BY <1>2, <2>1, <3>1 DEF CliInv, ScannedKept
  <2>2. CASE x \notin scanLog.scanned
    <3>1. PICK url : x = <<cli.idx, "names", url>> /\ url \in cli'.hand
      BY <1>2, <2>2
    <3>2. x[1] = cli'.idx /\ x[2] = "names" /\ x[3] \in cli'.hand
      BY <3>1
    <3> QED
      BY <3>2 DEF Pending
  <2> QED
    BY <2>1, <2>2
<1> QED
  BY <1>3, <1>4, <1>5, DomainStepKeeps DEF CliInv, DomainPhases, NamePhases

LEMMA ScheduleResolvedKeeps ==
  ASSUME CliInv, NEW s, NEW name, scheduleResolved(s, name), kills' = kills PROVE CliInv'
<1> DEFINE p == [cli EXCEPT !.prep = @ \ {<<s, name>>}]
           new == (AddressesOf[name] \ InternalIPs) \ cli.resolved
           url == <<name, "cdn">>
<1>1. <<s, name>> \in cli.prep /\ files' = files
  BY DEF scheduleResolved
<1>2. \/ scanLog' = scanLog /\ cli' = [p EXCEPT !.waf = @ \cup ({s} \ {"alterx"})]
      \/ /\ cli' = [p EXCEPT !.hand = @ \cup {url}]
         /\ scanLog' = [scanLog EXCEPT !.scanned = @ \cup {<<cli.idx, "names", url>>}]
      \/ cli' = p /\ scanLog' = scanLog
      \/ cli' = [p EXCEPT !.resolved = @ \cup new, !.tasks = @ \cup {<<name, ip>> : ip \in new}]
         /\ scanLog' = scanLog
  BY DEF scheduleResolved
<1>3. cli.pc \in NamePhases
  BY <1>1 DEF CliInv, HandFits
<1>4. DOMAIN cli = DOMAIN NoProcess
  BY DEF CliInv, CliShape
<1>5. /\ DOMAIN cli' = DOMAIN NoProcess
      /\ \A f \in {"pc", "req", "fresh", "idx", "mid", "subs", "urls", "all"} : cli'[f] = cli[f]
  <2>1. CASE cli' = [p EXCEPT !.waf = @ \cup ({s} \ {"alterx"})]
    BY <1>4, <2>1, NoProcessFields
  <2>2. CASE cli' = [p EXCEPT !.hand = @ \cup {url}]
    BY <1>4, <2>2, NoProcessFields
  <2>3. CASE cli' = p
    BY <1>4, <2>3, NoProcessFields
  <2>4. CASE cli' = [p EXCEPT !.resolved = @ \cup new, !.tasks = @ \cup {<<name, ip>> : ip \in new}]
    BY <1>4, <2>4, NoProcessFields
  <2> QED
    BY <1>2, <2>1, <2>2, <2>3, <2>4
<1>6. \/ cli'.hand = cli.hand /\ scanLog' = scanLog
      \/ /\ cli'.hand = cli.hand \cup {url}
         /\ scanLog' = [scanLog EXCEPT !.scanned = @ \cup {<<cli.idx, "names", url>>}]
  BY <1>2, <1>4, NoProcessFields
<1> QED
  BY <1>1, <1>3, <1>5, <1>6, NameScanKeeps

LEMMA ScanResolvedKeeps ==
  ASSUME CliInv, NEW t, scanResolvedDomainIP(t), kills' = kills PROVE CliInv'
<1>1. t \in cli.tasks /\ files' = files
  BY DEF scanResolvedDomainIP
<1>2. \/ /\ cli' = [cli EXCEPT !.tasks = @ \ {t}, !.hand = @ \cup {t}]
         /\ scanLog' = [scanLog EXCEPT !.scanned = @ \cup {<<cli.idx, "names", t>>}]
      \/ cli' = [cli EXCEPT !.tasks = @ \ {t}] /\ scanLog' = scanLog
  BY DEF scanResolvedDomainIP
<1>3. cli.pc \in NamePhases
  BY <1>1 DEF CliInv, HandFits
<1>4. /\ DOMAIN cli' = DOMAIN NoProcess
      /\ \A f \in {"pc", "req", "fresh", "idx", "mid", "subs", "urls", "all"} : cli'[f] = cli[f]
  BY <1>2, NoProcessFields DEF CliInv, CliShape
<1>5. \/ cli'.hand = cli.hand /\ scanLog' = scanLog
      \/ /\ cli'.hand = cli.hand \cup {t}
         /\ scanLog' = [scanLog EXCEPT !.scanned = @ \cup {<<cli.idx, "names", t>>}]
  BY <1>2, NoProcessFields DEF CliInv, CliShape
<1> QED
  BY <1>1, <1>3, <1>4, <1>5, NameScanKeeps

LEMMA AddFoundKeeps ==
  ASSUME CliInv, NEW u, AddFound(u), kills' = kills PROVE CliInv'
<1>1. /\ cli.pc \in {"names", "prep", "derive", "certs", "certscan"} /\ u \in cli.hand /\ scanLog' = scanLog
      /\ files' = [files EXCEPT !.urls = @ \cup ({u} \ cli.urls)]
      /\ cli' = [cli EXCEPT !.hand = @ \ {u}, !.urls = @ \cup {u}]
  BY DEF AddFound, addURLs
<1>2. /\ DOMAIN cli' = DOMAIN NoProcess
      /\ \A f \in {"pc", "req", "fresh", "idx", "mid", "subs", "all", "prep", "tasks"} : cli'[f] = cli[f]
      /\ cli'.hand = cli.hand \ {u} /\ cli'.urls = cli.urls \cup {u}
  BY <1>1, NoProcessFields DEF CliInv, CliShape
<1>3. /\ DOMAIN files' = DOMAIN files /\ files'.cp = files.cp /\ files'.subs = files.subs
      /\ files'.urls = files.urls \cup ({u} \ cli.urls)
  BY <1>1 DEF CliInv, CliShape
<1>4. files'.urls = files.urls \cup {u} /\ cli.urls = files.urls
  BY <1>1, <1>3 DEF CliInv, HandFits
<1>5. Grows
  BY <1>1, <1>2, <1>3 DEF Grows
<1>6. HandFits' /\ NamesKept'
  BY <1>1, <1>2, <1>3, <1>4 DEF CliInv, HandFits, NamesKept, NamePhases, Trusted
<1>7. ScannedKept'
  <2>1. \A s : Pending(s) => Pending(s)'
    BY <1>1, <1>2 DEF Pending, NamePhases
  <2> QED
    BY <1>1, <1>2, <1>4, <2>1 DEF CliInv, ScannedKept
<1> QED
  BY <1>1, <1>2, <1>5, <1>6, <1>7, DomainStepKeeps DEF CliInv, DomainPhases, NamePhases

(* New names go to the file before anything relies on them. *)
LEMMA NamesAddedKeeps ==
  ASSUME CliInv, NEW names, kills' = kills, scanLog' = scanLog,
         files' = [files EXCEPT !.subs = @ \cup (names \ cli.subs)],
         DOMAIN cli' = DOMAIN NoProcess,
         \A f \in {"req", "fresh", "idx", "mid", "urls", "tasks", "hand"} : cli'[f] = cli[f],
         cli'.subs = cli.subs \cup names, cli'.all = cli.all \cup names,
         \/ cli.pc = "names" /\ cli'.pc = "prep" /\ cli.all \subseteq names
         \/ cli.pc = "prep" /\ cli'.pc = "derive"
  PROVE  CliInv'
<1>1. /\ DOMAIN files' = DOMAIN files /\ files'.cp = files.cp /\ files'.urls = files.urls
      /\ files'.subs = files.subs \cup (names \ cli.subs)
  BY DEF CliInv, CliShape
<1>2. Grows
  BY <1>1 DEF Grows
<1>3. HandFits'
  BY <1>1 DEF CliInv, HandFits, NamePhases
<1>4. NamesKept'
  <2> SUFFICES ASSUME Trusted' PROVE NamesKept'
    BY DEF NamesKept
  <2>1. Trusted
    BY <1>2, GrowsKeeps
  <2>2. cli.subs \subseteq files.subs /\ (cli.pc = "prep" => cli.all \subseteq files.subs)
    BY <2>1 DEF CliInv, NamesKept
  <2>3. cli'.subs \subseteq files'.subs /\ cli'.all \subseteq files'.subs
    BY <1>1, <2>2
  <2>4. cli'.mid.phase = "none"
    BY DEF CliInv, MidFits
  <2> QED
    BY <2>3, <2>4 DEF NamesKept
<1>5. ScannedKept'
  <2>1. \A s : Pending(s) => Pending(s)'
    BY DEF Pending, NamePhases
  <2> QED
    BY <1>1, <2>1 DEF CliInv, ScannedKept
<1> QED
  BY <1>2, <1>3, <1>4, <1>5, DomainStepKeeps DEF CliInv, DomainPhases, NamePhases

LEMMA NamesCollectedKeeps ==
  ASSUME CliInv, NamesCollected, kills' = kills PROVE CliInv'
<1>1. /\ cli.pc = "names" /\ scanLog' = scanLog
      /\ files' = [files EXCEPT !.subs = @ \cup (cli.all \ cli.subs)]
      /\ cli' = [cli EXCEPT !.pc = "prep", !.subs = @ \cup cli.all]
  BY DEF NamesCollected, addSubdomains
<1>2. /\ DOMAIN cli' = DOMAIN NoProcess /\ cli'.pc = "prep"
      /\ \A f \in {"req", "fresh", "idx", "mid", "urls", "tasks", "hand"} : cli'[f] = cli[f]
      /\ cli'.subs = cli.subs \cup cli.all /\ cli'.all = cli.all
  BY <1>1, NoProcessFields DEF CliInv, CliShape
<1>3. cli'.all = cli.all \cup cli.all
  BY <1>2
<1> QED
  BY <1>1, <1>2, <1>3, NamesAddedKeeps

LEMMA DeriveNamesKeeps ==
  ASSUME CliInv, DeriveNames, kills' = kills PROVE CliInv'
<1>1. cli.pc = "prep" /\ scanLog' = scanLog
  BY DEF DeriveNames
<1>2. PICK names :
        /\ files' = [files EXCEPT !.subs = @ \cup (names \ cli.subs)]
        /\ cli' = [cli EXCEPT !.pc = "derive", !.all = @ \cup names, !.subs = @ \cup names,
                              !.prep = {<<"alterx", x>> : x \in names}]
  BY DEF DeriveNames, addSubdomains
<1>3. /\ DOMAIN cli' = DOMAIN NoProcess /\ cli'.pc = "derive"
      /\ \A f \in {"req", "fresh", "idx", "mid", "urls", "tasks", "hand"} : cli'[f] = cli[f]
      /\ cli'.subs = cli.subs \cup names /\ cli'.all = cli.all \cup names
  BY <1>2, NoProcessFields DEF CliInv, CliShape
<1> QED
  BY <1>1, <1>2, <1>3, NamesAddedKeeps

LEMMA DerivePathsKeeps ==
  ASSUME CliInv, DerivePaths, kills' = kills PROVE CliInv'
<1>1. /\ cli.pc = "derive" /\ cli.prep = {} /\ cli.tasks = {} /\ cli.hand = {}
      /\ scanLog' = [scanLog EXCEPT !.attempted = @ \cup {<<cli.idx, "names">>}]
  BY DEF DerivePaths, PrepDone, Attempt
<1>2. PICK hits : /\ files' = [files EXCEPT !.urls = @ \cup (hits \ cli.urls)]
                  /\ cli' = [cli EXCEPT !.pc = "subdomains", !.urls = @ \cup hits]
  BY DEF DerivePaths, addURLs
<1>3. /\ DOMAIN cli' = DOMAIN NoProcess /\ cli'.pc = "subdomains" /\ cli'.urls = cli.urls \cup hits
      /\ \A f \in {"req", "fresh", "idx", "mid", "subs", "all", "prep", "tasks", "hand"} : cli'[f] = cli[f]
  BY <1>2, NoProcessFields DEF CliInv, CliShape
<1>4. /\ DOMAIN files' = DOMAIN files /\ files'.cp = files.cp /\ files'.subs = files.subs
      /\ files'.urls = files.urls \cup (hits \ cli.urls)
  BY <1>2 DEF CliInv, CliShape
<1>5. /\ DOMAIN scanLog' = DOMAIN scanLog /\ scanLog'.scanned = scanLog.scanned
      /\ scanLog'.overtaken = scanLog.overtaken /\ scanLog'.abandoned = scanLog.abandoned
      /\ scanLog'.attempted = scanLog.attempted \cup {<<cli.idx, "names">>}
  BY <1>1 DEF CliInv, CliShape
<1>6. Grows
  BY <1>3, <1>4, <1>5 DEF Grows
<1>7. HandFits' /\ NamesKept' /\ ScannedKept'
  <2>1. cli.urls = files.urls
    BY <1>1 DEF CliInv, HandFits
  <2>2. HandFits'
    BY <1>1, <1>3, <1>4, <2>1 DEF CliInv, HandFits, NamePhases
  <2>3. NamesKept'
    BY <1>1, <1>3, <1>4, <1>5 DEF CliInv, NamesKept, Trusted
  <2>4. ScannedKept'
    BY <1>1, <1>4, <1>5 DEF CliInv, ScannedKept
  <2> QED
    BY <2>2, <2>3, <2>4
<1> QED
  BY <1>1, <1>3, <1>5, <1>6, <1>7, DomainStepKeeps DEF CliInv, DomainPhases, NamePhases

LEMMA CertLookupKeeps ==
  ASSUME CliInv, CertLookup, kills' = kills PROVE CliInv'
<1>1. cli.pc = "certs" /\ files' = files /\ scanLog' = scanLog
  BY DEF CertLookup
<1>2. PICK ips : cli' = [cli EXCEPT !.pc = "certscan", !.cert = ips]
  BY DEF CertLookup
<1>3. /\ DOMAIN cli' = DOMAIN NoProcess /\ cli'.pc = "certscan"
      /\ \A f \in {"req", "fresh", "idx", "mid", "subs", "urls", "all", "prep", "tasks", "hand"} : cli'[f] = cli[f]
  BY <1>2, NoProcessFields DEF CliInv, CliShape
<1>4. Grows
  BY <1>1, <1>3 DEF Grows
<1>5. HandFits' /\ NamesKept'
  BY <1>1, <1>3 DEF CliInv, HandFits, NamesKept, NamePhases, Trusted
<1>6. ScannedKept'
  BY <1>1, <1>3 DEF CliInv, ScannedKept, HandFits, NamePhases
<1> QED
  BY <1>1, <1>3, <1>4, <1>5, <1>6, DomainStepKeeps DEF CliInv, DomainPhases, NamePhases

LEMMA CertScanKeeps ==
  ASSUME CliInv, NEW ip, CertScan(ip), kills' = kills PROVE CliInv'
<1> DEFINE p == [cli EXCEPT !.cert = @ \ {ip}]
           q == [p EXCEPT !.resolved = @ \cup {ip}]
<1>1. cli.pc = "certscan" /\ cli.hand = {} /\ files' = files
  BY DEF CertScan
<1>2. \/ cli' = p /\ scanLog' = scanLog
      \/ /\ cli' = [q EXCEPT !.hand = {<<ip, ip>>}]
         /\ scanLog' = [scanLog EXCEPT !.scanned = @ \cup {<<cli.idx, "cert", <<ip, ip>>>>}]
      \/ cli' = q /\ scanLog' = scanLog
  BY DEF CertScan
<1>3. /\ DOMAIN cli' = DOMAIN NoProcess
      /\ \A f \in {"pc", "req", "fresh", "idx", "mid", "subs", "urls", "all", "prep", "tasks"} : cli'[f] = cli[f]
  <2>1. DOMAIN cli = DOMAIN NoProcess
    BY DEF CliInv, CliShape
  <2>2. CASE cli' = p
    BY <2>1, <2>2, NoProcessFields
  <2>3. CASE cli' = q
    BY <2>1, <2>3, NoProcessFields
  <2>4. CASE cli' = [q EXCEPT !.hand = {<<ip, ip>>}]
    BY <2>1, <2>4, NoProcessFields
  <2> QED
    BY <1>2, <2>2, <2>3, <2>4
<1>4. \/ cli'.hand = {} /\ scanLog' = scanLog
      \/ /\ cli'.hand = {<<ip, ip>>}
         /\ scanLog' = [scanLog EXCEPT !.scanned = @ \cup {<<cli.idx, "cert", <<ip, ip>>>>}]
  <2>1. p.hand = {} /\ q.hand = {} /\ [q EXCEPT !.hand = {<<ip, ip>>}].hand = {<<ip, ip>>}
    BY <1>1, NoProcessFields DEF CliInv, CliShape
  <2> HIDE DEF p, q
  <2> QED
    BY <1>2, <2>1
<1>5. /\ DOMAIN scanLog' = DOMAIN scanLog
      /\ \A f \in {"attempted", "overtaken", "abandoned"} : scanLog'[f] = scanLog[f]
      /\ \/ scanLog'.scanned = scanLog.scanned
         \/ cli'.hand = {<<ip, ip>>} /\ scanLog'.scanned = scanLog.scanned \cup {<<cli.idx, "cert", <<ip, ip>>>>}
  BY <1>4 DEF CliInv, CliShape
<1>6. Grows
  BY <1>1, <1>3, <1>5 DEF Grows
<1>7. HandFits' /\ NamesKept'
  BY <1>1, <1>3, <1>5 DEF CliInv, HandFits, NamesKept, NamePhases, Trusted
<1>8. ScannedKept'
  <2> SUFFICES ASSUME NEW x \in scanLog'.scanned PROVE x[3] \in files'.urls \/ (x[3] \in cli'.hand /\ Pending(x)')
    BY DEF ScannedKept
  <2>1. CASE x \in scanLog.scanned
    BY <1>1, <2>1 DEF CliInv, ScannedKept
  <2>2. CASE x \notin scanLog.scanned
    <3>1. x = <<cli.idx, "cert", <<ip, ip>>>> /\ cli'.hand = {<<ip, ip>>}
      BY <1>5, <2>2
    <3>2. x[1] = cli'.idx /\ x[2] = "cert" /\ x[3] \in cli'.hand /\ cli'.pc = "certscan"
      BY <1>1, <1>3, <3>1
    <3> QED
      BY <3>2 DEF Pending
  <2> QED
    BY <2>1, <2>2
<1> QED
  BY <1>1, <1>3, <1>6, <1>7, <1>8, DomainStepKeeps DEF CliInv, DomainPhases, NamePhases

LEMMA DomainDoneKeeps ==
  ASSUME CliInv, DomainDone, kills' = kills PROVE CliInv'
<1>1. PICK new : /\ files' = [files EXCEPT !.cidrs = @ \cup (new \ cli.cidrs)]
                 /\ cli' = [cli EXCEPT !.pc = "done", !.cidrs = @ \cup new]
  BY DEF DomainDone, addCIDRs
<1>2. /\ cli.pc = "certscan" /\ cli.hand = {}
      /\ scanLog' = [scanLog EXCEPT !.attempted = @ \cup {<<cli.idx, "cert">>}]
  BY DEF DomainDone, Attempt
<1>3. /\ DOMAIN cli' = DOMAIN NoProcess /\ cli'.pc = "done"
      /\ \A f \in {"req", "fresh", "idx", "mid", "subs", "urls", "prep", "tasks", "hand"} : cli'[f] = cli[f]
  BY <1>1, NoProcessFields DEF CliInv, CliShape
<1>4. DOMAIN files' = DOMAIN files /\ files'.cp = files.cp /\ files'.subs = files.subs /\ files'.urls = files.urls
  BY <1>1 DEF CliInv, CliShape
<1>5. /\ DOMAIN scanLog' = DOMAIN scanLog /\ scanLog'.scanned = scanLog.scanned
      /\ scanLog'.overtaken = scanLog.overtaken /\ scanLog'.abandoned = scanLog.abandoned
      /\ scanLog'.attempted = scanLog.attempted \cup {<<cli.idx, "cert">>}
  BY <1>2 DEF CliInv, CliShape
<1>6. Grows
  BY <1>3, <1>4, <1>5 DEF Grows
<1> USE DEF NamePhases, DomainPhases, BlockPhases
<1>7. HandFits' /\ NamesKept' /\ ScannedKept'
  <2>1. HandFits' /\ NamesKept'
    BY <1>2, <1>3, <1>4, <1>5 DEF CliInv, HandFits, NamesKept, Trusted
  <2>2. ScannedKept'
    BY <1>2, <1>4, <1>5 DEF CliInv, ScannedKept
  <2> QED
    BY <2>1, <2>2
<1>8. MidFits' /\ cli.mid.phase = "none" /\ cli'.mid.phase = "none"
  BY <1>2, <1>3 DEF CliInv, MidFits
<1>9. ProcessFits'
  BY <1>2, <1>3, <1>6, GrowsKeeps DEF CliInv, ProcessFits, Phases, Targets
<1>10. Behind'
  BY <1>2, <1>3, <1>4, <1>6, GrowsKeeps DEF CliInv, Behind
<1>11. Progress'
  <2> SUFFICES ASSUME Trusted' PROVE Progress'
    BY DEF Progress
  <2>1. /\ \A i \in 1 .. Len(Targets) : i < cli.idx => \A step \in Steps(Targets[i]) : Settled(i, step)
        /\ Settled(cli.idx, "names")
    BY <1>2, <1>6, GrowsKeeps DEF CliInv, Progress
  <2>2. Steps(Targets[cli.idx]) = {"names", "cert"}
    BY <1>2 DEF CliInv, ProcessFits, CliTarget, Steps
  <2>3. \A step \in Steps(Targets[cli.idx]) : Settled(cli.idx, step)'
    BY <1>3, <1>5, <2>1, <2>2 DEF Settled
  <2>4. \A i \in 1 .. Len(Targets') : i < cli'.idx \/ i = cli'.idx => \A step \in Steps(Targets'[i]) : Settled(i, step)'
    BY <1>3, <1>5, <1>6, <2>1, <2>3, GrowsKeeps DEF Settled
  <2> QED
    BY <1>3, <1>8, <2>4 DEF Progress
<1>12. CheckpointHolds'
  BY <1>3, <1>6, GrowsKeeps DEF CheckpointHolds
<1> QED
  BY <1>6, <1>7, <1>8, <1>9, <1>10, <1>11, <1>12, GrowsKeeps DEF CliInv

(* A save leaves the new checkpoint, the old one or none that can be read. *)
LEMMA CheckpointSaveKeeps ==
  ASSUME CliInv, NEW cp, NEW clash \in BOOLEAN, saveCheckpoint(cp, clash), kills' = kills,
         cli.pc # "off", DOMAIN cli' = DOMAIN NoProcess, cli'.req = cli.req, cli'.fresh = cli.fresh,
         CheckpointFits(cp),
         Trusted => /\ cp.phase = "subdomains_done" => cp.all \subseteq files.subs
                    /\ \A i \in 1 .. cp.idx : \A step \in Steps(TargetList[cp.req][i]) :
                         Passed(cp, i, step) => Settled(i, step) \/
                           (i \in DOMAIN cli.ips /\ i < cp.idx /\ cli.ips[i] \in {"todo", "scan", "add"})
  PROVE  /\ CliShape' /\ CheckpointFits(files.cp)' /\ Targets' = Targets
         /\ Trusted' => Trusted
         /\ \A i, step : Settled(i, step) => Settled(i, step)'
         /\ files'.subs = files.subs /\ files'.urls = files.urls /\ scanLog'.scanned = scanLog.scanned
         /\ scanLog.overtaken \subseteq scanLog'.overtaken
         /\ \/ ~Claimed'
            \/ Claimed /\ files'.cp = files.cp /\ Trusted
            \/ /\ files'.cp = cp /\ Trusted
               /\ \A i \in DOMAIN cli.ips : i < cp.idx /\ cli.ips[i] \in {"todo", "scan", "add"} =>
                                              i \in scanLog'.overtaken
         /\ Claimed' => /\ \A i \in 1 .. files'.cp.idx : \A step \in Steps(TargetList[files'.cp.req][i]) :
                             Passed(files'.cp, i, step) => Settled(i, step)'
                        /\ files'.cp.phase = "subdomains_done" => files'.cp.all \subseteq files'.subs
<1> DEFINE over == {i \in DOMAIN cli.ips : i < cp.idx /\ cli.ips[i] \in {"todo", "scan", "add"}}
<1>1. PICK left \in {cp, files.cp, Unreadable} : files' = [files EXCEPT !.cp = left]
  BY DEF saveCheckpoint
<1>2. scanLog' = [scanLog EXCEPT !.abandoned = @ /\ ~(cli.fresh /\ files'.cp = cp),
                                 !.overtaken = IF files'.cp # cp THEN @ ELSE @ \cup over]
  BY DEF saveCheckpoint
<1> HIDE DEF over
<1>3. /\ DOMAIN files' = DOMAIN files /\ files'.cp = left /\ files'.subs = files.subs /\ files'.urls = files.urls
  BY <1>1 DEF CliInv, CliShape
<1>4. /\ DOMAIN scanLog' = DOMAIN scanLog /\ scanLog'.scanned = scanLog.scanned
      /\ scanLog'.attempted = scanLog.attempted
      /\ scanLog'.overtaken = (IF left # cp THEN scanLog.overtaken ELSE scanLog.overtaken \cup over)
  BY <1>2, <1>3 DEF CliInv, CliShape
<1>5. scanLog'.abandoned = (scanLog.abandoned /\ ~(cli.fresh /\ left = cp))
  BY <1>2, <1>3 DEF CliInv, CliShape
<1>6. CliShape'
  BY <1>3, <1>4, <1>5 DEF CliInv, CliShape
<1>7. CheckpointFits(files.cp)'
  <2>1. CheckpointFits(Unreadable)
    BY DEF CheckpointFits, Unreadable, Checkpoint, Readable
  <2>2. CheckpointFits(left)
    BY <2>1 DEF CliInv
  <2> QED
    BY <1>3, <2>2
<1>8. Trusted' => Trusted
  BY <1>5 DEF CliInv, CliShape, Trusted
<1>9. \A i, step : Settled(i, step) => Settled(i, step)'
  BY <1>4 DEF Settled
<1>10. Targets' = Targets
  BY DEF Targets
<1>11. Claimed' => Trusted
  BY <1>8 DEF Claimed, Trusted
<1>12. CASE left = cp
  <2>1. scanLog'.overtaken = scanLog.overtaken \cup over /\ files'.cp = cp
    BY <1>3, <1>4, <1>12
  <2>2. \A i \in DOMAIN cli.ips : i < cp.idx /\ cli.ips[i] \in {"todo", "scan", "add"} => i \in scanLog'.overtaken
    BY <2>1 DEF over
  <2>3. Trusted => \A i \in 1 .. cp.idx : \A step \in Steps(TargetList[cp.req][i]) :
                     Passed(cp, i, step) => Settled(i, step)'
    BY <1>9, <2>2 DEF Settled
  <2> QED
    BY <1>3, <1>4, <1>6, <1>7, <1>8, <1>9, <1>10, <1>11, <2>1, <2>2, <2>3
<1>13. CASE left # cp /\ left = files.cp
  <2>1. Claimed' => Claimed
    BY <1>3, <1>5, <1>13 DEF Claimed, CliInv, CliShape
  <2>2. Claimed' => /\ \A i \in 1 .. files'.cp.idx : \A step \in Steps(TargetList[files'.cp.req][i]) :
                             Passed(files'.cp, i, step) => Settled(i, step)'
                    /\ files'.cp.phase = "subdomains_done" => files'.cp.all \subseteq files'.subs
    BY <1>3, <1>9, <1>13, <2>1 DEF CliInv, CheckpointHolds
  <2> QED
    BY <1>3, <1>4, <1>6, <1>7, <1>8, <1>9, <1>10, <1>11, <1>13, <2>1, <2>2
<1>14. CASE left = Unreadable
  <2>1. ~Claimed'
    <3>1. Unreadable.phase = "unreadable"
      BY DEF Unreadable, Checkpoint
    <3> QED
      BY <1>3, <1>14, <3>1 DEF Claimed, Readable
  <2> QED
    BY <1>3, <1>4, <1>6, <1>7, <1>8, <1>9, <1>10, <2>1
<1> QED
  BY <1>12, <1>13, <1>14

LEMMA TargetFinishedKeeps ==
  ASSUME CliInv, TargetFinished, kills' = kills PROVE CliInv'
<1> DEFINE cp == Checkpoint(cli.req, cli.idx, "target_done", {}, 0)
<1>1. /\ cli.pc = "done" /\ saveCheckpoint(cp, FALSE)
      /\ cli' = [NoProcess EXCEPT !.pc = "target", !.req = cli.req, !.slots = cli.slots,
                   !.fresh = cli.fresh, !.idx = cli.idx + 1,
                   !.subs = cli.subs, !.urls = cli.urls, !.cidrs = cli.cidrs]
  BY DEF TargetFinished
<1>2. /\ DOMAIN cli' = DOMAIN NoProcess /\ cli'.pc = "target" /\ cli'.idx = cli.idx + 1
      /\ \A f \in {"req", "fresh", "subs", "urls"} : cli'[f] = cli[f]
      /\ cli'.mid.phase = "none" /\ cli'.prep = {} /\ cli'.tasks = {} /\ cli'.hand = {}
  BY <1>1 DEF NoProcess, NoCheckpoint, Checkpoint
<1>3. cp.req = cli.req /\ cp.idx = cli.idx /\ cp.phase = "target_done"
  BY DEF Checkpoint
<1> HIDE DEF cp
<1> USE DEF NamePhases, DomainPhases, BlockPhases
<1>4. cli.req \in CliRequests /\ cli.idx \in 1 .. Len(Targets) /\ Len(Targets) \in Nat /\ Targets = TargetList[cli.req]
  <2>1. cli.req \in CliRequests /\ cli.idx \in 1 .. Len(Targets) + 1 /\ cli.idx <= Len(Targets)
    BY <1>1 DEF CliInv, ProcessFits
  <2> QED
    BY <2>1, TargetsFit DEF Targets
<1>5. CheckpointFits(cp)
  BY <1>3, <1>4 DEF CheckpointFits
<1>6. Trusted => \A i \in 1 .. cp.idx : \A step \in Steps(TargetList[cp.req][i]) : Settled(i, step)
  BY <1>1, <1>3, <1>4 DEF CliInv, Progress
<1>7. /\ CliShape' /\ CheckpointFits(files.cp)' /\ Targets' = Targets
      /\ Trusted' => Trusted
      /\ \A i, step : Settled(i, step) => Settled(i, step)'
      /\ files'.subs = files.subs /\ files'.urls = files.urls /\ scanLog'.scanned = scanLog.scanned
      /\ ~Claimed' \/ (Claimed /\ files'.cp = files.cp) \/ files'.cp = cp
      /\ Claimed' => /\ \A i \in 1 .. files'.cp.idx : \A step \in Steps(TargetList[files'.cp.req][i]) :
                          Passed(files'.cp, i, step) => Settled(i, step)'
                     /\ files'.cp.phase = "subdomains_done" => files'.cp.all \subseteq files'.subs
  BY <1>1, <1>2, <1>3, <1>5, <1>6, CheckpointSaveKeeps
<1>8. MidFits' /\ ProcessFits'
  BY <1>2, <1>4, <1>7 DEF MidFits, ProcessFits, Phases
<1>9. HandFits' /\ ScannedKept'
  <2>1. cli.hand = {} /\ cli.urls = files.urls
    BY <1>1 DEF CliInv, HandFits
  <2>2. HandFits'
    BY <1>2, <1>7, <2>1 DEF HandFits
  <2>3. ScannedKept'
    BY <1>7, <2>1 DEF CliInv, ScannedKept
  <2> QED
    BY <2>2, <2>3
<1>10. NamesKept'
  BY <1>1, <1>2, <1>7 DEF CliInv, NamesKept
<1>11. Behind'
  <2> SUFFICES ASSUME Claimed' PROVE files'.cp.req = cli'.req /\ files'.cp.idx < cli'.idx
    BY DEF Behind
  <2>1. CASE files'.cp = cp
    BY <1>2, <1>3, <1>4, <2>1
  <2>2. CASE Claimed /\ files'.cp = files.cp
    <3>1. files.cp.req = cli.req /\ (files.cp.idx < cli.idx \/ files.cp.idx = cli.idx)
      BY <1>1, <2>2 DEF CliInv, Behind
    <3>2. files.cp.idx \in Nat
      BY <1>4, <2>2, <3>1, TargetsFit DEF CliInv, CheckpointFits, Claimed
    <3> QED
      BY <1>2, <1>4, <2>2, <3>1, <3>2
  <2> QED
    BY <1>7, <2>1, <2>2
<1>12. Progress'
  <2> SUFFICES ASSUME Trusted' PROVE Progress'
    BY DEF Progress
  <2>1. \A i \in 1 .. Len(Targets) : i <= cli.idx => \A step \in Steps(Targets[i]) : Settled(i, step)
    BY <1>3, <1>4, <1>6, <1>7
  <2>2. \A i \in 1 .. Len(Targets') : i < cli'.idx => \A step \in Steps(Targets'[i]) : Settled(i, step)'
    BY <1>2, <1>4, <1>7, <2>1
  <2> QED
    BY <1>2, <2>2 DEF Progress
<1>13. CheckpointHolds'
  BY <1>2, <1>7 DEF CheckpointHolds
<1> QED
  BY <1>7, <1>8, <1>9, <1>10, <1>11, <1>12, <1>13 DEF CliInv

LEMMA SubdomainsDoneKeeps ==
  ASSUME CliInv, SubdomainsDone, kills' = kills PROVE CliInv'
<1> DEFINE cp == Checkpoint(cli.req, cli.idx, "subdomains_done", cli.all, 0)
<1>1. /\ cli.pc = "subdomains" /\ saveCheckpoint(cp, FALSE)
      /\ cli' = [cli EXCEPT !.pc = "certs"]
  BY DEF SubdomainsDone
<1>2. /\ DOMAIN cli' = DOMAIN NoProcess /\ cli'.pc = "certs"
      /\ \A f \in {"req", "fresh", "idx", "subs", "urls", "mid", "all", "prep", "tasks", "hand"} : cli'[f] = cli[f]
  BY <1>1, NoProcessFields DEF CliInv, CliShape
<1>3. cp.req = cli.req /\ cp.idx = cli.idx /\ cp.phase = "subdomains_done" /\ cp.all = cli.all
  BY DEF Checkpoint
<1> HIDE DEF cp
<1> USE DEF NamePhases, DomainPhases, BlockPhases
<1>4. cli.req \in CliRequests /\ cli.idx \in 1 .. Len(Targets) /\ Len(Targets) \in Nat /\ Targets = TargetList[cli.req]
  <2>1. cli.req \in CliRequests /\ cli.idx \in 1 .. Len(Targets) + 1 /\ cli.idx <= Len(Targets)
    BY <1>1 DEF CliInv, ProcessFits
  <2> QED
    BY <2>1, TargetsFit DEF Targets
<1>5. CheckpointFits(cp)
  <2>1. KindOf[Targets[cli.idx]] = "domain" /\ Targets[cli.idx] \in cli.all
    BY <1>1 DEF CliInv, ProcessFits, CliTarget
  <2> QED
    BY <1>3, <1>4, <2>1 DEF CheckpointFits
<1>6. Trusted => /\ \A i \in 1 .. cp.idx : \A step \in Steps(TargetList[cp.req][i]) :
                      Passed(cp, i, step) => Settled(i, step)
                 /\ cp.all \subseteq files.subs
  <2> SUFFICES ASSUME Trusted
               PROVE  /\ \A i \in 1 .. cp.idx : \A step \in Steps(TargetList[cp.req][i]) :
                           Passed(cp, i, step) => Settled(i, step)
                      /\ cp.all \subseteq files.subs
    OBVIOUS
  <2>1. /\ \A i \in 1 .. Len(Targets) : i < cli.idx => \A step \in Steps(Targets[i]) : Settled(i, step)
        /\ Settled(cli.idx, "names")
    BY <1>1 DEF CliInv, Progress
  <2>2. cli.all \subseteq files.subs
    BY <1>1 DEF CliInv, NamesKept
  <2> QED
    BY <1>3, <1>4, <2>1, <2>2 DEF Passed, startIdx
<1>7. /\ CliShape' /\ CheckpointFits(files.cp)' /\ Targets' = Targets
      /\ Trusted' => Trusted
      /\ \A i, step : Settled(i, step) => Settled(i, step)'
      /\ files'.subs = files.subs /\ files'.urls = files.urls /\ scanLog'.scanned = scanLog.scanned
      /\ ~Claimed' \/ (Claimed /\ files'.cp = files.cp) \/ files'.cp = cp
      /\ Claimed' => /\ \A i \in 1 .. files'.cp.idx : \A step \in Steps(TargetList[files'.cp.req][i]) :
                          Passed(files'.cp, i, step) => Settled(i, step)'
                     /\ files'.cp.phase = "subdomains_done" => files'.cp.all \subseteq files'.subs
  BY <1>1, <1>2, <1>3, <1>5, <1>6, CheckpointSaveKeeps
<1>8. MidFits' /\ ProcessFits' /\ cli'.mid.phase = "none"
  <2>1. MidFits' /\ cli'.mid.phase = "none"
    BY <1>1, <1>2 DEF CliInv, MidFits
  <2>2. ProcessFits'
    BY <1>1, <1>2, <1>4, <1>7 DEF CliInv, ProcessFits, Phases, CliTarget
  <2> QED
    BY <2>1, <2>2
<1>9. HandFits' /\ ScannedKept'
  <2>1. cli.hand = {} /\ cli.urls = files.urls /\ cli.prep = {} /\ cli.tasks = {}
    BY <1>1 DEF CliInv, HandFits
  <2>2. HandFits'
    BY <1>2, <1>7, <2>1 DEF HandFits
  <2>3. ScannedKept'
    BY <1>7, <2>1 DEF CliInv, ScannedKept
  <2> QED
    BY <2>2, <2>3
<1>10. NamesKept'
  BY <1>1, <1>2, <1>7, <1>8 DEF CliInv, NamesKept
<1>11. Behind'
  <2> SUFFICES ASSUME Claimed' PROVE Behind'
    BY DEF Behind
  <2>1. CASE files'.cp = cp
    BY <1>2, <1>3, <2>1 DEF Behind
  <2>2. CASE Claimed /\ files'.cp = files.cp
    BY <1>1, <1>2, <2>2 DEF CliInv, Behind
  <2> QED
    BY <1>7, <2>1, <2>2
<1>12. Progress'
  <2> SUFFICES ASSUME Trusted' PROVE Progress'
    BY DEF Progress
  <2>1. /\ \A i \in 1 .. Len(Targets) : i < cli.idx => \A step \in Steps(Targets[i]) : Settled(i, step)
        /\ Settled(cli.idx, "names")
    BY <1>1, <1>7 DEF CliInv, Progress
  <2>2. \A i \in 1 .. Len(Targets') : i < cli'.idx => \A step \in Steps(Targets'[i]) : Settled(i, step)'
    BY <1>2, <1>7, <2>1
  <2>3. Settled(cli.idx, "names")'
    <3>1. \E k : k = cli.idx
      OBVIOUS
    <3>2. PICK k : k = cli.idx
      BY <3>1
    <3>3. Settled(k, "names")'
      BY <1>7, <2>1, <3>2
    <3> QED
      BY <1>2, <3>2, <3>3 DEF Settled
  <2> QED
    BY <1>2, <1>8, <2>2, <2>3 DEF Progress
<1>13. CheckpointHolds'
  BY <1>2, <1>7 DEF CheckpointHolds
<1> QED
  BY <1>7, <1>8, <1>9, <1>10, <1>11, <1>12, <1>13 DEF CliInv

LEMMA BlockFits ==
  ASSUME CliInv, cli.pc \in BlockPhases
  PROVE  /\ cli.req \in CliRequests /\ cli.idx \in 1 .. Len(Targets) /\ Len(Targets) \in Nat
         /\ Targets = TargetList[cli.req] /\ BlockOfTarget = BlockAddresses[Targets[cli.idx]]
         /\ KindOf[Targets[cli.idx]] = "cidr" /\ cli.n \in 0 .. Len(BlockOfTarget)
         /\ Len(BlockOfTarget) \in Nat /\ DOMAIN BlockOfTarget = 1 .. Len(BlockOfTarget)
         /\ \A j, k \in 1 .. Len(BlockOfTarget) : BlockOfTarget[j] = BlockOfTarget[k] => j = k
         /\ \A n \in 0 .. Len(BlockOfTarget) :
              ToSet(SubSeq(BlockOfTarget, 1, n)) = {BlockOfTarget[k] : k \in 1 .. n}
<1>1. cli.req \in CliRequests /\ cli.idx \in 1 .. Len(Targets) + 1 /\ cli.idx <= Len(Targets)
  BY DEF CliInv, ProcessFits, BlockPhases
<1>2. KindOf[Targets[cli.idx]] = "cidr" /\ cli.n \in 0 .. Len(BlockOfTarget)
  BY DEF CliInv, ProcessFits, CliTarget
<1>3. Targets = TargetList[cli.req] /\ BlockOfTarget = BlockAddresses[Targets[cli.idx]]
  BY DEF Targets, BlockOfTarget, CliTarget
<1>4. Len(Targets) \in Nat /\ cli.idx \in 1 .. Len(Targets)
  BY <1>1, <1>3, TargetsFit
<1>5. Targets[cli.idx] \in DOMAIN KindOf
  BY <1>1, <1>3, <1>4, TargetsFit
<1> DEFINE b == BlockAddresses[Targets[cli.idx]]
<1>6. /\ Len(b) \in Nat /\ DOMAIN b = 1 .. Len(b)
      /\ \A j, k \in 1 .. Len(b) : b[j] = b[k] => j = k
      /\ \A n \in 0 .. Len(b) : ToSet(SubSeq(b, 1, n)) = {b[k] : k \in 1 .. n}
  BY <1>2, <1>5, BlockListFits, Zenon
<1>7. BlockOfTarget = b
  BY <1>3
<1> HIDE DEF b
<1>8. /\ Len(BlockOfTarget) \in Nat /\ DOMAIN BlockOfTarget = 1 .. Len(BlockOfTarget)
      /\ \A j, k \in 1 .. Len(BlockOfTarget) : BlockOfTarget[j] = BlockOfTarget[k] => j = k
      /\ \A n \in 0 .. Len(BlockOfTarget) :
           ToSet(SubSeq(BlockOfTarget, 1, n)) = {BlockOfTarget[k] : k \in 1 .. n}
  BY <1>6, <1>7, Zenon
<1> QED
  BY <1>1, <1>2, <1>3, <1>4, <1>8, Zenon

LEMMA BlockStepKeeps ==
  ASSUME CliInv, Grows, cli.pc \in BlockPhases, cli'.pc \in BlockPhases,
         cli'.idx = cli.idx, cli'.mid = cli.mid, cli'.n = cli.n,
         cli'.pc \in {"blockadd", "blocksave"} =>
           /\ cli.n < Len(BlockOfTarget)
           /\ cli.pc \in {"blockadd", "blocksave"} \/ <<cli.idx, BlockOfTarget[cli.n + 1]>> \in scanLog'.attempted
  PROVE  /\ CliShape' /\ CheckpointFits(files.cp)' /\ MidFits' /\ ProcessFits'
         /\ Behind' /\ Progress' /\ CheckpointHolds' /\ BlockOfTarget' = BlockOfTarget
<1> USE DEF DomainPhases, NamePhases, BlockPhases
<1>1. cli.mid.phase = "none" /\ MidFits'
  BY DEF CliInv, MidFits
<1>2. CliTarget' = CliTarget /\ BlockOfTarget' = BlockOfTarget
  BY GrowsKeeps DEF CliTarget, BlockOfTarget
<1>3. ProcessFits'
  BY <1>2, GrowsKeeps DEF CliInv, ProcessFits, Phases, Grows
<1>4. Behind'
  BY GrowsKeeps DEF CliInv, Behind, Grows
<1>5. Progress'
  <2> SUFFICES ASSUME Trusted' PROVE Progress'
    BY DEF Progress
  <2>0. /\ \A i \in 1 .. Len(Targets) : i < cli.idx => \A step \in Steps(Targets[i]) : Settled(i, step)
        /\ \A k \in 1 .. cli.n : Settled(cli.idx, BlockOfTarget[k])
        /\ cli.pc \in {"blockadd", "blocksave"} => Settled(cli.idx, BlockOfTarget[cli.n + 1])
    BY GrowsKeeps DEF CliInv, Progress
  <2>1. \A i \in 1 .. Len(Targets') : i < cli'.idx =>
          \A step \in Steps(Targets'[i]) : Settled(i, step)'
    BY <2>0, GrowsKeeps
  <2>2. (\A k \in 1 .. cli.n : Settled(cli.idx, BlockOfTarget[k]))'
    BY <1>2, <2>0 DEF Settled, Grows
  <2>3. (cli.pc \in {"blockadd", "blocksave"} => Settled(cli.idx, BlockOfTarget[cli.n + 1]))'
    BY <1>2, <2>0 DEF Settled, Grows
  <2> QED
    BY <1>1, <2>1, <2>2, <2>3 DEF Progress
<1>6. CheckpointHolds'
  BY GrowsKeeps DEF CheckpointHolds
<1> QED
  BY <1>1, <1>2, <1>3, <1>4, <1>5, <1>6, GrowsKeeps

LEMMA AddBlockIPKeeps ==
  ASSUME CliInv, AddBlockIP, kills' = kills PROVE CliInv'
<1>1. /\ cli.pc = "blockadd" /\ scanLog' = scanLog
      /\ files' = [files EXCEPT !.urls = @ \cup (cli.hand \ cli.urls)]
      /\ cli' = [cli EXCEPT !.pc = "blocksave", !.urls = @ \cup cli.hand, !.hand = {}]
  BY DEF AddBlockIP, addURLs
<1>2. /\ DOMAIN cli' = DOMAIN NoProcess /\ cli'.pc = "blocksave"
      /\ \A f \in {"req", "fresh", "idx", "mid", "subs", "n", "prep", "tasks"} : cli'[f] = cli[f]
      /\ cli'.hand = {} /\ cli'.urls = cli.urls \cup cli.hand
  BY <1>1, NoProcessFields DEF CliInv, CliShape
<1>3. /\ DOMAIN files' = DOMAIN files /\ files'.cp = files.cp /\ files'.subs = files.subs
      /\ files'.urls = files.urls \cup (cli.hand \ cli.urls)
  BY <1>1 DEF CliInv, CliShape
<1>4. Grows
  BY <1>1, <1>2, <1>3 DEF Grows
<1>5. cli.urls = files.urls /\ files'.urls = files.urls \cup cli.hand
  BY <1>1, <1>3 DEF CliInv, HandFits
<1>6. HandFits' /\ NamesKept' /\ ScannedKept'
  <2>1. HandFits' /\ NamesKept'
    BY <1>1, <1>2, <1>3, <1>5 DEF CliInv, HandFits, NamesKept, NamePhases, Trusted
  <2>2. ScannedKept'
    BY <1>1, <1>5 DEF CliInv, ScannedKept
  <2> QED
    BY <2>1, <2>2
<1>7. cli.n < Len(BlockOfTarget)
  BY <1>1 DEF CliInv, ProcessFits
<1> QED
  BY <1>1, <1>2, <1>4, <1>6, <1>7, BlockStepKeeps DEF CliInv, BlockPhases

LEMMA ScanBlockIPKeeps ==
  ASSUME CliInv, ScanBlockIP, kills' = kills PROVE CliInv'
<1> DEFINE ip == BlockOfTarget[cli.n + 1]
<1> USE DEF NamePhases, DomainPhases, BlockPhases
<1>1. cli.pc = "block" /\ files' = files
  BY DEF ScanBlockIP
<1>2. \/ cli.n = Len(BlockOfTarget) /\ cli' = [cli EXCEPT !.pc = "done"] /\ scanLog' = scanLog
      \/ /\ cli.n # Len(BlockOfTarget) /\ cli' = [cli EXCEPT !.pc = "blockadd", !.hand = {<<ip, ip>>}]
         /\ scanLog' = [[scanLog EXCEPT !.attempted = @ \cup {<<cli.idx, ip>>}]
                          EXCEPT !.scanned = @ \cup {<<cli.idx, ip, <<ip, ip>>>>}]
      \/ /\ cli.n # Len(BlockOfTarget) /\ cli' = [cli EXCEPT !.pc = "blocksave"]
         /\ scanLog' = [scanLog EXCEPT !.attempted = @ \cup {<<cli.idx, ip>>}]
  BY DEF ScanBlockIP, BlockOfTarget, Found, Attempt
<1> HIDE DEF ip
<1>3. /\ DOMAIN cli' = DOMAIN NoProcess
      /\ \A f \in {"req", "fresh", "idx", "mid", "subs", "urls", "n", "prep", "tasks"} : cli'[f] = cli[f]
  BY <1>2, NoProcessFields DEF CliInv, CliShape
<1>4. cli.hand = {} /\ cli.urls = files.urls /\ cli.mid.phase = "none"
  BY <1>1 DEF CliInv, HandFits, MidFits
<1>5. CASE cli.n = Len(BlockOfTarget)
  <2>1. cli'.pc = "done" /\ cli'.hand = {} /\ scanLog' = scanLog
    BY <1>2, <1>4, <1>5, NoProcessFields DEF CliInv, CliShape
  <2>2. Grows
    BY <1>1, <1>3, <2>1 DEF Grows
  <2>3. HandFits' /\ NamesKept' /\ ScannedKept'
    BY <1>1, <1>3, <1>4, <2>1 DEF CliInv, HandFits, NamesKept, ScannedKept, Trusted
  <2>4. MidFits' /\ cli'.mid.phase = "none"
    BY <1>3, <1>4 DEF MidFits
  <2>5. ProcessFits'
    BY <1>1, <1>3, <2>1, <2>2, GrowsKeeps DEF CliInv, ProcessFits, Phases, Targets
  <2>6. Behind'
    BY <1>1, <1>3, <2>1, <2>2, GrowsKeeps DEF CliInv, Behind
  <2>7. Progress'
    <3> SUFFICES ASSUME Trusted' PROVE Progress'
      BY DEF Progress
    <3>1. /\ \A i \in 1 .. Len(Targets) : i < cli.idx => \A step \in Steps(Targets[i]) : Settled(i, step)
          /\ \A k \in 1 .. cli.n : Settled(cli.idx, BlockOfTarget[k])
      BY <1>1, <2>2, GrowsKeeps DEF CliInv, Progress
    <3>2. Steps(Targets[cli.idx]) = {BlockOfTarget[k] : k \in 1 .. cli.n}
      <4>1. Steps(Targets[cli.idx]) = ToSet(BlockOfTarget)
        BY <1>1, BlockFits DEF Steps
      <4> QED
        BY <1>1, <1>5, <4>1, BlockFits DEF ToSet
    <3>3. \A step \in Steps(Targets[cli.idx]) : Settled(cli.idx, step)
      BY <3>1, <3>2
    <3>4. \A i \in 1 .. Len(Targets') : i < cli'.idx \/ i = cli'.idx =>
            \A step \in Steps(Targets'[i]) : Settled(i, step)'
      BY <1>3, <2>2, <3>1, <3>3, GrowsKeeps
    <3> QED
      BY <2>1, <2>4, <3>4 DEF Progress
  <2>8. CheckpointHolds'
    BY <2>1, <2>2, GrowsKeeps DEF CheckpointHolds
  <2> QED
    BY <2>2, <2>3, <2>4, <2>5, <2>6, <2>7, <2>8, GrowsKeeps DEF CliInv
<1>6. CASE cli.n # Len(BlockOfTarget)
  <2>0. cli.n < Len(BlockOfTarget)
    BY <1>1, <1>6, BlockFits
  <2>1. /\ DOMAIN scanLog' = DOMAIN scanLog
        /\ scanLog'.overtaken = scanLog.overtaken /\ scanLog'.abandoned = scanLog.abandoned
        /\ scanLog'.attempted = scanLog.attempted \cup {<<cli.idx, ip>>}
    BY <1>2, <1>6 DEF CliInv, CliShape
  <2>2. \/ /\ cli'.pc = "blockadd" /\ cli'.hand = {<<ip, ip>>}
           /\ scanLog'.scanned = scanLog.scanned \cup {<<cli.idx, ip, <<ip, ip>>>>}
        \/ cli'.pc = "blocksave" /\ cli'.hand = {} /\ scanLog'.scanned = scanLog.scanned
    BY <1>2, <1>4, <1>6, NoProcessFields DEF CliInv, CliShape
  <2>3. Grows
    BY <1>1, <1>3, <2>1 DEF Grows
  <2>4. BlockOfTarget' = BlockOfTarget
    BY <1>3, <2>3, GrowsKeeps DEF BlockOfTarget, CliTarget
  <2>5. HandFits' /\ NamesKept'
    BY <1>1, <1>3, <1>4, <2>1, <2>2 DEF CliInv, HandFits, NamesKept, Trusted
  <2>6. ScannedKept'
    <3> SUFFICES ASSUME NEW x \in scanLog'.scanned PROVE x[3] \in files'.urls \/ (x[3] \in cli'.hand /\ Pending(x)')
      BY DEF ScannedKept
    <3>1. CASE x \in scanLog.scanned
      BY <1>1, <1>4, <3>1 DEF CliInv, ScannedKept
    <3>2. CASE x \notin scanLog.scanned
      <4>1. x = <<cli.idx, ip, <<ip, ip>>>> /\ cli'.hand = {<<ip, ip>>} /\ cli'.pc = "blockadd"
        BY <2>2, <3>2
      <4>2. x[1] = cli'.idx /\ x[2] = BlockOfTarget'[cli'.n + 1] /\ x[3] \in cli'.hand
        BY <1>3, <2>4, <4>1 DEF ip
      <4> QED
        BY <4>1, <4>2 DEF Pending
    <3> QED
      BY <3>1, <3>2
  <2>7. cli'.pc \in BlockPhases /\ <<cli.idx, BlockOfTarget[cli.n + 1]>> \in scanLog'.attempted
    BY <2>1, <2>2 DEF ip
  <2> QED
    BY <1>1, <1>3, <2>0, <2>3, <2>5, <2>6, <2>7, BlockStepKeeps DEF CliInv
<1> QED
  BY <1>5, <1>6

LEMMA SaveBlockIPKeeps ==
  ASSUME CliInv, SaveBlockIP, kills' = kills PROVE CliInv'
<1> DEFINE cp == Checkpoint(cli.req, cli.idx, "cidr_scanning", {}, cli.n + 1)
<1>1. /\ cli.pc = "blocksave" /\ saveCheckpoint(cp, FALSE)
      /\ cli' = [cli EXCEPT !.pc = "block", !.n = @ + 1]
  BY DEF SaveBlockIP
<1>2. /\ DOMAIN cli' = DOMAIN NoProcess /\ cli'.pc = "block" /\ cli'.n = cli.n + 1
      /\ \A f \in {"req", "fresh", "idx", "subs", "urls", "mid", "prep", "tasks", "hand"} : cli'[f] = cli[f]
  BY <1>1, NoProcessFields DEF CliInv, CliShape
<1>3. cp.req = cli.req /\ cp.idx = cli.idx /\ cp.phase = "cidr_scanning" /\ cp.n = cli.n + 1
  BY DEF Checkpoint
<1> HIDE DEF cp
<1> USE DEF NamePhases, DomainPhases, BlockPhases
<1>4. /\ cli.req \in CliRequests /\ cli.idx \in 1 .. Len(Targets) /\ Len(Targets) \in Nat
      /\ Targets = TargetList[cli.req] /\ BlockOfTarget = BlockAddresses[Targets[cli.idx]]
      /\ KindOf[Targets[cli.idx]] = "cidr" /\ cli.n \in 0 .. Len(BlockOfTarget)
      /\ Len(BlockOfTarget) \in Nat /\ DOMAIN BlockOfTarget = 1 .. Len(BlockOfTarget)
      /\ \A n \in 0 .. Len(BlockOfTarget) :
              ToSet(SubSeq(BlockOfTarget, 1, n)) = {BlockOfTarget[k] : k \in 1 .. n}
  BY <1>1, BlockFits
<1>5. cli.n < Len(BlockOfTarget) /\ cli.n + 1 \in 0 .. Len(BlockOfTarget)
  <2>1. cli.n < Len(BlockOfTarget)
    BY <1>1 DEF CliInv, ProcessFits
  <2> QED
    BY <1>4, <2>1
<1>6. CheckpointFits(cp)
  BY <1>3, <1>4, <1>5 DEF CheckpointFits
<1>7. Trusted => /\ \A i \in 1 .. Len(Targets) : i < cli.idx => \A step \in Steps(Targets[i]) : Settled(i, step)
                 /\ \A k \in 1 .. (cli.n + 1) : Settled(cli.idx, BlockOfTarget[k])
  <2> SUFFICES ASSUME Trusted
               PROVE  /\ \A i \in 1 .. Len(Targets) : i < cli.idx => \A step \in Steps(Targets[i]) : Settled(i, step)
                      /\ \A k \in 1 .. (cli.n + 1) : Settled(cli.idx, BlockOfTarget[k])
    OBVIOUS
  <2>1. /\ \A i \in 1 .. Len(Targets) : i < cli.idx => \A step \in Steps(Targets[i]) : Settled(i, step)
        /\ \A k \in 1 .. cli.n : Settled(cli.idx, BlockOfTarget[k])
        /\ Settled(cli.idx, BlockOfTarget[cli.n + 1])
    BY <1>1 DEF CliInv, Progress
  <2>2. \A k \in 1 .. (cli.n + 1) : k \in 1 .. cli.n \/ k = cli.n + 1
    BY <1>4
  <2> QED
    BY <2>1, <2>2
<1>8. Trusted => \A i \in 1 .. cp.idx : \A step \in Steps(TargetList[cp.req][i]) :
                   Passed(cp, i, step) => Settled(i, step)
  <2> SUFFICES ASSUME Trusted, NEW i \in 1 .. cli.idx, NEW step \in Steps(Targets[i]), Passed(cp, i, step)
               PROVE  Settled(i, step)
    BY <1>3, <1>4
  <2>1. startIdx(cp) = cli.idx
    BY <1>3 DEF startIdx
  <2>2. CASE i < cli.idx
    BY <1>4, <1>7, <2>2
  <2>3. CASE i = cli.idx
    <3>1. step \in ToSet(SubSeq(BlockOfTarget, 1, cli.n + 1))
      BY <1>3, <1>4, <2>1, <2>3 DEF Passed
    <3>2. PICK k \in 1 .. (cli.n + 1) : step = BlockOfTarget[k]
      <4>1. ToSet(SubSeq(BlockOfTarget, 1, cli.n + 1)) = {BlockOfTarget[k] : k \in 1 .. (cli.n + 1)}
        BY <1>4, <1>5
      <4> QED
        BY <3>1, <4>1
    <3> QED
      BY <1>7, <2>3, <3>2
  <2> QED
    BY <1>4, <2>2, <2>3
<1>9. /\ CliShape' /\ CheckpointFits(files.cp)' /\ Targets' = Targets
      /\ Trusted' => Trusted
      /\ \A i, step : Settled(i, step) => Settled(i, step)'
      /\ files'.subs = files.subs /\ files'.urls = files.urls /\ scanLog'.scanned = scanLog.scanned
      /\ ~Claimed' \/ (Claimed /\ files'.cp = files.cp) \/ files'.cp = cp
      /\ Claimed' => /\ \A i \in 1 .. files'.cp.idx : \A step \in Steps(TargetList[files'.cp.req][i]) :
                          Passed(files'.cp, i, step) => Settled(i, step)'
                     /\ files'.cp.phase = "subdomains_done" => files'.cp.all \subseteq files'.subs
  <2>1. cp.phase # "subdomains_done"
    BY <1>3
  <2> QED
    BY <1>1, <1>2, <1>6, <1>8, <2>1, CheckpointSaveKeeps
<1>10. CliTarget' = CliTarget /\ BlockOfTarget' = BlockOfTarget
  BY <1>2, <1>9 DEF CliTarget, BlockOfTarget
<1>11. MidFits' /\ ProcessFits' /\ cli'.mid.phase = "none"
  <2>1. MidFits' /\ cli'.mid.phase = "none"
    BY <1>1, <1>2 DEF CliInv, MidFits
  <2>2. ProcessFits'
    BY <1>1, <1>2, <1>4, <1>5, <1>9, <1>10 DEF CliInv, ProcessFits, Phases
  <2> QED
    BY <2>1, <2>2
<1>12. HandFits' /\ ScannedKept'
  <2>1. cli.hand = {} /\ cli.urls = files.urls /\ cli.prep = {} /\ cli.tasks = {}
    BY <1>1 DEF CliInv, HandFits
  <2>2. HandFits'
    BY <1>2, <1>9, <2>1 DEF HandFits
  <2>3. ScannedKept'
    BY <1>9, <2>1 DEF CliInv, ScannedKept
  <2> QED
    BY <2>2, <2>3
<1>13. NamesKept'
  BY <1>1, <1>2, <1>9, <1>11 DEF CliInv, NamesKept
<1>14. Behind'
  <2> SUFFICES ASSUME Claimed' PROVE Behind'
    BY DEF Behind
  <2>1. CASE files'.cp = cp
    <3>1. cp.n <= cli'.n
      BY <1>2, <1>3, <1>4
    <3> QED
      BY <1>2, <1>3, <2>1, <3>1 DEF Behind
  <2>2. CASE Claimed /\ files'.cp = files.cp
    <3>1. /\ files.cp.req = cli.req
          /\ \/ files.cp.idx < cli.idx
             \/ files.cp.idx = cli.idx /\ files.cp.phase = "cidr_scanning" /\ files.cp.n <= cli.n
      BY <1>1, <2>2 DEF CliInv, Behind
    <3>2. files.cp.phase = "cidr_scanning" /\ files.cp.idx = cli.idx => files.cp.n \in Nat
      BY <1>4, <2>2, <3>1 DEF CliInv, CheckpointFits, Claimed
    <3>3. files.cp.phase = "cidr_scanning" /\ files.cp.idx = cli.idx /\ files.cp.n <= cli.n => files.cp.n <= cli'.n
      BY <1>2, <1>4, <3>2
    <3> QED
      BY <1>2, <2>2, <3>1, <3>3 DEF Behind
  <2> QED
    BY <1>9, <2>1, <2>2
<1>15. Progress'
  <2> SUFFICES ASSUME Trusted' PROVE Progress'
    BY DEF Progress
  <2>1. \A i \in 1 .. Len(Targets') : i < cli'.idx => \A step \in Steps(Targets'[i]) : Settled(i, step)'
    BY <1>2, <1>7, <1>9
  <2>2. PICK i, b, n : i = cli.idx /\ b = BlockOfTarget /\ n = cli.n + 1
    OBVIOUS
  <2>3. \A k \in 1 .. n : Settled(i, b[k])'
    BY <1>7, <1>9, <2>2
  <2>4. (\A k \in 1 .. cli.n : Settled(cli.idx, BlockOfTarget[k]))'
    BY <1>2, <1>10, <2>2, <2>3 DEF Settled
  <2> QED
    BY <1>2, <1>11, <2>1, <2>4 DEF Progress
<1>16. CheckpointHolds'
  BY <1>2, <1>9 DEF CheckpointHolds
<1> QED
  BY <1>9, <1>11, <1>12, <1>13, <1>14, <1>15, <1>16 DEF CliInv

LEMMA IPFits ==
  ASSUME CliInv, cli.pc = "ips"
  PROVE  /\ cli.req \in CliRequests /\ cli.idx \in 1 .. Len(Targets) /\ Len(Targets) \in Nat
         /\ Targets = TargetList[cli.req] /\ cli.idx \in IPBatch /\ DOMAIN cli.ips = IPBatch
         /\ \A i \in IPBatch : /\ i \in cli.idx .. Len(Targets) /\ i \in 1 .. Len(Targets)
                               /\ Steps(Targets[i]) = {Targets[i]}
         /\ cli.mid.phase = "none" /\ cli.urls = files.urls /\ cli.prep = {} /\ cli.tasks = {}
<1>1. /\ cli.req \in CliRequests /\ cli.idx \in 1 .. Len(Targets) + 1 /\ cli.idx <= Len(Targets)
      /\ DOMAIN cli.ips = IPBatch /\ KindOf[Targets[cli.idx]] = "ip"
  BY DEF CliInv, ProcessFits, CliTarget
<1>2. Targets = TargetList[cli.req]
  BY DEF Targets
<1>3. Len(Targets) \in Nat /\ cli.idx \in 1 .. Len(Targets)
  BY <1>1, <1>2, TargetsFit
<1>4. cli.idx \in IPBatch
  BY <1>1, <1>3 DEF IPBatch
<1>5. ASSUME NEW i \in IPBatch
      PROVE  /\ i \in cli.idx .. Len(Targets) /\ i \in 1 .. Len(Targets)
             /\ Steps(Targets[i]) = {Targets[i]}
  <2>1. i \in cli.idx .. Len(Targets) /\ \A k \in cli.idx .. i : KindOf[Targets[k]] = "ip"
    BY DEF IPBatch
  <2>2. KindOf[Targets[i]] = "ip" /\ i \in 1 .. Len(Targets)
    BY <1>3, <2>1
  <2> QED
    BY <2>1, <2>2 DEF Steps
<1>6. cli.mid.phase = "none" /\ cli.urls = files.urls /\ cli.prep = {} /\ cli.tasks = {}
  BY DEF CliInv, MidFits, HandFits, NamePhases
<1> QED
  BY <1>1, <1>2, <1>3, <1>4, <1>5, <1>6

LEMMA IPStepKeeps ==
  ASSUME CliInv, Grows, cli.pc = "ips", cli'.pc = "ips",
         cli'.idx = cli.idx, cli'.mid = cli.mid, DOMAIN cli'.ips = DOMAIN cli.ips,
         \A i \in IPBatch : /\ cli'.ips[i] \in {"todo", "scan", "add", "save", "clash", "done"}
                            /\ cli'.ips[i] \notin {"todo", "scan"} =>
                                 cli.ips[i] \notin {"todo", "scan"} \/ <<i, Targets[i]>> \in scanLog'.attempted
                            /\ cli'.ips[i] \in {"todo", "scan", "add"} => cli.ips[i] \in {"todo", "scan", "add"}
  PROVE  /\ CliShape' /\ CheckpointFits(files.cp)' /\ MidFits' /\ ProcessFits'
         /\ Behind' /\ Progress' /\ CheckpointHolds'
         /\ IPBatch' = IPBatch
<1> USE DEF DomainPhases, NamePhases, BlockPhases
<1>1. cli.mid.phase = "none" /\ MidFits'
  BY DEF CliInv, MidFits
<1>2. CliTarget' = CliTarget
  BY GrowsKeeps DEF CliTarget
<1>3. IPBatch' = IPBatch
  BY GrowsKeeps DEF IPBatch
<1>4. ProcessFits'
  BY <1>2, <1>3, GrowsKeeps DEF CliInv, ProcessFits, Phases, Grows
<1>5. Behind'
  BY <1>3, GrowsKeeps DEF CliInv, Behind, Grows
<1>6. Progress'
  <2> SUFFICES ASSUME Trusted' PROVE Progress'
    BY DEF Progress
  <2>0. /\ \A i \in 1 .. Len(Targets) : i < cli.idx => \A step \in Steps(Targets[i]) : Settled(i, step)
        /\ \A i \in IPBatch : cli.ips[i] \notin {"todo", "scan"} => Settled(i, Targets[i])
    BY GrowsKeeps DEF CliInv, Progress
  <2>1. \A i \in 1 .. Len(Targets') : i < cli'.idx =>
          \A step \in Steps(Targets'[i]) : Settled(i, step)'
    BY <2>0, GrowsKeeps
  <2>2. (\A i \in IPBatch : cli.ips[i] \notin {"todo", "scan"} => Settled(i, Targets[i]))'
    BY <1>3, <2>0, GrowsKeeps DEF Settled, Grows
  <2> QED
    BY <1>1, <2>1, <2>2 DEF Progress
<1>7. CheckpointHolds'
  <2>1. Claimed' => \A j \in IPBatch' : cli'.ips[j] \in {"todo", "scan", "add"} /\ j < startIdx(files'.cp) =>
                                          j \in scanLog'.overtaken
    BY <1>3, GrowsKeeps DEF CliInv, CheckpointHolds, Grows
  <2> QED
    BY <2>1, GrowsKeeps DEF CheckpointHolds
<1> QED
  BY <1>1, <1>3, <1>4, <1>5, <1>6, <1>7, GrowsKeeps

LEMMA BeginIPKeeps ==
  ASSUME CliInv, NEW i, BeginIP(i), kills' = kills PROVE CliInv'
<1>1. /\ cli.pc = "ips" /\ i \in DOMAIN cli.ips /\ cli.ips[i] = "todo" /\ files' = files /\ scanLog' = scanLog
      /\ cli' = [cli EXCEPT !.ips = [cli.ips EXCEPT ![i] = "scan"]]
  BY DEF BeginIP
<1>2. /\ DOMAIN cli' = DOMAIN NoProcess /\ cli'.ips = [cli.ips EXCEPT ![i] = "scan"]
      /\ \A f \in {"pc", "req", "fresh", "idx", "subs", "urls", "mid", "prep", "tasks", "hand"} : cli'[f] = cli[f]
  BY <1>1, NoProcessFields DEF CliInv, CliShape
<1>3. DOMAIN cli'.ips = DOMAIN cli.ips /\ \A k \in DOMAIN cli.ips : cli'.ips[k] = IF k = i THEN "scan" ELSE cli.ips[k]
  BY <1>2
<1>4. Grows
  BY <1>1, <1>2 DEF Grows
<1>5. \A k \in IPBatch : /\ cli.ips[k] \in {"todo", "scan", "add", "save", "clash", "done"}
                         /\ k \in DOMAIN cli.ips
  BY <1>1 DEF CliInv, ProcessFits
<1>6. /\ CliShape' /\ CheckpointFits(files.cp)' /\ MidFits' /\ ProcessFits'
      /\ Behind' /\ Progress' /\ CheckpointHolds' /\ IPBatch' = IPBatch
  BY <1>1, <1>2, <1>3, <1>4, <1>5, IPStepKeeps
<1>7. Targets' = Targets
  BY <1>4, GrowsKeeps
<1>8. HandFits'
  BY <1>1, <1>2, <1>3, <1>5, <1>6, <1>7 DEF CliInv, HandFits, NamePhases
<1>9. NamesKept'
  BY <1>1, <1>2 DEF CliInv, NamesKept, Trusted
<1>10. ScannedKept'
  <2>1. \A s : Pending(s) => Pending(s)'
    BY <1>1, <1>2, <1>3, <1>5, <1>6, <1>7 DEF Pending, NamePhases
  <2> QED
    BY <1>1, <1>2, <2>1 DEF CliInv, ScannedKept
<1> QED
  BY <1>6, <1>8, <1>9, <1>10 DEF CliInv

LEMMA ScanIPWebKeeps ==
  ASSUME CliInv, NEW i, scanIPWeb(i), kills' = kills PROVE CliInv'
<1> DEFINE url == <<Targets[i], Targets[i]>>
<1>1. cli.pc = "ips" /\ i \in DOMAIN cli.ips /\ cli.ips[i] = "scan" /\ files' = files
  BY DEF scanIPWeb
<1>2. \/ /\ cli' = [cli EXCEPT !.ips = [cli.ips EXCEPT ![i] = "add"], !.hand = @ \cup {url}]
         /\ scanLog' = [[scanLog EXCEPT !.attempted = @ \cup {<<i, Targets[i]>>}]
                          EXCEPT !.scanned = @ \cup {<<i, Targets[i], url>>}]
      \/ /\ cli' = [cli EXCEPT !.ips = [cli.ips EXCEPT ![i] = "save"]]
         /\ scanLog' = [scanLog EXCEPT !.attempted = @ \cup {<<i, Targets[i]>>}]
  BY DEF scanIPWeb, Found, Attempt
<1> HIDE DEF url
<1>3. PICK v \in {"add", "save"} :
        /\ cli'.ips = [cli.ips EXCEPT ![i] = v]
        /\ \/ v = "add" /\ cli'.hand = cli.hand \cup {url} /\ scanLog'.scanned = scanLog.scanned \cup {<<i, Targets[i], url>>}
           \/ v = "save" /\ cli'.hand = cli.hand /\ scanLog'.scanned = scanLog.scanned
  <2>1. CASE cli' = [cli EXCEPT !.ips = [cli.ips EXCEPT ![i] = "add"], !.hand = @ \cup {url}]
             /\ scanLog' = [[scanLog EXCEPT !.attempted = @ \cup {<<i, Targets[i]>>}]
                          EXCEPT !.scanned = @ \cup {<<i, Targets[i], url>>}]
    BY <2>1, NoProcessFields DEF CliInv, CliShape
  <2>2. CASE cli' = [cli EXCEPT !.ips = [cli.ips EXCEPT ![i] = "save"]]
             /\ scanLog' = [scanLog EXCEPT !.attempted = @ \cup {<<i, Targets[i]>>}]
    BY <2>2, NoProcessFields DEF CliInv, CliShape
  <2> QED
    BY <1>2, <2>1, <2>2
<1>4. /\ DOMAIN cli' = DOMAIN NoProcess
      /\ \A f \in {"pc", "req", "fresh", "idx", "subs", "urls", "mid", "prep", "tasks"} : cli'[f] = cli[f]
  BY <1>2, NoProcessFields DEF CliInv, CliShape
<1>5. /\ DOMAIN scanLog' = DOMAIN scanLog
      /\ scanLog'.overtaken = scanLog.overtaken /\ scanLog'.abandoned = scanLog.abandoned
      /\ scanLog'.attempted = scanLog.attempted \cup {<<i, Targets[i]>>}
  BY <1>2 DEF CliInv, CliShape
<1>6. Grows
  BY <1>1, <1>4, <1>5 DEF Grows
<1>7. DOMAIN cli'.ips = DOMAIN cli.ips /\ \A k \in DOMAIN cli.ips : cli'.ips[k] = IF k = i THEN v ELSE cli.ips[k]
  BY <1>3
<1>8. \A k \in IPBatch : /\ cli.ips[k] \in {"todo", "scan", "add", "save", "clash", "done"}
                         /\ k \in DOMAIN cli.ips
  BY <1>1 DEF CliInv, ProcessFits
<1>9. i \in IPBatch
  BY <1>1 DEF CliInv, ProcessFits
<1>10. /\ CliShape' /\ CheckpointFits(files.cp)' /\ MidFits' /\ ProcessFits'
       /\ Behind' /\ Progress' /\ CheckpointHolds' /\ IPBatch' = IPBatch
  BY <1>1, <1>4, <1>5, <1>6, <1>7, <1>8, IPStepKeeps
<1>11. Targets' = Targets
  BY <1>6, GrowsKeeps
<1>12. HandFits'
  <2>1. \A u \in cli'.hand : \E k \in IPBatch' : cli'.ips[k] = "add" /\ u = <<Targets'[k], Targets'[k]>>
    <3> SUFFICES ASSUME NEW u \in cli'.hand
                 PROVE  \E k \in IPBatch : cli'.ips[k] = "add" /\ u = <<Targets[k], Targets[k]>>
      BY <1>10, <1>11
    <3>1. CASE u \in cli.hand
      <4>1. PICK k \in IPBatch : cli.ips[k] = "add" /\ u = <<Targets[k], Targets[k]>>
        BY <1>1, <3>1 DEF CliInv, HandFits
      <4> QED
        BY <1>1, <1>7, <1>8, <4>1
    <3>2. CASE u = url /\ v = "add"
      BY <1>1, <1>7, <1>9, <3>2 DEF url
    <3> QED
      BY <1>3, <3>1, <3>2
  <2>2. cli'.prep = {} /\ cli'.tasks = {} /\ cli'.urls = files'.urls /\ cli'.pc = "ips"
    BY <1>1, <1>4, IPFits
  <2> QED
    BY <2>1, <2>2 DEF HandFits, NamePhases
<1>13. NamesKept'
  BY <1>1, <1>4, <1>5 DEF CliInv, NamesKept, Trusted
<1>14. ScannedKept'
  <2> SUFFICES ASSUME NEW x \in scanLog'.scanned PROVE x[3] \in files'.urls \/ (x[3] \in cli'.hand /\ Pending(x)')
    BY DEF ScannedKept
  <2>1. CASE x \in scanLog.scanned
    <3>1. Pending(x) => Pending(x)'
      BY <1>1, <1>4, <1>7, <1>8, <1>10, <1>11 DEF Pending, NamePhases
    <3> QED
      BY <1>1, <1>3, <2>1, <3>1 DEF CliInv, ScannedKept
  <2>2. CASE x \notin scanLog.scanned
    <3>1. x = <<i, Targets[i], url>> /\ v = "add" /\ url \in cli'.hand
      BY <1>3, <2>2
    <3>2. /\ x[1] = i /\ x[3] = url /\ cli'.ips[i] = "add" /\ i \in IPBatch' /\ cli'.pc = "ips"
          /\ url = <<Targets'[i], Targets'[i]>>
      BY <1>1, <1>4, <1>7, <1>9, <1>10, <1>11, <3>1 DEF url
    <3> QED
      BY <3>1, <3>2 DEF Pending
  <2> QED
    BY <2>1, <2>2
<1> QED
  BY <1>10, <1>12, <1>13, <1>14 DEF CliInv

LEMMA AddIPKeeps ==
  ASSUME CliInv, NEW i, AddIP(i), kills' = kills PROVE CliInv'
<1> DEFINE url == <<Targets[i], Targets[i]>>
<1>1. /\ cli.pc = "ips" /\ i \in DOMAIN cli.ips /\ cli.ips[i] = "add" /\ scanLog' = scanLog
      /\ files' = [files EXCEPT !.urls = @ \cup ({url} \ cli.urls)]
      /\ cli' = [cli EXCEPT !.ips = [cli.ips EXCEPT ![i] = "save"], !.hand = @ \ {url}, !.urls = @ \cup {url}]
  BY DEF AddIP, addURLs
<1> HIDE DEF url
<1>2. /\ DOMAIN cli' = DOMAIN NoProcess /\ cli'.ips = [cli.ips EXCEPT ![i] = "save"]
      /\ cli'.hand = cli.hand \ {url} /\ cli'.urls = cli.urls \cup {url}
      /\ \A f \in {"pc", "req", "fresh", "idx", "subs", "mid", "prep", "tasks"} : cli'[f] = cli[f]
  BY <1>1, NoProcessFields DEF CliInv, CliShape
<1>3. DOMAIN cli'.ips = DOMAIN cli.ips /\ \A k \in DOMAIN cli.ips : cli'.ips[k] = IF k = i THEN "save" ELSE cli.ips[k]
  BY <1>2
<1>4. /\ DOMAIN files' = DOMAIN files /\ files'.cp = files.cp /\ files'.subs = files.subs
      /\ files'.urls = files.urls \cup {url}
  <2>1. cli.urls = files.urls
    BY <1>1, IPFits
  <2> QED
    BY <1>1, <2>1 DEF CliInv, CliShape
<1>5. Grows
  BY <1>1, <1>2, <1>4 DEF Grows
<1>6. \A k \in IPBatch : /\ cli.ips[k] \in {"todo", "scan", "add", "save", "clash", "done"}
                         /\ k \in DOMAIN cli.ips
  BY <1>1 DEF CliInv, ProcessFits
<1>7. /\ CliShape' /\ CheckpointFits(files.cp)' /\ MidFits' /\ ProcessFits'
      /\ Behind' /\ Progress' /\ CheckpointHolds' /\ IPBatch' = IPBatch
  BY <1>1, <1>2, <1>3, <1>5, <1>6, IPStepKeeps
<1>8. Targets' = Targets
  BY <1>5, GrowsKeeps
<1>9. HandFits'
  <2>1. \A u \in cli'.hand : \E k \in IPBatch' : cli'.ips[k] = "add" /\ u = <<Targets'[k], Targets'[k]>>
    <3> SUFFICES ASSUME NEW u \in cli'.hand
                 PROVE  \E k \in IPBatch : cli'.ips[k] = "add" /\ u = <<Targets[k], Targets[k]>>
      BY <1>7, <1>8
    <3>1. u \in cli.hand /\ u # url
      BY <1>2
    <3>2. PICK k \in IPBatch : cli.ips[k] = "add" /\ u = <<Targets[k], Targets[k]>>
      BY <1>1, <3>1 DEF CliInv, HandFits
    <3>3. k # i
      BY <3>1, <3>2 DEF url
    <3> QED
      BY <1>3, <1>6, <3>2, <3>3
  <2>2. cli'.prep = {} /\ cli'.tasks = {} /\ cli'.urls = files'.urls /\ cli'.pc = "ips"
    BY <1>1, <1>2, <1>4, IPFits
  <2> QED
    BY <2>1, <2>2 DEF HandFits, NamePhases
<1>10. NamesKept'
  BY <1>1, <1>2, <1>4 DEF CliInv, NamesKept, Trusted
<1>11. ScannedKept'
  <2> SUFFICES ASSUME NEW x \in scanLog.scanned, x[3] \notin files'.urls PROVE x[3] \in cli'.hand /\ Pending(x)'
    BY <1>1 DEF ScannedKept
  <2>1. x[3] \in cli.hand /\ Pending(x) /\ x[3] # url
    BY <1>4 DEF CliInv, ScannedKept
  <2>2. x[1] \in IPBatch /\ cli.ips[x[1]] = "add" /\ x[3] = <<Targets[x[1]], Targets[x[1]]>>
    BY <1>1, <2>1 DEF Pending, NamePhases
  <2>3. x[1] # i
    BY <2>1, <2>2 DEF url
  <2>4. cli'.ips[x[1]] = "add"
    BY <1>3, <1>6, <2>2, <2>3
  <2> QED
    BY <1>1, <1>2, <1>7, <1>8, <2>1, <2>2, <2>4 DEF Pending
<1> QED
  BY <1>7, <1>9, <1>10, <1>11 DEF CliInv

LEMMA SaveIPKeeps ==
  ASSUME CliInv, NEW i, SaveIP(i), kills' = kills PROVE CliInv'
<1> DEFINE cp == Checkpoint(cli.req, i, "target_done", {}, 0)
           clash == cli.ips[i] = "clash" \/ Saving(i) # {}
           ips == [k \in DOMAIN cli.ips |-> IF k = i THEN "done" ELSE IF k \in Saving(i) THEN "clash" ELSE cli.ips[k]]
<1>1. /\ cli.pc = "ips" /\ i \in DOMAIN cli.ips /\ cli.ips[i] \in {"save", "clash"}
      /\ saveCheckpoint(cp, clash)
      /\ cli' = [cli EXCEPT !.ips = ips]
  BY DEF SaveIP
<1>2. \A k \in Saving(i) : k \in DOMAIN cli.ips /\ cli.ips[k] \in {"save", "clash"}
  BY DEF Saving
<1>3. /\ DOMAIN cli' = DOMAIN NoProcess /\ cli'.ips = ips
      /\ \A f \in {"pc", "req", "fresh", "idx", "subs", "urls", "mid", "prep", "tasks", "hand"} : cli'[f] = cli[f]
  BY <1>1, NoProcessFields DEF CliInv, CliShape
<1>4. /\ DOMAIN cli'.ips = DOMAIN cli.ips
      /\ \A k \in DOMAIN cli.ips :
           cli'.ips[k] = cli.ips[k] \/ (cli.ips[k] \in {"save", "clash"} /\ cli'.ips[k] \in {"clash", "done"})
  BY <1>1, <1>2, <1>3
<1>5. cp.req = cli.req /\ cp.idx = i /\ cp.phase = "target_done"
  BY DEF Checkpoint
<1>6. clash \in BOOLEAN
  OBVIOUS
<1> HIDE DEF cp, clash, ips
<1> USE DEF NamePhases, DomainPhases, BlockPhases
<1>7. /\ cli.req \in CliRequests /\ cli.idx \in 1 .. Len(Targets) /\ Len(Targets) \in Nat
      /\ Targets = TargetList[cli.req] /\ i \in IPBatch /\ DOMAIN cli.ips = IPBatch
      /\ \A k \in IPBatch : /\ k \in cli.idx .. Len(Targets) /\ k \in 1 .. Len(Targets)
                            /\ Steps(Targets[k]) = {Targets[k]}
      /\ cli.mid.phase = "none" /\ cli.urls = files.urls /\ cli.prep = {} /\ cli.tasks = {}
  BY <1>1, IPFits
<1>8. CheckpointFits(cp)
  BY <1>5, <1>7 DEF CheckpointFits
<1>9. \A k \in cli.idx .. i : k \in IPBatch
  <2>1. \A k \in cli.idx .. i : KindOf[Targets[k]] = "ip"
    BY <1>7 DEF IPBatch
  <2>2. \A k \in cli.idx .. i : k \in cli.idx .. Len(Targets) /\ \A j \in cli.idx .. k : j \in cli.idx .. i
    BY <1>7
  <2> QED
    BY <2>1, <2>2 DEF IPBatch
<1>10. \A k \in IPBatch : cli.ips[k] \in {"todo", "scan", "add", "save", "clash", "done"}
  BY <1>1 DEF CliInv, ProcessFits
<1>11. Trusted => \A k \in 1 .. cp.idx : \A step \in Steps(TargetList[cp.req][k]) :
                    Settled(k, step) \/ (k \in DOMAIN cli.ips /\ k < cp.idx /\ cli.ips[k] \in {"todo", "scan", "add"})
  <2> SUFFICES ASSUME Trusted, NEW k \in 1 .. i, NEW step \in Steps(Targets[k]),
                      ~(k \in IPBatch /\ k < i /\ cli.ips[k] \in {"todo", "scan", "add"})
               PROVE  Settled(k, step)
    BY <1>5, <1>7
  <2>1. /\ \A j \in 1 .. Len(Targets) : j < cli.idx => \A s \in Steps(Targets[j]) : Settled(j, s)
        /\ \A j \in IPBatch : cli.ips[j] \notin {"todo", "scan"} => Settled(j, Targets[j])
    BY <1>1 DEF CliInv, Progress
  <2>2. CASE k < cli.idx
    BY <1>7, <2>1, <2>2
  <2>3. CASE k >= cli.idx
    <3>1. k \in IPBatch
      BY <1>7, <1>9, <2>3
    <3>2. cli.ips[k] \notin {"todo", "scan"}
      BY <1>1, <1>7, <3>1
    <3>3. step = Targets[k]
      <4>1. Steps(Targets[k]) = {Targets[k]}
        BY <1>7, <3>1
      <4> QED
        BY <4>1
    <3> QED
      BY <2>1, <3>1, <3>2, <3>3
  <2> QED
    BY <1>7, <2>2, <2>3
<1>12. /\ CliShape' /\ CheckpointFits(files.cp)' /\ Targets' = Targets
       /\ Trusted' => Trusted
       /\ \A k, step : Settled(k, step) => Settled(k, step)'
       /\ files'.subs = files.subs /\ files'.urls = files.urls /\ scanLog'.scanned = scanLog.scanned
       /\ scanLog.overtaken \subseteq scanLog'.overtaken
       /\ \/ ~Claimed'
          \/ Claimed /\ files'.cp = files.cp
          \/ /\ files'.cp = cp
             /\ \A k \in DOMAIN cli.ips : k < cp.idx /\ cli.ips[k] \in {"todo", "scan", "add"} =>
                                            k \in scanLog'.overtaken
       /\ Claimed' => /\ \A k \in 1 .. files'.cp.idx : \A step \in Steps(TargetList[files'.cp.req][k]) :
                           Passed(files'.cp, k, step) => Settled(k, step)'
                      /\ files'.cp.phase = "subdomains_done" => files'.cp.all \subseteq files'.subs
  <2>1. cp.phase # "subdomains_done"
    BY <1>5
  <2> QED
    BY <1>1, <1>3, <1>6, <1>8, <1>11, <2>1, CheckpointSaveKeeps
<1>13. IPBatch' = IPBatch /\ CliTarget' = CliTarget
  BY <1>3, <1>12 DEF IPBatch, CliTarget
<1>14. MidFits' /\ ProcessFits' /\ cli'.mid.phase = "none"
  <2>1. MidFits' /\ cli'.mid.phase = "none"
    BY <1>3, <1>7 DEF MidFits
  <2>2. \A k \in IPBatch' : cli'.ips[k] \in {"todo", "scan", "add", "save", "clash", "done"}
    BY <1>4, <1>7, <1>10, <1>13
  <2>3. ProcessFits'
    BY <1>1, <1>3, <1>4, <1>12, <1>13, <2>2 DEF CliInv, ProcessFits, Phases
  <2> QED
    BY <2>1, <2>3
<1>15. HandFits'
  <2>1. \A u \in cli'.hand : \E k \in IPBatch' : cli'.ips[k] = "add" /\ u = <<Targets'[k], Targets'[k]>>
    <3> SUFFICES ASSUME NEW u \in cli.hand
                 PROVE  \E k \in IPBatch : cli'.ips[k] = "add" /\ u = <<Targets[k], Targets[k]>>
      BY <1>3, <1>12, <1>13
    <3>1. PICK k \in IPBatch : cli.ips[k] = "add" /\ u = <<Targets[k], Targets[k]>>
      BY <1>1 DEF CliInv, HandFits
    <3> QED
      BY <1>4, <1>7, <3>1
  <2>2. cli'.prep = {} /\ cli'.tasks = {} /\ cli'.urls = files'.urls /\ cli'.pc = "ips"
    BY <1>1, <1>3, <1>7, <1>12
  <2> QED
    BY <2>1, <2>2 DEF HandFits
<1>16. ScannedKept'
  <2>1. \A s : Pending(s) => Pending(s)'
    BY <1>1, <1>3, <1>4, <1>7, <1>12, <1>13 DEF Pending
  <2> QED
    BY <1>3, <1>12, <2>1 DEF CliInv, ScannedKept
<1>17. NamesKept'
  BY <1>1, <1>3, <1>12, <1>14 DEF CliInv, NamesKept
<1>18. Behind'
  <2> SUFFICES ASSUME Claimed' PROVE Behind'
    BY DEF Behind
  <2>1. CASE files'.cp = cp
    BY <1>1, <1>3, <1>5, <1>7, <1>13, <2>1 DEF Behind
  <2>2. CASE Claimed /\ files'.cp = files.cp
    BY <1>1, <1>3, <1>13, <2>2 DEF CliInv, Behind
  <2> QED
    BY <1>12, <2>1, <2>2
<1>19. Progress'
  <2> SUFFICES ASSUME Trusted' PROVE Progress'
    BY DEF Progress
  <2>1. /\ \A j \in 1 .. Len(Targets) : j < cli.idx => \A s \in Steps(Targets[j]) : Settled(j, s)
        /\ \A j \in IPBatch : cli.ips[j] \notin {"todo", "scan"} => Settled(j, Targets[j])
    BY <1>1, <1>12 DEF CliInv, Progress
  <2>2. \A j \in 1 .. Len(Targets') : j < cli'.idx => \A step \in Steps(Targets'[j]) : Settled(j, step)'
    BY <1>3, <1>12, <2>1
  <2>3. (\A j \in IPBatch : cli.ips[j] \notin {"todo", "scan"} => Settled(j, Targets[j]))'
    <3> SUFFICES ASSUME NEW j \in IPBatch, cli'.ips[j] \notin {"todo", "scan"} PROVE Settled(j, Targets[j])'
      BY <1>13
    <3>1. cli.ips[j] \notin {"todo", "scan"}
      BY <1>4, <1>7
    <3>2. PICK t : t = Targets[j]
      OBVIOUS
    <3>3. Settled(j, t)'
      BY <1>12, <2>1, <3>1, <3>2
    <3> QED
      BY <1>12, <3>2, <3>3 DEF Settled
  <2> QED
    BY <1>1, <1>3, <1>14, <2>2, <2>3 DEF Progress
<1>20. CheckpointHolds'
  <2>1. Claimed' => \A j \in IPBatch' : cli'.ips[j] \in {"todo", "scan", "add"} /\ j < startIdx(files'.cp) =>
                                          j \in scanLog'.overtaken
    <3> SUFFICES ASSUME Claimed', NEW j \in IPBatch, cli'.ips[j] \in {"todo", "scan", "add"}, j < startIdx(files'.cp)
                 PROVE  j \in scanLog'.overtaken
      BY <1>13
    <3>1. cli.ips[j] \in {"todo", "scan", "add"}
      BY <1>4, <1>7
    <3>2. CASE files'.cp = cp /\ \A k \in DOMAIN cli.ips : k < cp.idx /\ cli.ips[k] \in {"todo", "scan", "add"} =>
                                            k \in scanLog'.overtaken
      <4>1. j < i + 1 /\ j # i
        BY <1>1, <1>5, <3>1, <3>2 DEF startIdx
      <4>2. j < i
        BY <1>7, <4>1
      <4> QED
        BY <1>5, <1>7, <3>1, <3>2, <4>2
    <3>3. CASE Claimed /\ files'.cp = files.cp
      BY <1>1, <1>12, <3>1, <3>3 DEF CliInv, CheckpointHolds
    <3> QED
      BY <1>12, <3>2, <3>3
  <2> QED
    BY <1>12, <2>1 DEF CheckpointHolds
<1> QED
  BY <1>12, <1>14, <1>15, <1>16, <1>17, <1>18, <1>19, <1>20 DEF CliInv

(* A batch is the addresses up to the first target that is none. *)
LEMMA BatchIsInterval ==
  ASSUME CliInv, cli.pc = "ips"
  PROVE  \E m \in cli.idx .. Len(Targets) : IPBatch = cli.idx .. m /\ Cardinality(IPBatch) = m - cli.idx + 1
<1> DEFINE S == {j \in Nat : j >= cli.idx /\ j \notin IPBatch}
<1>1. /\ cli.idx \in 1 .. Len(Targets) /\ Len(Targets) \in Nat /\ cli.idx \in IPBatch
      /\ \A i \in IPBatch : i \in cli.idx .. Len(Targets)
  BY IPFits
<1>2. Len(Targets) + 1 \in S
  BY <1>1
<1>3. PICK j \in S : \A y \in S : j <= y
  <2>1. S \subseteq Nat /\ S # {}
    BY <1>2
  <2> HIDE DEF S
  <2> QED
    BY <2>1, LeastNat
<1>4. j \in Nat /\ j > cli.idx /\ j <= Len(Targets) + 1 /\ j \notin IPBatch
  BY <1>1, <1>2, <1>3
<1>5. \A x \in cli.idx .. (j - 1) : x \in IPBatch
  BY <1>1, <1>3, <1>4
<1>6. \A x \in IPBatch : x \in cli.idx .. (j - 1)
  <2> SUFFICES ASSUME NEW x \in IPBatch, x >= j PROVE FALSE
    BY <1>1, <1>4
  <2>1. x \in cli.idx .. Len(Targets) /\ \A k \in cli.idx .. x : KindOf[Targets[k]] = "ip"
    BY DEF IPBatch
  <2>2. j \in cli.idx .. Len(Targets) /\ \A k \in cli.idx .. j : k \in cli.idx .. x
    BY <1>1, <1>4, <2>1
  <2>3. j \in IPBatch
    BY <2>1, <2>2 DEF IPBatch
  <2> QED
    BY <1>4, <2>3
<1>7. IPBatch = cli.idx .. (j - 1)
  BY <1>5, <1>6
<1>8. Cardinality(cli.idx .. (j - 1)) = (j - 1) - cli.idx + 1
  <2>1. cli.idx \in Int /\ j - 1 \in Int /\ ~(cli.idx > j - 1)
    BY <1>1, <1>4
  <2>2. Cardinality(cli.idx .. (j - 1)) = IF cli.idx > j - 1 THEN 0 ELSE (j - 1) - cli.idx + 1
    BY <2>1, FS_Interval, Zenon
  <2> QED
    BY <2>1, <2>2
<1>9. j - 1 \in cli.idx .. Len(Targets)
  BY <1>1, <1>4
<1> QED
  BY <1>7, <1>8, <1>9

LEMMA BatchDoneKeeps ==
  ASSUME CliInv, BatchDone, kills' = kills PROVE CliInv'
<1> USE DEF NamePhases, DomainPhases, BlockPhases
<1>1. /\ cli.pc = "ips" /\ \A i \in DOMAIN cli.ips : cli.ips[i] = "done"
      /\ cli' = [cli EXCEPT !.pc = "done", !.idx = @ + Cardinality(DOMAIN cli.ips) - 1]
      /\ files' = files /\ scanLog' = scanLog
  BY DEF BatchDone
<1>2. /\ cli.req \in CliRequests /\ cli.idx \in 1 .. Len(Targets) /\ Len(Targets) \in Nat
      /\ DOMAIN cli.ips = IPBatch
      /\ \A i \in IPBatch : Steps(Targets[i]) = {Targets[i]}
      /\ cli.mid.phase = "none" /\ cli.urls = files.urls /\ cli.prep = {} /\ cli.tasks = {}
  BY <1>1, IPFits
<1>3. PICK m \in cli.idx .. Len(Targets) : IPBatch = cli.idx .. m /\ Cardinality(IPBatch) = m - cli.idx + 1
  BY <1>1, BatchIsInterval
<1>4. /\ DOMAIN cli' = DOMAIN NoProcess /\ cli'.pc = "done" /\ cli'.idx = cli.idx + Cardinality(IPBatch) - 1
      /\ \A f \in {"req", "fresh", "subs", "urls", "mid", "prep", "tasks", "hand"} : cli'[f] = cli[f]
  BY <1>1, <1>2, NoProcessFields DEF CliInv, CliShape
<1>5. cli'.idx = m
  BY <1>2, <1>3, <1>4
<1>6. cli.hand = {}
  BY <1>1, <1>2 DEF CliInv, HandFits
<1>7. Grows
  BY <1>1, <1>4 DEF Grows
<1>8. HandFits' /\ NamesKept' /\ ScannedKept'
  <2>1. HandFits'
    BY <1>1, <1>2, <1>4, <1>6 DEF HandFits
  <2>2. NamesKept'
    BY <1>1, <1>2, <1>4 DEF CliInv, NamesKept, Trusted
  <2>3. ScannedKept'
    BY <1>1, <1>6 DEF CliInv, ScannedKept
  <2> QED
    BY <2>1, <2>2, <2>3
<1>9. MidFits' /\ cli'.mid.phase = "none"
  BY <1>2, <1>4 DEF MidFits
<1>10. ProcessFits'
  <2>1. m \in 1 .. Len(Targets) + 1 /\ m <= Len(Targets)
    BY <1>2, <1>3
  <2>2. Targets' = Targets
    BY <1>7, GrowsKeeps
  <2> QED
    BY <1>2, <1>4, <1>5, <2>1, <2>2 DEF ProcessFits, Phases
<1>11. Behind'
  <2> SUFFICES ASSUME Claimed' PROVE files'.cp.req = cli'.req /\ (files'.cp.idx < cli'.idx \/ files'.cp.idx = cli'.idx)
    BY <1>4 DEF Behind
  <2>1. Claimed
    BY <1>7, GrowsKeeps
  <2>2. /\ files.cp.req = cli.req
        /\ files.cp.idx < cli.idx \/ files.cp.idx \in IPBatch
    BY <1>1, <2>1 DEF CliInv, Behind
  <2>3. files.cp.idx \in Nat
    BY <1>2, <2>1, <2>2 DEF CliInv, CheckpointFits, Claimed, Targets
  <2> QED
    BY <1>1, <1>2, <1>3, <1>4, <1>5, <2>2, <2>3
<1>12. Progress'
  <2> SUFFICES ASSUME Trusted' PROVE Progress'
    BY DEF Progress
  <2>1. /\ \A j \in 1 .. Len(Targets) : j < cli.idx => \A s \in Steps(Targets[j]) : Settled(j, s)
        /\ \A j \in IPBatch : cli.ips[j] \notin {"todo", "scan"} => Settled(j, Targets[j])
    BY <1>1, <1>7, GrowsKeeps DEF CliInv, Progress
  <2>2. \A j \in IPBatch : \A s \in Steps(Targets[j]) : Settled(j, s)
    <3>1. \A j \in IPBatch : Settled(j, Targets[j])
      BY <1>1, <1>2, <2>1
    <3> QED
      BY <1>2, <3>1
  <2>3. \A j \in 1 .. Len(Targets) : j <= m => j < cli.idx \/ j \in IPBatch
    BY <1>2, <1>3
  <2>4. \A j \in 1 .. Len(Targets) : j <= m => \A s \in Steps(Targets[j]) : Settled(j, s)
    BY <2>1, <2>2, <2>3
  <2>5. \A j \in 1 .. Len(Targets') : j < cli'.idx \/ j = cli'.idx => \A s \in Steps(Targets'[j]) : Settled(j, s)'
    BY <1>2, <1>3, <1>5, <1>7, <2>4, GrowsKeeps
  <2> QED
    BY <1>4, <1>9, <2>5 DEF Progress
<1>13. CheckpointHolds'
  BY <1>4, <1>7, GrowsKeeps DEF CheckpointHolds
<1> QED
  BY <1>7, <1>8, <1>9, <1>10, <1>11, <1>12, <1>13, GrowsKeeps DEF CliInv

LEMMA NoCheckpointPhase == NoCheckpoint.phase = "none"
  BY DEF NoCheckpoint, Checkpoint

LEMMA NextCliTargetKeeps ==
  ASSUME CliInv, NextCliTarget, kills' = kills PROVE CliInv'
<1> DEFINE t == CliTarget
           p == [cli EXCEPT !.mid = NoCheckpoint]
           back == cli.mid.phase = "subdomains_done"
           n == IF cli.mid.phase = "cidr_scanning" THEN cli.mid.n ELSE 0
<1> USE DEF NamePhases, DomainPhases, BlockPhases
<1>1. cli.pc = "target" /\ cli.idx <= Len(Targets) /\ files' = files /\ scanLog' = scanLog
  BY DEF NextCliTarget
<1>2. /\ cli.req \in CliRequests /\ cli.idx \in 1 .. Len(Targets) /\ Len(Targets) \in Nat
      /\ Targets = TargetList[cli.req] /\ t = Targets[cli.idx]
      /\ KindOf[t] \in {"domain", "cidr", "ip", "unknown"} /\ t \in DOMAIN KindOf
  <2>1. cli.req \in CliRequests /\ cli.idx \in 1 .. Len(Targets) + 1
    BY <1>1 DEF CliInv, ProcessFits
  <2>2. Targets = TargetList[cli.req] /\ t = Targets[cli.idx]
    BY DEF Targets, CliTarget
  <2>3. Len(Targets) \in Nat /\ cli.idx \in 1 .. Len(Targets)
    BY <1>1, <2>1, <2>2, TargetsFit
  <2> QED
    BY <2>1, <2>2, <2>3, TargetsFit
<1>3. cli' = CASE KindOf[t] = "domain" -> DomainBegins(p, t)
               [] KindOf[t] = "cidr" -> [p EXCEPT !.pc = "block", !.n = n]
               [] KindOf[t] = "ip" -> [p EXCEPT !.pc = "ips", !.ips = [i \in IPBatch |-> "todo"]]
               [] KindOf[t] = "unknown" -> [p EXCEPT !.pc = "done"]
  BY DEF NextCliTarget
<1>4. /\ cli.hand = {} /\ cli.prep = {} /\ cli.tasks = {} /\ cli.urls = files.urls
      /\ \/ cli.mid.phase = "none"
         \/ /\ cli.mid.phase \in {"subdomains_done", "cidr_scanning"}
            /\ CheckpointFits(cli.mid) /\ cli.mid.req = cli.req /\ cli.mid.idx = cli.idx
  BY <1>1 DEF CliInv, HandFits, MidFits
<1>5. /\ back => KindOf[t] = "domain" /\ t \in cli.mid.all
      /\ cli.mid.phase = "cidr_scanning" => KindOf[t] = "cidr" /\ cli.mid.n \in 0 .. Len(BlockAddresses[t])
  BY <1>2, <1>4 DEF CheckpointFits, Readable
<1>6. Claimed => /\ files.cp.req = cli.req
                 /\ \/ files.cp.idx < cli.idx
                    \/ files.cp.idx = cli.idx /\ files.cp.phase = cli.mid.phase /\ files.cp.n = cli.mid.n
                         /\ cli.mid.phase # "none"
  BY <1>1 DEF CliInv, Behind, Claimed, Readable
<1>7. Trusted => /\ \A i \in 1 .. Len(Targets) : i < cli.idx => \A step \in Steps(Targets[i]) : Settled(i, step)
                 /\ back => Settled(cli.idx, "names") /\ cli.mid.all \subseteq files.subs
                 /\ cli.mid.phase = "cidr_scanning" => \A k \in 1 .. cli.mid.n : Settled(cli.idx, BlockOfTarget[k])
                 /\ cli.subs \subseteq files.subs
  BY <1>1 DEF CliInv, Progress, NamesKept
<1>8. CASE KindOf[t] = "domain"
  <2>1. cli' = DomainBegins(p, t)
    BY <1>3, <1>8
  <2>2. /\ DOMAIN cli' = DOMAIN NoProcess /\ cli'.mid = NoCheckpoint
        /\ \A f \in {"req", "fresh", "idx", "urls", "prep", "tasks", "hand"} : cli'[f] = cli[f]
        /\ \/ /\ back /\ cli'.pc = "certs" /\ cli'.all = {t} \cup cli.mid.all
              /\ cli'.subs = cli.subs \cup {t} \cup cli.mid.all
           \/ ~back /\ cli'.pc = "names" /\ cli'.all = {t} /\ cli'.subs = cli.subs
    BY <2>1, NoProcessFields DEF CliInv, CliShape, DomainBegins
  <2> HIDE DEF t, p, n, back
  <2>3. cli'.mid.phase = "none" /\ MidFits'
    BY <2>2, NoCheckpointPhase DEF MidFits
  <2>4. Grows
    BY <1>1, <2>2 DEF Grows
  <2>5. CliTarget' = t /\ Targets' = Targets
    BY <1>2, <2>2, <2>4, GrowsKeeps DEF CliTarget, t
  <2>6. ProcessFits'
    BY <1>1, <1>2, <1>8, <2>2, <2>5 DEF ProcessFits, Phases
  <2>7. HandFits' /\ ScannedKept'
    BY <1>1, <1>4, <2>2 DEF CliInv, HandFits, ScannedKept
  <2>8. NamesKept'
    BY <1>5, <1>7, <2>2, <2>3, <2>4, GrowsKeeps DEF NamesKept, Grows
  <2>9. Behind'
    <3> SUFFICES ASSUME Claimed' PROVE Behind'
      BY DEF Behind
    <3>1. Claimed
      BY <2>4, GrowsKeeps
    <3>2. CASE files.cp.idx < cli.idx
      BY <1>1, <1>6, <2>2, <3>1, <3>2 DEF Behind
    <3>3. CASE files.cp.idx = cli.idx /\ files.cp.phase = cli.mid.phase /\ cli.mid.phase # "none"
      <4>1. files.cp.phase = "subdomains_done" /\ cli'.pc = "certs"
        BY <1>4, <1>5, <1>8, <2>2, <3>3 DEF back
      <4> QED
        BY <1>1, <1>6, <2>2, <3>1, <3>3, <4>1 DEF Behind
    <3> QED
      BY <1>6, <3>1, <3>2, <3>3
  <2>10. Progress'
    <3> SUFFICES ASSUME Trusted' PROVE Progress'
      BY DEF Progress
    <3>1. \A i \in 1 .. Len(Targets') : i < cli'.idx => \A step \in Steps(Targets'[i]) : Settled(i, step)'
      BY <1>7, <2>2, <2>4, <2>5, GrowsKeeps
    <3>2. back => Settled(cli.idx, "names")'
      BY <1>1, <1>7, <2>2, <2>4, GrowsKeeps DEF Settled
    <3> QED
      BY <2>2, <2>3, <3>1, <3>2 DEF Progress
  <2>11. CheckpointHolds'
    BY <2>2, <2>4, GrowsKeeps DEF CheckpointHolds
  <2> QED
    BY <2>3, <2>4, <2>6, <2>7, <2>8, <2>9, <2>10, <2>11, GrowsKeeps DEF CliInv
<1>9. CASE KindOf[t] = "cidr"
  <2>1. cli' = [p EXCEPT !.pc = "block", !.n = n]
    BY <1>3, <1>9
  <2>2. /\ DOMAIN cli' = DOMAIN NoProcess /\ cli'.mid = NoCheckpoint /\ cli'.pc = "block" /\ cli'.n = n
        /\ \A f \in {"req", "fresh", "idx", "urls", "prep", "tasks", "hand", "subs"} : cli'[f] = cli[f]
    BY <2>1, NoProcessFields DEF CliInv, CliShape
  <2> HIDE DEF t, p, n, back
  <2>3. cli'.mid.phase = "none" /\ MidFits'
    BY <2>2, NoCheckpointPhase DEF MidFits
  <2>4. Grows
    BY <1>1, <2>2 DEF Grows
  <2>5. CliTarget' = t /\ Targets' = Targets /\ BlockOfTarget = BlockAddresses[t] /\ BlockOfTarget' = BlockOfTarget
    BY <1>2, <2>2, <2>4, GrowsKeeps DEF CliTarget, BlockOfTarget, t
  <2>6. n \in 0 .. Len(BlockOfTarget)
    <3>1. Len(BlockOfTarget) \in Nat
      BY <1>2, <1>9, <2>5, BlockListFits
    <3> QED
      BY <1>5, <2>5, <3>1 DEF n
  <2>7. ProcessFits'
    BY <1>1, <1>2, <1>9, <2>2, <2>5, <2>6 DEF ProcessFits, Phases
  <2>8. HandFits' /\ ScannedKept'
    BY <1>1, <1>4, <2>2 DEF CliInv, HandFits, ScannedKept
  <2>9. NamesKept'
    BY <1>7, <2>2, <2>3, <2>4, GrowsKeeps DEF NamesKept, Grows
  <2>10. Behind'
    <3> SUFFICES ASSUME Claimed' PROVE Behind'
      BY DEF Behind
    <3>1. Claimed
      BY <2>4, GrowsKeeps
    <3>2. CASE files.cp.idx < cli.idx
      BY <1>1, <1>6, <2>2, <3>1, <3>2 DEF Behind
    <3>3. CASE files.cp.idx = cli.idx /\ files.cp.phase = cli.mid.phase /\ files.cp.n = cli.mid.n
               /\ cli.mid.phase # "none"
      <4>1. cli.mid.phase = "cidr_scanning"
        BY <1>4, <1>5, <1>9, <3>3 DEF back
      <4>2. files.cp.n = n /\ n \in Nat
        BY <2>6, <3>3, <4>1 DEF n
      <4>3. files.cp.n <= cli'.n
        BY <2>2, <4>2
      <4> QED
        BY <1>1, <1>6, <2>2, <3>1, <3>3, <4>1, <4>3 DEF Behind
    <3> QED
      BY <1>6, <3>1, <3>2, <3>3
  <2>11. Progress'
    <3> SUFFICES ASSUME Trusted' PROVE Progress'
      BY DEF Progress
    <3>1. \A i \in 1 .. Len(Targets') : i < cli'.idx => \A step \in Steps(Targets'[i]) : Settled(i, step)'
      BY <1>7, <2>2, <2>4, <2>5, GrowsKeeps
    <3>2. \A k \in 1 .. n : Settled(cli.idx, BlockOfTarget[k])
      <4>1. CASE cli.mid.phase = "cidr_scanning"
        BY <1>7, <2>4, <4>1, GrowsKeeps DEF n
      <4>2. CASE cli.mid.phase # "cidr_scanning"
        <5>1. n = 0
          BY <4>2 DEF n
        <5>2. 1 .. 0 = {}
          OBVIOUS
        <5> QED
          BY <5>1, <5>2
      <4> QED
        BY <4>1, <4>2
    <3>3. (\A k \in 1 .. cli.n : Settled(cli.idx, BlockOfTarget[k]))'
      BY <1>1, <2>2, <2>5, <3>2 DEF Settled
    <3> QED
      BY <2>2, <2>3, <3>1, <3>3 DEF Progress
  <2>12. CheckpointHolds'
    BY <2>2, <2>4, GrowsKeeps DEF CheckpointHolds
  <2> QED
    BY <2>3, <2>4, <2>7, <2>8, <2>9, <2>10, <2>11, <2>12, GrowsKeeps DEF CliInv
<1>10. CASE KindOf[t] = "ip"
  <2> DEFINE ips == [i \in IPBatch |-> "todo"]
  <2>1. cli' = [p EXCEPT !.pc = "ips", !.ips = ips]
    BY <1>3, <1>10
  <2> HIDE DEF ips
  <2>2. /\ DOMAIN cli' = DOMAIN NoProcess /\ cli'.mid = NoCheckpoint /\ cli'.pc = "ips" /\ cli'.ips = ips
        /\ \A f \in {"req", "fresh", "idx", "urls", "prep", "tasks", "hand", "subs"} : cli'[f] = cli[f]
    BY <2>1, NoProcessFields DEF CliInv, CliShape
  <2> HIDE DEF t, p, n, back
  <2>3. cli'.mid.phase = "none" /\ MidFits'
    BY <2>2, NoCheckpointPhase DEF MidFits
  <2>4. Grows
    BY <1>1, <2>2 DEF Grows
  <2>5. CliTarget' = t /\ Targets' = Targets
    BY <1>2, <2>2, <2>4, GrowsKeeps DEF CliTarget, t
  <2>6. IPBatch' = IPBatch
    BY <2>2, <2>5 DEF IPBatch
  <2>7. DOMAIN cli'.ips = IPBatch /\ \A i \in IPBatch : cli'.ips[i] = "todo"
    BY <2>2 DEF ips
  <2>8. ProcessFits'
    BY <1>1, <1>2, <1>10, <2>2, <2>5, <2>6, <2>7 DEF ProcessFits, Phases
  <2>9. HandFits' /\ ScannedKept'
    BY <1>1, <1>4, <2>2 DEF CliInv, HandFits, ScannedKept
  <2>10. NamesKept'
    BY <1>7, <2>2, <2>3, <2>4, GrowsKeeps DEF NamesKept, Grows
  <2>11. Behind' /\ (Claimed => files.cp.idx < cli.idx)
    <3>1. Claimed => files.cp.idx < cli.idx /\ files.cp.req = cli.req
      BY <1>4, <1>5, <1>6, <1>10 DEF back
    <3> QED
      BY <1>1, <2>2, <2>4, <3>1, GrowsKeeps DEF Behind
  <2>12. Progress'
    <3> SUFFICES ASSUME Trusted' PROVE Progress'
      BY DEF Progress
    <3>1. \A i \in 1 .. Len(Targets') : i < cli'.idx => \A step \in Steps(Targets'[i]) : Settled(i, step)'
      BY <1>7, <2>2, <2>4, <2>5, GrowsKeeps
    <3> QED
      BY <2>2, <2>3, <2>6, <2>7, <3>1 DEF Progress
  <2>13. CheckpointHolds'
    <3>1. ASSUME Claimed, NEW j \in IPBatch PROVE ~(j < startIdx(files.cp))
      <4>1. j \in Int /\ j >= cli.idx
        BY <1>2 DEF IPBatch
      <4>2. files.cp.idx \in Nat /\ files.cp.idx < cli.idx
        BY <1>2, <1>6, <2>11, <3>1 DEF CliInv, CheckpointFits, Claimed
      <4> QED
        BY <1>2, <4>1, <4>2 DEF startIdx
    <3> QED
      BY <1>1, <2>4, <2>6, <3>1, GrowsKeeps DEF CheckpointHolds
  <2> QED
    BY <2>3, <2>4, <2>8, <2>9, <2>10, <2>11, <2>12, <2>13, GrowsKeeps DEF CliInv
<1>11. CASE KindOf[t] = "unknown"
  <2>1. cli' = [p EXCEPT !.pc = "done"]
    BY <1>3, <1>11
  <2>2. /\ DOMAIN cli' = DOMAIN NoProcess /\ cli'.mid = NoCheckpoint /\ cli'.pc = "done"
        /\ \A f \in {"req", "fresh", "idx", "urls", "prep", "tasks", "hand", "subs"} : cli'[f] = cli[f]
    BY <2>1, NoProcessFields DEF CliInv, CliShape
  <2> HIDE DEF t, p, n, back
  <2>3. cli'.mid.phase = "none" /\ MidFits'
    BY <2>2, NoCheckpointPhase DEF MidFits
  <2>4. Grows
    BY <1>1, <2>2 DEF Grows
  <2>5. CliTarget' = t /\ Targets' = Targets
    BY <1>2, <2>2, <2>4, GrowsKeeps DEF CliTarget, t
  <2>6. ProcessFits'
    BY <1>1, <1>2, <2>2, <2>5 DEF ProcessFits, Phases
  <2>7. HandFits' /\ ScannedKept'
    BY <1>1, <1>4, <2>2 DEF CliInv, HandFits, ScannedKept
  <2>8. NamesKept'
    BY <1>7, <2>2, <2>3, <2>4, GrowsKeeps DEF NamesKept, Grows
  <2>9. Behind'
    BY <1>1, <1>6, <2>2, <2>4, GrowsKeeps DEF Behind
  <2>10. Progress'
    <3> SUFFICES ASSUME Trusted' PROVE Progress'
      BY DEF Progress
    <3>1. Steps(Targets[cli.idx]) = {}
      BY <1>2, <1>11 DEF Steps
    <3>2. \A i \in 1 .. Len(Targets') : i < cli'.idx \/ i = cli'.idx =>
            \A step \in Steps(Targets'[i]) : Settled(i, step)'
      BY <1>7, <2>2, <2>4, <2>5, <3>1, GrowsKeeps
    <3> QED
      BY <2>2, <2>3, <3>2 DEF Progress
  <2>11. CheckpointHolds'
    BY <2>2, <2>4, GrowsKeeps DEF CheckpointHolds
  <2> QED
    BY <2>3, <2>4, <2>6, <2>7, <2>8, <2>9, <2>10, <2>11, GrowsKeeps DEF CliInv
<1> QED
  BY <1>2, <1>8, <1>9, <1>10, <1>11

LEMMA RunCliKeeps ==
  ASSUME CliInv, NEW req \in CliRequests, NEW slots, RunCli(req, slots), kills' = kills PROVE CliInv'
<1> DEFINE cp == files.cp
           p == [NoProcess EXCEPT !.pc = "target", !.req = req, !.slots = slots]
<1> USE DEF NamePhases, DomainPhases, BlockPhases
<1>1. cli.pc = "off" /\ cli.hand = {}
  BY DEF RunCli, CliInv, HandFits
<1>2. \A s \in scanLog.scanned : s[3] \in files.urls
  BY <1>1 DEF CliInv, ScannedKept
<1>3. Len(TargetList[req]) \in Nat
  BY TargetsFit
<1>4. CASE canResumeFrom(cp, req)
  <2> DEFINE mid == IF cp.phase = "target_done" THEN NoCheckpoint ELSE cp
  <2>1. /\ cli' = [p EXCEPT !.idx = startIdx(cp), !.subs = files.subs,
                             !.urls = files.urls, !.cidrs = files.cidrs, !.mid = mid]
        /\ files' = files /\ scanLog' = scanLog
    BY <1>4 DEF RunCli
  <2> HIDE DEF mid
  <2>2. /\ DOMAIN cli' = DOMAIN NoProcess /\ cli'.pc = "target" /\ cli'.req = req /\ cli'.fresh = FALSE
        /\ cli'.idx = startIdx(cp) /\ cli'.subs = files.subs /\ cli'.urls = files.urls /\ cli'.mid = mid
        /\ cli'.prep = {} /\ cli'.tasks = {} /\ cli'.hand = {}
    BY <2>1 DEF NoProcess
  <2>3. /\ Readable(cp) /\ cp.req = req /\ cp.idx \in 1 .. Len(TargetList[req])
        /\ cp.phase \in {"target_done", "subdomains_done", "cidr_scanning"} /\ CheckpointFits(cp)
    BY <1>4 DEF CliInv, CheckpointFits, canResumeFrom, Readable
  <2>4. \/ cp.phase = "target_done" /\ cli'.idx = cp.idx + 1 /\ cli'.mid.phase = "none"
        \/ cp.phase \in {"subdomains_done", "cidr_scanning"} /\ cli'.idx = cp.idx /\ cli'.mid = cp
    BY <2>2, <2>3, NoCheckpointPhase DEF startIdx, mid
  <2>5. Targets' = TargetList[req]
    BY <2>2 DEF Targets
  <2>6. CliShape'
    BY <2>1, <2>2 DEF CliInv, CliShape
  <2>7. CheckpointFits(files.cp)' /\ MidFits'
    BY <2>1, <2>2, <2>3, <2>4 DEF MidFits
  <2>8. ProcessFits'
    <3>1. cli'.idx \in 1 .. Len(TargetList[req]) + 1
      BY <1>3, <2>3, <2>4
    <3> QED
      BY <2>2, <2>5, <3>1 DEF ProcessFits, Phases
  <2>9. HandFits' /\ ScannedKept'
    BY <1>2, <2>1, <2>2 DEF HandFits, ScannedKept
  <2>10. Behind'
    <3>1. cp.idx < cli'.idx \/ (cp.idx = cli'.idx /\ cli'.mid = cp)
      BY <1>3, <2>3, <2>4
    <3> QED
      BY <2>1, <2>2, <2>3, <3>1 DEF Behind
  <2>11. Trusted' => Claimed
    BY <2>1, <2>2, <2>3 DEF Trusted, Claimed
  <2>12. Claimed => /\ \A i \in 1 .. cp.idx : \A step \in Steps(TargetList[req][i]) :
                         Passed(cp, i, step) => Settled(i, step)
                    /\ cp.phase = "subdomains_done" => cp.all \subseteq files.subs
    BY <2>3 DEF CliInv, CheckpointHolds
  <2>13. NamesKept'
    BY <2>1, <2>2, <2>4, <2>11, <2>12 DEF NamesKept
  <2>14. Progress'
    <3> SUFFICES ASSUME Trusted' PROVE Progress'
      BY DEF Progress
    <3>1. \A i \in 1 .. cp.idx : \A step \in Steps(TargetList[req][i]) : Passed(cp, i, step) => Settled(i, step)'
      BY <2>1, <2>11, <2>12 DEF Settled
    <3>2. \A i \in 1 .. Len(TargetList[req]) : i < startIdx(cp) => i \in 1 .. cp.idx
      BY <1>3, <2>2, <2>3, <2>4
    <3>3. \A i \in 1 .. Len(Targets') : i < cli'.idx => \A step \in Steps(Targets'[i]) : Settled(i, step)'
      BY <2>2, <2>5, <3>1, <3>2 DEF Passed
    <3>4. cp.idx \in 1 .. cp.idx
      BY <1>3, <2>3
    <3>5. cli'.mid.phase = "subdomains_done" => Settled(cli.idx, "names")'
      <4> SUFFICES ASSUME cli'.mid.phase = "subdomains_done" PROVE Settled(cli.idx, "names")'
        OBVIOUS
      <4>1. cp.phase = "subdomains_done" /\ cli'.idx = cp.idx
        BY <2>4
      <4>2. "names" \in Steps(TargetList[req][cp.idx])
        BY <2>3, <4>1 DEF CheckpointFits, Steps
      <4>3. Passed(cp, cp.idx, "names")
        BY <4>1 DEF Passed
      <4>4. PICK i : i = cp.idx
        OBVIOUS
      <4>5. Settled(i, "names")'
        BY <3>1, <3>4, <4>2, <4>3, <4>4
      <4> QED
        BY <4>1, <4>4, <4>5 DEF Settled
    <3>6. cli'.mid.phase = "cidr_scanning" => \A k \in 1 .. cli'.mid.n : Settled(cli.idx, BlockOfTarget[k])'
      <4> SUFFICES ASSUME cli'.mid.phase = "cidr_scanning", NEW k \in 1 .. cli'.mid.n
                   PROVE  Settled(cli.idx, BlockOfTarget[k])'
        OBVIOUS
      <4> DEFINE t == TargetList[req][cp.idx]
                 b == BlockAddresses[t]
      <4>1. cp.phase = "cidr_scanning" /\ cli'.idx = cp.idx /\ cli'.mid = cp
        BY <2>4
      <4>2. KindOf[t] = "cidr" /\ cp.n \in 0 .. Len(b) /\ t \in DOMAIN KindOf
        BY <2>3, <4>1, TargetsFit DEF CheckpointFits
      <4>3. BlockOfTarget' = b
        BY <2>5, <4>1 DEF BlockOfTarget, CliTarget
      <4> HIDE DEF t
      <4>4. /\ Len(b) \in Nat /\ DOMAIN b = 1 .. Len(b)
            /\ ToSet(SubSeq(b, 1, cp.n)) = {b[j] : j \in 1 .. cp.n}
        BY <4>2, BlockListFits, Zenon
      <4> HIDE DEF b
      <4>5. k \in 1 .. cp.n /\ k \in DOMAIN b
        BY <4>1, <4>2, <4>4
      <4>6. b[k] \in ToSet(SubSeq(b, 1, cp.n)) /\ b[k] \in ToSet(b)
        BY <4>4, <4>5 DEF ToSet
      <4>7. Passed(cp, cp.idx, b[k])
        BY <2>3, <4>1, <4>6 DEF Passed, b, t
      <4>8. b[k] \in Steps(t)
        BY <4>2, <4>6 DEF Steps, b
      <4>9. PICK i, step : i = cp.idx /\ step = b[k]
        OBVIOUS
      <4>10. Settled(i, step)'
        BY <3>1, <3>4, <4>7, <4>8, <4>9 DEF t
      <4> QED
        BY <4>1, <4>3, <4>9, <4>10 DEF Settled
    <3> QED
      BY <2>2, <3>3, <3>5, <3>6 DEF Progress
  <2>15. CheckpointHolds'
    BY <2>1, <2>2 DEF CliInv, CheckpointHolds, Claimed, Settled
  <2> QED
    BY <2>6, <2>7, <2>8, <2>9, <2>10, <2>13, <2>14, <2>15 DEF CliInv
<1>5. CASE ~canResumeFrom(cp, req)
  <2>1. /\ cli' = [p EXCEPT !.fresh = TRUE]
        /\ files' = [files EXCEPT !.subs = {}, !.urls = {}, !.cidrs = {}]
        /\ scanLog' = [NoLog EXCEPT !.abandoned = Readable(cp)]
    BY <1>5 DEF RunCli
  <2>2. /\ DOMAIN cli' = DOMAIN NoProcess /\ cli'.pc = "target" /\ cli'.req = req /\ cli'.fresh = TRUE
        /\ cli'.idx = 1 /\ cli'.subs = {} /\ cli'.urls = {} /\ cli'.mid = NoCheckpoint
        /\ cli'.prep = {} /\ cli'.tasks = {} /\ cli'.hand = {}
    BY <2>1 DEF NoProcess
  <2>3. DOMAIN files' = DOMAIN files /\ files'.cp = cp /\ files'.subs = {} /\ files'.urls = {}
    BY <2>1 DEF CliInv, CliShape
  <2>4. /\ DOMAIN scanLog' = {"attempted", "scanned", "overtaken", "abandoned"}
        /\ scanLog'.scanned = {} /\ scanLog'.abandoned = Readable(cp)
    BY <2>1 DEF NoLog
  <2>5. ~Claimed'
    BY <2>3, <2>4 DEF Claimed
  <2>6. CliShape'
    <3>1. Readable(cp) \in BOOLEAN
      BY DEF Readable
    <3> QED
      BY <2>2, <2>3, <2>4, <3>1 DEF CliInv, CliShape
  <2>7. CheckpointFits(files.cp)' /\ MidFits' /\ cli'.mid.phase = "none"
    BY <2>2, <2>3, NoCheckpointPhase DEF CliInv, MidFits
  <2>8. ProcessFits'
    <3>1. cli'.idx \in 1 .. Len(TargetList[req]) + 1
      BY <1>3, <2>2
    <3> QED
      BY <2>2, <3>1 DEF ProcessFits, Phases, Targets
  <2>9. HandFits' /\ ScannedKept' /\ NamesKept'
    BY <2>2, <2>3, <2>4, <2>7 DEF HandFits, ScannedKept, NamesKept
  <2>10. Behind' /\ CheckpointHolds'
    BY <2>5 DEF Behind, CheckpointHolds
  <2>11. Progress'
    <3>1. \A i \in 1 .. Len(Targets') : ~(i < cli'.idx)
      BY <2>2
    <3> QED
      BY <2>2, <2>7, <3>1 DEF Progress
  <2> QED
    BY <2>6, <2>7, <2>8, <2>9, <2>10, <2>11 DEF CliInv
<1> QED
  BY <1>4, <1>5

(* A process that ends, killed or not, leaves the files and what the log   *)
(* says of them.                                                           *)
LEMMA ProcessEndsKeeps ==
  ASSUME CliInv, cli' = NoProcess, kills' \in 0 .. MaxKills, files' = files,
         \/ scanLog' = scanLog /\ cli.hand = {}
         \/ scanLog' = [scanLog EXCEPT !.scanned = {s \in @ : s[3] \notin cli.hand}]
  PROVE  CliInv'
<1>1. /\ cli'.pc = "off" /\ cli'.fresh = FALSE /\ cli'.hand = {} /\ cli'.prep = {} /\ cli'.tasks = {}
      /\ cli'.mid = NoCheckpoint
  BY DEF NoProcess
<1>2. /\ DOMAIN scanLog' = DOMAIN scanLog /\ scanLog'.attempted = scanLog.attempted
      /\ scanLog'.overtaken = scanLog.overtaken /\ scanLog'.abandoned = scanLog.abandoned
  BY DEF CliInv, CliShape
<1>3. \A s \in scanLog'.scanned : s \in scanLog.scanned /\ s[3] \notin cli.hand
  BY DEF CliInv, CliShape
<1>4. CliShape'
  <2>1. DOMAIN cli' = DOMAIN NoProcess
    OBVIOUS
  <2> QED
    BY <1>1, <1>2, <2>1 DEF CliInv, CliShape
<1>5. CheckpointFits(files.cp)' /\ MidFits' /\ ProcessFits'
  BY <1>1, NoCheckpointPhase DEF CliInv, MidFits, ProcessFits, Phases, NamePhases, DomainPhases, BlockPhases
<1>6. HandFits' /\ Behind' /\ Progress' /\ NamesKept'
  BY <1>1 DEF HandFits, Behind, Progress, NamesKept
<1>7. ScannedKept'
  BY <1>3 DEF CliInv, ScannedKept
<1>8. CheckpointHolds'
  BY <1>1, <1>2 DEF CliInv, CheckpointHolds, Claimed, Settled
<1> QED
  BY <1>4, <1>5, <1>6, <1>7, <1>8 DEF CliInv

LEMMA WriteWorkbookKeeps ==
  ASSUME CliInv, writeWorkbook, kills' = kills PROVE CliInv'
<1> USE DEF NamePhases, DomainPhases, BlockPhases
<1>1. cli.pc = "target" /\ cli.idx > Len(Targets) /\ files' = files /\ scanLog' = scanLog
  BY DEF writeWorkbook
<1>2. CASE cli' = NoProcess
  <2>1. cli.hand = {} /\ kills' \in 0 .. MaxKills
    BY <1>1 DEF CliInv, HandFits, CliShape
  <2> QED
    BY <1>1, <1>2, <2>1, ProcessEndsKeeps
<1>3. CASE cli' = [cli EXCEPT !.pc = "written", !.book = cli.urls]
  <2>1. /\ DOMAIN cli' = DOMAIN NoProcess /\ cli'.pc = "written"
        /\ \A f \in {"req", "fresh", "idx", "mid", "urls", "prep", "tasks", "hand", "subs"} : cli'[f] = cli[f]
    BY <1>3, NoProcessFields DEF CliInv, CliShape
  <2>2. Grows
    BY <1>1, <2>1 DEF Grows
  <2>3. cli.mid.phase = "none"
    <3>1. cli.req \in CliRequests
      BY <1>1 DEF CliInv, ProcessFits
    <3>2. Len(Targets) \in Nat
      BY <3>1, TargetsFit DEF Targets
    <3> QED
      BY <1>1, <3>2 DEF CliInv, MidFits, CheckpointFits, Readable, Targets
  <2>4. MidFits'
    BY <2>1, <2>3 DEF MidFits
  <2>5. ProcessFits'
    BY <1>1, <2>1, <2>2, GrowsKeeps DEF CliInv, ProcessFits, Phases
  <2>6. HandFits' /\ ScannedKept'
    BY <1>1, <2>1 DEF CliInv, HandFits, ScannedKept
  <2>7. NamesKept'
    BY <1>1, <2>1, <2>3 DEF CliInv, NamesKept, Trusted
  <2>8. Behind'
    <3>1. Claimed => files.cp.idx < cli.idx /\ files.cp.req = cli.req
      BY <1>1, <2>3 DEF CliInv, Behind, Claimed, Readable
    <3> QED
      BY <1>1, <2>1, <2>2, <3>1, GrowsKeeps DEF Behind
  <2>9. Progress'
    <3> SUFFICES ASSUME Trusted' PROVE Progress'
      BY DEF Progress
    <3>1. \A i \in 1 .. Len(Targets) : i < cli.idx => \A step \in Steps(Targets[i]) : Settled(i, step)
      BY <1>1, <2>2, GrowsKeeps DEF CliInv, Progress
    <3>2. \A i \in 1 .. Len(Targets') : i < cli'.idx => \A step \in Steps(Targets'[i]) : Settled(i, step)'
      BY <2>1, <2>2, <3>1, GrowsKeeps
    <3> QED
      BY <2>1, <2>3, <3>2 DEF Progress
  <2>10. CheckpointHolds'
    BY <2>1, <2>2, GrowsKeeps DEF CheckpointHolds
  <2> QED
    BY <2>2, <2>4, <2>5, <2>6, <2>7, <2>8, <2>9, <2>10, GrowsKeeps DEF CliInv
<1> QED
  BY <1>2, <1>3 DEF writeWorkbook

LEMMA ClearCheckpointKeeps ==
  ASSUME CliInv, clearCheckpoint, kills' = kills PROVE CliInv'
<1>1. /\ cli.pc = "written" /\ files' = [files EXCEPT !.cp = NoCheckpoint] /\ cli' = NoProcess /\ scanLog' = scanLog
  BY DEF clearCheckpoint
<1>2. cli.hand = {}
  BY <1>1 DEF CliInv, HandFits, NamePhases
<1>3. /\ cli'.pc = "off" /\ cli'.fresh = FALSE /\ cli'.hand = {} /\ cli'.prep = {} /\ cli'.tasks = {}
      /\ cli'.mid = NoCheckpoint /\ DOMAIN cli' = DOMAIN NoProcess
  BY <1>1 DEF NoProcess
<1>4. DOMAIN files' = DOMAIN files /\ files'.cp = NoCheckpoint /\ files'.urls = files.urls
  BY <1>1 DEF CliInv, CliShape
<1>5. ~Claimed' /\ CheckpointFits(NoCheckpoint)
  BY <1>4, NoCheckpointPhase DEF Claimed, Readable, CheckpointFits
<1>6. CliShape'
  BY <1>1, <1>3, <1>4 DEF CliInv, CliShape
<1>7. CheckpointFits(files.cp)' /\ MidFits' /\ ProcessFits'
  BY <1>3, <1>4, <1>5, NoCheckpointPhase DEF MidFits, ProcessFits, Phases, NamePhases, DomainPhases, BlockPhases
<1>8. HandFits' /\ Behind' /\ Progress' /\ NamesKept' /\ CheckpointHolds'
  BY <1>3, <1>5 DEF HandFits, Behind, Progress, NamesKept, CheckpointHolds
<1>9. ScannedKept'
  BY <1>1, <1>2, <1>4 DEF CliInv, ScannedKept
<1> QED
  BY <1>6, <1>7, <1>8, <1>9 DEF CliInv

LEMMA CliStepKeeps == CliInv /\ [CliNext]_cliVars => CliInv'
<1> SUFFICES ASSUME CliInv, [CliNext]_cliVars PROVE CliInv'
  OBVIOUS
<1>1. CASE Killed
  <2>1. /\ kills' = kills + 1 /\ kills < MaxKills /\ cli' = NoProcess /\ files' = files
        /\ scanLog' = [scanLog EXCEPT !.scanned = {s \in @ : s[3] \notin cli.hand}]
    BY <1>1 DEF Killed
  <2>2. kills' \in 0 .. MaxKills
    <3>1. kills \in 0 .. MaxKills /\ MaxKills \in Nat
      BY CliAssumption DEF CliInv, CliShape
    <3> QED
      BY <2>1, <3>1
  <2> QED
    BY <2>1, <2>2, ProcessEndsKeeps
<1>2. CASE CliStep /\ UNCHANGED kills
  <2> USE <1>2
  <2>1. CASE \E req \in CliRequests, slots \in Concurrencies : RunCli(req, slots)
    BY <2>1, RunCliKeeps
  <2>2. CASE NextCliTarget \/ TargetFinished \/ writeWorkbook \/ clearCheckpoint
    BY <2>2, NextCliTargetKeeps, TargetFinishedKeeps, WriteWorkbookKeeps, ClearCheckpointKeeps
  <2>3. CASE \E s \in SubSources : SourceReturns(s)
    BY <2>3, SourceReturnsKeeps
  <2>4. CASE \E x \in cli.prep : SkipName(x[1], x[2]) \/ scheduleResolved(x[1], x[2])
    BY <2>4, SkipNameKeeps, ScheduleResolvedKeeps
  <2>5. CASE \E t \in cli.tasks : scanResolvedDomainIP(t)
    BY <2>5, ScanResolvedKeeps
  <2>6. CASE \E u \in cli.hand : AddFound(u)
    BY <2>6, AddFoundKeeps
  <2>7. CASE NamesCollected \/ DeriveNames \/ DerivePaths \/ SubdomainsDone
    BY <2>7, NamesCollectedKeeps, DeriveNamesKeeps, DerivePathsKeeps, SubdomainsDoneKeeps
  <2>8. CASE CertLookup \/ (\E ip \in CertAddresses : CertScan(ip)) \/ DomainDone
    BY <2>8, CertLookupKeeps, CertScanKeeps, DomainDoneKeeps
  <2>9. CASE \E i \in DOMAIN cli.ips : BeginIP(i) \/ scanIPWeb(i) \/ AddIP(i) \/ SaveIP(i)
    BY <2>9, BeginIPKeeps, ScanIPWebKeeps, AddIPKeeps, SaveIPKeeps
  <2>10. CASE BatchDone \/ ScanBlockIP \/ AddBlockIP \/ SaveBlockIP
    BY <2>10, BatchDoneKeeps, ScanBlockIPKeeps, AddBlockIPKeeps, SaveBlockIPKeeps
  <2> QED
    BY <2>1, <2>2, <2>3, <2>4, <2>5, <2>6, <2>7, <2>8, <2>9, <2>10 DEF CliStep
<1>3. CASE UNCHANGED cliVars
  <2>1. cli' = cli /\ files' = files /\ scanLog' = scanLog /\ kills' = kills
    BY <1>3 DEF cliVars
  <2>2. CliShape' /\ CheckpointFits(files.cp)' /\ MidFits' /\ Trusted' = Trusted /\ Claimed' = Claimed
        /\ Targets' = Targets /\ CliTarget' = CliTarget
    BY <2>1 DEF CliInv, CliShape, MidFits, Trusted, Claimed, Targets, CliTarget
  <2>3. IPBatch' = IPBatch /\ BlockOfTarget' = BlockOfTarget
    BY <2>1, <2>2 DEF IPBatch, BlockOfTarget
  <2>4. ProcessFits' /\ HandFits' /\ Behind'
    BY <2>1, <2>2, <2>3 DEF CliInv, ProcessFits, HandFits, Behind
  <2>5. (\A s : Pending(s) => Pending(s)') /\ (\A i, step : Settled(i, step) <=> Settled(i, step)')
    BY <2>1, <2>2, <2>3 DEF Pending, Settled
  <2>6. ScannedKept' /\ NamesKept' /\ CheckpointHolds'
    BY <2>1, <2>2, <2>3, <2>5 DEF CliInv, ScannedKept, NamesKept, CheckpointHolds
  <2>7. Progress'
    BY <2>1, <2>2, <2>3 DEF CliInv, Progress, Settled
  <2> QED
    BY <2>2, <2>4, <2>6, <2>7 DEF CliInv
<1> QED
  BY <1>1, <1>2, <1>3 DEF CliNext

(* The workbook is what the process had read and added. *)
BookKept == cli.pc = "written" => cli.book = cli.urls

LEMMA BookStepKeeps ==
  ASSUME CliInv, BookKept, [CliNext]_cliVars PROVE BookKept'
<1>0. "pc" \in DOMAIN cli /\ "book" \in DOMAIN cli /\ "urls" \in DOMAIN cli
  BY NoProcessFields DEF CliInv, CliShape
<1>1. CASE writeWorkbook
  <2>1. NoProcess.pc = "off"
    BY DEF NoProcess
  <2>2. \/ cli' = [cli EXCEPT !.pc = "written", !.book = cli.urls]
        \/ cli' = NoProcess
    BY <1>1 DEF writeWorkbook
  <2>3. cli'.pc = "off" \/ (cli'.book = cli.urls /\ cli'.urls = cli.urls)
    BY <1>0, <2>1, <2>2
  <2> QED
    BY <2>3 DEF BookKept
<1>2. CASE UNCHANGED cliVars
  BY <1>2 DEF BookKept, cliVars
<1>3. CASE cli'.pc # "written"
  BY <1>3 DEF BookKept
<1>4. NoProcess.pc = "off"
  BY DEF NoProcess
<1>5. CASE Killed \/ clearCheckpoint
  BY <1>3, <1>4, <1>5 DEF Killed, clearCheckpoint
<1>6. CASE \E req \in CliRequests, slots \in Concurrencies : RunCli(req, slots)
  <2>1. PICK req \in CliRequests, slots \in Concurrencies : RunCli(req, slots)
    BY <1>6
  <2>2. cli'.pc = "target"
    BY <2>1, NoProcessFields DEF RunCli
  <2> QED
    BY <1>3, <2>2
<1>7. CASE NextCliTarget
  <2>1. KindOf[CliTarget] \in {"domain", "cidr", "ip", "unknown"}
    <3>1. cli.req \in CliRequests /\ cli.idx \in 1 .. Len(Targets) + 1 /\ cli.idx <= Len(Targets)
      BY <1>7 DEF NextCliTarget, CliInv, ProcessFits
    <3>2. Len(Targets) \in Nat
      BY <3>1, TargetsFit DEF Targets
    <3>3. cli.idx \in 1 .. Len(Targets)
      BY <3>1, <3>2
    <3> QED
      BY <3>1, <3>3, TargetsFit DEF Targets, CliTarget
  <2>2. cli'.pc \in {"certs", "names", "block", "ips", "done"}
    BY <1>0, <1>7, <2>1 DEF NextCliTarget, DomainBegins
  <2> QED
    BY <1>3, <2>2
<1>8. CASE TargetFinished
  <2>1. cli'.pc = "target"
    BY <1>0, <1>8 DEF TargetFinished
  <2> QED
    BY <1>3, <2>1
<1>9. CASE \E x \in cli.prep : SkipName(x[1], x[2]) \/ scheduleResolved(x[1], x[2])
  <2>1. cli.pc \in NamePhases
    BY <1>9 DEF CliInv, HandFits
  <2>2. cli'.pc = cli.pc
    <3>1. PICK x \in cli.prep : SkipName(x[1], x[2]) \/ scheduleResolved(x[1], x[2])
      BY <1>9
    <3>2. CASE SkipName(x[1], x[2])
      BY <1>0, <3>2 DEF SkipName
    <3>3. CASE scheduleResolved(x[1], x[2])
      BY <1>0, <3>3 DEF scheduleResolved
    <3> QED
      BY <3>1, <3>2, <3>3
  <2> QED
    BY <1>3, <2>1, <2>2 DEF NamePhases
<1>10. CASE \E t \in cli.tasks : scanResolvedDomainIP(t)
  <2>1. cli.pc \in NamePhases
    BY <1>10 DEF CliInv, HandFits
  <2>2. cli'.pc = cli.pc
    BY <1>0, <1>10 DEF scanResolvedDomainIP
  <2> QED
    BY <1>3, <2>1, <2>2 DEF NamePhases
<1>11. CASE \/ \E s \in SubSources : SourceReturns(s)
            \/ \E u \in cli.hand : AddFound(u)
  <2>1. cli'.pc \in {"names", "prep", "derive", "certs", "certscan"}
    BY <1>0, <1>11 DEF SourceReturns, AddFound
  <2> QED
    BY <1>3, <2>1
<1>12. CASE \/ NamesCollected \/ DeriveNames \/ DerivePaths \/ SubdomainsDone
            \/ CertLookup \/ DomainDone
  <2>1. cli'.pc \in {"prep", "derive", "subdomains", "certs", "certscan", "done"}
    <3>1. CASE NamesCollected \/ DeriveNames
      BY <1>0, <3>1 DEF NamesCollected, DeriveNames
    <3>2. CASE DerivePaths \/ SubdomainsDone
      BY <1>0, <3>2 DEF DerivePaths, SubdomainsDone
    <3>3. CASE CertLookup \/ DomainDone
      BY <1>0, <3>3 DEF CertLookup, DomainDone
    <3> QED
      BY <1>12, <3>1, <3>2, <3>3
  <2> QED
    BY <1>3, <2>1
<1>13. CASE \E ip \in CertAddresses : CertScan(ip)
  <2>1. PICK ip \in CertAddresses : CertScan(ip)
    BY <1>13
  <2>2. cli'.pc = "certscan"
    BY <1>0, <2>1 DEF CertScan
  <2> QED
    BY <1>3, <2>2
<1>14. CASE \E i \in DOMAIN cli.ips : BeginIP(i) \/ scanIPWeb(i) \/ AddIP(i) \/ SaveIP(i)
  <2>1. PICK i \in DOMAIN cli.ips : BeginIP(i) \/ scanIPWeb(i) \/ AddIP(i) \/ SaveIP(i)
    BY <1>14
  <2>2. CASE BeginIP(i) \/ AddIP(i) \/ scanIPWeb(i)
    <3>1. cli'.pc = "ips"
      BY <1>0, <2>2 DEF BeginIP, AddIP, scanIPWeb
    <3> QED
      BY <1>3, <3>1
  <2>3. CASE SaveIP(i)
    <3>1. cli'.pc = "ips"
      BY <1>0, <2>3 DEF SaveIP
    <3> QED
      BY <1>3, <3>1
  <2> QED
    BY <2>1, <2>2, <2>3
<1>15. CASE BatchDone \/ ScanBlockIP \/ AddBlockIP \/ SaveBlockIP
  <2>1. cli'.pc \in {"done", "block", "blockadd", "blocksave"}
    <3>1. CASE BatchDone \/ ScanBlockIP
      BY <1>0, <3>1 DEF BatchDone, ScanBlockIP
    <3>2. CASE AddBlockIP \/ SaveBlockIP
      BY <1>0, <3>2 DEF AddBlockIP, SaveBlockIP
    <3> QED
      BY <1>15, <3>1, <3>2
  <2> QED
    BY <1>3, <2>1
<1> QED
  BY <1>1, <1>2, <1>5, <1>6, <1>7, <1>8, <1>9, <1>10, <1>11, <1>12, <1>13, <1>14, <1>15
     DEF CliNext, CliStep

(* What the checkpoint passes over and is still in a scan's hands can only *)
(* be an address that a later one of its batch overtook.                   *)
LEMMA PassedIsInFiles ==
  ASSUME CliInv, Claimed, NEW s \in scanLog.scanned, Passed(files.cp, s[1], s[2]),
         s[1] \notin scanLog.overtaken
  PROVE  s[3] \in files.urls
<1> SUFFICES ASSUME s[3] \notin files.urls PROVE FALSE
  OBVIOUS
<1> USE DEF NamePhases, BlockPhases
<1>1. Pending(s) /\ cli.pc # "off"
  BY DEF CliInv, ScannedKept, Pending
<1>2. cli.idx \in Nat /\ files.cp.idx \in Nat
  <2>1. cli.req \in CliRequests /\ cli.idx \in 1 .. Len(Targets) + 1
    BY <1>1 DEF CliInv, ProcessFits
  <2>2. files.cp.req \in CliRequests /\ files.cp.idx \in 1 .. Len(TargetList[files.cp.req])
    BY DEF CliInv, CheckpointFits, Claimed
  <2>3. Len(Targets) \in Nat /\ Len(TargetList[files.cp.req]) \in Nat
    BY <2>1, <2>2, TargetsFit DEF Targets
  <2> QED
    BY <2>1, <2>2, <2>3
<1>3. startIdx(files.cp) \in {files.cp.idx, files.cp.idx + 1}
      /\ (files.cp.phase # "target_done" => startIdx(files.cp) = files.cp.idx)
  BY DEF startIdx
<1>4. /\ files.cp.req = cli.req
      /\ \/ files.cp.idx < cli.idx
         \/ files.cp.idx = cli.idx /\ cli.pc = "target" /\ cli.mid = files.cp
         \/ files.cp.idx = cli.idx /\ cli.pc = "done"
         \/ files.cp.idx = cli.idx /\ files.cp.phase = "subdomains_done" /\ cli.pc \in {"certs", "certscan"}
         \/ files.cp.idx = cli.idx /\ files.cp.phase = "cidr_scanning" /\ cli.pc \in BlockPhases
              /\ files.cp.n <= cli.n
         \/ cli.pc = "ips" /\ files.cp.phase = "target_done" /\ files.cp.idx \in IPBatch
  BY <1>1 DEF CliInv, Behind
<1>5. \/ s[1] < startIdx(files.cp)
      \/ s[1] = files.cp.idx /\ files.cp.phase = "subdomains_done" /\ s[2] = "names"
      \/ s[1] = files.cp.idx /\ files.cp.phase = "cidr_scanning"
           /\ s[2] \in ToSet(SubSeq(BlockAddresses[TargetList[files.cp.req][s[1]]], 1, files.cp.n))
  BY DEF Passed
<1>6. ~(files.cp.idx < cli.idx /\ s[1] = cli.idx)
  BY <1>2, <1>3, <1>5
<1>7. CASE cli.pc \in NamePhases
  BY <1>1, <1>4, <1>6, <1>7 DEF Pending
<1>8. CASE cli.pc = "certscan"
  <2>1. s[1] = cli.idx /\ s[2] = "cert"
    BY <1>1, <1>8 DEF Pending
  <2>2. files.cp.idx = cli.idx /\ files.cp.phase = "subdomains_done"
    BY <1>4, <1>6, <1>8, <2>1
  <2> QED
    BY <1>2, <1>3, <1>5, <2>1, <2>2
<1>9. CASE cli.pc = "ips"
  <2>1. s[1] \in IPBatch /\ cli.ips[s[1]] = "add"
    BY <1>1, <1>9 DEF Pending
  <2>2. ~(s[1] < startIdx(files.cp))
    BY <1>9, <2>1 DEF CliInv, CheckpointHolds
  <2>3. s[1] \in cli.idx .. Len(Targets) /\ Len(Targets) \in Nat
    BY <1>9, <2>1, IPFits
  <2>4. files.cp.idx < cli.idx \/ files.cp.phase = "target_done"
    BY <1>4, <1>9
  <2> QED
    BY <1>2, <1>5, <2>2, <2>3, <2>4
<1>10. CASE cli.pc = "blockadd"
  <2>1. s[1] = cli.idx /\ s[2] = BlockOfTarget[cli.n + 1]
    BY <1>1, <1>10 DEF Pending
  <2>2. files.cp.idx = cli.idx /\ files.cp.phase = "cidr_scanning" /\ files.cp.n <= cli.n
    BY <1>4, <1>6, <1>10, <2>1
  <2>3. s[2] \in ToSet(SubSeq(BlockOfTarget, 1, files.cp.n))
    <3>1. BlockAddresses[TargetList[files.cp.req][s[1]]] = BlockOfTarget
      BY <1>4, <2>1 DEF BlockOfTarget, CliTarget, Targets
    <3> QED
      BY <1>2, <1>3, <1>5, <2>1, <2>2, <3>1
  <2>4. cli.n \in 0 .. Len(BlockOfTarget) /\ cli.n < Len(BlockOfTarget) /\ Len(BlockOfTarget) \in Nat
    BY <1>10, BlockFits DEF CliInv, ProcessFits
  <2>5. files.cp.n \in 0 .. Len(BlockOfTarget)
    <3>1. BlockOfTarget = BlockAddresses[TargetList[files.cp.req][files.cp.idx]]
      BY <1>4, <2>2 DEF BlockOfTarget, CliTarget, Targets
    <3> QED
      BY <2>2, <3>1 DEF CliInv, CheckpointFits, Claimed
  <2>6. PICK k \in 1 .. files.cp.n : s[2] = BlockOfTarget[k]
    BY <1>10, <2>3, <2>5, BlockFits
  <2>7. k \in 1 .. Len(BlockOfTarget) /\ cli.n + 1 \in 1 .. Len(BlockOfTarget) /\ k # cli.n + 1
    BY <2>2, <2>4, <2>5
  <2> QED
    BY <1>10, <2>1, <2>6, <2>7, BlockFits
<1> QED
  BY <1>1, <1>7, <1>8, <1>9, <1>10 DEF Pending

LEMMA CliInvImpliesResumes == CliInv /\ BookKept => CliTypeOK /\ ScanResumes
<1> SUFFICES ASSUME CliInv, BookKept PROVE CliTypeOK /\ ScanResumes
  OBVIOUS
<1>1. CliTypeOK
  <2>1. cli.pc \in Phases /\ (cli.pc # "off" => cli.req \in CliRequests /\ cli.idx \in 1 .. Len(Targets) + 1)
    BY DEF CliInv, ProcessFits
  <2>2. /\ files.cp.phase \in {"none", "unreadable", "target_done", "subdomains_done", "cidr_scanning"}
        /\ Readable(files.cp) => files.cp.idx \in 1 .. Len(TargetList[files.cp.req])
    BY DEF CliInv, CheckpointFits
  <2> QED
    BY <2>1, <2>2 DEF CliTypeOK, CliInv, CliShape, Phases
<1>2. ResumePassesOverDone
  <2>1. Claimed => /\ \A i \in 1 .. files.cp.idx : \A step \in Steps(TargetList[files.cp.req][i]) :
                        Passed(files.cp, i, step) =>
                          <<i, step>> \in scanLog.attempted \/ i \in scanLog.overtaken
                   /\ files.cp.phase = "subdomains_done" => files.cp.all \subseteq files.subs
    BY DEF CliInv, CheckpointHolds, Settled
  <2>2. Claimed => \A s \in scanLog.scanned :
                     Passed(files.cp, s[1], s[2]) /\ s[1] \notin scanLog.overtaken => s[3] \in files.urls
    BY PassedIsInFiles
  <2> QED
    BY <2>1, <2>2 DEF ResumePassesOverDone, Claimed
<1>3. WorkbookIsWhole
  <2> SUFFICES ASSUME cli.pc = "written", NEW s \in scanLog.scanned PROVE s[3] \in cli.book
    BY DEF WorkbookIsWhole
  <2>1. cli.hand = {} /\ cli.urls = files.urls
    BY DEF CliInv, HandFits, NamePhases
  <2>2. s[3] \in files.urls
    BY <2>1 DEF CliInv, ScannedKept
  <2> QED
    BY <2>1, <2>2 DEF BookKept
<1> QED
  BY <1>1, <1>2, <1>3 DEF ScanResumes

LEMMA CliReached == CliSpec => [](CliInv /\ BookKept)
<1>1. CliInit => CliInv /\ BookKept
  <2>1. ASSUME CliInit PROVE cli.pc = "off"
    BY <2>1 DEF CliInit, NoProcess
  <2> QED
    BY <2>1, CliInitInv DEF BookKept
<1>2. CliInv /\ BookKept /\ [CliNext]_cliVars => (CliInv /\ BookKept)'
  BY CliStepKeeps, BookStepKeeps
<1> QED
  BY <1>1, <1>2, PTL DEF CliSpec

(* The walk over the targets stays within them and the checkpoint names a  *)
(* target of its request (Run, saveCheckpoint).                            *)
THEOREM CliTypeCorrect == CliSpec => []CliTypeOK
  BY CliReached, CliInvImpliesResumes, PTL

(* For any lists of targets and any number of kills, a process that goes   *)
(* on from the checkpoint passes over nothing that was not attempted and   *)
(* loses no url found there, and the workbook has every url found since    *)
(* the files were cleared (Run, saveCheckpoint, addURLs, writeWorkbook).   *)
THEOREM ScanResumesCorrectly == CliSpec => []ScanResumes
  BY CliReached, CliInvImpliesResumes, PTL

=============================================================================
