---------------------------- MODULE ActiveEngine ----------------------------
(***************************************************************************)
(* A run of the active engine: the signed API client (internal/discovery/  *)
(* active_engine_http) and the result pull (active_result_ingest) that     *)
(* closes it.                                                              *)
(*                                                                         *)
(* The active engine sends no callbacks.  Pollers (the periodic task, the  *)
(* timeout task, an operator) ask for the job's status; once it is         *)
(* terminal each reads the results page by page, ingests every page in     *)
(* bounded batches, each in a transaction of its own, and then closes the  *)
(* run.  Results may still arrive, or be listed in another order, between  *)
(* two pages; calls fail; pollers overlap.                                 *)
(***************************************************************************)
EXTENDS Integers, Sequences, FiniteSets

CONSTANTS ActiveTargets,      \* a task type -> the targets of such a run
          ResultOf,           \* a target -> what the engine found there
          PortOptions,        \* port lists a template may hold
          ActivePageSize, BatchLimit, MaxExpandedPorts,
          ActivePollers,
          EngineStatuses      \* what the engine may call a job

(* A run is dispatched for some targets, as many as its plan holds. *)
ASSUME ActiveAssumption ==
  /\ \A k \in DOMAIN ActiveTargets : IsFiniteSet(ActiveTargets[k]) /\ ActiveTargets[k] # {}
  /\ ActivePageSize \in Nat \ {0}

VARIABLES activeRun,   \* the platform's row
          activeJob,   \* at the engine: status, results in listing order
          late,        \* the run's deadline has passed
          activeFacts, \* what was ingested for the run
          pollers

activeVars == <<activeRun, activeJob, late, activeFacts, pollers>>

----------------------------------------------------------------------------
(* The client.                                                             *)

(* A list of ranges, at least one, all legal, not too many ports. *)
validActiveAPIPorts(items) ==
  LET expanded[i \in 0..Len(items)] ==
        IF i = 0 THEN 0 ELSE expanded[i - 1] + items[i][2] - items[i][1] + 1
  IN  /\ items # <<>>
      /\ \A i \in DOMAIN items : 1 <= items[i][1] /\ items[i][1] <= items[i][2] /\ items[i][2] <= 65535
      /\ expanded[Len(items)] <= MaxExpandedPorts

activeAPIPortTargets(targets) == \A t \in targets : ResultOf[t].kind = "port"

activeAPIWebTargets(targets) == \A t \in targets : ResultOf[t].kind = "web"

normalizeActiveAPIStatus(raw) ==
  CASE raw \in {"waiting", "processing"} -> "running"
    [] raw = "finished" -> "success"
    [] raw = "partial" -> "partial_success"
    [] raw = "error" -> "failed"
    [] raw = "canceled" -> "cancelled"
    [] OTHER -> "invalid"

RunTargets == ActiveTargets[activeRun.kind]

(* A page of the results as they are listed now. *)
ResultPage(n) ==
  LET from == (n - 1) * ActivePageSize + 1
      to   == n * ActivePageSize
      size == Len(activeJob.order)
  IN  [page |-> n, total |-> Cardinality(RunTargets), finished |-> size,
       results |-> SubSeq(activeJob.order, from, IF to < size THEN to ELSE size)]

validateActiveAPIResultMetadata(p, asked) ==
  /\ p.page = asked /\ p.total > 0 /\ p.finished \in 0..p.total
  /\ Len(p.results) <= ActivePageSize

----------------------------------------------------------------------------
(* Results and facts.                                                      *)

parseActivePorts(ports) == /\ \A p \in ports : p \in 1..65535
                           /\ Cardinality(ports) <= MaxExpandedPorts

containsActiveSensitiveMarker(text) == text = "sensitive"

sanitizeActiveResultText(text) == IF containsActiveSensitiveMarker(text) THEN "[REDACTED]" ELSE text

(* Without its query; a telling path is replaced. *)
SafeURL(r) == <<r.host, r.port, sanitizeActiveResultText(r.path)>>

normalizeActiveWebTarget(r) == r.said \in {0, r.port}

normalizeActiveStatusCode(code) == code = "" \/ code \in {"200", "404"}

(* One status code for the site; the names that say nothing are dropped. *)
normalizeActiveFingerprints(prints) ==
  [names |-> {sanitizeActiveResultText(f.name) : f \in prints} \ {"", "[REDACTED]"},
   ok    |-> /\ \A f \in prints : normalizeActiveStatusCode(f.code)
             /\ \A f, g \in prints : f.code # "" /\ g.code # "" => f.code = g.code]

Valid(r) ==
  CASE r.kind = "port" -> parseActivePorts(r.ports)
    [] OTHER -> normalizeActiveWebTarget(r) /\ normalizeActiveFingerprints(r.prints).ok

FactsOf(r) ==
  IF r.kind = "port" THEN {<<"asset", r.host>>} \cup {<<"port", r.host, p>> : p \in r.ports}
  ELSE {<<"asset", r.host>>, <<"site", SafeURL(r)>>, <<"contains", r.host, SafeURL(r)>>,
        <<"web", r.host, SafeURL(r)>>}
       \cup {<<"service", r.host, r.port, n>> : n \in normalizeActiveFingerprints(r.prints).names}

(* The conservative number of facts of a result. *)
Cost(r) == IF r.kind = "port" THEN 1 + Cardinality(r.ports) ELSE 4 + Cardinality(r.prints)

(* splitActiveResultPage: a batch takes results while they fit; filled[i]  *)
(* is what the first i results leave.                                      *)
BatchWith(b, t) ==
  LET c == Cost(ResultOf[t])
      full == b.cost > 0 /\ b.cost + c > BatchLimit
  IN  [done |-> IF full THEN Append(b.done, b.now) ELSE b.done,
       now  |-> IF full THEN <<t>> ELSE Append(b.now, t),
       cost |-> IF full THEN c ELSE b.cost + c]

EmptyBatch == [done |-> <<>>, now |-> <<>>, cost |-> 0]

splitActiveResultPage(results) ==
  LET filled[i \in 0..Len(results)] == IF i = 0 THEN EmptyBatch ELSE BatchWith(filled[i - 1], results[i])
      end == filled[Len(results)]
  IN  IF end.cost > 0 \/ end.done = <<>> THEN Append(end.done, end.now) ELSE end.done

SplitAccepts(results) ==
  \A i \in DOMAIN results : LET r == ResultOf[results[i]]
                            IN  /\ r.kind = "port" <=> activeRun.kind = "port_probe"
                                /\ r.kind = "port" => parseActivePorts(r.ports)
                                /\ Cost(r) <= BatchLimit

(* buildActiveResultPayload: one invalid result refuses the batch. *)
buildActiveResultPayload(batch) ==
  [ok      |-> \A i \in DOMAIN batch : Valid(ResultOf[batch[i]]),
   facts   |-> UNION {FactsOf(ResultOf[batch[i]]) : i \in DOMAIN batch},
   targets |-> {batch[i] : i \in DOMAIN batch}]

----------------------------------------------------------------------------
(* The run.                                                                *)

Poller(pc, engine, page) ==
  [pc |-> pc, engine |-> engine, page |-> page, total |-> 0, finished |-> 0,
   batches |-> <<>>, facts |-> {}, targets |-> {}]

IdlePoller == Poller("idle", "running", 0)

ActiveInit ==
  /\ \E k \in DOMAIN ActiveTargets :
       activeRun = [kind |-> k, status |-> "pending", count |-> 0, lifecycle |-> 0]
  /\ activeJob = [status |-> "none", order |-> <<>>]
  /\ late = FALSE /\ activeFacts = {}
  /\ pollers = [p \in ActivePollers |-> IdlePoller]

Running == activeRun.status = "running"

(* Dispatch: the job is checked, then submitted under the run's own        *)
(* request id.                                                             *)
DispatchActive(ports) ==
  LET ok == IF activeRun.kind = "port_probe"
            THEN validActiveAPIPorts(ports) /\ activeAPIPortTargets(RunTargets)
            ELSE activeAPIWebTargets(RunTargets)
  IN  /\ activeRun.status = "pending"
      /\ activeRun' = [activeRun EXCEPT !.status = IF ok THEN "running" ELSE "failed"]
      /\ activeJob' = IF ok THEN [activeJob EXCEPT !.status = "waiting"] ELSE activeJob
      /\ UNCHANGED <<late, activeFacts, pollers>>

GiveUp(p) == pollers' = [pollers EXCEPT ![p] = IdlePoller]

(* Mutant: the end is recorded whatever became of the run. *)
RecordAnyStatus(status, count, lifecycle) ==
  activeRun' = [activeRun EXCEPT !.status = status, !.count = count,
                                 !.lifecycle = IF lifecycle THEN @ + 1 ELSE @]

(* changeTaskRunStatusWith: nothing to do, an illegal change, or the       *)
(* change, with the assets' misses counted in the same transaction.        *)
recordRunStatusWithLifecycle(status, count, lifecycle) ==
  activeRun' = IF Running
               THEN [activeRun EXCEPT !.status = status, !.count = count,
                                      !.lifecycle = IF lifecycle THEN @ + 1 ELSE @]
               ELSE activeRun

(* Status: a running job is only timed out (it cannot be cancelled); the   *)
(* results of an ended one are pulled.                                     *)
Status(p) ==
  LET s == normalizeActiveAPIStatus(activeJob.status)
  IN  /\ pollers[p].pc = "idle" /\ Running
      /\ CASE s = "running" /\ late ->
                recordRunStatusWithLifecycle("failed", activeRun.count, FALSE) /\ UNCHANGED pollers
           [] (s = "running" /\ ~late) \/ s = "invalid" -> UNCHANGED <<activeRun, pollers>>
           [] OTHER -> /\ pollers' = [pollers EXCEPT ![p] = Poller("fetch", s, 1)]
                       /\ UNCHANGED activeRun
      /\ UNCHANGED <<activeJob, late, activeFacts>>

(* FetchResultPage: the call fails, or the page is of the same result set  *)
(* as the first.                                                           *)
FetchResultPage(p) ==
  LET s == pollers[p]
      g == ResultPage(s.page)
      same == s.page = 1 \/ (g.total = s.total /\ g.finished = s.finished)
  IN  /\ s.pc = "fetch"
      /\ \/ GiveUp(p)
         \/ IF validateActiveAPIResultMetadata(g, s.page) /\ same /\ SplitAccepts(g.results)
            THEN pollers' = [pollers EXCEPT ![p] = [s EXCEPT !.pc = "ingest", !.total = g.total,
                              !.finished = g.finished, !.batches = splitActiveResultPage(g.results)]]
            ELSE GiveUp(p)
      /\ UNCHANGED <<activeRun, activeJob, late, activeFacts>>

(* One transaction: the run is locked, and takes facts only while it runs. *)
ingestActiveResultPayload(facts) ==
  activeFacts' = IF Running THEN activeFacts \cup facts ELSE activeFacts

(* pullActiveRunResults, one batch; the last one of a page leads to the    *)
(* next page or to the end.                                                *)
pullActiveRunResults(p) ==
  LET s == pollers[p]
      b == buildActiveResultPayload(Head(s.batches))
      more == Tail(s.batches) # <<>>
      last == s.page * ActivePageSize >= s.total
  IN  /\ s.pc = "ingest"
      /\ IF ~b.ok THEN GiveUp(p) /\ UNCHANGED activeFacts
         ELSE /\ ingestActiveResultPayload(b.facts)
              /\ pollers' = [pollers EXCEPT ![p] =
                   [s EXCEPT !.batches = Tail(s.batches),
                             !.facts = s.facts \cup b.facts, !.targets = s.targets \cup b.targets,
                             !.pc = IF more THEN "ingest" ELSE IF last THEN "close" ELSE "fetch",
                             !.page = IF more \/ last THEN s.page ELSE s.page + 1]]
      /\ UNCHANGED <<activeRun, activeJob, late>>

(* An ingest fails and is rolled back, or the poller dies. *)
PullFails(p) ==
  /\ pollers[p].pc \in {"ingest", "close"}
  /\ GiveUp(p)
  /\ UNCHANGED <<activeRun, activeJob, late, activeFacts>>

(* Mutant: as many results as targets were finished is enough. *)
FinishedIsComplete(s) == s.finished = s.total

(* A success needs every target finished, and seen. *)
PulledEverything(s) == s.finished = s.total /\ Cardinality(s.targets) = s.total

(* reconcileRun, its end. *)
reconcileRun(p) ==
  LET s == pollers[p]
  IN  /\ s.pc = "close"
      /\ IF s.engine = "success" /\ ~PulledEverything(s) THEN UNCHANGED activeRun
         ELSE recordRunStatusWithLifecycle(s.engine, Cardinality(s.facts),
                                           s.engine \in {"success", "partial_success"})
      /\ GiveUp(p)
      /\ UNCHANGED <<activeJob, late, activeFacts>>

(* Time passes, and the engine works. *)
DeadlinePasses ==
  /\ Running /\ ~late
  /\ late' = TRUE
  /\ UNCHANGED <<activeRun, activeJob, activeFacts, pollers>>

Listed == {activeJob.order[i] : i \in DOMAIN activeJob.order}

TargetFinishes(t) ==
  /\ activeJob.status # "none" /\ t \in RunTargets \ Listed
  /\ activeJob' = [activeJob EXCEPT !.order = Append(@, t)]
  /\ UNCHANGED <<activeRun, late, activeFacts, pollers>>

ListedAnew ==
  /\ Len(activeJob.order) > 1
  /\ activeJob' = [activeJob EXCEPT !.order = Append(Tail(@), Head(@))]
  /\ UNCHANGED <<activeRun, late, activeFacts, pollers>>

JobMoves(status) ==
  /\ activeJob.status \in {"waiting", "processing"} /\ status # activeJob.status
  /\ activeJob' = [activeJob EXCEPT !.status = status]
  /\ UNCHANGED <<activeRun, late, activeFacts, pollers>>

PollerStep(p) ==
  Status(p) \/ FetchResultPage(p) \/ pullActiveRunResults(p) \/ reconcileRun(p)

(* Nothing is lost and nothing is listed anew. *)
ActiveMoves ==
  \/ \E o \in PortOptions : DispatchActive(o)
  \/ \E p \in ActivePollers : PollerStep(p)
  \/ DeadlinePasses
  \/ \E t \in RunTargets : TargetFinishes(t)
  \/ \E s \in EngineStatuses : JobMoves(s)

ActiveNext == ActiveMoves \/ ListedAnew \/ (\E p \in ActivePollers : PullFails(p))

ActiveSpec == ActiveInit /\ [][ActiveNext]_activeVars

----------------------------------------------------------------------------
(* Properties.                                                             *)

(* Every variable has its type; a run's misses are counted at most once. *)
ActiveTypeOK ==
  /\ activeRun.status \in {"pending", "running", "success", "partial_success", "failed", "cancelled"}
  /\ activeRun.lifecycle \in 0..1
  /\ \A p \in ActivePollers :
       /\ pollers[p].pc \in {"idle", "fetch", "ingest", "close"}
       /\ pollers[p].page \in 0..Cardinality(RunTargets)
       /\ pollers[p].targets \subseteq RunTargets

(* A run closed as a success has the facts of every one of its targets, no *)
(* others, and counts each once: whatever order pages were listed in,      *)
(* whatever arrived between two pages, however often a pull was repeated   *)
(* (the totals every page must repeat, the targets counted by key).        *)
ActiveSuccessIsComplete ==
  activeRun.status = "success" =>
    /\ activeFacts = UNION {FactsOf(ResultOf[t]) : t \in RunTargets}
    /\ activeRun.count = Cardinality(activeFacts)

(* "ReconcileTimedOutRuns recovers running runs whose dispatch deadline    *)
(* has passed" (service.go): a run past its deadline is closed in the end. *)
TimedOutActiveRunCloses == late ~> ~Running

(* The pollers keep polling, their calls do not fail for ever, and the     *)
(* engine finishes every target.                                           *)
ActiveFairness ==
  /\ \A p \in ActivePollers :
       /\ WF_activeVars(Status(p)) /\ WF_activeVars(pullActiveRunResults(p)) /\ WF_activeVars(reconcileRun(p))
       /\ SF_activeVars(FetchResultPage(p) /\ pollers'[p].pc = "ingest")
  /\ \A k \in DOMAIN ActiveTargets : \A t \in ActiveTargets[k] : WF_activeVars(TargetFinishes(t))

=============================================================================
