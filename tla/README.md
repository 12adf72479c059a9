# TLA+ models of Dragon ASM

Dragon ASM is an attack-surface-management platform: a Go API process and a Go
worker process that share MySQL and Redis (asynq), and scan engines that run
beside them. A discovery *task run* is created by a user, planned against the
scopes that authorise it, dispatched over HTTP to an engine, streams its results
back as signed, numbered callbacks (or has them pulled page by page), and is
closed by those results, by the reconciler, by a timeout or by a user. Its facts
become assets, exposures and risks, on which people work through tickets,
notifications and reports. This directory holds TLA+ specifications of that
system, the TLC configurations that check them on small instances, and TLAPS
proofs of what matters most for every instance. `PROJECT.json` lists the
components, runs, mutants, findings, hazards and theorems, and maps each
definition to the lines it stands for.

## 1. Inventory

| Component | State it keeps | Operations | Talks to | What is hard | What makes it correct |
|---|---|---|---|---|---|
| Run creation and dispatch (`internal/discovery/service.go`, `dispatch_worker.go`) | `task_run` row, asynq task `dispatch:*` | create, enqueue, dispatch with retries, undo, cancel | engine `POST /scan`, asynq | lost answers, two workers with one task, cancel in the middle | a running run has a job; a closed run stays closed; a queued run leaves pending |
| Callback inbox (`callback.go`, `callback_ingest.go`, `worker.go`, `enqueue.go`) | `discovery_callback` rows, asynq tasks `ingest:*`, `task_run.result_count` | receive, enqueue, claim, ingest, complete, fail, recovery sweep | API, worker and scheduler processes over MySQL and Redis | crash between commit and enqueue, claims without token, out-of-order batches | each accepted batch is ingested and counted once; the completion that makes the stream whole closes the run |
| Reconciler, timeout, cancel (`service.go`, `reconcile_worker.go`) | `task_run` row | poll the engine, record its status, close on timeout | engine status and cancel | decisions on stale reads, races with the inbox | first closer wins; a timed-out run closes |
| Baiyan job service and store (`engines/baiyan/internal/job`) | one JSON record per job, in-memory queue, active map | submit, cancel, run, restart, shut down | HTTP handlers, executors | two locks, dropped save errors, restart | accepted jobs end, ended jobs stay ended |
| Baiyan callback checkpoint (`capability/callback_checkpoint.go`, `job/store.go`, `engine/callback.go`) | `pending_callback`, `last_callback_seq` in the record | prepare, deliver, acknowledge, resume | platform callback endpoint | uncertain delivery, regenerated batches, stale saves | no gap, one content per seq, no roll-back |
| Baiyan executors (`capability/*`) | local | produce batches | providers, DNS | cancellation, partial failure | final status and count match the stream |
| Fact ingestion and observations (`ingest_v1.go`, `ingest_org.go`, `observation_*.go`) | assets, exposures, observations, miss counts | upsert facts, apply the lifecycle of a run | inbox completion, reconciler | out-of-order runs, repeated ingestion | misses are counted in a row; only a complete run counts a miss |
| Active engine pull (`active_*.go`) | engine results by page | pull, check completeness, ingest | reconciler | pages that change while read | success only with all targets |
| Scopes, templates, authorization (`service.go`, `validation.go`, `url_authorization.go`, `inheritance.go`, `blueprint.go`) | scopes, templates, revisions | create, approve, revoke, plan | dispatch | authorization that ends between create and dispatch | no target outside an approved scope |
| Engine settings (`engine_settings*.go`, `engine_management.go`, `callback_credentials.go`) | versioned settings, credentials | update, activate, pin to a run | dispatch, callbacks | rotation while runs are open | a run keeps the version it started with |
| Network enrichment (`network_*.go`) | enrichment rows, retry schedule | enrich, retry | Baiyan enrichment API | retry and lease | attempts bounded |
| Assets and exposures (`internal/asset`, `internal/exposure`) | rows with status, miss counts, relations, audit | create, import, edit, relate, close a run | ingestion, people | edits and closings that write what they read | row and record agree |
| Risks and tickets (`internal/risk`, `internal/ticket`) | rows with status machines, histories, decisions | scan, transition, recalculate, link | each other through services, in separate transactions | concurrent transitions, statuses read before they are moved | legal transitions only, row agrees with history |
| Notifications (`internal/notification`) | rules, delivery ledger | trigger, send | every service | concurrent triggers, death before the send | one message per window |
| Report exports (`internal/report`) | export rows, asynq tasks, files | request, claim, write | worker process | a task that serves another export, paging over a growing table | complete, once, and only what the role may see |
| Projects and ownership (`internal/project`) | projects, members, subjects, domains, filings | edit, verify by DNS, collect | discovery, DNS | stale merges, a proof that comes late, a collection that writes back what it read | ownership only by token, verdicts only by operators |
| Accounts (`internal/auth`) and roles (`platform/auth/casbin`) | accounts, versions, roles | login, refresh, change, administer | every handler | a refresh that overlaps a reset | no session outlives its ground |
| Retention and rate limit (`platform/retention`, `platform/httpx`) | archives; token buckets | archive and delete; allow | scheduler; every request | changing policies; a table at its limit | no row lost, table bounded |
| Baiyan command line (`engines/baiyan/internal/baiyan`) | text files, `checkpoint.json` | scan, append, save, resume | scanners, providers | killed between append and checkpoint | a resume passes over nothing |
| Engine tool runner, ENScan_GO, web, entry points | none of their own | I/O and wiring | | | |

The hazards these components are exposed to are listed, each at its line, in
`PROJECT.json` under `hazards`.

## 2. Modules

| Module | Models | Used by |
|---|---|---|
| `RunLedger` | Abstract specification: what the platform promises about the batches of one run. | refined by `CallbackInbox` |
| `CallbackInbox` | The inbox of one dispatched passive run with asynq workers, the sweep, reconcilers, cancelling users and faults. | `MCCallbackInbox`, `CallbackInboxProofs` |
| `EngineJob` | The Baiyan job service, store, checkpoint and the order of an execution's batches. | `MCEngineJob` |
| `RunDispatch` | One run from creation to closure, outside its callbacks. | `MCRunDispatch` |
| `Scopes` | Scopes, templates, blueprints, continuations, and `BuildDispatchPlan` statement by statement. | `MCDiscovery` |
| `Engines` | Versioned engine settings, health checks, the version a run and its job use, the engine's project. | `MCDiscovery` |
| `ActiveEngine` | A run of the active engine: dispatch, the pull of its result pages, its closing. | `MCDiscovery`, `MCActiveEngine` |
| `Assets` | Assets, relations, exposures and attributions: ingestion, import, edits, closings. | `MCDiscovery` |
| `Enrichment` | The enrichment queue with leases and tokens, and the service behind it. | `MCDiscovery` |
| `Executors` | One execution of a Baiyan job: router, sources, channel, collector, DNS, organisations. | `MCDiscovery` |
| `LegacyScan` | The Baiyan command line with its files and its checkpoint. | `MCDiscovery` |
| `Risks`, `Tickets` | Risks with scans, people and passes; tickets that move them. | `MCOperations` |
| `Notifications`, `ReportExports`, `Retention`, `RateLimiter` | Background work and the request limiter. | `MCOperations`, their proofs |
| `Accounts`, `Workspaces`, `Roles` | Sessions and administrators; projects, domains and subjects; the permission matrix. | `MCOperations`, all with people |
| `MC*` | Constants, symmetry, the choice of a part, and what relates several modules. | TLC |
| `CallbackInboxProofs`, `RunDispatchProofs`, `EngineJobProofs` | Theorems about the inbox and its ledger, the dispatch, the engine's checkpoint. | TLAPS |
| `DiscoveryProofs`, `FactsProofs` | Theorems about `Enrichment`, `Scopes`, `Engines` and all parts of `MCDiscovery` at once; about `ActiveEngine`, `Assets`, `Executors`, `LegacyScan`. | TLAPS |
| `TicketsProofs`, `AccessProofs`, `ServicesProofs` | Theorems about `Risks` and `Tickets`; `Workspaces` and `Accounts`; `Notifications`, `ReportExports`, `Retention`, `RateLimiter` and all parts of `MCOperations` at once. | TLAPS |

### CallbackInbox

One variable per column that the code reads or writes: `status` and `count` are
`task_run.status` and `result_count`; `ingest`, `payload`, `attempt`, `stale`
are `ingest_status`, `payload_json` (its status and number of facts),
`ingest_attempt` and "`updated_at` is older than five minutes"; `facts` is what
the fact tables hold. `task` is the asynq task of a row; `wpc`, `wseq`, `lease`
are the workers in `IngestHandler.Handle`; `rec` holds the local variables of a
reconciler between its reads and its write. `closedBy` is history.

A database transaction is one step. Between two of them, and between a
transaction and a call to Redis or the engine, every other actor may run and a
fault may strike. So `Receive` is the receipt transaction and `ApiEnqueue` the
enqueue after it; a handler takes `Take` (read), `Claim`, `IngestFacts`,
`Complete`; a reconciler takes `RecList`, `RecPoll`, `RecDecide`, `RecRecord`.
`Complete` is the whole of `CompleteDiscoveryCallbackIngest`: mark the row, add
its count, compute `callbackFinalState` and close the run. The run's row lock
makes the receipt and completion transactions atomic with respect to each
other. The two statements at the head of the sweep (release stale claims, list
the pending rows) are one step, as nothing of the sweep is decided between them.
Rejected callbacks change only the audit log and are stuttering steps.

Faults, together at most `MaxFaults`: the API process dies between commit and
enqueue, an enqueue fails with or without effect, Redis loses a task, a lease
runs out, a worker dies at any point, the ingestion fails, a live worker is
stuck for five minutes, a reconciler dies. Redeliveries by the engine are
unbounded.

### RunLedger

A batch is accepted once and only into an open run, ingested at most once,
counted when it is ingested into an open run; the ingestion that completes the
stream closes the run in the same step; anyone else may close an open run, and
nobody writes a closed one. The mapping takes present rows for accepted
batches and processed rows for ingested ones.

### EngineJob

`disk` is the store, one record per job with the fields the properties tell
apart; `mu` is `Service.mu`, held together with the record its holder is about
to save. The store has its own lock, so a checkpoint may move between the read
of a record and its Save: Lock and `SaveRecord` are two steps, and
`mergeCallbackCheckpoint` is what makes that safe. A worker's record holds the
local variables of `run` and `Execute`: the batch at hand, the stored batch that
is really sent (`out`), the running count and the context's state. The passive
executor sends a `started` batch, any number of progress batches and an empty
final one, and resumes after the last acknowledged batch; the organisation
executor starts again at seq 1 and relies on the checkpoint to skip or replay.
The process may crash, be stopped gracefully (which cancels running jobs), and
is restarted; `Start` restores records one at a time while the workers already
run. `MaxSaveFaults` bounds separately the failed saves of a record: `beginRun`,
`run` and `failPanicked` drop the error, `Cancel` reports it, `Start` gives up.

### RunDispatch

`status`, `jobID`, `attempt` are columns of `task_run`; `wpc`, `try`, `err`
place a worker in `DispatchTaskRun`; `upc` a user in `CancelDispatchedTaskRun`;
`api` the request in `CreateAndEnqueueTaskRun`. The engine is external: a scan
request that arrives starts the job once and answers with the same job ever
after. The content of the plan is `Scopes`, the pull of an active run's results
`ActiveEngine`.

### The services around a run

In all of these a transaction that decides with what it reads under its locks is
one step. Where the code reads without a lock and writes later, the read and
the write are two steps and a variable holds what was read: `edit` and `life` in
`Assets`, `scan` and `pass` in `Risks`, `request` in `Tickets`, `adminTx` and
`pwTx` in `Accounts`, `updating`, `verifying` and `collecting` in `Workspaces`, `edits` and
`inspecting` in `Engines`, `planRuns` in `Scopes`, `pollers` in `ActiveEngine`,
`enrichers` in `Enrichment`, `trigger` in `Notifications`, `writer` in
`ReportExports`. Handlers check permissions first, so an action that a person
takes has its role check (`Roles`) as a guard.

- `Scopes`. A target is a record of kind, host, protocol and port;
  `scopeMatchDecision` is exclusion before inclusion with coverage and URL
  rules. `PlanSteps` are the statements of `BuildDispatchPlan`, between which
  operators edit the scope, the template and the active policy, days pass and
  observations change. The check of one target is two of them: `CheckScope`
  reads the scope's row and the clock, `CheckTargets` its list. As history a run
  keeps what its scope has authorised since the planning began (`seen`), what
  its list has (`pieces`), and the targets during whose check the row or the day
  changed (`torn`). A block that is asked for is judged by its first address
  (`JudgedAs`, `validation.go:825`), and the property is about that address.
- `Engines`. `settingsVersions` grows by one accepted patch at a time; a run
  keeps the version its creation read; `configFiles` and `scanJobs` are Baiyan's
  side. `ResolveSteps` are workers that all need the remote project and may all
  be the first to create it.
- `ActiveEngine`. `activeJob` lists results in an order that may change and
  grow between two pages. Each page is validated, split into batches, ingested
  under the run's lock, and the run is closed with the completeness check.
- `Assets`. `ingestCallbackFactsWith` is the whole ingestion transaction of a
  batch; `AssetClose` the two halves of the observation lifecycle, the plan
  made of the rows as read and its write at the commit. History: `streak` counts
  the closings in a row that missed an asset, `overtaken` are closings that read
  before another one committed, `mixed` the assets such a closing wrote. `born`
  is the status an asset was inserted with and `onRecord` the one in the newest
  event that names it: the event of an import has counts only.
- `Enrichment`. A row carries lease, token and the content it was made from;
  the answer is written only where all three still hold.
- `Executors`. Sources run in slots and publish on a bounded channel; one
  collector accepts names, batches hosts before sites, and then resolves with
  wildcard detection. The organisation lookup takes the companies of the
  request one by one; an organisation refers to the company it was found for, a
  filing to the holder its row names or else to the company, and the one batch
  it sends has all of them and the filings' domains.
- `LegacyScan`. `files` is the checkpoint and the text files, `cli` the process
  with the locals of `Run`, `processDomainNormal`, `processIPBatch` and
  `processCIDR`. Scan, append and save are separate steps; `Killed` may come
  between any two. Two saves at once share a temporary file and may leave an
  unreadable checkpoint. `scanLog` is history: what was attempted and found.
- `Risks` and `Tickets`. `risk`, `trail`, `scoreLog`, `decisions` are the rows
  and their histories. While a ticket is created or assigned, `assignRisk`
  reads a risk without a lock and confirms and assigns it by what it read, in
  transactions of the risk service (`assigning`, `AssignTriages`). They do not
  wait for the ticket's own transaction: its foreign key on the risk reads the
  secondary index `uk_risk_project_id`, and the risk's update locks the row.
- `Accounts`. Tokens are not stored; a token is good while its version is the
  account's. `Workspaces` has one action per request of the project service; a
  collection reads subjects and filings in one snapshot (`CollectRead`) and
  later writes back the verification, primary flag, source and status it read
  (`ingestOrgFacts`). `decided` is history: what requests said of each row.
- `ReportExports`, `Notifications`, `Retention`, `RateLimiter`: see their
  headers; time is an instant or a day, rows are numbered.

`MCOperations` and `MCDiscovery` put these modules side by side. They share
only what their `INSTANCE`s and `EXTENDS` say (`Tickets` moves `Risks`; all use
`Roles`), so a behaviour moves one `part` of them, chosen in the initial state;
this keeps the state space a sum instead of a product.

## 3. Runs

| Run | Configuration | States | Shows |
|---|---|---|---|
| `inbox` | 2 workers, 1 user, 2 batches, 2 attempts, 2 faults | 1.49 M | type, count, completeness, facts, sweep and refinement properties of the inbox |
| `inbox_liveness` | 2 workers, scheduler, timeout, 1 batch, 3 attempts, 2 faults | 294 k | accepted batches are ingested, timed-out runs close |
| `engine_checkpoint` | 1 streaming job, 2 workers, 3 seqs, 1 fault, 1 lost save | 2.0 M | the checkpoint under crash, lost save and double execution |
| `engine_lifecycle` | 1 streaming and 1 organisation job, 1 worker, 1 fault | 280 k | accepted jobs end, stay ended, report what was received |
| `dispatch` | 2 workers, 2 users, 1 retry, 3 faults | 109 k | run rows and jobs agree |
| `operations` | 13 parts, see below | 642 k | risks, tickets, notifications, exports, retention, accounts, workspaces, limiter |
| `discovery` | 15 parts, see below | 626 k | assets, scopes and plans, settings, enrichment, active pull, executors, command line |
| `engine_closes` | | | finding: a failed engine closes a run that is still ingesting |
| `engine_restart` | | | finding: a restart with a full queue cancels jobs |
| `engine_replay` | | | finding: an ended job runs again after a dropped save error |
| `cancel_race` | | | finding: a cancel that misses the engine |
| `active_timeout` | 2 targets with a refused result, 1 poller | 108 | finding: a timed-out active run that is never closed |

What `operations` says of each service:

- `RiskRecordAgrees`: status, score, due date and fixing time of a risk are what
  its histories, decisions and policies say, with scans, people, approvals and
  passes interleaved. `TicketFollowsTable`, `LinkedRiskTriaged`: a ticket moves
  by its table from the status it has, and links only triaged risks.
- `SentOncePerWindow`, `ExportsCorrect`, `RowsKept`, `TableBounded`: see their
  comments; they are what the throttle ledger, the export claim, the retention
  transaction and the eviction are for.
- `SessionIsCurrent`: an open session was begun with today's password and told
  today's permissions. `OwnershipCorrect`: a verified domain had its own
  project's token in the DNS, an owner is a member, a view needs access, and no
  collection verifies, promotes or settles what no operator has (`OperatorsDecide`).

And `discovery`:

- `PlanWasAuthorised`: every target of a plan was authorised at one moment after
  the planning began, or, if its scope changed between the two reads of its
  check, by a list its scope had then or later and a window that was in force. `SettingsCorrect`: job, check and project use the version
  and name they were bound to. `EnrichedFromSource`: a completed row describes
  the content it is filed under.
- `ActiveSuccessIsComplete`: a successful active run has the facts of all its
  targets and no others. `AssetRecordAgrees`: status on record, newest
  attribution, consistent views.
- `ReportsCorrect`: `ExecutionReports`, an execution's batches refer only to what
  was reported, but for a filing whose row names its holder, and a success is
  whole; `ScanResumes`, the command line resumes
  after exactly what is done and on disk, and its workbook has every url found.
  For addresses scanned in parallel (`-mc` above its default of 1) and for a
  checkpoint that survived a fresh start of another request the property makes
  an exception, as the code does not give the guarantee there (section 4).
- `NothingUndone`, an action property: no step undoes a saved settings edit or
  gives an asset up before enough misses in a row, overlapping closings excepted.

*Bounds.* Two batches are enough for a marker and a predecessor in either
order, and a marker that comes first; two workers for a claim that changes
hands; two attempts for an exhausted row next to a fresh claim; two faults for
a fault during recovery from a fault. In `EngineJob` three seqs give a started,
a progress and a final batch, so that a crash can fall between any two; a queue
of one with two jobs is full. One retry gives a first and a last try in
`RunDispatch`, and three faults lose a lease, an answer and a record. In
`operations` and `discovery` there are two of whatever races (callers, tickets'
requests, tasks, workers, pollers, editors of the settings) and three resolvers
and closings, as a third is needed to meet what two have left; limits (batch,
page, channel, table, hosts) are 1 or 2, so that they are met and passed; and
days and instants enough for the longest period to pass. The command line has a
request with two addresses and a block, a second request that displaces it,
and a request with one domain whose names are plain, behind a CDN and behind a
WAF; it is killed twice (once in the domain).

*Deadlock* is not checked: a run that is closed and drained, an engine whose
jobs have ended, and services whose bounded ids or days are used up rightly
have nothing more to do.

*Fairness.* Weak fairness of each process's next step; of the sweep and of the
scheduler's reconciliation, which `periodic_worker.go` repeats (every 30
seconds for the sweep); strong fairness of the delivery of a queued task, as
asynq's queue is first-in first-out, and of a Go mutex, which starves nobody. The
engine container restarts when it exits (`restart: unless-stopped`), and every
execution has a timeout. Nothing is assumed of users, of redeliveries, of the
engine's progress (that its status route answers in the end is the bound on
faults), or of a parked ingest task, which may be archived.
`EveryBatchIngested` needs fewer faults than attempts: with as many faults as
attempts a row is given up for good, by design. `RunDispatch` assumes that asynq
retries a failed dispatch, which it does 25 times; a plan that is refused for
good is outside that bound: its task is archived after the retries and the run
stays pending. `ActiveFairness` (only in the finding) lets the pollers poll,
the engine finish every target and, strongly, a page be fetched in the end; it
makes the counterexample one that no outage explains.

Every property has a mutant, an operator marked `Mutant` before the definition
it replaces, that breaks it the way a plausible bug would.

## 4. Findings

1. `reconcileRun` guards against closing a run whose batches are still being
   ingested only for a successful engine; failed and cancelled close at once.
2. `Start` gives up when the queue is full and cancels the root context; jobs
   already restored are recorded as cancelled instead of being replayed.
3. `beginRun` drops the error of its Save. The record stays `queued`, a second
   submission queues the job again, and an ended record is set to running.
4. `CancelDispatchedTaskRun` decides on a status read outside its transaction;
   a run dispatched in between is cancelled locally and its job runs on.
5. `reconcileRun` returns the error of the result pull of an active run before
   it looks at the timeout, and the active engine's `Cancel` is unsupported: a
   run whose results are refused stays running past its deadline.

Seen while modelling the other services, stated by their properties as
exceptions or allowed by them, and not by a run of their own:

- Closings of different runs read and write `miss_count` without a lock
  (`observation_lifecycle.go:63`): one that read before another's hit writes the
  old count plus one over the 0, so an asset may be given up after fewer misses
  in a row than the threshold, while `migrations/000006_add_asset_miss_count.up.sql`
  says it tracks consecutive misses. TLC reaches a count
  above `streak` with two closings, at threshold 2 an early inactive asset with
  three; `InactiveAfterMisses` excepts the closings that overlapped and what
  they wrote, until a later hit, and nothing else.
- A filing of an enterprise lookup refers to the holder its row names
  (`org_intel.go:383`), who need not be among the organisations reported or may
  have been cut at the limit (`:189`). The platform drops such a filing
  (`ingest_org.go:148`), while the comment says "a filing always has an
  organization to hang off" (`org_intel.go:288`). `ReferencesReported` excepts
  just these references (`NamedHolder`); a filing that falls to its company, and
  every organisation's reference, does arrive.

- A collection writes back what it read of a subject or filing: an operator's
  verification or status saved in between is overwritten by the one before it
  (`ingest_org.go:96`, `:159`). `OperatorsDecide` holds all the same, as the old
  value was an operator's too.
- The row and the list of a scope are read by two statements without a
  transaction (`service.go:620`, `:639`): a target may be planned by the window
  of one revision and the list of another.
- `matchTarget` judges a block by its first address (`validation.go:825`); the
  rest of the block may lie outside the scope.
- `requestedEnscanSources` and the organisation executor are wired in, but
  `validateScanRequest` of the engine's HTTP surface refuses `org_intel`.
- Organisations are deduplicated by their lower-cased name and referred to by a
  case-sensitive one (`org_intel.go:351`, `:357`): a filing whose holder is
  written in other letters than the organisation misses it too.

Seen while modelling `LegacyScan`, stated by its property as exceptions and not
by a run of their own:

- With `-mc` above 1, addresses of one batch save `target_done` with their own
  index as they end; killed after a later one, the resume passes over earlier
  ones that were still being scanned (`app.go:792`).
- A fresh start clears the text files and leaves an unusable checkpoint where
  it is; killed before its first save, the next start of the *older* request
  resumes from that checkpoint over cleared files (`app.go:409`).
- A resume at `subdomains_done` starts with no resolved addresses, so the block
  lines of that domain are lost or too small; one in the middle of a domain
  finds its earlier urls already in the file and probes no paths on their hosts.
- The loop over a block ending at 255.255.255.255 compares after wrapping
  around (`app.go:820`).

## 5. Proofs

`CallbackInboxProofs` proves, for every number of batches, workers,
reconcilers, users, attempts and faults and every set of payloads:

- `InboxInvariant`: `Spec => []InboxInv`, with `TypeCorrect`, `ReadyIsClosed`,
  `CallbackClosureIsComplete`, `ProcessedImpliesFacts` and
  `SweepListsClaimable` as consequences;
- `CountIsExact`: `Spec => []CountIsSumOfProcessed`, by `InboxInv` and a lemma
  about sums: changing one summand by d changes the sum by d (`TotalMoves`);
- `InboxImplementsLedger`: `Spec => Ledger!Spec`.

The only assumption is `ConstantsOK`, on the types of the constants. The
properties are not inductive one by one. `ProcessedHasFacts` needs that a
worker past its ingestion has stored the facts, as it may complete a row whose
claim has moved to another worker. `ListedRowsAreClaimable` needs that an
absent row has no attempts. `ClosedByCallbacksIsComplete` needs that a
processed row stays processed and that the payload of a present row never
changes. The refinement needs `ReadyMeansClosed`, as the ledger closes the run
in the step that completes the stream, and that a reconciler about to write has
a terminal status. `InboxInv` is their conjunction. The `inbox` run has no
reconcilers, to keep workers and faults in its bound; that the ledger is
implemented with reconcilers and operators racing is what the proof shows.

`RunDispatchProofs` proves, for every number of workers, users, retries and
faults:

- `TypeCorrect`: `Spec => []TypeOK`;
- `RunningHasJob`: `Spec => []RunningRunHasJob`, by the inductive invariant
  `DispatchInv`, which adds that a worker with the engine's answer in its hands
  has a job to record or to undo;
- `ClosedIsFinal`: `Spec => ClosedRunStaysClosed`, an action property: every
  writer re-reads the row and moves it by the transition table.

`EngineJobProofs` proves, for every number of jobs, workers, batches, faults
and lost saves:

- `EngineTypeCorrect` (`TypeOK`), `PayloadIsUnique` (`OnePayloadPerSeq`),
  `StreamHasNoGap` (`NoGapInStream`) and `CheckpointOnlyAdvances`
  (`CheckpointNeverRollsBack`).

The inductive invariant `EngineInv` relates three copies of a batch. For the
stored record (`StreamFine`): what is acknowledged arrived with one payload, and
beyond the checkpoint nothing but the pending batch can have arrived. For a
worker (`WorkerFine`): what it is about to deliver or to acknowledge is the
pending batch or one that was acknowledged meanwhile by another execution of
the job. For the record in the hands of the lock's holder (`LockFine`): it was
read at or before the present checkpoint, so that `mergeCallbackCheckpoint`
(lemma `MergeKeepsCheckpoint`) restores what it lacks. The steps fall in two
kinds, those that move no checkpoint and those that move one `Forward`; that
both keep what every other worker relies on is proved once for each kind.

For engines that lose no save (`MaxSaveFaults = 0`, the bound of the
`engine_lifecycle` run; crashes, stops, panics and failed deliveries remain) it
also proves `EndedStreamIsDelivered` (`EndedStreamMatches`) and the action
property `EndedJobStaysEnded` (`TerminalStays`). A lost save of `beginRun` leaves
a running job "queued" on disk, where a repeated submission starts it again
beside itself; without lost saves a job has one place, once in the queue or with
one worker (`OneHome`), and that is what `LifeInv` adds: what the holder of the
lock may write (`LockTask`), that a job `Start` has listed is nowhere else
(`TodoTask`), and how far an execution has come with its record (`StreamAt`): an
execution that resumes sends the stored batch first and no other, and one that
ends well leaves nothing pending. TLC checked `LifeInv` for one and for two
workers before it was proved.

About the counts it proves two things. `CheckpointCountsAcknowledged`, with
saves lost or not: the count in a record is the number of facts of the batches
up to its checkpoint. `SumInv` adds that a record read at the present checkpoint
has the present count (`LockSum`), so that `mergeCallbackCheckpoint` keeps the
right one (`MergeKeepsSum`). And `ResultIsExact` (`ResultCountsEveryFact`), again
for `MaxSaveFaults = 0`: `CountInv` adds to `LifeInv` the count an execution
carries at each point (`SumAt`; one that is still sending the stored batch may
carry any), the result in the record that is about to be saved (`LockResult`),
and the one in the records saved so (`EndedSum`). By `EndedStreamMatches` an
ended stream has received nothing beyond its checkpoint, so the two sums meet.
With a lost save of `beginRun` the job may run twice at once, and the result is
that of whichever execution ends last; this is finding 3, and TLC checks
`ResultCountsEveryFact` under the same bound.

`TicketsProofs` proves, for every set of risks, people, units, tickets and
requests, about `Risks` and `Tickets` together:

- `RecordsAgree` (`RiskRecordAgrees`), `LinkedRisksAreTriaged`
  (`LinkedRiskTriaged`), `TicketsFollowTable` (`TicketFollowsTable`) and
  `TicketsTypeCorrect`, by `TicketInvariant`.

`RiskFine` adds to the property what a scan or a pass has read and will write
later: a level that fits its score, a `fixed_at` that fits its status.
`RequestFits` adds what a request in flight may rely on: a move was allowed by
the status it read, and once the row is locked that is the status the row has;
no two requests hold one row; and of the risks a new ticket links all are
triaged but the one that `assignRisk` has read as new and is about to confirm.
That a risk, once triaged, never is new again is `TriagedStays`.

`AccessProofs` proves, for every set of projects, users, tenants and domains,
`OwnershipIsEarned` (`OwnershipCorrect`) and `WorkspaceTypeCorrect`, with the
invariant that an update in flight sets an owner of the project's tenant, that
an ownership check in flight holds a proof that was seen, and that what a
collection has read and will write back an operator had decided
(`ReadsDecided`); and, for every
set of accounts, passwords and overlapping transactions, `SessionsAreCurrent`
(`SessionIsCurrent`) and `AccountTypeCorrect`. A session is judged while its
account is active, but the invariant (`Current`) must also speak of tokens
whose account is disabled and may come back: a token of the present version
knows the present password, and the permissions as soon as the account is
active.

`ServicesProofs` proves:

- for every set of rules, windows, events and callers, `NotifTypeCorrect` and
  `NotifSentOnce` (`SentOncePerWindow`). The property says nothing of who is
  about to send; `SlotsInv` adds that a caller between ledger and send holds a
  row that is written, not yet announced, and held by no other caller. That a
  throttle key of an event fits the ledger's keys is the lemma `KeyFits`, from
  the bound of a quotient;
- for every table, batch size and number of exports, `ReportTypeCorrect` and
  `ExportsAreCorrect` (`ExportsCorrect`). The paging by offset is what needs an
  argument: rows are only appended, so the rank of a row never changes, a row
  still to be read has a rank beyond the offset, and a page that comes back
  short shows that none is left;
- for every set of rows, sequence of policies and batch size,
  `RetentionTypeCorrect` and `RetentionKeepsRows` (`RowsKept`). The halves of
  `RowsKept` need each other: the delete chooses what the archive chose, as the
  oldest n of the oldest n rows are these rows again (`OldestAgain`), a fact
  about cardinalities of finite sets;
- for every rate, window, burst, table size and set of clients,
  `LimiterTypeCorrect` and `LimiterBounded` (`TableBounded`), with the invariant
  that the table is finite, since a cardinality means something only then;
  `EvictionMakesRoom` is the lemma about `evictLocked`.

`DiscoveryProofs` proves:

- `AnswersAreOfTheirSource` (`EnrichedFromSource`) and `EnrichmentTypeCorrect`,
  for every set of observations, contents and workers. `ItemsFit` says what the
  token is for: while a worker holds a live lease, the row's source is the
  content the worker read; once it has lost it, its answer is refused;
- `PlansAreAuthorised` (`PlanWasAuthorised`), for every set of scopes,
  templates, targets and people. The property speaks of the finished plan;
  `RunFine` of a plan in the making: whatever it still has to check or has taken
  and the scope authorises now, it has been seen to authorise (`RunLooked`), and
  a target between its two reads has a scope in force or one that changed since
  (`RunKept`). The matching
  of the code and the reference `Denotes` agree on every pair of a stored
  target and a candidate that parses (lemma `MatchIsDenotes`);
- `SettingsAreUsedAsRead` (`SettingsCorrect`) and the action property
  `NoEditIsLost` (`EditsBuildOnEachOther`, a conjunct of `NothingUndone`), for
  every set of administrators, patches, runs and workers. `EnginesInv` has one
  part per table: an edit about to be saved differs from its base only where
  its patch says so, a cached check is of the version in its key, a job's file
  is the file of its version, and all workers go by the name in the binding row;
- `ScopesTypeCorrect` and `EnginesTypeCorrect`, which add to these invariants
  that owned domains are known ones and that the cache of checks is finite and
  within its limit.

`FactsProofs` proves:

- `SuccessIsComplete` (`ActiveSuccessIsComplete`) and `ActiveTypeCorrect`, for
  every set of targets, page size, batch limit, number of pollers and every relisting by
  the engine. `PollerFits` says that the facts a poller counts are those of the
  targets it has met and that the run has them as long as it is open; a poller
  that has met as many targets as the run has, has met them all;
- `AssetsAgree` (`AssetRecordAgrees`), `AssetTypeCorrect` and the action
  property `MissesBeforeInactive` (`InactiveAfterMisses`), for every set of
  assets, people, runs and import rows. `AssetInv` adds that the rows an edit or
  a closing means to write still exist when it writes, that no row, unless it
  is mixed, counts more misses than closings in a row have missed the asset
  (`MissesCounted`), that the plan of a closing nobody has overtaken still fits
  the row (`PlanCounts`), and that both ends of every edge are assets of the project.

- `ExecutionReportsCorrectly` (`ExecutionReports`) and `ExecutorTypeCorrect`, for
  every list of targets, every set of sources with whatever they offer, and all
  limits. `ScanInv` says what is where: in which phase which executor is at work
  (`KindFits`); that outside a collection the channel is empty and the sources
  are gone (`ScanQuiet`), which is what makes an event belong to the target at
  hand; that a host in the collector's hands was reported (`HostsReported`); that
  a published name was taken, is beyond a limit, or is on the channel
  (`NamesTaken`); that, no error being on record, a source asked has answered, is
  at work, or has its error on the channel (`SourcesAnswer`); and what is left to
  resolve (`HostsResolved`). A batch of relations refers to what the batches
  before it reported or to itself (`ChunksFit`, `AcceptedFits`,
  `EventBatchesFit`), so nothing it sends can dangle (`SendAllGives`). For an
  enterprise lookup `OrgsFit` says that there is room while companies are left,
  so the company itself is never what the limit cuts, and what refers to it
  finds it; a filing may miss the holder its row names, and only it (`Dangles`);
- `ScanResumesCorrectly` (`ScanResumes`) and `CliTypeCorrect`, for every list of
  requests and targets and any number of kills. The property speaks of the
  checkpoint on disk; `CliInv` also of the process that will write the next one:
  what it has put behind it was attempted (`Progress`), what it found is in the
  files or in the hands of a scan that the checkpoint does not pass over
  (`ScannedKept`, `Pending`), its names are on disk (`NamesKept`), and the
  checkpoint is not ahead of it (`Behind`). The process's claims count only when
  its log began with it or with what it resumed from (`Trusted`), which is the
  property's exception for an abandoned checkpoint. The workbook needs only
  that it was written from the urls the process has (`BookKept`).

What the recursive functions of `ActiveEngine` (batches of a page) and `Assets`
(rows of an import), and the sums of facts in
the inbox and the engine, compute is proved for sequences of every length by the
least counterexample: a set of naturals that is not empty has a least member
(`LeastNat`, from the well-foundedness of < in the library), so the first
prefix for which the claim fails would have a predecessor for which it holds.
`ImportedGrows` says that an import keeps status and misses of every row it
meets and that the rows it adds are exactly the importable keys that were not
there; `DryRunIsRight` that the dry run calls exactly those new.

Four theorems are about services together. `DiscoveryServices` and
`OperationsServices` are the conjunctions of the specifications of the parts, in
which any of them may move in any step and several at once; the runs, which
move one part of a behaviour, are a special case. `DiscoveryTypeCorrect`
(`DiscoveryTypeOK`), `OperationsTypeCorrect` (`OperationsTypeOK`),
`ReportsAreCorrect` (`ReportsCorrect`) and
`NothingIsUndone` (`NothingUndone`) follow from the theorems of the parts; the
last one also needs that a step which leaves a part alone undoes nothing of it
(`StutterUndoesNothing`).

Their only assumptions are the `ASSUME`s of the modules. They give the types of
the constants, and beyond that: a run has targets, and finitely many
(`ActiveAssumption`); limits, thresholds and page sizes that the code has as
positive literals are positive; absent ids (`NoJob`, `NoUser`, project 0, the
remote project `"none"`) are not ids; a block holds host addresses
(`ScopesAssumption`); the sources of an execution and what each offers are finite
sets (`ExecutorAssumption`); a list of targets is a list of targets of known kind
and a block names each of its addresses once (`CliAssumption`). TLC evaluates
each of them in the runs.

Four things the proofs changed in the model. An enrichment item whose answer is
refused as invalid was left in its worker's batch and could be finished twice;
the code takes each item once (`Enrichment`). The reference for the matching of
targets said nothing of a candidate that is a block; it is now stated field by
field, and a block is judged by its first address, as in the code (`Scopes`).
The rows of an organisation report are chosen by position, the first of each
name up to the limit, instead of by a fold (`Executors`), and the constants of
`Executors` and `LegacyScan` have named assumptions; neither changes a behaviour.

Only model-checked: liveness (`EveryBatchIngested`, `TimedOutRunCloses`,
`AcceptedJobEnds`, `ClosedWhilePendingIsUndone`, `EnqueuedRunLeavesPending`), which
is out of the prover's reach. Every invariant and every other action property of
a passing run is stated by a theorem. That `EndedStreamMatches`, `TerminalStays`
and `ResultCountsEveryFact` are proved for engines that lose no save is not a
weakness of the proof: with one lost save of `beginRun` and two workers TLC finds
a counterexample to each (finding 3).

## 6. Plan

1. Done: the inbox with its abstract specification and proofs, the engine, the
   dispatch; scopes and plans, settings, the active pull, assets and their
   lifecycle, enrichment, executors, the command line; risks, tickets,
   notifications, exports, retention, accounts, workspaces, the limiter; the
   safety proofs of all of these.
2. `DiscoveryPipeline`: engine and inbox composed over the callback endpoint,
   for the hazards that cross them (a 409 before the dispatch is recorded, the
   sequence limit).
3. Abstract specifications of the asset lifecycle ("seen in the last complete
   runs") and of the export queue, and their refinement.

## 7. Not modelled

The components with status `not_modelled` in `PROJECT.json`: the audit writer,
address filters and the repetition of transactions (`platform`), callback
credentials and the displayed runtime status, the snapshot view, the tool
runner, ENScan_GO, entry points and the web interface, which are I/O, wiring,
third-party code or keep no state of their own. Of the modelled ones: payload
validation and signatures (a rejected callback changes nothing), audit records
other than those a property reads, wording of error summaries, JSON, HTTP retry
schedules (a Send is one step whose outcome may be uncertain), listings and
filters, and time other than "stale", "deadline passed", "context done", a day
or an instant. Of fact ingestion, risk hints and the page fields of an
observation; of the command line, how names, ports and pages are found, the ICP
and company modes, and failed writes of its text files. Of reads that fail in
the middle of an operation, the `store.Get` of `beginRun` and of `run`
(`job/service.go:239`, `:268`, `EngineJob`): an unreadable record leaves the job
where it is, queued or running, until the next restart.

Hazards that are known and that no property covers, beside those `PROJECT.json`
lists with a note:

- dispatch and callbacks: the answer of an accepted dispatch lost at the last
  try; a transient database error that cancels an accepted job; a first callback
  refused with 409 before the dispatch is recorded; an API process that dies
  between creating a run and queueing it, which leaves the run pending; the limit of 10000 sequence
  numbers, which heartbeats use up too; a graceful stop that cancels jobs;
- reconciliation: at most 100 runs a pass; a timeout closure that writes the
  count it read earlier;
- people: `UpdateTaskTemplate`, `VerifyDomainOwnership` and
  `RecalculateSLADueAt` write back what they read; `ChangePassword` may overlap
  `ResetPassword`; a project may be deleted with runs in flight
  (`management_handler.go:596`);
- ingestion: relations to assets of an earlier batch (`ingest_v1.go:122`), two
  subjects for one company (`workspace_service.go:691`), an address that is a
  CDN edge only later (`network_attribution.go:158`);
- background work: an export claimed by a worker that dies stays running; a
  lost enqueue leaves an export pending; the limiter reads the clock before its
  lock (`ratelimit.go:124`), so a bucket may be refilled a little late.
