---------------------------- MODULE ReportExports ----------------------------
(***************************************************************************)
(* Report exports (internal/report): the API inserts a pending export and  *)
(* enqueues a task; a worker that gets a task claims the oldest pending    *)
(* export, whichever it is, and writes its file in batches read with       *)
(* LIMIT and OFFSET while the exported table grows.                        *)
(*                                                                         *)
(* Task "e" is the one enqueued for export e, but nothing ties the two:    *)
(* task e may serve any export.                                            *)
(***************************************************************************)
EXTENDS Integers, FiniteSets, Roles

CONSTANTS
    Exports,        \* ids of exports, in the order they are handed out
    ReportUsers,    \* people who ask for exports
    ReportRole,     \* the role each has in the project
    TableRows,      \* ids of the rows of the exported table
    BatchSize,      \* rows a batch reads (500)
    MaxExportRetry  \* times asynq runs a failing task again

ASSUME ReportAssumption ==
    /\ Exports \subseteq Nat /\ TableRows \subseteq Nat
    /\ IsFiniteSet(Exports) /\ IsFiniteSet(TableRows)
    /\ ReportRole \in [ReportUsers -> AllRoles]
    /\ BatchSize \in Nat \ {0}
    /\ MaxExportRetry \in Nat

VARIABLES
    export,         \* table report_export, by id
    exportTask,     \* asynq task of each export's request
    writer,         \* the run of ProcessNextExport each active task is in
    table           \* committed rows of the exported table

reportVars == <<export, exportTask, writer, table>>

\* Fields by what is done to them: "open" ones everybody gets, "personal" ones
\* redactedValue masks, "full" ones only an exporter may ask for.
ReportFields == {"open", "personal", "full"}

NoExport == [status |-> "absent"]

NoTask == [state |-> "none", tries |-> 0]

NotWriting == [phase |-> "idle"]

ExportRow == [status : {"pending", "running", "succeeded", "failed"},
              fields : SUBSET ReportFields, redacted : BOOLEAN, by : ReportUsers,
              rows : SUBSET TableRows, clear : SUBSET ReportFields]

-----------------------------------------------------------------------------
allowedFields(canExport) ==
    IF canExport THEN ReportFields ELSE ReportFields \ {"full"}

\* Mutant: a field the caller asks for is not checked.
AnyField(requested, canExport) ==
    IF requested = {} THEN allowedFields(canExport) ELSE requested

\* The fields of the export, {} when a field is not allowed (ErrInvalidField).
normalizeFields(requested, canExport) ==
    LET allowed == allowedFields(canExport)
    IN  IF requested = {} THEN allowed
        ELSE IF requested \subseteq allowed THEN requested ELSE {}

\* The columns whose values reach the file as they are.
redactedValue(fields, redacted) ==
    IF redacted THEN fields \ {"personal"} ELSE fields

CreateReportExport(e, u, fields, redacted) ==
    export' = [export EXCEPT ![e] =
        [status |-> "pending", fields |-> fields, redacted |-> redacted, by |-> u,
         rows |-> {}, clear |-> {}]]

\* POST /report-exports up to the commit of the row; the next id is used.
CreateExport(e, u, requested) ==
    LET canExport == RoleHasPerm(ReportRole[u], "report:export")
        fields == normalizeFields(requested, canExport)
    IN  /\ RoleHasPerm(ReportRole[u], "report:read")
        /\ \A d \in Exports : export[d] = NoExport <=> d >= e
        /\ fields # {}
        /\ CreateReportExport(e, u, fields, ~canExport)
        /\ exportTask' = [exportTask EXCEPT ![e] = [state |-> "asked", tries |-> 0]]
        /\ UNCHANGED <<writer, table>>

SetTask(e, state) ==
    exportTask' = [exportTask EXCEPT ![e] = [@ EXCEPT !.state = state]]

EnqueueReportExport(e) ==
    /\ exportTask[e].state = "asked"
    /\ SetTask(e, "queued")
    /\ UNCHANGED <<export, writer, table>>

\* Redis does not answer or the API dies: the row stays pending with no task
\* of its own.
EnqueueExportFails(e) ==
    /\ exportTask[e].state = "asked"
    /\ SetTask(e, "lost")
    /\ UNCHANGED <<export, writer, table>>

-----------------------------------------------------------------------------
(* ProcessNextExport, called by ExportHandler.Handle for a task.           *)

Leaves(e) == writer' = [writer EXCEPT ![e] = NotWriting]

\* The handler returns an error: asynq runs the task again, up to its limit.
RetryTask(e) ==
    /\ exportTask' = [exportTask EXCEPT ![e] =
          IF @.tries < MaxExportRetry THEN [state |-> "queued", tries |-> @.tries + 1]
          ELSE [@ EXCEPT !.state = "archived"]]
    /\ Leaves(e)

TakeExportTask(e) ==
    /\ exportTask[e].state = "queued"
    /\ SetTask(e, "active")
    /\ writer' = [writer EXCEPT ![e] = [phase |-> "claim"]]
    /\ UNCHANGED <<export, table>>

PendingExports == {d \in Exports : export[d].status = "pending"}

\* SELECT ... WHERE status = 'pending' ORDER BY id LIMIT 1 FOR UPDATE
ClaimPendingReportExport(d) == d \in PendingExports /\ \A f \in PendingExports : d <= f

\* Mutant: the claim does not leave "pending" in the same transaction.
MarkNothing(d) == UNCHANGED export

MarkReportExportRunning(d) ==
    export' = [export EXCEPT ![d].status = "running"]

\* Claim and mark share a transaction.  "must" is what the file must hold.
ProcessNextExport(e, d) ==
    /\ writer[e].phase = "claim"
    /\ ClaimPendingReportExport(d)
    /\ MarkReportExportRunning(d)
    /\ writer' = [writer EXCEPT ![e] =
          [phase |-> "write", job |-> d, offset |-> 0, rows |-> {}, must |-> table]]
    /\ UNCHANGED <<exportTask, table>>

NothingPending(e) ==
    /\ writer[e].phase = "claim"
    /\ PendingExports = {}
    /\ SetTask(e, "done")
    /\ Leaves(e)
    /\ UNCHANGED <<export, table>>

ClaimFails(e) ==
    /\ writer[e].phase = "claim"
    /\ RetryTask(e)
    /\ UNCHANGED <<export, table>>

Rank(i) == Cardinality({j \in table : j < i})

\* SELECT ... ORDER BY id LIMIT BatchSize OFFSET offset
exportRows(offset) ==
    {i \in table : Rank(i) >= offset /\ Rank(i) < offset + BatchSize}

WriteBatch(e) ==
    /\ writer[e].phase = "write"
    /\ exportRows(writer[e].offset) # {}
    /\ writer' = [writer EXCEPT ![e].rows = @ \cup exportRows(writer[e].offset),
                                ![e].offset = @ + BatchSize]
    /\ UNCHANGED <<export, exportTask, table>>

MarkReportExportSucceeded(d, rows) ==
    /\ export[d].status = "running"
    /\ export' = [export EXCEPT ![d].status = "succeeded", ![d].rows = rows,
                                ![d].clear =
                       redactedValue(export[d].fields, export[d].redacted)]

\* An empty batch ends the file.
WriteDone(e) ==
    /\ writer[e].phase = "write"
    /\ exportRows(writer[e].offset) = {}
    /\ MarkReportExportSucceeded(writer[e].job, writer[e].rows)
    /\ SetTask(e, "done")
    /\ writer' = [writer EXCEPT ![e].phase = "done"]
    /\ UNCHANGED table

MarkReportExportFailed(d) ==
    /\ export[d].status = "running"
    /\ export' = [export EXCEPT ![d].status = "failed"]

\* A read or write error; the error of MarkReportExportFailed is dropped.
WriteFails(e) ==
    /\ writer[e].phase = "write"
    /\ MarkReportExportFailed(writer[e].job) \/ UNCHANGED export
    /\ RetryTask(e)
    /\ UNCHANGED table

\* The worker dies and asynq recovers the task when its lease expires, or the
\* final update fails: the export it had claimed stays running.
ExportWorkerDies(e) ==
    /\ writer[e].phase \in {"claim", "write"}
    /\ RetryTask(e)
    /\ UNCHANGED <<export, table>>

\* Rows of the table commit in any order of their ids and are never deleted.
RowCommits(i) ==
    /\ i \notin table
    /\ table' = table \cup {i}
    /\ UNCHANGED <<export, exportTask, writer>>

\* GET /report-exports/:id/download needs report:export whatever the file holds.
downloadExport(u, e) ==
    RoleHasPerm(ReportRole[u], "report:export") /\ export[e].status = "succeeded"

-----------------------------------------------------------------------------
ReportInit ==
    /\ export = [e \in Exports |-> NoExport]
    /\ exportTask = [e \in Exports |-> NoTask]
    /\ writer = [e \in Exports |-> NotWriting]
    /\ table = {}

ExportSteps(e) ==
    \/ EnqueueReportExport(e) \/ EnqueueExportFails(e)
    \/ TakeExportTask(e)
    \/ \E d \in Exports : ProcessNextExport(e, d)
    \/ NothingPending(e) \/ ClaimFails(e) \/ ExportWorkerDies(e)
    \/ WriteBatch(e) \/ WriteDone(e) \/ WriteFails(e)

ReportNext ==
    \/ \E e \in Exports :
          \/ \E u \in ReportUsers, F \in SUBSET ReportFields : CreateExport(e, u, F)
          \/ ExportSteps(e)
    \/ \E i \in TableRows : RowCommits(i)

ReportSpec == ReportInit /\ [][ReportNext]_reportVars

-----------------------------------------------------------------------------
ReportTypeOK ==
    /\ export \in [Exports -> ExportRow \cup {NoExport}]
    /\ exportTask \in [Exports -> [tries : 0..MaxExportRetry,
          state : {"none", "asked", "queued", "active", "done", "lost", "archived"}]]
    /\ \A e \in Exports : writer[e].phase \in {"write", "done"} =>
          writer[e].job \in Exports /\ writer[e].offset \in Nat
    /\ table \subseteq TableRows

\* An export is written by one worker only, and the file of a finished one
\* holds every row that was committed when it was claimed, although rows with
\* smaller ids may commit between two batches (ProcessNextExport, writeExport).
ExportComplete ==
    /\ \A e, f \in Exports :
          writer[e].phase = "write" /\ writer[f].phase = "write"
             /\ writer[e].job = writer[f].job => e = f
    /\ \A e \in Exports : writer[e].phase = "done" =>
          writer[e].must \subseteq export[writer[e].job].rows

\* No value that only an exporter may see reaches a file asked for by somebody
\* who is not one, whoever processes it and downloads it later.
NoClearValue ==
    \A e \in Exports : export[e].status = "succeeded" =>
        (RoleHasPerm(ReportRole[export[e].by], "report:export")
           \/ export[e].clear \subseteq {"open"})

\* Tasks are not tied to exports, so an export is served by a task of another
\* one; still an export never waits with no task left, unless an enqueue was
\* lost or a task used up its retries (CreateExport, ExportHandler.Handle).
PendingHasTask ==
    Cardinality(PendingExports) <=
        Cardinality({e \in Exports : exportTask[e].state \in
                        {"asked", "queued", "lost", "archived"}
                     \/ writer[e].phase = "claim"})

\* An export is written once and completely, shows nobody more than they may
\* see, and does not wait for ever, whichever task serves it
\* (ProcessNextExport, writeExport, normalizeFields, ExportHandler.Handle).
ExportsCorrect == ExportComplete /\ NoClearValue /\ PendingHasTask

=============================================================================
