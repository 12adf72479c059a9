------------------------------ MODULE Retention ------------------------------
(***************************************************************************)
(* The nightly retention run (internal/platform/retention): it copies the  *)
(* oldest rows of three tables to their archives and deletes what has been *)
(* archived, a batch of each table in one transaction.  INSERT ... SELECT  *)
(* locks the rows it reads until the commit, so the run is one step.       *)
(*                                                                         *)
(* A row is <<table, id>>; ids are handed out in the order of insertion.   *)
(***************************************************************************)
EXTENDS Integers, FiniteSets

CONSTANTS
    RowIds,         \* ids of the rows of each table
    MaxDay,         \* bound on the day
    DefaultDays,    \* default days by policy field (365, 365, 180, 90)
    DefaultBatch,   \* default batch size (1000)
    MaxBatch,       \* largest batch size (10000)
    Payloads        \* payloads of tasks; the scheduled one is all zero

RetentionTables == {"audit_log", "change_event", "discovery_callback"}

PolicyFields == RetentionTables \cup {"audit_min"}

ASSUME RetentionAssumption ==
    /\ RowIds \subseteq Nat /\ IsFiniteSet(RowIds)
    /\ MaxDay \in Nat
    /\ DefaultDays \in [PolicyFields -> Nat \ {0}]
    /\ MaxBatch \in Nat /\ DefaultBatch \in 1..MaxBatch
    /\ Payloads \subseteq [days : [PolicyFields -> Int], batch : Int]

VARIABLES
    today,          \* the day
    rowDay,         \* day each row was written, -1 for none
    hot,            \* rows in their table
    cold,           \* rows in the archive of their table
    unfinished,     \* callbacks neither processed nor failed
    floorBroken     \* audit rows deleted before the minimum retention

retentionVars == <<today, rowDay, hot, cold, unfinished, floorBroken>>

AllRows == RetentionTables \X RowIds

Days == 0..MaxDay

-----------------------------------------------------------------------------
\* The payload of a task replaces a default where it is positive.
policy(payload) ==
    [days |-> [f \in PolicyFields |-> IF payload.days[f] > 0 THEN payload.days[f]
                                      ELSE DefaultDays[f]],
     batch |-> IF payload.batch > 0 THEN payload.batch ELSE DefaultBatch]

withDefaults(p) ==
    [days |-> [f \in PolicyFields |-> IF p.days[f] = 0 THEN DefaultDays[f]
                                      ELSE p.days[f]],
     batch |-> IF p.batch = 0 THEN DefaultBatch ELSE p.batch]

\* Mutant: the floor of the audit log is not enforced.
NoFloor(p) ==
    /\ \A f \in PolicyFields : p.days[f] > 0
    /\ p.batch \in 1..MaxBatch

validatePolicy(p) ==
    /\ \A f \in PolicyFields : p.days[f] > 0
    /\ p.batch \in 1..MaxBatch
    /\ p.days["audit_log"] >= p.days["audit_min"]

cutoff(days) == today - days

\* The first "limit" rows of S by age and id.
Oldest(S, limit) ==
    {r \in S : Cardinality({q \in S : \/ rowDay[q] < rowDay[r]
                                      \/ rowDay[q] = rowDay[r] /\ q[2] < r[2]}) < limit}

Before(t, days) == {r \in hot : r[1] = t /\ rowDay[r] < cutoff(days)}

ArchiveAuditLogs(p) == Oldest(Before("audit_log", p.days["audit_log"]), p.batch)

ArchiveChangeEvents(p) == Oldest(Before("change_event", p.days["change_event"]), p.batch)

\* Mutant: callbacks that are still queued or processing are archived too.
ArchiveAnyCallback(p) ==
    Oldest(Before("discovery_callback", p.days["discovery_callback"]), p.batch)

ArchiveDiscoveryCallbacks(p) ==
    Oldest(Before("discovery_callback", p.days["discovery_callback"]) \ unfinished, p.batch)

\* Mutant: old rows are deleted whether they have been archived or not.
DeleteOld(t, p, archive) == Oldest(Before(t, p.days[t]), p.batch)

\* DELETE ... JOIN archive: a row is deleted only when its copy is there.
DeleteArchived(t, p, archive) == Oldest(Before(t, p.days[t]) \cap archive, p.batch)

\* Run, for a task with this payload: archive, then delete, table by table.
RunRetention(payload) ==
    LET p == withDefaults(policy(payload))
        archive == cold \cup ArchiveAuditLogs(p) \cup ArchiveChangeEvents(p)
                        \cup ArchiveDiscoveryCallbacks(p)
        gone == UNION {DeleteArchived(t, p, archive) : t \in RetentionTables}
    IN  /\ validatePolicy(p)
        /\ cold' = archive
        /\ hot' = hot \ gone
        /\ floorBroken' = floorBroken \cup
              {r \in gone : r[1] = "audit_log" /\ today - rowDay[r] < p.days["audit_min"]}
        /\ UNCHANGED <<today, rowDay, unfinished>>

-----------------------------------------------------------------------------
(* The rest of the system writes rows and works on callbacks.              *)

InsertRow(r) ==
    /\ rowDay[r] = -1
    /\ \A q \in AllRows : q[1] = r[1] /\ q[2] < r[2] => rowDay[q] # -1
    /\ rowDay' = [rowDay EXCEPT ![r] = today]
    /\ hot' = hot \cup {r}
    /\ unfinished' = IF r[1] = "discovery_callback" THEN unfinished \cup {r}
                     ELSE unfinished
    /\ UNCHANGED <<today, cold, floorBroken>>

\* A callback is processed or fails, or a failed one is claimed again.
CallbackMoves(r) ==
    /\ r \in hot /\ r[1] = "discovery_callback"
    /\ unfinished' = IF r \in unfinished THEN unfinished \ {r} ELSE unfinished \cup {r}
    /\ UNCHANGED <<today, rowDay, hot, cold, floorBroken>>

DayPasses ==
    /\ today < MaxDay
    /\ today' = today + 1
    /\ UNCHANGED <<rowDay, hot, cold, unfinished, floorBroken>>

RetentionInit ==
    /\ today = 0
    /\ rowDay = [r \in AllRows |-> -1]
    /\ hot = {} /\ cold = {} /\ unfinished = {} /\ floorBroken = {}

RetentionNext ==
    \/ \E payload \in Payloads : RunRetention(payload)
    \/ \E r \in AllRows : InsertRow(r) \/ CallbackMoves(r)
    \/ DayPasses

RetentionSpec == RetentionInit /\ [][RetentionNext]_retentionVars

-----------------------------------------------------------------------------
RetentionTypeOK ==
    /\ today \in Days
    /\ rowDay \in [AllRows -> Days \cup {-1}]
    /\ hot \subseteq AllRows /\ cold \subseteq AllRows
    /\ unfinished \subseteq AllRows
    /\ floorBroken \subseteq AllRows

\* Every row ever written is in exactly one of its table and its archive, no
\* matter how the batch sizes and the days change between two runs.
ArchivedOrHot ==
    /\ hot \cup cold = {r \in AllRows : rowDay[r] # -1}
    /\ hot \cap cold = {}

\* An audit row is never deleted before the minimum retention of the policy
\* that deletes it (ErrAuditRetentionFloor), and a callback that is still
\* queued or processing stays where its worker expects it.
RetentionFloor ==
    /\ floorBroken = {}
    /\ {r \in cold : r[1] = "discovery_callback"} \cap unfinished = {}

\* Retention loses no row and moves none too early (RunRetention, ArchiveRows,
\* DeleteArchived, validatePolicy).
RowsKept == ArchivedOrHot /\ RetentionFloor

=============================================================================
