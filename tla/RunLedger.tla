------------------------------ MODULE RunLedger ------------------------------
(***************************************************************************)
(* What the platform promises about the results of one discovery run,      *)
(* without the queue, the workers, the claims or the sweeps that implement *)
(* it (callback.go, callback_ingest.go): a batch is accepted once and only *)
(* while the run is open, it is ingested at most once, its facts are       *)
(* counted exactly once when it is ingested into an open run, and the      *)
(* ingestion that completes the stream closes the run in the same step.    *)
(***************************************************************************)
EXTENDS Naturals

CONSTANTS
    MaxSeq,     \* the highest callback sequence number (callbackMaxSeq)
    Payloads    \* the batches the engine may send: [status, count] records

VARIABLES
    status,     \* status of the run
    count,      \* result_count of the run
    accepted,   \* sequence numbers with a stored batch
    batch,      \* the stored batch of each accepted sequence number
    ingested    \* accepted sequence numbers whose ingestion has completed

vars == <<status, count, accepted, batch, ingested>>

Seqs == 1..MaxSeq

TerminalStatuses == {"success", "partial_success", "failed", "cancelled"}

NoBatch == [status |-> "running", count |-> 0]

\* The stream of batches "b" ends at "m" and is ingested up to it.
EndsAt(b, done, m) ==
    /\ b[m].status # "running"
    /\ \A s \in 1..m : s \in done
    /\ \A s \in 1..(m - 1) : b[s].status = "running"

Init ==
    /\ status = "running"
    /\ count = 0
    /\ accepted = {}
    /\ batch = [s \in Seqs |-> NoBatch]
    /\ ingested = {}

Accept(s, p) ==
    /\ status = "running"
    /\ s \notin accepted
    /\ accepted' = accepted \cup {s}
    /\ batch' = [batch EXCEPT ![s] = p]
    /\ UNCHANGED <<status, count, ingested>>

Ingest(s) ==
    /\ s \in accepted \ ingested
    /\ ingested' = ingested \cup {s}
    /\ count' = IF status = "running" THEN count + batch[s].count ELSE count
    /\ IF status = "running" /\ \E m \in Seqs : EndsAt(batch, ingested', m)
       THEN \E m \in Seqs : /\ EndsAt(batch, ingested', m)
                            /\ status' = batch[m].status
       ELSE status' = status
    /\ UNCHANGED <<accepted, batch>>

\* Closed from outside the stream: the engine's own status, a timeout, a user.
Close(st) ==
    /\ status = "running"
    /\ status' = st
    /\ count' \in Nat
    /\ UNCHANGED <<accepted, batch, ingested>>

Next ==
    \/ \E s \in Seqs, p \in Payloads : Accept(s, p)
    \/ \E s \in Seqs : Ingest(s)
    \/ \E st \in TerminalStatuses : Close(st)

Spec == Init /\ [][Next]_vars
=============================================================================
