----------------------------- MODULE Enrichment -----------------------------
(***************************************************************************)
(* Network enrichment of discovered web sites: the platform's work queue   *)
(* (internal/discovery: network_enrichment_worker, _client, _retry) and    *)
(* the Baiyan service that answers it (internal/networkenrich: service,    *)
(* rules, resolver).                                                       *)
(*                                                                         *)
(* A periodic task seeds a row for every materialised web observation,     *)
(* claims due rows under a lease with a random token, asks Baiyan, and     *)
(* writes each answer in a statement that checks the lease, the token and  *)
(* that the observation still has the content the row was made from.       *)
(* Tasks overlap and die; observations and projects change meanwhile.      *)
(***************************************************************************)
EXTENDS Naturals, FiniteSets

CONSTANTS Observations,       \* web observations of finished runs
          Contents,           \* what one may say: [host, prints]
          EnrichWorkers,      \* running instances of the periodic task
          EnrichVersion,      \* an observation -> its run's settings version
          EnrichMax,          \* attempts (5 in the code)
          Upstreams,          \* Baiyan's DNS servers
          AddressSets,        \* addresses a host may resolve to
          AliasSets           \* aliases it may have

ASSUME EnrichmentAssumption == EnrichMax \in Nat

VARIABLES sites,       \* the observations: content, or deleted
          usable,      \* the project is active, the run finished and kept
          enrichRows,  \* web_network_enrichment
          enrichers    \* the task instances

enrichmentVars == <<sites, usable, enrichRows, enrichers>>

----------------------------------------------------------------------------
(* Baiyan: resolving and classifying.                                      *)

Unknown == "unknown"

(* A name or record that does not exist is an answer. *)
definitive(outcome) == outcome = "not_found"

(* A system resolver alone is asked twice; at most three are asked. *)
FailoverAttempts == IF Upstreams < 2 THEN 2 ELSE IF Upstreams > 3 THEN 3 ELSE Upstreams

(* The first upstream that answers, in rotation from where the lookup      *)
(* starts; with none, the last error.                                      *)
failover(upstream, start) ==
  LET asked == [i \in 1..FailoverAttempts |-> upstream[(start + i - 1) % Upstreams]]
      stops == {i \in DOMAIN asked : asked[i] = "answer" \/ definitive(asked[i])}
  IN  IF stops = {} THEN "error" ELSE asked[CHOOSE i \in stops : \A j \in stops : i <= j]

LookupOutcomes ==
  {failover(up, s) : up \in [0..(Upstreams - 1) -> {"answer", "not_found", "error"}],
                     s \in 0..(Upstreams - 1)}

(* An alias is covered by a curated suffix (of a CDN or of a cloud) or by  *)
(* an imported keyword; an address is in a published edge range, or not.   *)
suffixRule(name) == CASE name = "cdn_suffix" -> [cdn |-> "curated", cloud |-> Unknown]
                      [] name = "cloud_suffix" -> [cdn |-> Unknown, cloud |-> "curated"]
                      [] OTHER -> [cdn |-> Unknown, cloud |-> Unknown]

keywordMatches(name) == name = "cdn_keyword"

rangeContains(address) == address = "edge"

recognizedFingerprints == {"cloudflare"}

(* ClassifyNetwork: the strongest evidence first; never a negative. *)
ClassifyNetwork(cnames, ips, prints) ==
  LET curated == {suffixRule(n).cdn : n \in cnames} \ {Unknown}
      cloud   == {suffixRule(n).cloud : n \in cnames} \ {Unknown}
  IN  [cdn |-> IF curated # {} THEN "curated"
               ELSE IF \E n \in cnames : keywordMatches(n) THEN "keyword"
               ELSE IF \E a \in ips : rangeContains(a) THEN "range"
               ELSE IF prints \cap recognizedFingerprints # {} THEN "fingerprint" ELSE Unknown,
       cloud |-> IF cloud # {} THEN "curated" ELSE Unknown]

(* enrich, for one site: an address is not looked up. *)
enrich(content, ipOutcome, cnameOutcome, ips, cnames) ==
  LET a == IF ipOutcome = "answer" THEN ips ELSE {}
      n == IF cnameOutcome = "answer" THEN cnames ELSE {}
      failures == Cardinality({k \in {1, 2} : <<ipOutcome, cnameOutcome>>[k] # "answer"})
  IN  IF content.host = "ip"
      THEN [of |-> content, status |-> "success", found |-> ClassifyNetwork({}, {}, content.prints)]
      ELSE [of |-> content, found |-> ClassifyNetwork(n, a, content.prints),
            status |-> CASE failures = 0 -> "success" [] failures = 1 -> "partial" [] OTHER -> "failed"]

(* normalizeHost at Baiyan, networkInput at the platform: the same rules. *)
networkInput(content) == content.host # "invalid"

Answers(content) ==
  {enrich(content, i, c, ips, cnames) :
     i \in LookupOutcomes, c \in LookupOutcomes, ips \in AddressSets, cnames \in AliasSets}

----------------------------------------------------------------------------
(* The queue.                                                              *)

NoResult == [status |-> "none"]

NoContent == [host |-> "none", prints |-> {}]

NoRow == [state |-> "none", attempts |-> 0, token |-> "", live |-> FALSE, due |-> FALSE,
          source |-> NoContent, result |-> NoResult]

NoWork == [id |-> 0, raw |-> NoContent, attempts |-> 0, answer |-> NoResult, problem |-> "none"]

Idle == [pc |-> "idle", work |-> {}]

EnrichmentInit ==
  /\ sites \in [Observations -> Contents] /\ usable = TRUE
  /\ enrichRows = [o \in Observations |-> NoRow]
  /\ enrichers = [w \in EnrichWorkers |-> Idle]

Deleted(o) == sites[o] = NoContent

(* seedNetworkEnrichment: a row for every usable observation without one. *)
seedNetworkEnrichment(w) ==
  /\ enrichers[w].pc = "idle"
  /\ enrichRows' = [o \in Observations |->
       IF enrichRows[o] = NoRow /\ usable /\ ~Deleted(o)
       THEN [NoRow EXCEPT !.state = "pending", !.due = TRUE, !.source = sites[o]] ELSE enrichRows[o]]
  /\ enrichers' = [enrichers EXCEPT ![w].pc = "claim"]
  /\ UNCHANGED <<sites, usable>>

(* Rows whose observation, run or project is no longer what it was fail. *)
FailStale(o) ==
  LET r == enrichRows[o]
  IN  IF r.state \in {"pending", "running"} /\ (~usable \/ Deleted(o) \/ r.source # sites[o])
      THEN [r EXCEPT !.state = "failed", !.token = ""] ELSE r

(* Leases that ran out for the last time fail. *)
FailExhausted(r) ==
  IF r.state = "running" /\ ~r.live /\ r.attempts >= EnrichMax THEN [r EXCEPT !.state = "failed"] ELSE r

Due(r) == /\ \/ r.state = "pending" /\ r.due
             \/ r.state = "running" /\ ~r.live
          /\ r.attempts < EnrichMax

(* claimNetworkEnrichment, one transaction: the batch has one settings     *)
(* version, the first row's; the others stay queued.                       *)
claimNetworkEnrichment(w) ==
  LET swept == [o \in Observations |-> FailExhausted(FailStale(o))]
      due   == {o \in Observations : Due(swept[o]) /\ usable /\ ~Deleted(o)}
  IN  /\ enrichers[w].pc = "claim"
      /\ \E batch \in {{}} \cup {{o \in due : EnrichVersion[o] = EnrichVersion[f]} : f \in due} :
           /\ batch = {} <=> due = {}
           /\ enrichRows' = [o \in Observations |->
                IF o \in batch THEN [swept[o] EXCEPT !.state = "running", !.attempts = swept[o].attempts + 1,
                                                     !.token = w, !.live = TRUE]
                ELSE swept[o]]
           /\ enrichers' = [enrichers EXCEPT ![w] =
                IF batch = {} THEN Idle
                ELSE [pc |-> "ask", work |-> {[NoWork EXCEPT !.id = o, !.raw = sites[o],
                                                             !.attempts = swept[o].attempts + 1] : o \in batch}]]
      /\ UNCHANGED <<sites, usable>>

(* Mutant: whoever comes last writes. *)
FinishAnyLease(w, x, state) ==
  [o \in Observations |->
     IF o = x.id /\ enrichRows[o].state = "running"
     THEN [enrichRows[o] EXCEPT !.state = state, !.result = x.answer, !.token = "", !.live = FALSE, !.due = FALSE]
     ELSE enrichRows[o]]

(* The one statement that writes an outcome, and the one that says why it  *)
(* did not.                                                                *)
WriteOutcome(w, x, state) ==
  [o \in Observations |->
     LET r == enrichRows[o]
         held == o = x.id /\ r.state = "running" /\ r.token = w /\ r.live
     IN  IF held /\ r.source = sites[o] /\ usable
         THEN [r EXCEPT !.state = state, !.result = x.answer, !.token = "", !.live = FALSE, !.due = FALSE]
         ELSE IF held THEN [r EXCEPT !.state = "failed", !.token = ""] ELSE r]

(* finishNetworkEnrichment: done, to be tried again, or given up; the      *)
(* worker goes on with its other rows.                                     *)
finishNetworkEnrichment(w, x) ==
  LET state == IF x.problem = "none" /\ x.answer.status # "failed" THEN "complete"
               ELSE IF x.problem = "permanent" \/ x.attempts >= EnrichMax THEN "failed" ELSE "pending"
      rest  == {y \in enrichers[w].work : y.id # x.id}
  IN  /\ enrichRows' = WriteOutcome(w, x, state)
      /\ enrichers' = [enrichers EXCEPT ![w] = IF rest = {} THEN Idle ELSE [enrichers[w] EXCEPT !.work = rest]]
      /\ UNCHANGED <<sites, usable>>

(* EnrichWebNetwork: unusable sites are given up before Baiyan is asked. *)
FinishInvalid(w) ==
  /\ enrichers[w].pc = "ask"
  /\ \E x \in enrichers[w].work : /\ ~networkInput(x.raw)
                                   /\ finishNetworkEnrichment(w, [x EXCEPT !.problem = "permanent"])

(* enrichNetwork: no answer (an error to retry, or a refusal), or one      *)
(* answer for every key asked, bound to its host.                          *)
enrichNetwork(w) ==
  LET e == enrichers[w]
  IN  /\ e.pc = "ask" /\ \A x \in e.work : networkInput(x.raw)
      /\ \/ \E p \in {"transient", "permanent"} :
              enrichers' = [enrichers EXCEPT ![w] = [pc |-> "finish", work |-> {[x EXCEPT !.problem = p] : x \in e.work}]]
         \/ \E a \in [e.work -> UNION {Answers(x.raw) : x \in e.work}] :
              /\ \A x \in e.work : a[x] \in Answers(x.raw)
              /\ enrichers' = [enrichers EXCEPT ![w] =
                   [pc |-> "finish", work |-> {[x EXCEPT !.answer = a[x]] : x \in e.work}]]
      /\ UNCHANGED <<sites, usable, enrichRows>>

EnrichWebNetwork(w) ==
  /\ enrichers[w].pc = "finish"
  /\ \E x \in enrichers[w].work : finishNetworkEnrichment(w, x)

(* RetryNetworkEnrichment: failures, and results of a content that has     *)
(* changed, are queued again for the content of now.                       *)
RetryNetworkEnrichment ==
  LET again(o) == /\ ~Deleted(o)
                  /\ \/ enrichRows[o].state = "failed"
                     \/ enrichRows[o].state = "complete" /\ enrichRows[o].source # sites[o]
  IN  /\ usable /\ \E o \in Observations : again(o)
      /\ enrichRows' = [o \in Observations |->
           IF again(o) THEN [NoRow EXCEPT !.state = "pending", !.due = TRUE, !.source = sites[o],
                                          !.result = enrichRows[o].result]
           ELSE enrichRows[o]]
      /\ UNCHANGED <<sites, usable, enrichers>>

----------------------------------------------------------------------------
(* What happens around it.                                                 *)

(* The task instance dies, or runs out of its minute. *)
EnricherDies(w) ==
  /\ enrichers[w] # Idle
  /\ enrichers' = [enrichers EXCEPT ![w] = Idle]
  /\ UNCHANGED <<sites, usable, enrichRows>>

(* Ninety seconds, or the back-off, pass. *)
LeaseRunsOut(o) ==
  /\ enrichRows[o].live
  /\ enrichRows' = [enrichRows EXCEPT ![o].live = FALSE]
  /\ UNCHANGED <<sites, usable, enrichers>>

BecomesDue(o) ==
  /\ enrichRows[o].state = "pending" /\ ~enrichRows[o].due
  /\ enrichRows' = [enrichRows EXCEPT ![o].due = TRUE]
  /\ UNCHANGED <<sites, usable, enrichers>>

(* A later callback of the run changes the observation, or it is deleted. *)
SiteChanges(o, content) ==
  /\ ~Deleted(o) /\ content # sites[o]
  /\ sites' = [sites EXCEPT ![o] = content]
  /\ UNCHANGED <<usable, enrichRows, enrichers>>

(* The project is paused, or resumed. *)
UsableChanges ==
  /\ usable' = ~usable
  /\ UNCHANGED <<sites, enrichRows, enrichers>>

EnricherStep(w) ==
  \/ seedNetworkEnrichment(w) \/ claimNetworkEnrichment(w) \/ FinishInvalid(w)
  \/ enrichNetwork(w) \/ EnrichWebNetwork(w) \/ EnricherDies(w)

EnrichmentNext ==
  \/ \E w \in EnrichWorkers : EnricherStep(w)
  \/ RetryNetworkEnrichment \/ UsableChanges
  \/ \E o \in Observations :
       LeaseRunsOut(o) \/ BecomesDue(o) \/ \E c \in Contents \cup {NoContent} : SiteChanges(o, c)

EnrichmentSpec == EnrichmentInit /\ [][EnrichmentNext]_enrichmentVars

----------------------------------------------------------------------------
(* Properties.                                                             *)

(* Every variable has its type; no row is tried more often than allowed. *)
EnrichmentTypeOK ==
  /\ \A o \in Observations :
       /\ sites[o] \in Contents \cup {NoContent}
       /\ enrichRows[o].state \in {"none", "pending", "running", "failed", "complete"}
       /\ enrichRows[o].attempts \in 0..EnrichMax
       /\ enrichRows[o].token \in EnrichWorkers \cup {""}
  /\ \A w \in EnrichWorkers : enrichers[w].pc \in {"idle", "claim", "ask", "finish"}

(* A completed row describes the content it is filed under: however task   *)
(* instances overlap, outlive their leases, or a retry takes a row from    *)
(* one, no answer about an earlier content is shown for a later one (the   *)
(* token and the source hash of finishNetworkEnrichment).                  *)
EnrichedFromSource ==
  \A o \in Observations :
    enrichRows[o].state = "complete" => enrichRows[o].result.of = enrichRows[o].source

=============================================================================
