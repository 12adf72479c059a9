--------------------------- MODULE DiscoveryProofs ---------------------------
(***************************************************************************)
(* Proofs about the services around a discovery run: network enrichment,   *)
(* engine settings and projects, and the plan of a dispatch, for any       *)
(* number of workers, administrators, runs and targets; and all services   *)
(* around a run at once.                                                   *)
(***************************************************************************)
EXTENDS MCDiscovery, FactsProofs, FiniteSetTheorems, TLAPS

-----------------------------------------------------------------------------
(* Network enrichment.                                                     *)

SiteContents == Contents \cup {NoContent}

EnrichResults == {NoResult} \cup UNION {Answers(c) : c \in SiteContents}

EnrichRow ==
  [state : {"none", "pending", "running", "failed", "complete"}, attempts : 0..EnrichMax,
   token : EnrichWorkers \cup {""}, live : BOOLEAN, due : BOOLEAN, source : SiteContents,
   result : EnrichResults]

EnrichItem ==
  [id : Observations, raw : SiteContents, attempts : 0..EnrichMax, answer : EnrichResults,
   problem : {"none", "transient", "permanent"}]

Enricher == [pc : {"idle", "claim", "ask", "finish"}, work : SUBSET EnrichItem]

EnrichTypes ==
  /\ sites \in [Observations -> SiteContents] /\ usable \in BOOLEAN
  /\ enrichRows \in [Observations -> EnrichRow]
  /\ enrichers \in [EnrichWorkers -> Enricher]

(* What an item of a worker's batch says is about the content the worker   *)
(* read, and so is the row, for as long as the worker holds its lease.     *)
ItemFits(w, x) ==
  /\ enrichers[w].pc \in {"ask", "finish"}
  /\ enrichers[w].pc = "ask" => x.problem = "none"
  /\ enrichers[w].pc = "finish" /\ x.problem = "none" => x.answer \in Answers(x.raw)
  /\ enrichRows[x.id].state = "running" /\ enrichRows[x.id].token = w /\ enrichRows[x.id].live
       => enrichRows[x.id].source = x.raw

ItemsFit == \A w \in EnrichWorkers : \A x \in enrichers[w].work : ItemFits(w, x)

EnrichInv == EnrichTypes /\ ItemsFit /\ EnrichedFromSource

(* Baiyan's answer names the content it was asked about. *)
LEMMA AnswerIsOf ==
  ASSUME NEW c, NEW a \in Answers(c) PROVE a.of = c
<1>1. PICK i \in LookupOutcomes, n \in LookupOutcomes, ips \in AddressSets, cnames \in AliasSets :
        a = enrich(c, i, n, ips, cnames)
  BY DEF Answers
<1>2. \A f, g, h : [of |-> c, status |-> f, found |-> g].of = c /\ [of |-> c, found |-> g, status |-> h].of = c
  OBVIOUS
<1> QED
  BY <1>1, <1>2 DEF enrich

(* A row that is queued for a content has the type of a row. *)
LEMMA QueuedRow ==
  ASSUME NEW c \in SiteContents, NEW q \in EnrichResults
  PROVE  LET new == [NoRow EXCEPT !.state = "pending", !.due = TRUE, !.source = c]
             again == [NoRow EXCEPT !.state = "pending", !.due = TRUE, !.source = c, !.result = q]
         IN  /\ new \in EnrichRow /\ new.state = "pending"
             /\ again \in EnrichRow /\ again.state = "pending"
<1>1. NoRow \in EnrichRow
  BY EnrichmentAssumption DEF NoRow, EnrichRow, SiteContents, EnrichResults
<1> QED
  BY <1>1 DEF EnrichRow

LEMMA EnrichInit == EnrichmentInit => EnrichInv
<1> SUFFICES ASSUME EnrichmentInit PROVE EnrichInv
  OBVIOUS
<1>1. NoRow \in EnrichRow
  BY EnrichmentAssumption DEF NoRow, EnrichRow, SiteContents, EnrichResults
<1>2. Idle \in Enricher
  BY DEF Idle, Enricher
<1>3. EnrichTypes
  BY <1>1, <1>2 DEF EnrichmentInit, EnrichTypes, SiteContents
<1>4. ItemsFit
  BY DEF EnrichmentInit, ItemsFit, Idle
<1>5. EnrichedFromSource
  BY DEF EnrichmentInit, EnrichedFromSource, NoRow
<1> QED
  BY <1>3, <1>4, <1>5 DEF EnrichInv

(* A row that a worker writes, or that a sweep changes, stays a row. *)
LEMMA SweptRow ==
  ASSUME EnrichTypes, NEW o \in Observations
  PROVE  LET r == enrichRows[o]
             s == FailExhausted(FailStale(o))
         IN  /\ s \in EnrichRow
             /\ s.state = "failed" \/ s = r
             /\ s.state \in {"pending", "running"} => s = r /\ s.source = sites[o]
<1> DEFINE r == enrichRows[o]
           f == FailStale(o)
<1>1. r \in EnrichRow
  BY DEF EnrichTypes
<1>2. /\ f \in EnrichRow
      /\ f.state = "failed" \/ f = r
      /\ f.state \in {"pending", "running"} => f = r /\ f.source = sites[o]
  BY <1>1 DEF FailStale, EnrichRow
<1> HIDE DEF f
<1>3. FailExhausted(f) \in EnrichRow /\ (FailExhausted(f) = f \/ FailExhausted(f).state = "failed")
  BY <1>2 DEF FailExhausted, EnrichRow
<1> QED
  BY <1>1, <1>2, <1>3 DEF f

(* Writing an outcome keeps the invariant: the row takes an answer only    *)
(* under the worker's lease, and that answer is about the row's content.   *)
LEMMA FinishKeeps ==
  ASSUME EnrichInv, NEW w \in EnrichWorkers, NEW y \in EnrichItem, finishNetworkEnrichment(w, y),
         y.problem = "none" => y.answer \in Answers(y.raw),
         enrichRows[y.id].state = "running" /\ enrichRows[y.id].token = w /\ enrichRows[y.id].live
           => enrichRows[y.id].source = y.raw
  PROVE  EnrichInv'
<1> DEFINE state == IF y.problem = "none" /\ y.answer.status # "failed" THEN "complete"
                    ELSE IF y.problem = "permanent" \/ y.attempts >= EnrichMax THEN "failed" ELSE "pending"
           others == {x \in enrichers[w].work : x.id # y.id}
           done(r) == [r EXCEPT !.state = state, !.result = y.answer, !.token = "", !.live = FALSE, !.due = FALSE]
           lost(r) == [r EXCEPT !.state = "failed", !.token = ""]
           held(o) == o = y.id /\ enrichRows[o].state = "running" /\ enrichRows[o].token = w /\ enrichRows[o].live
<1>0. EnrichTypes /\ ItemsFit /\ EnrichedFromSource
  BY DEF EnrichInv
<1>1. /\ enrichRows' = [o \in Observations |->
            IF held(o) /\ enrichRows[o].source = sites[o] /\ usable THEN done(enrichRows[o])
            ELSE IF held(o) THEN lost(enrichRows[o]) ELSE enrichRows[o]]
      /\ enrichers' = [enrichers EXCEPT ![w] = IF others = {} THEN Idle ELSE [enrichers[w] EXCEPT !.work = others]]
      /\ UNCHANGED <<sites, usable>>
  BY DEF finishNetworkEnrichment, WriteOutcome
<1>2. state \in {"complete", "failed", "pending"} /\ (state = "complete" => y.problem = "none")
  OBVIOUS
<1> HIDE DEF state
<1>3. ASSUME NEW r \in EnrichRow
      PROVE  /\ done(r) \in EnrichRow /\ done(r).state = state /\ done(r).result = y.answer /\ done(r).source = r.source
             /\ lost(r) \in EnrichRow /\ lost(r).state = "failed"
  BY <1>2 DEF EnrichRow, EnrichItem
<1> HIDE DEF done, lost, held
<1>4. \A o \in Observations :
        /\ enrichRows[o] \in EnrichRow /\ enrichRows'[o] \in EnrichRow
        /\ \/ enrichRows'[o] = enrichRows[o]
           \/ enrichRows'[o] = lost(enrichRows[o])
           \/ held(o) /\ enrichRows'[o] = done(enrichRows[o])
  BY <1>0, <1>1, <1>3 DEF EnrichTypes
<1>5. enrichRows' \in [Observations -> EnrichRow]
  BY <1>1, <1>4
<1>6. enrichers' \in [EnrichWorkers -> Enricher]
  <2>1. Idle \in Enricher
    BY DEF Idle, Enricher
  <2>2. [enrichers[w] EXCEPT !.work = others] \in Enricher
    BY <1>0 DEF EnrichTypes, Enricher
  <2> QED
    BY <1>0, <1>1, <2>1, <2>2 DEF EnrichTypes
<1>7. ASSUME NEW v \in EnrichWorkers, NEW x \in enrichers'[v].work
      PROVE  x \in enrichers[v].work /\ enrichers'[v].pc = enrichers[v].pc
  BY <1>0, <1>1 DEF EnrichTypes, Enricher, Idle
<1>8. ItemsFit'
  <2> SUFFICES ASSUME NEW v \in EnrichWorkers, NEW x \in enrichers'[v].work PROVE ItemFits(v, x)'
    BY DEF ItemsFit
  <2>1. ItemFits(v, x) /\ x.id \in Observations /\ enrichers'[v].pc = enrichers[v].pc
    BY <1>0, <1>7 DEF ItemsFit, EnrichTypes, Enricher, EnrichItem
  <2>2. enrichRows'[x.id].state = "running" => enrichRows'[x.id] = enrichRows[x.id]
    BY <1>2, <1>3, <1>4, <2>1
  <2> QED
    BY <2>1, <2>2 DEF ItemFits
<1>9. EnrichedFromSource'
  <2> SUFFICES ASSUME NEW o \in Observations, enrichRows'[o].state = "complete"
               PROVE  enrichRows'[o].result.of = enrichRows'[o].source
    BY DEF EnrichedFromSource
  <2>1. CASE enrichRows'[o] = enrichRows[o]
    BY <1>0, <2>1 DEF EnrichedFromSource
  <2>2. CASE held(o) /\ enrichRows'[o] = done(enrichRows[o])
    <3>1. state = "complete" /\ y.answer \in Answers(y.raw) /\ enrichRows[o].source = y.raw
      BY <1>2, <1>3, <1>4, <2>2 DEF held
    <3> QED
      BY <1>3, <1>4, <2>2, <3>1, AnswerIsOf
  <2> QED
    BY <1>3, <1>4, <2>1, <2>2
<1> QED
  BY <1>0, <1>1, <1>5, <1>6, <1>8, <1>9 DEF EnrichInv, EnrichTypes

LEMMA EnrichStep == EnrichInv /\ [EnrichmentNext]_enrichmentVars => EnrichInv'
<1> SUFFICES ASSUME EnrichInv, [EnrichmentNext]_enrichmentVars PROVE EnrichInv'
  OBVIOUS
<1> USE EnrichmentAssumption
<1>0. EnrichTypes /\ ItemsFit /\ EnrichedFromSource
  BY DEF EnrichInv
<1>1. ASSUME NEW w \in EnrichWorkers, seedNetworkEnrichment(w) PROVE EnrichInv'
  <2> DEFINE new(o) == [NoRow EXCEPT !.state = "pending", !.due = TRUE, !.source = sites[o]]
  <2>1. ASSUME NEW o \in Observations
        PROVE  new(o) \in EnrichRow /\ new(o).state = "pending"
    <3>1. sites[o] \in SiteContents /\ NoResult \in EnrichResults
      BY <1>0 DEF EnrichTypes, EnrichResults
    <3> QED
      BY <3>1, QueuedRow
  <2> HIDE DEF new
  <2>2. \A o \in Observations : enrichRows'[o] = enrichRows[o] \/ enrichRows'[o] = new(o)
    BY <1>1 DEF seedNetworkEnrichment, new
  <2>3. enrichRows' \in [Observations -> EnrichRow]
    <3>1. enrichRows' = [o \in Observations |-> enrichRows'[o]]
      BY <1>1 DEF seedNetworkEnrichment
    <3> QED
      BY <1>0, <2>1, <2>2, <3>1 DEF EnrichTypes
  <2>4. enrichers' \in [EnrichWorkers -> Enricher] /\ enrichers'[w].work = enrichers[w].work
        /\ \A v \in EnrichWorkers : v # w => enrichers'[v] = enrichers[v]
    BY <1>0, <1>1 DEF EnrichTypes, Enricher, seedNetworkEnrichment
  <2>5. enrichers[w].work = {}
    BY <1>0, <1>1 DEF ItemsFit, ItemFits, seedNetworkEnrichment, EnrichTypes, Enricher
  <2>6. ItemsFit'
    <3> SUFFICES ASSUME NEW v \in EnrichWorkers, NEW x \in enrichers'[v].work PROVE ItemFits(v, x)'
      BY DEF ItemsFit
    <3>1. v # w /\ enrichers'[v] = enrichers[v]
      BY <2>4, <2>5
    <3>2. ItemFits(v, x) /\ x.id \in Observations
      BY <1>0, <3>1 DEF ItemsFit, EnrichTypes, Enricher, EnrichItem
    <3>3. enrichRows'[x.id].state = "running" => enrichRows'[x.id] = enrichRows[x.id]
      BY <2>1, <2>2, <3>2
    <3> QED
      BY <3>1, <3>2, <3>3 DEF ItemFits
  <2>7. EnrichedFromSource'
    BY <1>0, <2>1, <2>2 DEF EnrichedFromSource
  <2> QED
    BY <1>0, <1>1, <2>3, <2>4, <2>6, <2>7 DEF EnrichInv, EnrichTypes, seedNetworkEnrichment
<1>2. ASSUME NEW w \in EnrichWorkers, claimNetworkEnrichment(w) PROVE EnrichInv'
  <2> DEFINE swept == [o \in Observations |-> FailExhausted(FailStale(o))]
             due == {o \in Observations : Due(swept[o]) /\ usable /\ ~Deleted(o)}
             item(o) == [NoWork EXCEPT !.id = o, !.raw = sites[o], !.attempts = swept[o].attempts + 1]
             taken(o) == [swept[o] EXCEPT !.state = "running", !.attempts = swept[o].attempts + 1,
                                          !.token = w, !.live = TRUE]
  <2>1. PICK batch \in SUBSET due :
          /\ enrichRows' = [o \in Observations |-> IF o \in batch THEN taken(o) ELSE swept[o]]
          /\ enrichers' = [enrichers EXCEPT ![w] =
               IF batch = {} THEN Idle ELSE [pc |-> "ask", work |-> {item(o) : o \in batch}]]
    <3>1. PICK b \in {{}} \cup {{o \in due : EnrichVersion[o] = EnrichVersion[f]} : f \in due} :
          /\ enrichRows' = [o \in Observations |-> IF o \in b THEN taken(o) ELSE swept[o]]
          /\ enrichers' = [enrichers EXCEPT ![w] =
               IF b = {} THEN Idle ELSE [pc |-> "ask", work |-> {item(o) : o \in b}]]
      BY <1>2 DEF claimNetworkEnrichment
    <3>2. b \in SUBSET due
      OBVIOUS
    <3> QED
      BY <3>1, <3>2
  <2>2. ASSUME NEW o \in Observations
        PROVE  /\ swept[o] \in EnrichRow
               /\ swept[o].state = "failed" \/ swept[o] = enrichRows[o]
               /\ swept[o].state \in {"pending", "running"} => swept[o] = enrichRows[o] /\ swept[o].source = sites[o]
    BY <1>0, SweptRow
  <2>3. ASSUME NEW o \in due
        PROVE  /\ o \in Observations
               /\ swept[o].state \in {"pending", "running"} /\ swept[o].attempts + 1 \in 0..EnrichMax
               /\ swept[o].state = "running" => ~swept[o].live
    <3>1. o \in Observations /\ Due(swept[o])
      OBVIOUS
    <3>2. swept[o] \in EnrichRow
      BY <2>2, <3>1
    <3> HIDE DEF swept
    <3>3. swept[o].attempts \in 0..EnrichMax /\ swept[o].attempts < EnrichMax
      BY <3>1, <3>2 DEF Due, EnrichRow
    <3>4. swept[o].state \in {"pending", "running"} /\ (swept[o].state = "running" => ~swept[o].live)
      BY <3>1 DEF Due
    <3> QED
      BY <3>1, <3>3, <3>4
  <2> HIDE DEF swept, due
  <2>4. ASSUME NEW o \in due
        PROVE  /\ taken(o) \in EnrichRow /\ taken(o).token = w /\ taken(o).state = "running"
               /\ taken(o).source = sites[o]
               /\ item(o) \in EnrichItem /\ item(o).id = o /\ item(o).raw = sites[o] /\ item(o).problem = "none"
    <3> DEFINE q == swept[o]
               n == q.attempts + 1
    <3>1. /\ q \in EnrichRow /\ n \in 0..EnrichMax /\ q.source = sites[o] /\ sites[o] \in SiteContents
          /\ o \in Observations /\ NoResult \in EnrichResults
      BY <1>0, <2>2, <2>3 DEF EnrichTypes, EnrichResults
    <3> HIDE DEF q, n
    <3>2. [q EXCEPT !.state = "running", !.attempts = n, !.token = w, !.live = TRUE] \in EnrichRow
          /\ [q EXCEPT !.state = "running", !.attempts = n, !.token = w, !.live = TRUE].token = w
          /\ [q EXCEPT !.state = "running", !.attempts = n, !.token = w, !.live = TRUE].state = "running"
          /\ [q EXCEPT !.state = "running", !.attempts = n, !.token = w, !.live = TRUE].source = q.source
      BY <3>1 DEF EnrichRow
    <3>3. NoWork \in [id : {0}, raw : {NoContent}, attempts : {0}, answer : {NoResult}, problem : {"none"}]
      BY DEF NoWork
    <3>4. /\ [NoWork EXCEPT !.id = o, !.raw = sites[o], !.attempts = n] \in EnrichItem
          /\ [NoWork EXCEPT !.id = o, !.raw = sites[o], !.attempts = n].id = o
          /\ [NoWork EXCEPT !.id = o, !.raw = sites[o], !.attempts = n].raw = sites[o]
          /\ [NoWork EXCEPT !.id = o, !.raw = sites[o], !.attempts = n].problem = "none"
      BY <3>1, <3>3 DEF EnrichItem
    <3> QED
      BY <3>1, <3>2, <3>4 DEF q, n
  <2> HIDE DEF taken, item
  <2>5. enrichRows' \in [Observations -> EnrichRow]
    BY <2>1, <2>2, <2>4
  <2>6. enrichers' \in [EnrichWorkers -> Enricher]
    <3>1. Idle \in Enricher
      BY DEF Idle, Enricher
    <3>2. [pc |-> "ask", work |-> {item(o) : o \in batch}] \in Enricher
      BY <2>4 DEF Enricher
    <3> QED
      BY <1>0, <2>1, <3>1, <3>2 DEF EnrichTypes
  <2>7. ItemsFit'
    <3> SUFFICES ASSUME NEW v \in EnrichWorkers, NEW x \in enrichers'[v].work PROVE ItemFits(v, x)'
      BY DEF ItemsFit
    <3>1. CASE v = w
      <4>1. enrichers'[w] = IF batch = {} THEN Idle ELSE [pc |-> "ask", work |-> {item(o) : o \in batch}]
        BY <1>0, <2>1 DEF EnrichTypes
      <4>2. batch # {} /\ enrichers'[w] = [pc |-> "ask", work |-> {item(o) : o \in batch}]
        BY <3>1, <4>1 DEF Idle
      <4>3. PICK o \in batch : x = item(o)
        BY <3>1, <4>2
      <4>4. o \in due /\ o \in Observations /\ enrichRows'[o] = taken(o)
        BY <2>1, <2>3
      <4> QED
        BY <2>4, <3>1, <4>2, <4>3, <4>4 DEF ItemFits
    <3>2. CASE v # w
      <4>1. enrichers'[v] = enrichers[v]
        BY <1>0, <2>1, <3>2 DEF EnrichTypes
      <4>2. ItemFits(v, x) /\ x.id \in Observations
        BY <1>0, <4>1 DEF ItemsFit, EnrichTypes, Enricher, EnrichItem
      <4>3. enrichRows'[x.id].state = "running" /\ enrichRows'[x.id].token = v
              => enrichRows'[x.id] = enrichRows[x.id]
        BY <2>1, <2>2, <2>4, <3>2, <4>2
      <4> QED
        BY <4>1, <4>2, <4>3 DEF ItemFits
    <3> QED
      BY <3>1, <3>2
  <2>8. EnrichedFromSource'
    BY <1>0, <2>1, <2>2, <2>4 DEF EnrichedFromSource
  <2> QED
    BY <1>0, <1>2, <2>5, <2>6, <2>7, <2>8 DEF EnrichInv, EnrichTypes, claimNetworkEnrichment
<1>3. ASSUME NEW w \in EnrichWorkers, FinishInvalid(w) PROVE EnrichInv'
  <2>1. PICK x \in enrichers[w].work : finishNetworkEnrichment(w, [x EXCEPT !.problem = "permanent"])
    BY <1>3 DEF FinishInvalid
  <2> DEFINE y == [x EXCEPT !.problem = "permanent"]
  <2>2. x \in EnrichItem /\ ItemFits(w, x)
    BY <1>0 DEF EnrichTypes, Enricher, ItemsFit
  <2>3. y \in EnrichItem /\ y.problem = "permanent" /\ y.id = x.id /\ y.raw = x.raw
    BY <2>2 DEF EnrichItem
  <2> HIDE DEF y
  <2>4. finishNetworkEnrichment(w, y)
    BY <2>1 DEF y
  <2> QED
    BY <2>2, <2>3, <2>4, FinishKeeps DEF ItemFits
<1>4. ASSUME NEW w \in EnrichWorkers, EnrichWebNetwork(w) PROVE EnrichInv'
  <2>1. PICK x \in enrichers[w].work : finishNetworkEnrichment(w, x)
    BY <1>4 DEF EnrichWebNetwork
  <2>2. x \in EnrichItem /\ ItemFits(w, x) /\ enrichers[w].pc = "finish"
    BY <1>0, <1>4 DEF EnrichTypes, Enricher, ItemsFit, EnrichWebNetwork
  <2> QED
    BY <2>1, <2>2, FinishKeeps DEF ItemFits
<1>5. ASSUME NEW w \in EnrichWorkers, enrichNetwork(w) PROVE EnrichInv'
  <2> DEFINE e == enrichers[w]
             none(x, p) == [x EXCEPT !.problem = p]
             said(x, b) == [x EXCEPT !.answer = b]
  <2>1. e.pc = "ask" /\ UNCHANGED <<sites, usable, enrichRows>>
    BY <1>5 DEF enrichNetwork
  <2>2. PICK work \in SUBSET EnrichItem :
          /\ enrichers' = [enrichers EXCEPT ![w] = [pc |-> "finish", work |-> work]]
          /\ \A y \in work : \E x \in e.work :
               y.id = x.id /\ y.raw = x.raw /\ (y.problem = "none" => y.answer \in Answers(y.raw))
    <3>1. ASSUME NEW x \in e.work, NEW p \in {"transient", "permanent"}
          PROVE  none(x, p) \in EnrichItem /\ none(x, p).id = x.id /\ none(x, p).raw = x.raw /\ none(x, p).problem = p
      BY <1>0 DEF EnrichTypes, Enricher, EnrichItem
    <3>2. ASSUME NEW x \in e.work, NEW b \in Answers(x.raw)
          PROVE  said(x, b) \in EnrichItem /\ said(x, b).id = x.id /\ said(x, b).raw = x.raw /\ said(x, b).answer = b
      <4>1. x \in EnrichItem
        BY <1>0 DEF EnrichTypes, Enricher
      <4>2. b \in EnrichResults
        BY <4>1 DEF EnrichItem, EnrichResults
      <4> QED
        BY <4>1, <4>2 DEF EnrichItem
    <3> HIDE DEF none, said
    <3>3. CASE \E p \in {"transient", "permanent"} :
                 enrichers' = [enrichers EXCEPT ![w] = [pc |-> "finish", work |-> {none(x, p) : x \in e.work}]]
      <4>1. PICK p \in {"transient", "permanent"} :
               enrichers' = [enrichers EXCEPT ![w] = [pc |-> "finish", work |-> {none(x, p) : x \in e.work}]]
        BY <3>3
      <4>2. {none(x, p) : x \in e.work} \in SUBSET EnrichItem
        BY <3>1
      <4> WITNESS {none(x, p) : x \in e.work} \in SUBSET EnrichItem
      <4> QED
        BY <3>1, <4>1
    <3>4. CASE \E a \in [e.work -> UNION {Answers(x.raw) : x \in e.work}] :
                 /\ \A x \in e.work : a[x] \in Answers(x.raw)
                 /\ enrichers' = [enrichers EXCEPT ![w] = [pc |-> "finish", work |-> {said(x, a[x]) : x \in e.work}]]
      <4>1. PICK a : /\ \A x \in e.work : a[x] \in Answers(x.raw)
                     /\ enrichers' = [enrichers EXCEPT ![w] =
                          [pc |-> "finish", work |-> {said(x, a[x]) : x \in e.work}]]
        BY <3>4
      <4>2. {said(x, a[x]) : x \in e.work} \in SUBSET EnrichItem
        BY <3>2, <4>1
      <4> WITNESS {said(x, a[x]) : x \in e.work} \in SUBSET EnrichItem
      <4> QED
        BY <3>2, <4>1
    <3> QED
      BY <1>5, <3>3, <3>4 DEF enrichNetwork, none, said
  <2>3. enrichers' \in [EnrichWorkers -> Enricher]
    BY <1>0, <2>2 DEF EnrichTypes, Enricher
  <2>4. ItemsFit'
    <3> SUFFICES ASSUME NEW v \in EnrichWorkers, NEW y \in enrichers'[v].work PROVE ItemFits(v, y)'
      BY DEF ItemsFit
    <3>1. CASE v = w
      <4>1. enrichers'[w].pc = "finish" /\ y \in work
        BY <1>0, <2>2, <3>1 DEF EnrichTypes
      <4>2. PICK x \in e.work : y.id = x.id /\ y.raw = x.raw /\ (y.problem = "none" => y.answer \in Answers(y.raw))
        BY <2>2, <4>1
      <4>3. ItemFits(w, x)
        BY <1>0 DEF ItemsFit
      <4> QED
        BY <2>1, <3>1, <4>1, <4>2, <4>3 DEF ItemFits
    <3>2. CASE v # w
      <4>1. enrichers'[v] = enrichers[v]
        BY <1>0, <2>2, <3>2 DEF EnrichTypes
      <4> QED
        BY <1>0, <2>1, <4>1 DEF ItemsFit, ItemFits
    <3> QED
      BY <3>1, <3>2
  <2> QED
    BY <1>0, <2>1, <2>3, <2>4 DEF EnrichInv, EnrichTypes, EnrichedFromSource
<1>6. ASSUME NEW w \in EnrichWorkers, EnricherDies(w) PROVE EnrichInv'
  <2>1. enrichers' \in [EnrichWorkers -> Enricher]
    BY <1>0, <1>6 DEF EnrichTypes, Enricher, EnricherDies, Idle
  <2>2. ASSUME NEW v \in EnrichWorkers, NEW x \in enrichers'[v].work
        PROVE  enrichers'[v] = enrichers[v]
    BY <1>0, <1>6 DEF EnrichTypes, EnricherDies, Idle
  <2>3. ItemsFit'
    BY <1>0, <1>6, <2>2 DEF ItemsFit, ItemFits, EnricherDies
  <2> QED
    BY <1>0, <1>6, <2>1, <2>3 DEF EnrichInv, EnrichTypes, EnrichedFromSource, EnricherDies
<1>7. ASSUME RetryNetworkEnrichment PROVE EnrichInv'
  <2> DEFINE new(o) == [NoRow EXCEPT !.state = "pending", !.due = TRUE, !.source = sites[o],
                                     !.result = enrichRows[o].result]
  <2>1. ASSUME NEW o \in Observations
        PROVE  new(o) \in EnrichRow /\ new(o).state = "pending"
    <3>1. sites[o] \in SiteContents /\ enrichRows[o].result \in EnrichResults
      BY <1>0 DEF EnrichTypes, EnrichRow
    <3> QED
      BY <3>1, QueuedRow
  <2> HIDE DEF new
  <2>2. \A o \in Observations : enrichRows'[o] = enrichRows[o] \/ enrichRows'[o] = new(o)
    BY <1>7 DEF RetryNetworkEnrichment, new
  <2>3. enrichRows' \in [Observations -> EnrichRow]
    <3>1. enrichRows' = [o \in Observations |-> enrichRows'[o]]
      BY <1>7 DEF RetryNetworkEnrichment
    <3> QED
      BY <1>0, <2>1, <2>2, <3>1 DEF EnrichTypes
  <2>4. ItemsFit'
    <3> SUFFICES ASSUME NEW v \in EnrichWorkers, NEW x \in enrichers[v].work PROVE ItemFits(v, x)'
      BY <1>7 DEF ItemsFit, RetryNetworkEnrichment
    <3>1. ItemFits(v, x) /\ x.id \in Observations
      BY <1>0 DEF ItemsFit, EnrichTypes, Enricher, EnrichItem
    <3>2. enrichRows'[x.id].state = "running" => enrichRows'[x.id] = enrichRows[x.id]
      BY <2>1, <2>2, <3>1
    <3> QED
      BY <1>7, <3>1, <3>2 DEF ItemFits, RetryNetworkEnrichment
  <2>5. EnrichedFromSource'
    BY <1>0, <2>1, <2>2 DEF EnrichedFromSource
  <2> QED
    BY <1>0, <1>7, <2>3, <2>4, <2>5 DEF EnrichInv, EnrichTypes, RetryNetworkEnrichment
<1>8. ASSUME NEW o \in Observations, LeaseRunsOut(o) \/ BecomesDue(o) PROVE EnrichInv'
  <2> DEFINE r == enrichRows[o]
             s == enrichRows'[o]
  <2>1. /\ s \in EnrichRow /\ s.state = r.state /\ s.token = r.token /\ s.source = r.source /\ s.result = r.result
        /\ s.live => r.live
        /\ \A n \in Observations : n # o => enrichRows'[n] = enrichRows[n]
        /\ enrichRows' \in [Observations -> EnrichRow]
    <3>1. r \in EnrichRow /\ enrichRows \in [Observations -> EnrichRow]
      BY <1>0 DEF EnrichTypes
    <3>2. PICK n \in {[r EXCEPT !.live = FALSE], [r EXCEPT !.due = TRUE]} :
            enrichRows' = [enrichRows EXCEPT ![o] = n]
      BY <1>8 DEF LeaseRunsOut, BecomesDue
    <3>3. /\ n \in EnrichRow /\ n.state = r.state /\ n.token = r.token /\ n.source = r.source /\ n.result = r.result
          /\ n.live => r.live
      BY <3>1, <3>2 DEF EnrichRow
    <3>4. s = n
      BY <3>1, <3>2
    <3> HIDE DEF r, s
    <3> QED
      BY <3>1, <3>2, <3>3, <3>4
  <2>2. UNCHANGED <<sites, usable, enrichers>>
    BY <1>8 DEF LeaseRunsOut, BecomesDue
  <2>3. ItemsFit'
    <3> SUFFICES ASSUME NEW v \in EnrichWorkers, NEW x \in enrichers[v].work PROVE ItemFits(v, x)'
      BY <2>2 DEF ItemsFit
    <3>1. ItemFits(v, x) /\ x.id \in Observations
      BY <1>0 DEF ItemsFit, EnrichTypes, Enricher, EnrichItem
    <3> QED
      BY <2>1, <2>2, <3>1 DEF ItemFits
  <2>4. EnrichedFromSource'
    BY <1>0, <2>1 DEF EnrichedFromSource
  <2> QED
    BY <1>0, <2>1, <2>2, <2>3, <2>4 DEF EnrichInv, EnrichTypes
<1>9. ASSUME NEW o \in Observations, NEW c \in Contents \cup {NoContent}, SiteChanges(o, c) PROVE EnrichInv'
  BY <1>0, <1>9 DEF SiteChanges, EnrichInv, EnrichTypes, SiteContents, ItemsFit, ItemFits, EnrichedFromSource
<1>10. CASE UsableChanges
  BY <1>0, <1>10 DEF UsableChanges, EnrichInv, EnrichTypes, ItemsFit, ItemFits, EnrichedFromSource
<1>11. CASE UNCHANGED enrichmentVars
  BY <1>0, <1>11 DEF enrichmentVars, EnrichInv, EnrichTypes, ItemsFit, ItemFits, EnrichedFromSource
<1> QED
  BY <1>1, <1>2, <1>3, <1>4, <1>5, <1>6, <1>7, <1>8, <1>9, <1>10, <1>11 DEF EnrichmentNext, EnricherStep

(* A completed enrichment describes the content it is filed under, for     *)
(* any number of observations and of workers that overlap, outlive their   *)
(* leases and die (the lease token and the source hash of                  *)
(* finishNetworkEnrichment).                                               *)
THEOREM AnswersAreOfTheirSource == EnrichmentSpec => []EnrichedFromSource
<1>1. EnrichInv => EnrichedFromSource
  BY DEF EnrichInv
<1> QED
  BY EnrichInit, EnrichStep, <1>1, PTL DEF EnrichmentSpec

(* Every variable of the enrichment queue has its type, and no row is      *)
(* claimed more often than the attempts allow (claimNetworkEnrichment).    *)
THEOREM EnrichmentTypeCorrect == EnrichmentSpec => []EnrichmentTypeOK
<1>1. EnrichInv => EnrichmentTypeOK
  BY DEF EnrichInv, EnrichTypes, EnrichmentTypeOK, EnrichRow, Enricher, SiteContents
<1> QED
  BY EnrichInit, EnrichStep, <1>1, PTL DEF EnrichmentSpec

-----------------------------------------------------------------------------
(* Scopes, templates and the plan of a dispatch.                           *)

(* What validation, or the evidence of a run, leaves in a scope. *)
TargetFine(t) ==
  /\ t.kind \in targetTypes
  /\ t.kind = "ip" => t.host \in HostAddresses
  /\ t.kind = "cidr" => t.host \in DOMAIN BlockOf
  /\ t.rule # NoRule => 0 \notin t.rule.ports

DerivedTarget(f) ==
  [kind |-> FactTarget[f].kind, host |-> FactTarget[f].host, scheme |-> FactTarget[f].scheme,
   port |-> FactTarget[f].port, mode |-> "include", coverage |-> "exact", rule |-> NoRule]

ScopeTargets == (UNION TargetLists) \cup {DerivedTarget(f) : f \in FactIds}

ScopeRowType ==
  [status : {"none", "active", "inactive"}, from : 0..MaxScopeDay, until : 0..MaxScopeDay,
   default : BOOLEAN, rev : 0..1, targets : SUBSET ScopeTargets]

ScopesFit ==
  /\ scopeRows \in [ScopeIds -> ScopeRowType] /\ day \in 0..MaxScopeDay
  /\ \A s \in ScopeIds : \A t \in scopeRows[s].targets : TargetFine(t)

TemplateFine(t) ==
  /\ DOMAIN t = DOMAIN NoTemplate
  /\ t.status \in {"none", "enabled", "disabled", "deleted"}
  /\ t.status \in {"enabled", "disabled"} => t.scope \in ScopeIds

TemplatesFit ==
  /\ taskTemplates = [t \in TemplateIds |-> taskTemplates[t]]
  /\ \A t \in TemplateIds : TemplateFine(taskTemplates[t])

EditFits ==
  editing # NoEdit => /\ editing.template \in TemplateIds
                      /\ DOMAIN editing.before = DOMAIN NoTemplate
                      /\ editing.before.scope \in ScopeIds

BlueprintFits == pendingBlueprint # NoPending => pendingBlueprint.scope \in ScopeIds

(* What a run has taken is accounted for, and the target it is checking    *)
(* has passed the first read: the scope is in force still, or was changed. *)
RunKept(x, rows, d) ==
  /\ DOMAIN x = DOMAIN NoPlanRun
  /\ x.status \in {"none", "pending", "planning", "planned", "refused"}
  /\ x.status \in {"pending", "planning"} => x.scope \in ScopeIds
  /\ x.status # "planning" => x.checking = {}
  /\ \A c \in x.plan : c \in x.seen \/ (c \in x.torn /\ c \in x.pieces)
  /\ \A c \in x.checking : /\ c \in x.todo /\ ParsesAsTarget(c) /\ x.force
                           /\ c \in x.torn \/ ValidOn(rows[x.scope], d)

(* A planning run has been seen to authorise whatever it has still to      *)
(* check or has taken and its scope authorises now.                        *)
RunLooked(x, rows, d) ==
  x.status = "planning" =>
    LET s == rows[x.scope]
    IN  /\ ValidOn(s, d) => x.force
        /\ \A c \in x.todo \cup x.plan : /\ Authorised(s, d, c) => c \in x.seen
                                         /\ x.force /\ ListAuthorises(s, c) => c \in x.pieces

RunFine(x, rows, d) == RunKept(x, rows, d) /\ RunLooked(x, rows, d)

RunsFit ==
  /\ planRuns = [r \in PlanRuns |-> planRuns[r]]
  /\ \A r \in PlanRuns : RunFine(planRuns[r], scopeRows, day)

PlanInv == ScopesFit /\ TemplatesFit /\ EditFits /\ BlueprintFits /\ RunsFit

-----------------------------------------------------------------------------
(* A block is matched as its first address is. *)
LEMMA BlockIsDenotes ==
  ASSUME NEW t, TargetFine(t), NEW c, c.kind = "cidr", NEW b, b.kind = "ip", b.host = BlockBase[c.host]
  PROVE  matchTarget(t, c) <=> Denotes(t, b)
<1>1. IpOf(c) = {b.host} /\ DomainOf(c) = {}
  BY DEF IpOf, DomainOf
<1>2. CASE t.kind = "ip"
  BY <1>1, <1>2 DEF matchTarget, Denotes
<1>3. CASE t.kind = "cidr"
  <2>1. matchTarget(t, c) <=> IpOf(c) \cap BlockOf[t.host] # {}
    BY <1>3 DEF matchTarget
  <2>2. Denotes(t, b) <=> b.host \in BlockOf[t.host]
    BY <1>3 DEF Denotes
  <2> QED
    BY <1>1, <2>1, <2>2
<1>4. CASE t.kind = "domain"
  <2>1. ~Denotes(t, b)
    BY <1>4 DEF Denotes
  <2> QED
    BY <1>1, <1>4, <2>1 DEF matchTarget
<1>5. CASE t.kind = "company"
  BY <1>5 DEF matchTarget, Denotes
<1>6. CASE t.kind = "url" /\ t.rule = NoRule
  BY <1>6 DEF matchTarget, Denotes
<1>7. CASE t.kind = "url" /\ t.rule # NoRule
  <2>1. ~matchURLAuthorization(t, c)
    BY DEF matchURLAuthorization
  <2>2. ~Denotes(t, b)
    BY <1>7 DEF Denotes
  <2> QED
    BY <1>7, <2>1, <2>2 DEF matchTarget
<1> QED
  BY <1>2, <1>3, <1>4, <1>5, <1>6, <1>7 DEF TargetFine, targetTypes

(* The matching of scopeMatchDecision and the reference agree on every     *)
(* target that a scope can hold and every candidate that parses.           *)
LEMMA OthersAreDenoted ==
  ASSUME NEW t, TargetFine(t), NEW c, ParsesAsTarget(c), c.kind # "cidr"
  PROVE  matchTarget(t, c) <=> Denotes(t, c)
<1>1. CASE t.kind = "company"
  BY <1>1 DEF matchTarget, Denotes
<1>2. CASE t.kind = "domain"
  BY <1>2 DEF matchTarget, Denotes, DomainOf
<1>3. CASE t.kind = "ip"
  <2>1. matchTarget(t, c) <=> t.host \in IpOf(c)
    BY <1>3 DEF matchTarget
  <2>2. Denotes(t, c) <=> c.kind \in {"ip", "url"} /\ c.host = t.host
    BY <1>3 DEF Denotes
  <2> QED
    BY <1>3, <2>1, <2>2 DEF TargetFine, IpOf
<1>4. CASE t.kind = "cidr"
  <2>1. matchTarget(t, c) <=> IpOf(c) \cap BlockOf[t.host] # {}
    BY <1>4 DEF matchTarget
  <2>2. Denotes(t, c) <=> c.kind \in {"ip", "url"} /\ c.host \in BlockOf[t.host]
    BY <1>4 DEF Denotes
  <2>3. BlockOf[t.host] \subseteq HostAddresses
    BY <1>4, ScopesAssumption DEF TargetFine
  <2> QED
    BY <2>1, <2>2, <2>3 DEF IpOf
<1>5. CASE t.kind = "url" /\ t.rule = NoRule
  BY <1>5 DEF matchTarget, Denotes
<1>6. CASE t.kind = "url" /\ t.rule # NoRule
  <2> DEFINE std(x) == IF x = "https" THEN 443 ELSE 80
             port == EffectivePort(c)
             here == \/ c.host = t.host /\ t.rule.root
                     \/ <<c.host, t.host>> \in HostUnder /\ t.rule.subdomains
             fits(x, q) == /\ t.rule.protocol \in {"both", x}
                           /\ IF t.rule.ports = {} THEN q = std(x) ELSE q \in t.rule.ports
             urls == {URL(c.host, p, q) : p \in {"http", "https"}, q \in t.rule.ports \cup {80, 443}}
  <2>1. matchTarget(t, c) <=> c.kind = "url" /\ here /\ fits(c.scheme, port)
    BY <1>6 DEF matchTarget, matchURLAuthorization
  <2>2. Denotes(t, c) <=>
          /\ c.kind = "url" /\ here
          /\ \E u \in scopeURLSeeds(t, c.host) :
               c.scheme = u.scheme /\ (c.port = u.port \/ (c.port = 0 /\ u.port = std(u.scheme)))
    BY <1>6 DEF Denotes
  <2>3. scopeURLSeeds(t, c.host) = {u \in urls : fits(u.scheme, u.port)}
    BY <1>6 DEF scopeURLSeeds
  <2>4. \A p, q : URL(c.host, p, q).scheme = p /\ URL(c.host, p, q).port = q
    BY DEF URL
  <2>5. 0 \notin t.rule.ports /\ (c.kind = "url" => c.scheme \in {"http", "https"})
    BY <1>6 DEF TargetFine, ParsesAsTarget
  <2>6. port = IF c.port # 0 THEN c.port ELSE std(c.scheme)
    BY DEF EffectivePort
  <2> HIDE DEF here, port
  <2>7. ASSUME c.kind = "url", NEW u \in scopeURLSeeds(t, c.host),
               c.scheme = u.scheme, c.port = u.port \/ (c.port = 0 /\ u.port = std(u.scheme))
        PROVE  fits(c.scheme, port)
    <3>1. u \in urls /\ fits(u.scheme, u.port)
      BY <2>3, <2>7
    <3>2. u.port # 0
      BY <2>4, <2>5, <3>1
    <3>3. u.port = port
      BY <2>6, <2>7, <3>2
    <3> QED
      BY <2>7, <3>1, <3>3
  <2>8. ASSUME c.kind = "url", fits(c.scheme, port)
        PROVE  \E u \in scopeURLSeeds(t, c.host) :
                 c.scheme = u.scheme /\ (c.port = u.port \/ (c.port = 0 /\ u.port = std(u.scheme)))
    <3> DEFINE u == URL(c.host, c.scheme, port)
    <3>1. c.scheme \in {"http", "https"} /\ port \in t.rule.ports \cup {80, 443}
      BY <2>5, <2>8
    <3>2. u \in urls
      BY <3>1
    <3>3. u.scheme = c.scheme /\ u.port = port
      BY <2>4
    <3>4. u \in scopeURLSeeds(t, c.host)
      BY <2>3, <2>8, <3>2, <3>3
    <3>5. c.port = port \/ (c.port = 0 /\ port = std(c.scheme))
      BY <2>6
    <3> HIDE DEF u
    <3> QED
      BY <3>3, <3>4, <3>5
  <2> QED
    BY <2>1, <2>2, <2>7, <2>8
<1> QED
  BY <1>1, <1>2, <1>3, <1>4, <1>5, <1>6 DEF TargetFine, targetTypes

LEMMA MatchIsDenotes ==
  ASSUME NEW t, TargetFine(t), NEW c, ParsesAsTarget(c)
  PROVE  matchTarget(t, c) <=> Denotes(t, JudgedAs(c))
<1>1. CASE c.kind = "cidr"
  <2>1. JudgedAs(c).kind = "ip" /\ JudgedAs(c).host = BlockBase[c.host]
    BY <1>1 DEF JudgedAs
  <2> QED
    BY <1>1, <2>1, BlockIsDenotes
<1>2. CASE c.kind # "cidr"
  <2>1. JudgedAs(c) = c
    BY <1>2 DEF JudgedAs
  <2> QED
    BY <1>2, <2>1, OthersAreDenoted
<1> QED
  BY <1>1, <1>2

(* What the second read of IsTypedTargetAllowed lets through, the list     *)
(* authorises.                                                             *)
LEMMA AllowedIsAuthorised ==
  ASSUME ScopesFit, NEW sid \in ScopeIds, NEW c, ParsesAsTarget(c),
         scopeMatchDecision(ListScopeTargetsByScope(sid), c) = "allowed"
  PROVE  ListAuthorises(scopeRows[sid], c)
<1> DEFINE ts == scopeRows[sid].targets
<1>1. scopeMatchDecision(ts, c) = "allowed"
  BY DEF ListScopeTargetsByScope
<1>2. \A t \in ts : TargetFine(t)
  BY DEF ScopesFit
<1>3. /\ ~(\E t \in ts : t.mode = "exclude" /\ matchTarget(t, c))
      /\ \E t \in ts : t.mode = "include" /\ matchTarget(t, c)
  BY <1>1 DEF scopeMatchDecision
<1>4. \A t \in ts : matchTarget(t, c) <=> Denotes(t, JudgedAs(c))
  BY <1>2, MatchIsDenotes
<1> QED
  BY <1>3, <1>4 DEF ListAuthorises

LEMMA ScopesInitFits == ScopesInit => PlanInv
<1> SUFFICES ASSUME ScopesInit PROVE PlanInv
  OBVIOUS
<1> USE ScopesAssumption
<1>1. NoScope \in ScopeRowType /\ NoScope.targets = {}
  BY DEF NoScope, ScopeRowType
<1>2. ScopesFit
  BY <1>1 DEF ScopesInit, ScopesFit
<1>3. TemplateFine(NoTemplate)
  BY DEF TemplateFine, NoTemplate
<1>4. TemplatesFit
  BY <1>3 DEF ScopesInit, TemplatesFit
<1>5. NoPlanRun.status = "none" /\ NoPlanRun.plan = {} /\ NoPlanRun.checking = {}
  BY DEF NoPlanRun
<1>6. RunsFit
  BY <1>5 DEF ScopesInit, RunsFit, RunFine, RunKept, RunLooked
<1>7. EditFits /\ BlueprintFits
  BY DEF ScopesInit, EditFits, BlueprintFits
<1> QED
  BY <1>2, <1>4, <1>6, <1>7 DEF PlanInv

(* A row of a run after one more look at its scope. *)
LEMMA LookIsRecorded ==
  ASSUME NEW runs, NEW rows, NEW d, NEW r \in PlanRuns, RunKept(runs[r], scopeRows, day)
  PROVE  RunFine(Witnessed(runs, rows, d)[r], rows, d)
<1> DEFINE x == runs[r]
           s == rows[x.scope]
           cs == x.todo \cup x.plan
           now == x.force \/ ValidOn(s, d)
           seen == x.seen \cup {c \in cs : Authorised(s, d, c)}
           pieces == x.pieces \cup {c \in cs : now /\ ListAuthorises(s, c)}
           torn == x.torn \cup IF s = scopeRows[x.scope] /\ d = day THEN {} ELSE x.checking
           y == [x EXCEPT !.force = now, !.seen = seen, !.pieces = pieces, !.torn = torn]
<1>1. Witnessed(runs, rows, d)[r] = IF x.status = "planning" THEN y ELSE x
  BY DEF Witnessed
<1>2. CASE x.status # "planning"
  BY <1>1, <1>2 DEF RunFine, RunKept, RunLooked
<1>3. CASE x.status = "planning"
  <2>1. DOMAIN x = {"status", "template", "scope", "type", "policy", "overCap", "todo", "checking", "plan",
                    "force", "seen", "pieces", "torn"}
    BY DEF NoPlanRun, RunKept
  <2>2. /\ DOMAIN y = DOMAIN x
        /\ y.status = x.status /\ y.scope = x.scope /\ y.todo = x.todo /\ y.plan = x.plan
        /\ y.checking = x.checking
        /\ y.force = now /\ y.seen = seen /\ y.pieces = pieces /\ y.torn = torn
    <3> HIDE DEF seen, pieces, torn, now
    <3> QED
      BY <2>1
  <2> HIDE DEF y
  <2>3. RunKept(y, rows, d)
    <3>1. \A c \in y.plan : c \in y.seen \/ (c \in y.torn /\ c \in y.pieces)
      BY <2>2 DEF RunKept
    <3>2. ASSUME NEW c \in y.checking
          PROVE  /\ c \in y.todo /\ ParsesAsTarget(c) /\ y.force
                 /\ c \in y.torn \/ ValidOn(rows[y.scope], d)
      <4>1. /\ c \in x.todo /\ ParsesAsTarget(c) /\ x.force
            /\ c \in x.torn \/ ValidOn(scopeRows[x.scope], day)
        BY <2>2 DEF RunKept
      <4>2. CASE s = scopeRows[x.scope] /\ d = day
        BY <2>2, <4>1, <4>2
      <4>3. CASE ~(s = scopeRows[x.scope] /\ d = day)
        BY <2>2, <4>1, <4>3
      <4> QED
        BY <4>2, <4>3
    <3> QED
      BY <1>3, <2>2, <3>1, <3>2 DEF RunKept
  <2>4. RunLooked(y, rows, d)
    BY <2>2 DEF RunLooked
  <2> QED
    BY <1>1, <1>3, <2>3, <2>4 DEF RunFine
<1> QED
  BY <1>2, <1>3

(* Rows written together with that look keep the invariant. *)
LEMMA ScopeWriteKeeps ==
  ASSUME PlanInv, NEW rows \in [ScopeIds -> ScopeRowType],
         \A s \in ScopeIds : \A t \in rows[s].targets : TargetFine(t),
         SetScopes(rows), UNCHANGED <<taskTemplates, editing, pendingBlueprint, rest>>
  PROVE  PlanInv'
<1>1. scopeRows' = rows /\ planRuns' = Witnessed(planRuns, rows, day) /\ UNCHANGED <<taskTemplates, editing, pendingBlueprint, day>>
  BY DEF SetScopes, rest
<1>2. ScopesFit'
  BY <1>1 DEF ScopesFit, PlanInv
<1>3. RunsFit'
  <2>1. planRuns' = [r \in PlanRuns |-> planRuns'[r]]
    BY <1>1 DEF Witnessed
  <2>2. ASSUME NEW r \in PlanRuns PROVE RunFine(planRuns[r], scopeRows, day)
    BY DEF PlanInv, RunsFit
  <2>3. ASSUME NEW r \in PlanRuns PROVE RunFine(planRuns'[r], scopeRows', day')
    BY <1>1, <2>2, LookIsRecorded DEF RunFine
  <2> QED
    BY <2>1, <2>3 DEF RunsFit
<1> QED
  BY <1>1, <1>2, <1>3 DEF PlanInv, TemplatesFit, EditFits, BlueprintFits

(* What a scope is given is fine. *)
LEMMA ValidTargetsFine ==
  ASSUME NEW ts, validateScopeTargets(ts) PROVE \A t \in ts : TargetFine(t)
BY DEF validateScopeTargets, normalizeScopeTarget, normalizeURLAuthorization, ParsesAsTarget, TargetFine

(* The old default gives way, and keeps its targets. *)
LEMMA DefaultGivesWay ==
  ASSUME ScopesFit, NEW sid, NEW default
  PROVE  LET rows == replaceProjectDefault(scopeRows, sid, default)
         IN  /\ rows \in [ScopeIds -> ScopeRowType]
             /\ \A s \in ScopeIds : rows[s].targets = scopeRows[s].targets
<1>1. ASSUME NEW s \in ScopeIds
      PROVE  /\ [scopeRows[s] EXCEPT !.default = FALSE] \in ScopeRowType
             /\ [scopeRows[s] EXCEPT !.default = FALSE].targets = scopeRows[s].targets
  BY DEF ScopesFit, ScopeRowType
<1> HIDE DEF ScopeRowType
<1> QED
  BY <1>1 DEF replaceProjectDefault, ClearDefaultScopes, ScopesFit

(* Setting one row to another with fine targets. *)
LEMMA OneScopeWritten ==
  ASSUME PlanInv, NEW sid \in ScopeIds, NEW default, NEW row \in ScopeRowType,
         \A t \in row.targets : TargetFine(t),
         SetScopes([replaceProjectDefault(scopeRows, sid, default) EXCEPT ![sid] = row]),
         UNCHANGED <<taskTemplates, editing, pendingBlueprint, rest>>
  PROVE  PlanInv'
<1> DEFINE old == replaceProjectDefault(scopeRows, sid, default)
           rows == [old EXCEPT ![sid] = row]
<1>1. old \in [ScopeIds -> ScopeRowType] /\ \A s \in ScopeIds : old[s].targets = scopeRows[s].targets
  BY DefaultGivesWay DEF PlanInv
<1>2. \A s \in ScopeIds : \A t \in scopeRows[s].targets : TargetFine(t)
  BY DEF PlanInv, ScopesFit
<1> HIDE DEF old
<1>3. rows \in [ScopeIds -> ScopeRowType] /\ \A s \in ScopeIds : \A t \in rows[s].targets : TargetFine(t)
  BY <1>1, <1>2
<1>4. SetScopes(rows)
  BY DEF old
<1> HIDE DEF rows
<1> QED
  BY <1>3, <1>4, ScopeWriteKeeps

LEMMA CreateScopeKeeps ==
  ASSUME PlanInv, NEW sid \in ScopeIds, NEW st, NEW from \in 0..MaxScopeDay, NEW until \in 0..MaxScopeDay,
         NEW d \in BOOLEAN, NEW ts \in TargetLists, CreateScope(sid, st, from, until, d, ts)
  PROVE  PlanInv'
<1> DEFINE row == ScopeRow(st, from, until, d, ts)
<1>1. row \in ScopeRowType /\ row.targets = ts
  BY DEF ScopeRow, ScopeRowType, CreateScope, ScopeTargets
<1>2. \A t \in ts : TargetFine(t)
  BY ValidTargetsFine DEF CreateScope
<1>3. SetScopes([replaceProjectDefault(scopeRows, sid, d) EXCEPT ![sid] = row])
      /\ UNCHANGED <<taskTemplates, editing, pendingBlueprint, rest>>
  BY DEF CreateScope
<1> HIDE DEF row
<1> QED
  BY <1>1, <1>2, <1>3, OneScopeWritten

LEMMA UpdateScopeKeeps ==
  ASSUME PlanInv, NEW sid \in ScopeIds, NEW st \in {"keep", "active", "inactive"}, NEW d \in {"keep", "yes", "no"},
         NEW until \in 0..MaxScopeDay, NEW replace \in BOOLEAN, NEW ts \in TargetLists,
         UpdateScope(sid, st, d, until, replace, ts)
  PROVE  PlanInv'
<1> DEFINE s == scopeRows[sid]
           status == IF st = "keep" THEN s.status ELSE st
           def == IF status # "active" THEN FALSE ELSE IF d = "keep" THEN s.default ELSE d = "yes"
           base == UpdateScopeRow(s, status, def, until)
           row == IF replace THEN ReplaceTargets(base, ts) ELSE base
<1>1. s \in ScopeRowType /\ \A t \in s.targets : TargetFine(t)
  BY DEF PlanInv, ScopesFit
<1>2. status \in {"none", "active", "inactive"} /\ def \in BOOLEAN
  BY <1>1 DEF ScopeRowType
<1>3. /\ replace => (\A t \in ts : TargetFine(t)) /\ s.rev < 1
      /\ SetScopes([replaceProjectDefault(scopeRows, sid, def) EXCEPT ![sid] = row])
      /\ UNCHANGED <<taskTemplates, editing, pendingBlueprint, rest>>
  BY ValidTargetsFine DEF UpdateScope
<1> HIDE DEF s, status, def
<1>4. base \in ScopeRowType /\ base.targets = s.targets /\ base.rev = s.rev
  BY <1>1, <1>2 DEF ScopeRowType, UpdateScopeRow
<1> HIDE DEF base
<1>5. replace => ReplaceTargets(base, ts) \in ScopeRowType /\ ReplaceTargets(base, ts).targets = ts
  <2>1. ts \in SUBSET ScopeTargets
    BY DEF ScopeTargets
  <2>2. replace => base.rev + 1 \in 0..1
    BY <1>1, <1>3, <1>4 DEF ScopeRowType
  <2> QED
    BY <1>4, <2>1, <2>2 DEF ScopeRowType, ReplaceTargets
<1>6. row \in ScopeRowType /\ \A t \in row.targets : TargetFine(t)
  BY <1>1, <1>3, <1>4, <1>5
<1> HIDE DEF row
<1> QED
  BY <1>3, <1>6, OneScopeWritten

LEMMA DeactivateScopeKeeps ==
  ASSUME PlanInv, NEW sid \in ScopeIds, DeactivateScope(sid) PROVE PlanInv'
<1> DEFINE row == DeactivateScopeRow(scopeRows[sid])
<1>1. scopeRows \in [ScopeIds -> ScopeRowType] /\ \A s \in ScopeIds : \A t \in scopeRows[s].targets : TargetFine(t)
  BY DEF PlanInv, ScopesFit
<1>2. row \in ScopeRowType /\ row.targets = scopeRows[sid].targets
  BY <1>1 DEF ScopeRowType, DeactivateScopeRow
<1>3. SetScopes([scopeRows EXCEPT ![sid] = row]) /\ UNCHANGED <<taskTemplates, editing, pendingBlueprint, rest>>
  BY DEF DeactivateScope
<1> HIDE DEF row
<1>4. /\ [scopeRows EXCEPT ![sid] = row] \in [ScopeIds -> ScopeRowType]
      /\ \A s \in ScopeIds : \A t \in [scopeRows EXCEPT ![sid] = row][s].targets : TargetFine(t)
  BY <1>1, <1>2
<1> QED
  BY <1>3, <1>4, ScopeWriteKeeps

LEMMA AuthorizeDerivedKeeps ==
  ASSUME PlanInv, NEW run, NEW fs \in SUBSET FactIds, NEW fingerprint,
         AuthorizeDerivedTargets(run, fs, fingerprint)
  PROVE  PlanInv'
<1> DEFINE sid == SourceRuns[run].scope
           new == {f \in fs : derivedCandidate(sid, run, f) # "inherited"}
           added == {DerivedTarget(f) : f \in new}
           row == InsertScopeTarget(scopeRows[sid], added)
<1>1. scopeRows \in [ScopeIds -> ScopeRowType] /\ \A s \in ScopeIds : \A t \in scopeRows[s].targets : TargetFine(t)
  BY DEF PlanInv, ScopesFit
<1>2. /\ sid \in ScopeIds /\ \A f \in new : derivedCandidate(sid, run, f) = "pending"
      /\ SetScopes([scopeRows EXCEPT ![sid] = row]) /\ UNCHANGED <<taskTemplates, editing, pendingBlueprint, rest>>
  BY DEF AuthorizeDerivedTargets, ListScopesByProject, DerivedTarget
<1>3. \A f \in new : ParsesAsTarget(FactTarget[f])
  <2> SUFFICES ASSUME NEW f \in new, ~ParsesAsTarget(FactTarget[f]) PROVE FALSE
    OBVIOUS
  <2>1. derivedCandidate(sid, run, f) = applyIPNetwork(FactTarget[f], "excluded")
    BY DEF derivedCandidate, observationTarget
  <2>2. applyIPNetwork(FactTarget[f], "excluded") = "excluded"
    BY DEF applyIPNetwork
  <2> QED
    BY <1>2, <2>1, <2>2
<1>4. \A f \in new : TargetFine(DerivedTarget(f))
  <2>1. ASSUME NEW f
        PROVE  /\ DerivedTarget(f).kind = FactTarget[f].kind /\ DerivedTarget(f).host = FactTarget[f].host
               /\ DerivedTarget(f).rule = NoRule
    BY DEF DerivedTarget
  <2> QED
    BY <1>3, <2>1 DEF ParsesAsTarget, TargetFine
<1>5. added \subseteq ScopeTargets /\ \A t \in added : TargetFine(t)
  <2>1. new \subseteq FactIds
    OBVIOUS
  <2> HIDE DEF new
  <2>2. \A t \in added : \E f \in new : t = DerivedTarget(f)
    OBVIOUS
  <2>3. \A f \in FactIds : DerivedTarget(f) \in ScopeTargets
    BY DEF ScopeTargets
  <2> HIDE DEF added
  <2> QED
    BY <1>4, <2>1, <2>2, <2>3
<1> HIDE DEF sid, new, added
<1>6. row \in ScopeRowType /\ row.targets = scopeRows[sid].targets \cup added
  BY <1>1, <1>2, <1>5 DEF ScopeRowType, InsertScopeTarget
<1> HIDE DEF row
<1>7. /\ [scopeRows EXCEPT ![sid] = row] \in [ScopeIds -> ScopeRowType]
      /\ \A s \in ScopeIds : \A t \in [scopeRows EXCEPT ![sid] = row][s].targets : TargetFine(t)
  BY <1>1, <1>2, <1>5, <1>6
<1> QED
  BY <1>2, <1>7, ScopeWriteKeeps

-----------------------------------------------------------------------------
(* A template that is written keeps the invariant. *)
LEMMA TemplateWriteKeeps ==
  ASSUME PlanInv, NEW tid \in TemplateIds, NEW row, TemplateFine(row),
         taskTemplates' = [taskTemplates EXCEPT ![tid] = row],
         UNCHANGED <<scopeRows, planRuns, pendingBlueprint, rest>>, EditFits'
  PROVE  PlanInv'
<1>1. TemplatesFit'
  BY DEF PlanInv, TemplatesFit
<1>2. UNCHANGED <<scopeRows, planRuns, pendingBlueprint, day>>
  BY DEF rest
<1> QED
  BY <1>1, <1>2 DEF PlanInv, ScopesFit, BlueprintFits, RunsFit

LEMMA CreateTemplateKeeps ==
  ASSUME PlanInv, NEW tid \in TemplateIds, NEW tpl, DOMAIN tpl = DOMAIN NoTemplate,
         tpl.status \in {"enabled", "disabled"}, CreateTaskTemplate(tid, tpl)
  PROVE  PlanInv'
<1>1. TemplateFine(tpl)
  BY DEF TemplateFine, CreateTaskTemplate, ListScopesByProject
<1>2. EditFits'
  BY DEF CreateTaskTemplate, PlanInv, EditFits
<1> QED
  BY <1>1, <1>2, TemplateWriteKeeps DEF CreateTaskTemplate

LEMMA ContinuationKeeps ==
  ASSUME PlanInv, NEW tid \in TemplateIds, NEW run, NEW type, NEW fs, NEW fingerprint,
         CreateContinuationTemplate(tid, run, type, fs, fingerprint)
  PROVE  PlanInv'
<1> DEFINE first == {f \in fs : \A g \in fs : FactTarget[g] = FactTarget[f] => f <= g}
           config == {FactTarget[f] : f \in first}
           inherited == {<<f, facts[f]>> : f \in first}
           sid == SourceRuns[run].scope
           name == <<"continuation", run, type, first>>
           tpl == [NoTemplate EXCEPT !.status = "enabled", !.scope = sid, !.type = type,
                     !.config = config, !.inherited = inherited, !.source = run, !.name = name]
<1>1. CreateTaskTemplate(tid, tpl)
  BY DEF CreateContinuationTemplate
<1> HIDE DEF first, config, inherited, sid, name
<1>2. "status" \in DOMAIN NoTemplate
  BY DEF NoTemplate
<1>3. DOMAIN tpl = DOMAIN NoTemplate /\ tpl.status = "enabled"
  BY <1>2
<1> HIDE DEF tpl
<1> QED
  BY <1>1, <1>3, CreateTemplateKeeps

LEMMA ReadForUpdateKeeps ==
  ASSUME PlanInv, NEW tid \in TemplateIds, ReadForUpdate(tid) PROVE PlanInv'
<1>1. TemplateFine(taskTemplates[tid]) /\ taskTemplates[tid].status \in {"enabled", "disabled"}
  BY DEF PlanInv, TemplatesFit, ReadForUpdate, Live
<1>2. editing' = [template |-> tid, before |-> taskTemplates[tid]]
      /\ UNCHANGED <<scopeRows, taskTemplates, planRuns, pendingBlueprint, day>>
  BY DEF ReadForUpdate, rest
<1>3. EditFits'
  BY <1>1, <1>2 DEF EditFits, TemplateFine
<1> QED
  BY <1>2, <1>3 DEF PlanInv, ScopesFit, TemplatesFit, BlueprintFits, RunsFit

(* Rows that only change their status, or what a request may change. *)
LEMMA TemplateRows ==
  ASSUME NEW b, DOMAIN b = DOMAIN NoTemplate
  PROVE  /\ \A v : /\ DOMAIN [b EXCEPT !.status = v] = DOMAIN NoTemplate
                   /\ [b EXCEPT !.status = v].status = v /\ [b EXCEPT !.status = v].scope = b.scope
         /\ \A type, config, cap, v :
              LET n == [b EXCEPT !.type = type, !.config = config, !.overCap = cap, !.status = v]
              IN  DOMAIN n = DOMAIN NoTemplate /\ n.status = v /\ n.scope = b.scope
<1>1. DOMAIN b = {"status", "scope", "type", "config", "inherited", "source", "overCap", "name"}
  BY DEF NoTemplate
<1> QED
  BY <1>1

LEMMA UpdateTemplateKeeps ==
  ASSUME PlanInv, NEW type, NEW config, NEW overCap, UpdateTaskTemplate(type, config, overCap)
  PROVE  PlanInv'
<1> DEFINE b == editing.before
           tid == editing.template
           row == UpdateTemplateRow(taskTemplates[tid], b, type, config, overCap)
<1>1. /\ tid \in TemplateIds /\ DOMAIN b = DOMAIN NoTemplate /\ b.scope \in ScopeIds
      /\ editing' = NoEdit /\ UNCHANGED <<scopeRows, planRuns, pendingBlueprint, rest>>
      /\ taskTemplates' = IF ~Live(tid) THEN taskTemplates ELSE [taskTemplates EXCEPT ![tid] = row]
  BY DEF UpdateTaskTemplate, PlanInv, EditFits
<1>2. EditFits'
  BY <1>1 DEF EditFits
<1>3. TemplateFine(row)
  <2>1. TemplateFine(taskTemplates[tid])
    BY <1>1 DEF PlanInv, TemplatesFit
  <2>2. DOMAIN row = DOMAIN NoTemplate /\ row.status = taskTemplates[tid].status /\ row.scope = b.scope
    BY <1>1, TemplateRows DEF UpdateTemplateRow
  <2> HIDE DEF row
  <2> QED
    BY <1>1, <2>1, <2>2 DEF TemplateFine
<1>4. CASE Live(tid)
  BY <1>1, <1>2, <1>3, <1>4, TemplateWriteKeeps
<1>5. CASE ~Live(tid)
  BY <1>1, <1>2, <1>5 DEF PlanInv, ScopesFit, TemplatesFit, BlueprintFits, RunsFit, rest
<1> QED
  BY <1>4, <1>5

LEMMA TemplateStatusKeeps ==
  ASSUME PlanInv, NEW tid \in TemplateIds,
         DeleteTaskTemplate(tid) \/ \E enabled \in BOOLEAN : SetTaskTemplateEnabled(tid, enabled)
  PROVE  PlanInv'
<1>1. PICK v \in {"enabled", "disabled", "deleted"} :
        taskTemplates' = [taskTemplates EXCEPT ![tid] = [taskTemplates[tid] EXCEPT !.status = v]]
  BY DEF DeleteTaskTemplate, SetTaskTemplateEnabled, EnabledRow, SoftDeleteTaskTemplate
<1>2. Live(tid) /\ UNCHANGED <<scopeRows, planRuns, editing, pendingBlueprint, rest>>
  BY DEF DeleteTaskTemplate, SetTaskTemplateEnabled
<1> DEFINE row == [taskTemplates[tid] EXCEPT !.status = v]
<1>3. TemplateFine(row)
  <2>1. TemplateFine(taskTemplates[tid]) /\ taskTemplates[tid].scope \in ScopeIds
    BY <1>2 DEF PlanInv, TemplatesFit, TemplateFine, Live
  <2>2. DOMAIN row = DOMAIN NoTemplate /\ row.status = v /\ row.scope = taskTemplates[tid].scope
    BY <2>1, TemplateRows DEF TemplateFine
  <2> HIDE DEF row
  <2> QED
    BY <2>1, <2>2 DEF TemplateFine
<1>4. EditFits'
  BY <1>2 DEF PlanInv, EditFits
<1> HIDE DEF row
<1>5. taskTemplates' = [taskTemplates EXCEPT ![tid] = row]
  BY <1>1 DEF row
<1> QED
  BY <1>2, <1>3, <1>4, <1>5, TemplateWriteKeeps

LEMMA PrepareBlueprintKeeps ==
  ASSUME PlanInv, NEW requested, NEW key, PrepareBlueprint(requested, key) PROVE PlanInv'
<1>1. PICK sid \in resolveBlueprintScope(requested, key) : pendingBlueprint'.scope = sid
  BY DEF PrepareBlueprint
<1>2. sid \in ScopeIds
  BY <1>1 DEF resolveBlueprintScope, ListScopesByProject
<1>3. UNCHANGED <<scopeRows, taskTemplates, planRuns, editing, day>>
  BY DEF PrepareBlueprint, rest
<1> QED
  BY <1>1, <1>2, <1>3 DEF PlanInv, ScopesFit, TemplatesFit, EditFits, BlueprintFits, RunsFit

LEMMA CreateBlueprintKeeps ==
  ASSUME PlanInv, CreateBlueprintTaskTemplates PROVE PlanInv'
<1>1. pendingBlueprint # NoPending /\ pendingBlueprint' = NoPending /\ UNCHANGED <<scopeRows, planRuns, editing, day>>
  BY DEF CreateBlueprintTaskTemplates, rest
<1>2. ASSUME NEW p PROVE TemplateFine(BlueprintTemplate(p))
  <2> DEFINE type == builtinDiscoveryBlueprints[pendingBlueprint.key][p[1]].type
             sid == pendingBlueprint.scope
             name == blueprintTemplateName(pendingBlueprint.key, p[1], pendingBlueprint.scope, p[2])
             config == p[2]
             n == [NoTemplate EXCEPT !.status = "enabled", !.scope = sid, !.type = type, !.config = config, !.name = name]
  <2>1. BlueprintTemplate(p) = n
    BY DEF BlueprintTemplate
  <2>2. sid \in ScopeIds
    BY <1>1 DEF PlanInv, BlueprintFits
  <2>3. {"status", "scope", "type", "config", "name"} \subseteq DOMAIN NoTemplate
    BY DEF NoTemplate
  <2> HIDE DEF type, sid, name, config
  <2>4. DOMAIN n = DOMAIN NoTemplate /\ n.status = "enabled" /\ n.scope = sid
    BY <2>3
  <2> HIDE DEF n
  <2> QED
    BY <2>1, <2>2, <2>4 DEF TemplateFine
<1>3. TemplatesFit'
  <2>1. taskTemplates' = taskTemplates \/
          (/\ taskTemplates' = [t \in TemplateIds |-> taskTemplates'[t]]
           /\ \A t \in TemplateIds : taskTemplates'[t] = taskTemplates[t] \/ \E p : taskTemplates'[t] = BlueprintTemplate(p))
    <3> DEFINE new == {p \in pendingBlueprint.plans : ~findMaterializedBlueprintTemplate(p)}
    <3>1. CASE \E at : taskTemplates' = [t \in TemplateIds |->
                 IF \E p \in new : at[p] = t
                 THEN BlueprintTemplate(CHOOSE p \in new : at[p] = t) ELSE taskTemplates[t]]
      <4> HIDE DEF new
      <4> QED
        BY <3>1
    <3>2. CASE UNCHANGED taskTemplates
      BY <3>2
    <3> QED
      BY <3>1, <3>2 DEF CreateBlueprintTaskTemplates
  <2> QED
    BY <1>2, <2>1 DEF PlanInv, TemplatesFit
<1> QED
  BY <1>1, <1>3 DEF PlanInv, ScopesFit, EditFits, BlueprintFits, RunsFit

-----------------------------------------------------------------------------
(* A run that is written keeps the invariant. *)
LEMMA RunWriteKeeps ==
  ASSUME PlanInv, NEW r \in PlanRuns, NEW row, RunFine(row, scopeRows, day),
         planRuns' = [planRuns EXCEPT ![r] = row],
         UNCHANGED <<scopeRows, taskTemplates, editing, pendingBlueprint, rest>>
  PROVE  PlanInv'
<1>1. UNCHANGED <<scopeRows, taskTemplates, editing, pendingBlueprint, day>>
  BY DEF rest
<1>2. RunsFit'
  BY <1>1 DEF PlanInv, RunsFit
<1> QED
  BY <1>1, <1>2 DEF PlanInv, ScopesFit, TemplatesFit, EditFits, BlueprintFits

LEMMA CreateRunKeeps ==
  ASSUME PlanInv, NEW r \in PlanRuns, NEW tid \in TemplateIds, NEW actor, NEW approver,
         CreateTaskRunFrom(r, tid, actor, approver)
  PROVE  PlanInv'
<1> DEFINE t == GetTaskTemplateByID(tid)
           row == TaskRunRow(tid, t)
<1>1. /\ t.status = "enabled" /\ planRuns' = [planRuns EXCEPT ![r] = row]
      /\ UNCHANGED <<scopeRows, taskTemplates, editing, pendingBlueprint, rest>>
  BY DEF CreateTaskRunFrom
<1>2. t.scope \in ScopeIds
  <2>1. NoTemplate.status = "none"
    BY DEF NoTemplate
  <2> QED
    BY <1>1, <2>1 DEF GetTaskTemplateByID, PlanInv, TemplatesFit, TemplateFine
<1> HIDE DEF t
<1>3. NoPlanRun.plan = {} /\ NoPlanRun.checking = {} /\ DOMAIN NoPlanRun =
        {"status", "template", "scope", "type", "policy", "overCap", "todo", "checking", "plan",
         "force", "seen", "pieces", "torn"}
  BY DEF NoPlanRun
<1>4. /\ DOMAIN row = DOMAIN NoPlanRun /\ row.status = "pending" /\ row.scope = t.scope
      /\ row.plan = {} /\ row.checking = {}
  BY <1>3 DEF TaskRunRow
<1> HIDE DEF row
<1>5. RunFine(row, scopeRows, day)
  BY <1>2, <1>4 DEF RunFine, RunKept, RunLooked
<1> QED
  BY <1>1, <1>5, RunWriteKeeps

(* Rows of a run that begin, go on and end planning. *)
SameLook(a, x) == /\ DOMAIN a = DOMAIN NoPlanRun /\ a.scope = x.scope
                  /\ a.force = x.force /\ a.seen = x.seen /\ a.pieces = x.pieces /\ a.torn = x.torn

LEMMA PlanRunFields ==
  DOMAIN NoPlanRun = {"status", "template", "scope", "type", "policy", "overCap", "todo", "checking", "plan",
                      "force", "seen", "pieces", "torn"}
BY DEF NoPlanRun

LEMMA EndPlanKeeps ==
  ASSUME PlanInv, NEW r \in PlanRuns, NEW st \in {"planned", "refused"}, EndPlan(r, st),
         UNCHANGED <<scopeRows, taskTemplates, editing, pendingBlueprint, rest>>
  PROVE  PlanInv'
<1> DEFINE x == planRuns[r]
           row == [x EXCEPT !.status = st, !.todo = {}, !.checking = {}]
<1>1. RunFine(x, scopeRows, day) /\ planRuns = [q \in PlanRuns |-> planRuns[q]]
  BY DEF PlanInv, RunsFit
<1>2. planRuns' = [planRuns EXCEPT ![r] = row]
  BY <1>1 DEF EndPlan
<1>3. SameLook(row, x) /\ row.status = st /\ row.checking = {} /\ row.plan = x.plan
  <2>1. DOMAIN x = DOMAIN NoPlanRun
    BY <1>1 DEF RunFine, RunKept
  <2> QED
    BY <2>1, PlanRunFields DEF SameLook
<1> HIDE DEF row
<1>4. RunFine(row, scopeRows, day)
  BY <1>1, <1>3 DEF RunFine, RunKept, RunLooked, SameLook
<1> QED
  BY <1>2, <1>4, RunWriteKeeps

LEMMA BeginPlanKeeps ==
  ASSUME PlanInv, NEW r \in PlanRuns, BuildDispatchPlan(r) PROVE PlanInv'
<1> DEFINE x == planRuns[r]
           t == GetTaskTemplateByID(x.template)
           row == [x EXCEPT !.status = "planning", !.todo = t.config]
           runs == [planRuns EXCEPT ![r] = row]
<1>1. /\ x.status = "pending"
      /\ UNCHANGED <<scopeRows, taskTemplates, editing, pendingBlueprint, rest>>
      /\ \/ planRuns' = Witnessed([planRuns EXCEPT ![r].status = "planning", ![r].todo = t.config], scopeRows, day)
         \/ EndPlan(r, "refused")
  BY DEF BuildDispatchPlan, GetTaskRunByID
<1>2. /\ \A q \in PlanRuns : RunFine(planRuns[q], scopeRows, day)
      /\ planRuns = [q \in PlanRuns |-> planRuns[q]]
  BY DEF PlanInv, RunsFit
<1>3. CASE EndPlan(r, "refused")
  BY <1>1, <1>3, EndPlanKeeps
<1>4. CASE planRuns' = Witnessed([planRuns EXCEPT ![r].status = "planning", ![r].todo = t.config], scopeRows, day)
  <2>1. planRuns' = Witnessed(runs, scopeRows, day)
    BY <1>2, <1>4
  <2> HIDE DEF t
  <2>2. SameLook(row, x) /\ row.status = "planning" /\ row.checking = x.checking /\ row.plan = x.plan
    <3>1. DOMAIN x = DOMAIN NoPlanRun
      BY <1>2 DEF RunFine, RunKept
    <3> QED
      BY <3>1, PlanRunFields DEF SameLook
  <2> HIDE DEF row
  <2>3. ASSUME NEW q \in PlanRuns PROVE RunKept(runs[q], scopeRows, day)
    <3>1. CASE q = r
      <4>1. runs[q] = row
        BY <1>2, <3>1
      <4>2. RunKept(row, scopeRows, day)
        BY <1>1, <1>2, <2>2 DEF RunFine, RunKept, SameLook
      <4> QED
        BY <4>1, <4>2
    <3>2. CASE q # r
      BY <1>2, <3>2 DEF RunFine
    <3> QED
      BY <3>1, <3>2
  <2> HIDE DEF runs
  <2>4. \A q \in PlanRuns : RunFine(planRuns'[q], scopeRows, day)
    BY <2>1, <2>3, LookIsRecorded
  <2>5. planRuns' = [q \in PlanRuns |-> planRuns'[q]]
    BY <2>1 DEF Witnessed
  <2>6. UNCHANGED <<scopeRows, taskTemplates, editing, pendingBlueprint, day>>
    BY <1>1 DEF rest
  <2> QED
    BY <2>4, <2>5, <2>6 DEF PlanInv, ScopesFit, TemplatesFit, EditFits, BlueprintFits, RunsFit
<1> QED
  BY <1>1, <1>3, <1>4

(* The first read of a check: the scope is in force, so it has been seen   *)
(* in force.                                                               *)
LEMMA CheckScopeKeeps ==
  ASSUME PlanInv, NEW r \in PlanRuns, NEW c, CheckScope(r, c) PROVE PlanInv'
<1> DEFINE x == planRuns[r]
           row == [x EXCEPT !.checking = {c}]
<1>1. /\ x.status = "planning" /\ c \in x.todo
      /\ UNCHANGED <<scopeRows, taskTemplates, editing, pendingBlueprint, rest>>
  BY DEF CheckScope
<1>2. RunFine(x, scopeRows, day) /\ planRuns = [q \in PlanRuns |-> planRuns[q]]
  BY DEF PlanInv, RunsFit
<1>3. CASE EndPlan(r, "refused")
  BY <1>1, <1>3, EndPlanKeeps
<1>4. CASE ParsesAsTarget(c) /\ InForce(GetScopeByID(x.scope))
  <2>1. planRuns' = [planRuns EXCEPT ![r] = row]
    BY <1>2, <1>4 DEF CheckScope
  <2>2. ValidOn(scopeRows[x.scope], day)
    BY <1>4 DEF InForce, GetScopeByID, ValidOn
  <2>3. x.force
    BY <1>1, <1>2, <2>2 DEF RunFine, RunLooked
  <2>4. SameLook(row, x) /\ row.status = x.status /\ row.todo = x.todo /\ row.checking = {c} /\ row.plan = x.plan
    <3>1. DOMAIN x = DOMAIN NoPlanRun
      BY <1>2 DEF RunFine, RunKept
    <3> QED
      BY <3>1, PlanRunFields DEF SameLook
  <2> HIDE DEF row
  <2>5. RunKept(row, scopeRows, day)
    BY <1>1, <1>2, <1>4, <2>2, <2>3, <2>4 DEF RunFine, RunKept, SameLook
  <2>6. RunLooked(row, scopeRows, day)
    BY <1>2, <2>4 DEF RunFine, RunLooked, SameLook
  <2> QED
    BY <1>1, <2>1, <2>5, <2>6, RunWriteKeeps DEF RunFine
<1> QED
  BY <1>3, <1>4 DEF CheckScope

(* The one step that sends a target: the list allows it at this moment, so *)
(* it has been seen to; when the scope is in force too, the target has     *)
(* been seen authorised, and when it is not, the check was torn.           *)
LEMMA CheckTargetsKeeps ==
  ASSUME PlanInv, NEW r \in PlanRuns, NEW c, CheckTargets(r, c) PROVE PlanInv'
<1> DEFINE x == planRuns[r]
           row == [x EXCEPT !.todo = x.todo \ {c}, !.checking = {}, !.plan = x.plan \cup {c}]
<1>1. /\ x.status = "planning" /\ c \in x.checking
      /\ UNCHANGED <<scopeRows, taskTemplates, editing, pendingBlueprint, rest>>
  BY DEF CheckTargets
<1>2. RunFine(x, scopeRows, day) /\ planRuns = [q \in PlanRuns |-> planRuns[q]]
  BY DEF PlanInv, RunsFit
<1>3. CASE EndPlan(r, "refused")
  BY <1>1, <1>3, EndPlanKeeps
<1>4. CASE scopeMatchDecision(ListScopeTargetsByScope(x.scope), c) = "allowed"
  <2>1. planRuns' = [planRuns EXCEPT ![r] = row]
    BY <1>2, <1>4 DEF CheckTargets
  <2>2. /\ x.scope \in ScopeIds /\ c \in x.todo /\ ParsesAsTarget(c) /\ x.force
        /\ c \in x.torn \/ ValidOn(scopeRows[x.scope], day)
    BY <1>1, <1>2 DEF RunFine, RunKept
  <2>3. ListAuthorises(scopeRows[x.scope], c)
    BY <1>4, <2>2, AllowedIsAuthorised DEF PlanInv
  <2>4. c \in x.pieces /\ (ValidOn(scopeRows[x.scope], day) => c \in x.seen)
    BY <1>1, <1>2, <2>2, <2>3 DEF RunFine, RunLooked, Authorised
  <2>5. /\ SameLook(row, x) /\ row.status = x.status /\ row.todo = x.todo \ {c} /\ row.checking = {}
        /\ row.plan = x.plan \cup {c}
    <3>1. DOMAIN x = DOMAIN NoPlanRun
      BY <1>2 DEF RunFine, RunKept
    <3> QED
      BY <3>1, PlanRunFields DEF SameLook
  <2> HIDE DEF row
  <2>6. RunKept(row, scopeRows, day)
    BY <1>1, <1>2, <2>2, <2>4, <2>5 DEF RunFine, RunKept, SameLook
  <2>7. RunLooked(row, scopeRows, day)
    BY <1>2, <2>2, <2>5 DEF RunFine, RunLooked, SameLook
  <2> QED
    BY <1>1, <2>1, <2>6, <2>7, RunWriteKeeps DEF RunFine
<1> QED
  BY <1>3, <1>4 DEF CheckTargets

LEMMA DayPassesKeeps == ASSUME PlanInv, DayPasses PROVE PlanInv'
<1>1. /\ day' = day + 1 /\ day' \in 0..MaxScopeDay /\ planRuns' = Witnessed(planRuns, scopeRows, day')
      /\ UNCHANGED <<scopeRows, taskTemplates, editing, pendingBlueprint>>
  BY ScopesAssumption DEF DayPasses, PlanInv, ScopesFit
<1>2. \A q \in PlanRuns : RunFine(planRuns[q], scopeRows, day)
  BY DEF PlanInv, RunsFit
<1>3. \A q \in PlanRuns : RunFine(planRuns'[q], scopeRows, day')
  BY <1>1, <1>2, LookIsRecorded DEF RunFine
<1>4. planRuns' = [q \in PlanRuns |-> planRuns'[q]]
  BY <1>1 DEF Witnessed
<1> QED
  BY <1>1, <1>3, <1>4 DEF PlanInv, ScopesFit, TemplatesFit, EditFits, BlueprintFits, RunsFit

LEMMA PlanStep == PlanInv /\ [ScopesNext]_scopesVars => PlanInv'
<1> SUFFICES ASSUME PlanInv, [ScopesNext]_scopesVars PROVE PlanInv'
  OBVIOUS
<1>1. ASSUME NEW u \in ScopeUsers, NEW sid \in ScopeIds, ScopeSteps(u, sid) PROVE PlanInv'
  BY <1>1, CreateScopeKeeps, UpdateScopeKeeps, DeactivateScopeKeeps
  DEF ScopeSteps, createScope, updateScope, deactivateScope
<1>2. ASSUME NEW u \in ScopeUsers, DerivedSteps(u) PROVE PlanInv'
  BY <1>2, AuthorizeDerivedKeeps, ContinuationKeeps DEF DerivedSteps, authorizeDerivedTargets, createContinuation
<1>3. ASSUME NEW u \in ScopeUsers, NEW tid \in TemplateIds, TemplateSteps(u, tid) PROVE PlanInv'
  <2>1. ASSUME NEW tpl \in TemplateForms, createTemplate(u, tid, tpl) PROVE PlanInv'
    BY <2>1, ScopesAssumption, CreateTemplateKeeps DEF createTemplate
  <2>2. CASE updateTemplate(u, tid)
    BY <2>2, ReadForUpdateKeeps DEF updateTemplate
  <2>3. CASE deleteTemplate(u, tid) \/ \E enabled \in BOOLEAN : setTemplateEnabled(u, tid, enabled)
    BY <2>3, TemplateStatusKeeps DEF deleteTemplate, setTemplateEnabled
  <2> QED
    BY <1>3, <2>1, <2>2, <2>3 DEF TemplateSteps
<1>4. ASSUME NEW u \in ScopeUsers, NEW sid, NEW key, createBlueprintTemplates(u, sid, key) PROVE PlanInv'
  BY <1>4, PrepareBlueprintKeeps DEF createBlueprintTemplates
<1>5. ASSUME NEW u \in ScopeUsers, NEW r \in PlanRuns, NEW tid \in TemplateIds, NEW v, createRun(u, r, tid, v)
      PROVE  PlanInv'
  BY <1>5, CreateRunKeeps DEF createRun
<1>6. ASSUME NEW tpl, UpdateTaskTemplate(tpl.type, tpl.config, tpl.overCap) PROVE PlanInv'
  BY <1>6, UpdateTemplateKeeps
<1>7. ASSUME NEW r \in PlanRuns, PlanSteps(r) PROVE PlanInv'
  <2>1. CASE FinishPlan(r)
    BY <2>1, EndPlanKeeps DEF FinishPlan
  <2> QED
    BY <1>7, <2>1, BeginPlanKeeps, CheckScopeKeeps, CheckTargetsKeeps DEF PlanSteps
<1>8. ASSUME \/ \E f, h : ObservationChanges(f, h)
             \/ \E a : EdgeFound(a)
             \/ \E ds : OwnershipChanges(ds)
             \/ \E h : WebAssetFound(h)
             \/ \E p : ActivePolicyChanges(p)
             \/ UNCHANGED scopesVars
      PROVE  PlanInv'
  <2>1. UNCHANGED <<scopeRows, taskTemplates, planRuns, day, editing, pendingBlueprint>>
    BY <1>8 DEF ObservationChanges, EdgeFound, OwnershipChanges, WebAssetFound, ActivePolicyChanges, scopesVars
  <2> QED
    BY <2>1 DEF PlanInv, ScopesFit, TemplatesFit, EditFits, BlueprintFits, RunsFit
<1> QED
  BY <1>1, <1>2, <1>3, <1>4, <1>5, <1>6, <1>7, <1>8, CreateBlueprintKeeps, DayPassesKeeps DEF ScopesNext

(* A plan holds only targets that its scope authorised at some moment      *)
(* since the planning began, for any scopes, templates, targets and users, *)
(* however they are edited between the statements of BuildDispatchPlan,    *)
(* except a target whose scope changed between the two reads of its check, *)
(* for which each read saw what it needed: the matching of                 *)
(* scopeMatchDecision is the reference's, and both reads are made anew for *)
(* each target.                                                            *)
THEOREM PlansAreAuthorised == ScopesSpec => []PlanWasAuthorised
<1>1. PlanInv => PlanWasAuthorised
  BY DEF PlanInv, RunsFit, RunFine, RunKept, PlanWasAuthorised
<1> QED
  BY ScopesInitFits, PlanStep, <1>1, PTL DEF ScopesSpec

OwnedFits == owned \subseteq {p[2] : p \in HostUnder}

LEMMA OwnedStep == OwnedFits /\ [ScopesNext]_scopesVars => OwnedFits'
<1> SUFFICES ASSUME OwnedFits, [ScopesNext]_scopesVars PROVE OwnedFits'
  OBVIOUS
<1>1. ASSUME UNCHANGED owned PROVE OwnedFits'
  BY <1>1 DEF OwnedFits
<1>2. ASSUME NEW u, NEW sid, ScopeSteps(u, sid) PROVE UNCHANGED owned
  <2>1. ASSUME NEW st, NEW from, NEW until, NEW d, NEW ts, CreateScope(sid, st, from, until, d, ts) PROVE UNCHANGED owned
    BY <2>1 DEF CreateScope, rest
  <2>2. ASSUME NEW st, NEW d, NEW until, NEW replace, NEW ts, UpdateScope(sid, st, d, until, replace, ts)
        PROVE  UNCHANGED owned
    BY <2>2 DEF UpdateScope, rest
  <2>3. ASSUME DeactivateScope(sid) PROVE UNCHANGED owned
    BY <2>3 DEF DeactivateScope, rest
  <2> QED
    BY <1>2, <2>1, <2>2, <2>3 DEF ScopeSteps, createScope, updateScope, deactivateScope
<1>3. ASSUME NEW u, DerivedSteps(u) PROVE UNCHANGED owned
  <2>1. ASSUME NEW run, NEW fs, NEW fingerprint, AuthorizeDerivedTargets(run, fs, fingerprint) PROVE UNCHANGED owned
    BY <2>1 DEF AuthorizeDerivedTargets, rest
  <2>2. ASSUME NEW tid, NEW run, NEW type, NEW fs, NEW fingerprint,
               CreateContinuationTemplate(tid, run, type, fs, fingerprint)
        PROVE  UNCHANGED owned
    BY <2>2 DEF CreateContinuationTemplate, CreateTaskTemplate, rest
  <2> QED
    BY <1>3, <2>1, <2>2 DEF DerivedSteps, authorizeDerivedTargets, createContinuation
<1>4. ASSUME NEW u, NEW tid, TemplateSteps(u, tid) PROVE UNCHANGED owned
  BY <1>4 DEF TemplateSteps, createTemplate, updateTemplate, deleteTemplate, setTemplateEnabled, CreateTaskTemplate,
              ReadForUpdate, SetTaskTemplateEnabled, DeleteTaskTemplate, rest
<1>5. ASSUME NEW u, NEW sid, NEW key, createBlueprintTemplates(u, sid, key) PROVE UNCHANGED owned
  BY <1>5 DEF createBlueprintTemplates, PrepareBlueprint, rest
<1>6. ASSUME NEW u, NEW r, NEW tid, NEW v, createRun(u, r, tid, v) PROVE UNCHANGED owned
  BY <1>6 DEF createRun, CreateTaskRunFrom, rest
<1>7. ASSUME NEW tpl, UpdateTaskTemplate(tpl.type, tpl.config, tpl.overCap) PROVE UNCHANGED owned
  BY <1>7 DEF UpdateTaskTemplate, rest
<1>8. ASSUME CreateBlueprintTaskTemplates \/ DayPasses PROVE UNCHANGED owned
  BY <1>8 DEF CreateBlueprintTaskTemplates, DayPasses, rest
<1>9. ASSUME NEW r, PlanSteps(r) PROVE UNCHANGED owned
  BY <1>9 DEF PlanSteps, BuildDispatchPlan, FinishPlan, CheckScope, CheckTargets, rest
<1>10. ASSUME \/ \E f, h : ObservationChanges(f, h)
              \/ \E a : EdgeFound(a)
              \/ \E h : WebAssetFound(h)
              \/ \E p : ActivePolicyChanges(p)
              \/ UNCHANGED scopesVars
       PROVE  UNCHANGED owned
  BY <1>10 DEF ObservationChanges, EdgeFound, WebAssetFound, ActivePolicyChanges, scopesVars
<1>11. ASSUME NEW ds \in SUBSET {p[2] : p \in HostUnder}, OwnershipChanges(ds) PROVE OwnedFits'
  BY <1>11 DEF OwnershipChanges, OwnedFits
<1> QED
  BY <1>1, <1>2, <1>3, <1>4, <1>5, <1>6, <1>7, <1>8, <1>9, <1>10, <1>11 DEF ScopesNext

(* The rows of scopes, templates and planning runs keep their types, and   *)
(* only domains that something lies under are owned, whatever is created,  *)
(* updated, derived and planned (CreateScope, UpdateTaskTemplate,          *)
(* BuildDispatchPlan).                                                     *)
THEOREM ScopesTypeCorrect == ScopesSpec => []ScopesTypeOK
<1>1. ScopesInit => PlanInv /\ OwnedFits
  BY ScopesInitFits DEF ScopesInit, OwnedFits
<1>2. PlanInv /\ OwnedFits /\ [ScopesNext]_scopesVars => PlanInv' /\ OwnedFits'
  BY PlanStep, OwnedStep
<1>3. PlanInv /\ OwnedFits => ScopesTypeOK
  <2> SUFFICES ASSUME PlanInv, OwnedFits PROVE ScopesTypeOK
    OBVIOUS
  <2>1. \A s \in ScopeIds : scopeRows[s] \in ScopeRowType
    BY DEF PlanInv, ScopesFit
  <2>2. \A s \in ScopeIds : /\ scopeRows[s].status \in {"none", "active", "inactive"}
                            /\ scopeRows[s].default \in BOOLEAN
                            /\ scopeRows[s].from \in 0..MaxScopeDay /\ scopeRows[s].until \in 0..MaxScopeDay
    BY <2>1 DEF ScopeRowType
  <2>3. \A t \in TemplateIds : taskTemplates[t].status \in {"none", "enabled", "disabled", "deleted"}
    BY DEF PlanInv, TemplatesFit, TemplateFine
  <2>4. \A r \in PlanRuns : planRuns[r].status \in {"none", "pending", "planning", "planned", "refused"}
    BY DEF PlanInv, RunsFit, RunFine, RunKept
  <2> QED
    BY <2>2, <2>3, <2>4 DEF PlanInv, ScopesFit, OwnedFits, ScopesTypeOK
<1> QED
  BY <1>1, <1>2, <1>3, PTL DEF ScopesSpec

-----------------------------------------------------------------------------
(* Engine settings, checks, jobs and projects.                             *)

Routes == {"passive", "active"}

SettingsDomains == {ConnectionKeys, ConnectionKeys \cup ProviderKeys}

(* What an administrator is about to save differs from the version it was  *)
(* made from only where the patch says so.                                 *)
EditMade(e, head, versions) ==
  e.pc = "save" =>
    /\ e.version \in 1..head /\ e.version < MaxSettings
    /\ DOMAIN e.next \in SettingsDomains
    /\ \A k \in DOMAIN versions[e.version] :
         e.next[k] # versions[e.version][k] => k \in DOMAIN e.patch.values \cup e.patch.clear

SettingsFit ==
  /\ settingsHead \in 1..MaxSettings
  /\ settingsVersions = [v \in 1..MaxSettings |-> settingsVersions[v]]
  /\ \A v \in 1..MaxSettings : DOMAIN settingsVersions[v] \in SettingsDomains
  /\ edits = [a \in EngineAdmins |-> edits[a]]
  /\ \A a \in EngineAdmins : EditMade(edits[a], settingsHead, settingsVersions)

ChecksFit ==
  /\ inspecting = [a \in EngineAdmins |-> inspecting[a]]
  /\ \A a \in EngineAdmins :
       inspecting[a] # NoInspection => inspecting[a].version \in 1..settingsHead /\ inspecting[a].route \in Routes
  /\ \A k \in DOMAIN checks : \E v \in 1..settingsHead, route \in Routes :
       k = Entry(v, route) /\ checks[k].health \in inspect(v, route)

(* A run is bound from the start; Baiyan's files are the versions' own.    *)
RunBound(r) ==
  LET run == engineRuns[r]
      got == scanJobs[r]
  IN  /\ run.status = "none" \/ run.version \in 1..settingsHead
      /\ DOMAIN got = {"version", "ran", "with"} /\ got.ran \in {"no", "queued", "yes"}
      /\ got.ran = "no" => got = NoJob
      /\ got.ran # "no" => /\ run.status # "none"
                           /\ got.version = IF managed(settingsVersions[run.version]) THEN run.version ELSE 0
                           /\ configFiles[got.version] # NoConfig
      /\ got.ran = "yes" => got.with = configFiles[got.version]

FilesFit ==
  /\ configFiles = [v \in 0..MaxSettings |-> configFiles[v]]
  /\ configFiles[0] = Baseline
  /\ \A v \in 1..MaxSettings :
       configFiles[v] # NoConfig => /\ v <= settingsHead /\ managed(settingsVersions[v])
                                    /\ configFiles[v] = ProvidersOf(settingsVersions[v])

EngineRunType ==
  [status : {"none", "creating", "pending", "provisioned", "dispatched", "rejected"}, version : 0..MaxSettings]

JobsFit ==
  /\ engineRuns \in [EngineRuns -> EngineRunType]
  /\ scanJobs = [r \in EngineRuns |-> scanJobs[r]]
  /\ FilesFit
  /\ \A r \in EngineRuns : RunBound(r)

Names == Resolvers \cup {"none", "legacy"}

ResolveType ==
  [pc : {"idle", "insert", "call", "update", "done"}, name : Names, started : BOOLEAN, id : Names]

BindingType == [name : Names, remote : Names, started : BOOLEAN]

(* All workers go by the name in the row, and nobody creates another. *)
ResolverFits(s, row, projects) ==
  s.pc \in {"call", "update", "done"} =>
    /\ row # NoBinding
    /\ s.pc # "done" => s.name = row.name
    /\ s.pc = "update" => s.id = row.name /\ row.name \in projects
    /\ s.pc = "done" => s.id = row.remote /\ row.remote # "none"

BindingFits ==
  /\ binding \in BindingType
  /\ resolving \in [Resolvers -> ResolveType]
  /\ binding = NoBinding \/ binding.name # "none"
  /\ remoteProjects \subseteq {binding.name} \ {"none"}
  /\ binding.remote # "none" => binding.remote = binding.name /\ binding.name \in remoteProjects
  /\ \A w \in Resolvers : ResolverFits(resolving[w], binding, remoteProjects)

EnginesInv == SettingsFit /\ ChecksFit /\ JobsFit /\ BindingFits

-----------------------------------------------------------------------------
LEMMA EnginesInitFits == EnginesInit => EnginesInv
<1> SUFFICES ASSUME EnginesInit PROVE EnginesInv
  OBVIOUS
<1> USE EnginesAssumption
<1>1. DOMAIN NoSettings = ConnectionKeys /\ DOMAIN SettingsFromEnvironment = ConnectionKeys
  BY DEF NoSettings, SettingsFromEnvironment
<1>2. SettingsFit
  <2>1. NoEditing.pc = "idle"
    BY DEF NoEditing
  <2> QED
    BY <1>1, <2>1 DEF EnginesInit, SettingsFit, EditMade, SettingsDomains
<1>3. ChecksFit
  <2>1. DOMAIN checks = {}
    BY DEF EnginesInit
  <2> QED
    BY <2>1 DEF EnginesInit, ChecksFit
<1>4. JobsFit
  <2>1. NoEngineRun \in EngineRunType /\ NoEngineRun.status = "none"
    BY DEF NoEngineRun, EngineRunType
  <2>2. NoJob.ran = "no" /\ DOMAIN NoJob = {"version", "ran", "with"}
    BY DEF NoJob
  <2>3. FilesFit
    BY DEF EnginesInit, FilesFit
  <2> QED
    BY <2>1, <2>2, <2>3 DEF EnginesInit, JobsFit, RunBound
<1>5. BindingFits
  <2>1. NoResolve.pc = "idle" /\ NoResolve \in ResolveType
    BY DEF NoResolve, ResolveType, Names
  <2>2. NoBinding \in [name : {"none"}, remote : {"none"}, started : {FALSE}]
    BY DEF NoBinding
  <2> DEFINE old == [NoBinding EXCEPT !.name = "legacy", !.started = TRUE]
  <2>3. old \in [name : {"legacy"}, remote : {"none"}, started : {TRUE}]
    BY <2>2
  <2> HIDE DEF old
  <2>4. binding = NoBinding \/ binding = old
    BY DEF EnginesInit, old
  <2>5. binding \in BindingType /\ binding.remote = "none" /\ (binding = NoBinding \/ binding.name # "none")
    BY <2>2, <2>3, <2>4 DEF BindingType, Names
  <2> QED
    BY <2>1, <2>5 DEF EnginesInit, BindingFits, ResolverFits
<1> QED
  BY <1>2, <1>3, <1>4, <1>5 DEF EnginesInv

(* What a step leaves alone stays as it is. *)
LEMMA SettingsFrame ==
  ASSUME SettingsFit, UNCHANGED settingsState PROVE SettingsFit'
BY DEF SettingsFit, settingsState

LEMMA ChecksFrame ==
  ASSUME ChecksFit, UNCHANGED <<settingsHead, settingsVersions, checkState>> PROVE ChecksFit'
BY DEF ChecksFit, inspect, checkState

LEMMA JobsFrame ==
  ASSUME JobsFit, UNCHANGED <<settingsHead, settingsVersions, runState>> PROVE JobsFit'
<1>1. FilesFit'
  BY DEF JobsFit, FilesFit, runState
<1>2. ASSUME NEW r \in EngineRuns PROVE RunBound(r)'
  BY DEF JobsFit, RunBound, runState
<1> QED
  BY <1>1, <1>2 DEF JobsFit, runState

LEMMA BindingFrame ==
  ASSUME BindingFits, UNCHANGED bindingState PROVE BindingFits'
BY DEF BindingFits, ResolverFits, bindingState

(* Settings.                                                               *)

LEMMA UpdateConfigurationKeeps ==
  ASSUME EnginesInv, NEW a \in EngineAdmins, NEW seen, NEW p, UpdateConfiguration(a, seen, p)
  PROVE  EnginesInv'
<1> DEFINE c == settingsVersions[settingsHead]
           b == IF providerPatch(p) /\ ~managed(c) THEN Merge(c, Current) ELSE c
           e == [pc |-> "save", version |-> seen, next |-> Patched(b, p), patch |-> p]
<1>1. /\ seen = settingsHead /\ settingsHead < MaxSettings
      /\ edits' = [edits EXCEPT ![a] = e]
      /\ UNCHANGED <<settingsHead, settingsVersions, checks, inspecting, engineRuns, configFiles, scanJobs,
                     binding, remoteProjects, resolving>>
  BY DEF UpdateConfiguration, Latest, checkState, runState, bindingState
<1>2. SettingsFit /\ DOMAIN c \in SettingsDomains
  BY DEF EnginesInv, SettingsFit
<1>3. DOMAIN b \in SettingsDomains /\ \A k \in DOMAIN c : b[k] = c[k]
  <2>1. CASE providerPatch(p) /\ ~managed(c)
    <3>1. DOMAIN c = ConnectionKeys
      BY <1>2, <2>1 DEF managed, SettingsDomains
    <3>2. b = Merge(c, Current)
      BY <2>1
    <3>3. ConnectionKeys \cap ProviderKeys = {}
      BY DEF ConnectionKeys, ProviderKeys
    <3> QED
      BY <3>1, <3>2, <3>3 DEF Merge, SettingsDomains
  <2>2. CASE ~(providerPatch(p) /\ ~managed(c))
    BY <1>2, <2>2
  <2> QED
    BY <2>1, <2>2
<1> HIDE DEF b, c
<1>4. /\ DOMAIN Patched(b, p) = DOMAIN b
      /\ \A k \in DOMAIN b : Patched(b, p)[k] # b[k] => k \in DOMAIN p.values \cup p.clear
  BY DEF Patched
<1>5. DOMAIN c \subseteq DOMAIN b
  BY <1>2, <1>3 DEF b, Merge
<1>6. EditMade(e, settingsHead, settingsVersions)
  <2>1. settingsHead \in 1..settingsHead
    BY <1>2 DEF SettingsFit
  <2>2. \A k \in DOMAIN c : Patched(b, p)[k] # c[k] => k \in DOMAIN p.values \cup p.clear
    BY <1>3, <1>4, <1>5
  <2> HIDE DEF EditMade
  <2>3. e.version = settingsHead /\ e.next = Patched(b, p) /\ e.patch = p
    BY <1>1
  <2> HIDE DEF e
  <2> QED
    BY <1>1, <1>3, <1>4, <2>1, <2>2, <2>3 DEF EditMade, c
<1> HIDE DEF e
<1>7. SettingsFit'
  <2>1. edits' = [x \in EngineAdmins |-> edits'[x]] /\ \A x \in EngineAdmins : edits'[x] = edits[x] \/ edits'[x] = e
    BY <1>1, <1>2 DEF SettingsFit
  <2>2. \A x \in EngineAdmins : EditMade(edits'[x], settingsHead, settingsVersions)
    BY <1>2, <1>6, <2>1 DEF SettingsFit
  <2> QED
    BY <1>1, <1>2, <2>1, <2>2 DEF SettingsFit
<1>8. ChecksFit' /\ JobsFit' /\ BindingFits'
  BY <1>1, ChecksFrame, JobsFrame, BindingFrame DEF EnginesInv, checkState, runState, bindingState
<1> QED
  BY <1>7, <1>8 DEF EnginesInv

(* A version that is there is never changed: what was read from it stays   *)
(* true of it.                                                             *)
LEMMA SaveKeeps ==
  ASSUME EnginesInv, NEW a \in EngineAdmins, Save(a) PROVE EnginesInv'
<1> DEFINE e == edits[a]
           h == settingsHead
<1> USE EnginesAssumption
<1>1. /\ e.pc = "save" /\ edits' = [edits EXCEPT ![a] = NoEditing]
      /\ UNCHANGED <<checks, inspecting, engineRuns, configFiles, scanJobs, binding, remoteProjects, resolving>>
      /\ \/ UNCHANGED <<settingsHead, settingsVersions>>
         \/ /\ h = e.version /\ settingsHead' = h + 1
            /\ settingsVersions' = [settingsVersions EXCEPT ![h + 1] = e.next]
  BY DEF Save, checkState, runState, bindingState
<1>2. SettingsFit /\ EditMade(e, settingsHead, settingsVersions)
  BY DEF EnginesInv, SettingsFit
<1>3. h \in 1..MaxSettings /\ e.version \in 1..h /\ e.version < MaxSettings /\ DOMAIN e.next \in SettingsDomains
  BY <1>1, <1>2 DEF SettingsFit, EditMade
<1>4. /\ settingsHead' \in 1..MaxSettings /\ h <= settingsHead'
      /\ settingsVersions' = [v \in 1..MaxSettings |-> settingsVersions'[v]]
      /\ \A v \in 1..MaxSettings : DOMAIN settingsVersions'[v] \in SettingsDomains
      /\ \A v \in 1..h : v \in 1..MaxSettings /\ settingsVersions'[v] = settingsVersions[v]
  <2>1. CASE UNCHANGED <<settingsHead, settingsVersions>>
    BY <1>2, <1>3, <2>1 DEF SettingsFit
  <2>2. CASE /\ h = e.version /\ settingsHead' = h + 1
             /\ settingsVersions' = [settingsVersions EXCEPT ![h + 1] = e.next]
    <3>1. h + 1 \in 1..MaxSettings /\ \A v \in 1..h : v # h + 1 /\ v \in 1..MaxSettings
      BY <1>3, <2>2
    <3>2. settingsVersions' = [v \in 1..MaxSettings |-> IF v = h + 1 THEN e.next ELSE settingsVersions[v]]
      BY <1>2, <2>2 DEF SettingsFit
    <3>3. \A v \in 1..MaxSettings : DOMAIN settingsVersions[v] \in SettingsDomains
      BY <1>2 DEF SettingsFit
    <3> HIDE DEF e, h
    <3>4. \A v \in 1..MaxSettings : DOMAIN settingsVersions'[v] \in SettingsDomains
      BY <1>3, <3>2, <3>3
    <3>5. \A v \in 1..h : v \in 1..MaxSettings /\ settingsVersions'[v] = settingsVersions[v]
      BY <3>1, <3>2
    <3>6. settingsVersions' = [v \in 1..MaxSettings |-> settingsVersions'[v]]
      BY <3>2
    <3> QED
      BY <1>3, <2>2, <3>1, <3>4, <3>5, <3>6
  <2> QED
    BY <1>1, <2>1, <2>2
<1> HIDE DEF e, h
<1>5. SettingsFit'
  <2>1. NoEditing.pc = "idle"
    BY DEF NoEditing
  <2>2. ASSUME NEW x \in EngineAdmins PROVE EditMade(edits'[x], settingsHead', settingsVersions')
    <3>1. CASE edits'[x] = NoEditing
      BY <2>1, <3>1 DEF EditMade
    <3>2. CASE edits'[x] = edits[x]
      <4>1. EditMade(edits[x], settingsHead, settingsVersions)
        BY <1>2 DEF SettingsFit
      <4>2. edits[x].pc = "save" => edits[x].version \in 1..settingsHead'
        BY <1>3, <1>4, <4>1 DEF EditMade, h
      <4> QED
        BY <1>4, <3>2, <4>1, <4>2 DEF EditMade, h
    <3> QED
      BY <1>1, <1>2, <3>1, <3>2 DEF SettingsFit
  <2>3. edits' = [x \in EngineAdmins |-> edits'[x]]
    BY <1>1, <1>2 DEF SettingsFit
  <2> QED
    BY <1>4, <2>2, <2>3 DEF SettingsFit
<1>6. ChecksFit'
  <2>1. ASSUME NEW v \in 1..settingsHead, NEW route PROVE inspect(v, route)' = inspect(v, route) /\ v \in 1..settingsHead'
    BY <1>3, <1>4 DEF inspect, h
  <2>2. ChecksFit
    BY DEF EnginesInv
  <2> HIDE DEF ChecksFit
  <2>3. \A k \in DOMAIN checks' : \E v \in 1..settingsHead', route \in Routes :
          k = Entry(v, route) /\ checks'[k].health \in inspect(v, route)'
    BY <1>1, <2>1, <2>2 DEF ChecksFit
  <2>4. \A x \in EngineAdmins : inspecting'[x] # NoInspection =>
          inspecting'[x].version \in 1..settingsHead' /\ inspecting'[x].route \in Routes
    BY <1>1, <2>1, <2>2 DEF ChecksFit
  <2> QED
    BY <1>1, <2>2, <2>3, <2>4 DEF ChecksFit
<1>7. JobsFit'
  <2>1. JobsFit
    BY DEF EnginesInv
  <2>2. FilesFit'
    <3>1. FilesFit
      BY <2>1 DEF JobsFit
    <3>2. ASSUME NEW v \in 1..MaxSettings, configFiles'[v] # NoConfig
          PROVE  /\ v <= settingsHead' /\ managed(settingsVersions'[v])
                 /\ configFiles'[v] = ProvidersOf(settingsVersions'[v])
      <4>1. /\ v <= settingsHead /\ managed(settingsVersions[v])
            /\ configFiles[v] = ProvidersOf(settingsVersions[v])
        BY <1>1, <3>1, <3>2 DEF FilesFit
      <4>2. v \in 1..h
        BY <1>3, <4>1 DEF h
      <4>3. settingsVersions'[v] = settingsVersions[v] /\ h <= settingsHead'
        BY <1>4, <4>2
      <4>4. v <= settingsHead'
        BY <1>3, <1>4, <4>2, <4>3
      <4> QED
        BY <1>1, <4>1, <4>3, <4>4
    <3> QED
      BY <1>1, <3>1, <3>2 DEF FilesFit
  <2>3. ASSUME NEW r \in EngineRuns PROVE RunBound(r)'
    <3>1. RunBound(r)
      BY <2>1 DEF JobsFit
    <3>2. engineRuns[r].status # "none" =>
            /\ engineRuns[r].version \in 1..settingsHead'
            /\ settingsVersions'[engineRuns[r].version] = settingsVersions[engineRuns[r].version]
      BY <1>3, <1>4, <3>1 DEF RunBound, h
    <3> QED
      BY <1>1, <3>1, <3>2 DEF RunBound
  <2> QED
    BY <1>1, <2>1, <2>2, <2>3 DEF JobsFit
<1>8. BindingFits'
  BY <1>1, BindingFrame DEF EnginesInv, bindingState
<1> QED
  BY <1>5, <1>6, <1>7, <1>8 DEF EnginesInv

(* Checks.                                                                 *)

LEMMA BeginCheckKeeps ==
  ASSUME EnginesInv, NEW a \in EngineAdmins, NEW route \in Routes, BeginCheck(a, route) PROVE EnginesInv'
<1> DEFINE i == [version |-> settingsHead, route |-> route]
<1>1. /\ inspecting' = [inspecting EXCEPT ![a] = i]
      /\ UNCHANGED <<settingsState, checks, runState, bindingState>>
      /\ UNCHANGED <<settingsHead, settingsVersions>>
  BY DEF BeginCheck, Latest, settingsState
<1>2. i.version \in 1..settingsHead /\ i.route \in Routes
  BY EnginesAssumption DEF EnginesInv, SettingsFit
<1> HIDE DEF i
<1>3. ChecksFit'
  <2>1. ChecksFit
    BY DEF EnginesInv
  <2>2. inspecting' = [x \in EngineAdmins |-> inspecting'[x]]
        /\ \A x \in EngineAdmins : inspecting'[x] = i \/ inspecting'[x] = inspecting[x]
    BY <1>1, <2>1 DEF ChecksFit
  <2>3. \A x \in EngineAdmins :
          inspecting'[x] # NoInspection => inspecting'[x].version \in 1..settingsHead /\ inspecting'[x].route \in Routes
    BY <1>2, <2>1, <2>2 DEF ChecksFit
  <2>4. \A v, x : inspect(v, x)' = inspect(v, x)
    BY <1>1 DEF inspect
  <2> QED
    BY <1>1, <2>1, <2>2, <2>3, <2>4 DEF ChecksFit
<1> QED
  BY <1>1, <1>3, SettingsFrame, JobsFrame, BindingFrame DEF EnginesInv

(* A configuration at Baiyan is written once, with the version's settings. *)
LEMMA FilesGrow ==
  ASSUME SettingsFit, FilesFit, NEW v \in 1..settingsHead, configFiles' = Provisioned(configFiles, v),
         UNCHANGED <<settingsHead, settingsVersions>>
  PROVE  /\ FilesFit'
         /\ \A u \in 0..MaxSettings : configFiles[u] # NoConfig => configFiles'[u] = configFiles[u]
<1> DEFINE c == ProvidersOf(settingsVersions[v])
<1>1. v \in 1..MaxSettings /\ settingsHead \in 1..MaxSettings
  BY EnginesAssumption DEF SettingsFit
<1>2. CASE configFiles' = configFiles
  BY <1>2 DEF FilesFit
<1>3. CASE /\ managed(settingsVersions[v]) /\ configFiles[v] = NoConfig
           /\ configFiles' = [configFiles EXCEPT ![v] = c]
  <2> HIDE DEF c
  <2>1. configFiles' = [u \in 0..MaxSettings |-> IF u = v THEN c ELSE configFiles[u]]
    BY <1>3 DEF FilesFit
  <2>2. configFiles'[0] = Baseline
    BY <1>1, <2>1, EnginesAssumption DEF FilesFit
  <2>3. ASSUME NEW u \in 1..MaxSettings, configFiles'[u] # NoConfig
        PROVE  /\ u <= settingsHead /\ managed(settingsVersions[u])
               /\ configFiles'[u] = ProvidersOf(settingsVersions[u])
    <3>1. CASE u = v
      BY <1>1, <1>3, <2>1, <3>1 DEF c
    <3>2. CASE u # v
      <4>1. configFiles'[u] = configFiles[u]
        BY <2>1, <3>2
      <4> QED
        BY <2>3, <4>1 DEF FilesFit
    <3> QED
      BY <3>1, <3>2
  <2>4. configFiles' = [u \in 0..MaxSettings |-> configFiles'[u]]
    BY <2>1
  <2> QED
    BY <1>3, <2>1, <2>2, <2>3, <2>4 DEF FilesFit
<1> QED
  BY <1>2, <1>3 DEF Provisioned, SaveConfiguration

(* A run stays bound while the versions and the files written stay.        *)
LEMMA BoundStays ==
  ASSUME JobsFit, NEW r \in EngineRuns,
         UNCHANGED <<settingsHead, settingsVersions>>, scanJobs'[r] = scanJobs[r],
         engineRuns'[r] = engineRuns[r]
           \/ (engineRuns[r].status # "none" /\ engineRuns'[r].status # "none" /\ engineRuns'[r].version = engineRuns[r].version),
         \A u \in 0..MaxSettings : configFiles[u] # NoConfig => configFiles'[u] = configFiles[u]
  PROVE  RunBound(r)'
<1>1. RunBound(r) /\ engineRuns[r].version \in 0..MaxSettings
  BY DEF JobsFit, EngineRunType
<1>2. scanJobs[r].ran # "no" => scanJobs[r].version \in 0..MaxSettings
  BY <1>1, EnginesAssumption DEF RunBound
<1>3. scanJobs[r].ran # "no" => configFiles'[scanJobs[r].version] = configFiles[scanJobs[r].version]
  BY <1>1, <1>2 DEF RunBound
<1>4. engineRuns'[r].version = engineRuns[r].version /\ (engineRuns'[r].status = "none" <=> engineRuns[r].status = "none")
  OBVIOUS
<1> QED
  BY <1>1, <1>2, <1>3, <1>4 DEF RunBound

LEMMA FinishCheckKeeps ==
  ASSUME EnginesInv, NEW a \in EngineAdmins, NEW health, FinishCheck(a, health) PROVE EnginesInv'
<1> DEFINE i == inspecting[a]
           sum == [route |-> i.route, health |-> health]
           key == Entry(i.version, i.route)
<1>1. /\ i # NoInspection /\ health \in inspect(i.version, i.route)
      /\ inspecting' = [inspecting EXCEPT ![a] = NoInspection]
      /\ checks' = put(checks, i.version, sum)
      /\ configFiles' = Provisioned(configFiles, i.version) \/ configFiles' = configFiles
      /\ UNCHANGED <<settingsState, engineRuns, scanJobs, bindingState>>
      /\ UNCHANGED <<settingsHead, settingsVersions>>
  BY DEF FinishCheck, settingsState
<1>2. SettingsFit /\ ChecksFit /\ JobsFit /\ FilesFit
  BY DEF EnginesInv, JobsFit
<1>3. i.version \in 1..settingsHead /\ i.route \in Routes
  BY <1>1, <1>2 DEF ChecksFit
<1>4. sum.route = i.route /\ sum.health = health
  OBVIOUS
<1> HIDE DEF i, sum
<1>5. ChecksFit'
  <2>1. /\ \A k \in DOMAIN checks' : k = key \/ (k \in DOMAIN checks /\ checks'[k] = checks[k])
        /\ key \in DOMAIN checks' => checks'[key] = sum
    <3>1. checks' = [k \in (IF Cardinality(DOMAIN checks) > CheckCacheLimit THEN {} ELSE DOMAIN checks) \cup {key} |->
                       IF k = key THEN sum ELSE checks[k]]
      BY <1>1, <1>4 DEF put
    <3> HIDE DEF key
    <3> QED
      BY <3>1
  <2>2. \A v, x : inspect(v, x)' = inspect(v, x)
    BY <1>1 DEF inspect
  <2>3. ASSUME NEW k \in DOMAIN checks'
        PROVE  \E v \in 1..settingsHead, route \in Routes : k = Entry(v, route) /\ checks'[k].health \in inspect(v, route)
    <3>1. CASE k = key
      BY <1>1, <1>3, <1>4, <2>1, <3>1
    <3>2. CASE k \in DOMAIN checks /\ checks'[k] = checks[k]
      BY <1>2, <3>2 DEF ChecksFit
    <3> QED
      BY <2>1, <3>1, <3>2
  <2>4. inspecting' = [x \in EngineAdmins |-> inspecting'[x]]
        /\ \A x \in EngineAdmins : inspecting'[x] = NoInspection \/ inspecting'[x] = inspecting[x]
    BY <1>1, <1>2 DEF ChecksFit
  <2>5. \A x \in EngineAdmins :
          inspecting'[x] # NoInspection => inspecting'[x].version \in 1..settingsHead /\ inspecting'[x].route \in Routes
    BY <1>2, <2>4 DEF ChecksFit
  <2> QED
    BY <1>1, <2>2, <2>3, <2>4, <2>5 DEF ChecksFit
<1>6. JobsFit'
  <2>1. FilesFit' /\ \A u \in 0..MaxSettings : configFiles[u] # NoConfig => configFiles'[u] = configFiles[u]
    <3>1. CASE configFiles' = configFiles
      BY <1>1, <1>2, <3>1 DEF FilesFit
    <3>2. CASE configFiles' = Provisioned(configFiles, i.version)
      BY <1>1, <1>2, <1>3, <3>2, FilesGrow
    <3> QED
      BY <1>1, <3>1, <3>2
  <2>2. ASSUME NEW r \in EngineRuns PROVE RunBound(r)'
    BY <1>1, <1>2, <2>1, BoundStays
  <2> QED
    BY <1>1, <1>2, <2>1, <2>2 DEF JobsFit
<1> QED
  BY <1>1, <1>2, <1>5, <1>6, SettingsFrame, BindingFrame DEF EnginesInv

(* Runs of the passive engine.                                             *)

(* A run's step that changes no job and leaves the version alone.          *)
LEMMA StatusStepKeeps ==
  ASSUME EnginesInv, NEW r \in EngineRuns, NEW s \in {"creating", "pending", "provisioned", "dispatched", "rejected"},
         engineRuns[r].status # "none", engineRuns' = [engineRuns EXCEPT ![r].status = s],
         FilesFit', \A u \in 0..MaxSettings : configFiles[u] # NoConfig => configFiles'[u] = configFiles[u],
         UNCHANGED <<settingsState, checkState, scanJobs, bindingState>>
  PROVE  EnginesInv'
<1>1. UNCHANGED <<settingsHead, settingsVersions>> /\ JobsFit
  BY DEF settingsState, EnginesInv
<1>2. engineRuns' \in [EngineRuns -> EngineRunType]
  BY <1>1 DEF JobsFit, EngineRunType
<1>3. ASSUME NEW x \in EngineRuns PROVE RunBound(x)'
  <2>1. engineRuns'[x] = engineRuns[x]
        \/ (engineRuns[x].status # "none" /\ engineRuns'[x].status # "none" /\ engineRuns'[x].version = engineRuns[x].version)
    BY <1>1 DEF JobsFit, EngineRunType
  <2> QED
    BY <1>1, <2>1, BoundStays
<1>4. JobsFit'
  BY <1>1, <1>2, <1>3 DEF JobsFit
<1> QED
  BY <1>1, <1>4, SettingsFrame, ChecksFrame, BindingFrame DEF EnginesInv

LEMMA ReadSettingsKeeps ==
  ASSUME EnginesInv, NEW r \in EngineRuns, ReadSettings(r) PROVE EnginesInv'
<1> DEFINE run == [status |-> "creating", version |-> settingsHead]
<1>1. /\ engineRuns[r] = NoEngineRun /\ engineRuns' = [engineRuns EXCEPT ![r] = run]
      /\ UNCHANGED <<settingsState, checkState, configFiles, scanJobs, bindingState>>
      /\ UNCHANGED <<settingsHead, settingsVersions>>
  BY DEF ReadSettings, Latest, settingsState
<1>2. SettingsFit /\ JobsFit /\ settingsHead \in 1..MaxSettings
  BY DEF EnginesInv, SettingsFit
<1>3. run \in EngineRunType /\ run.version \in 1..settingsHead
  BY <1>2, EnginesAssumption DEF EngineRunType
<1> HIDE DEF run
<1>4. engineRuns' \in [EngineRuns -> EngineRunType]
  BY <1>1, <1>2, <1>3 DEF JobsFit
<1>5. FilesFit'
  BY <1>1, <1>2 DEF JobsFit, FilesFit
<1>6. ASSUME NEW x \in EngineRuns PROVE RunBound(x)'
  <2>1. CASE x = r
    <3>1. scanJobs[r].ran = "no" /\ RunBound(r)
      BY <1>1, <1>2 DEF JobsFit, RunBound, NoEngineRun
    <3>2. engineRuns'[r] = run
      BY <1>1, <1>2 DEF JobsFit
    <3> QED
      BY <1>1, <1>3, <2>1, <3>1, <3>2 DEF RunBound
  <2>2. CASE x # r
    <3>1. engineRuns'[x] = engineRuns[x]
      BY <1>1, <1>2, <2>2 DEF JobsFit
    <3> QED
      BY <1>1, <1>2, <3>1, BoundStays
  <2> QED
    BY <2>1, <2>2
<1>7. JobsFit'
  BY <1>1, <1>2, <1>4, <1>5, <1>6 DEF JobsFit
<1> QED
  BY <1>1, <1>7, SettingsFrame, ChecksFrame, BindingFrame DEF EnginesInv

LEMMA BindKeeps ==
  ASSUME EnginesInv, NEW r \in EngineRuns, BindEngineRunSettings(r) PROVE EnginesInv'
<1>1. FilesFit'
  BY DEF BindEngineRunSettings, EnginesInv, JobsFit, FilesFit, settingsState
<1> QED
  BY <1>1, StatusStepKeeps DEF BindEngineRunSettings

LEMMA ProvisionKeeps ==
  ASSUME EnginesInv, NEW r \in EngineRuns, ensureProviderConfiguration(r) PROVE EnginesInv'
<1>1. /\ engineRuns[r].status = "pending" /\ configFiles' = Provisioned(configFiles, ForRun(r))
      /\ engineRuns' = [engineRuns EXCEPT ![r].status = "provisioned"]
      /\ UNCHANGED <<settingsState, checkState, scanJobs, bindingState>>
      /\ UNCHANGED <<settingsHead, settingsVersions>>
  BY DEF ensureProviderConfiguration, settingsState
<1>2. ForRun(r) \in 1..settingsHead
  BY <1>1 DEF EnginesInv, JobsFit, RunBound, ForRun
<1>3. FilesFit' /\ \A u \in 0..MaxSettings : configFiles[u] # NoConfig => configFiles'[u] = configFiles[u]
  BY <1>1, <1>2, FilesGrow DEF EnginesInv, JobsFit
<1> QED
  BY <1>1, <1>3, StatusStepKeeps

LEMMA AnswerLostKeeps ==
  ASSUME EnginesInv, NEW r \in EngineRuns, AnswerLost(r) PROVE EnginesInv'
<1>1. FilesFit'
  BY DEF AnswerLost, EnginesInv, JobsFit, FilesFit, settingsState
<1> QED
  BY <1>1, StatusStepKeeps DEF AnswerLost

LEMMA scanKeeps ==
  ASSUME EnginesInv, NEW r \in EngineRuns, scan(r) PROVE EnginesInv'
<1> DEFINE v == IF managed(settingsVersions[ForRun(r)]) THEN ForRun(r) ELSE 0
           got == [version |-> v, ran |-> "queued", with |-> <<>>]
<1>1. /\ engineRuns[r].status = "provisioned"
      /\ \/ scanJobs' = scanJobs
         \/ configFiles[v] # NoConfig /\ scanJobs[r] = NoJob /\ scanJobs' = [scanJobs EXCEPT ![r] = got]
      /\ \/ engineRuns' = [engineRuns EXCEPT ![r].status = "dispatched"]
         \/ engineRuns' = [engineRuns EXCEPT ![r].status = "rejected"]
      /\ UNCHANGED <<settingsState, checkState, configFiles, bindingState>>
      /\ UNCHANGED <<settingsHead, settingsVersions>>
  BY DEF scan, settingsState
<1>2. JobsFit /\ RunBound(r)
  BY DEF EnginesInv, JobsFit
<1>3. engineRuns[r].version \in 1..settingsHead /\ ForRun(r) = engineRuns[r].version
  BY <1>1, <1>2 DEF RunBound, ForRun
<1>4. got.version = v /\ got.ran = "queued" /\ DOMAIN got = {"version", "ran", "with"}
  OBVIOUS
<1>5. FilesFit'
  BY <1>1, <1>2 DEF JobsFit, FilesFit
<1>6. CASE scanJobs' = scanJobs
  BY <1>1, <1>5, <1>6, StatusStepKeeps
<1>7. CASE configFiles[v] # NoConfig /\ scanJobs[r] = NoJob /\ scanJobs' = [scanJobs EXCEPT ![r] = got]
  <2> HIDE DEF got
  <2>1. engineRuns' \in [EngineRuns -> EngineRunType]
    BY <1>1, <1>2 DEF JobsFit, EngineRunType
  <2>2. scanJobs' = [x \in EngineRuns |-> IF x = r THEN got ELSE scanJobs[x]]
    BY <1>2, <1>7 DEF JobsFit
  <2>3. engineRuns'[r].version = engineRuns[r].version /\ engineRuns'[r].status # "none"
    BY <1>1, <1>2 DEF JobsFit, EngineRunType
  <2>4. RunBound(r)'
    <3>1. scanJobs'[r] = got
      BY <2>2
    <3>2. v = IF managed(settingsVersions[engineRuns[r].version]) THEN engineRuns[r].version ELSE 0
      BY <1>3
    <3> HIDE DEF v
    <3> QED
      BY <1>1, <1>3, <1>4, <1>7, <2>3, <3>1, <3>2 DEF RunBound
  <2>5. ASSUME NEW x \in EngineRuns, x # r PROVE RunBound(x)'
    <3>1. engineRuns'[x] = engineRuns[x] /\ scanJobs'[x] = scanJobs[x]
      BY <1>1, <1>2, <2>2, <2>5 DEF JobsFit
    <3> QED
      BY <1>1, <1>2, <3>1, BoundStays
  <2>6. scanJobs' = [x \in EngineRuns |-> scanJobs'[x]]
    BY <2>2
  <2>7. JobsFit'
    BY <1>5, <2>1, <2>4, <2>5, <2>6 DEF JobsFit
  <2> QED
    BY <1>1, <2>7, SettingsFrame, ChecksFrame, BindingFrame DEF EnginesInv
<1> QED
  BY <1>1, <1>6, <1>7

LEMMA ExecuteKeeps ==
  ASSUME EnginesInv, NEW r \in EngineRuns, Execute(r) PROVE EnginesInv'
<1> DEFINE file == configFiles[scanJobs[r].version]
<1>1. /\ scanJobs[r].ran = "queued" /\ scanJobs' = [scanJobs EXCEPT ![r].ran = "yes", ![r].with = file]
      /\ UNCHANGED <<settingsState, checkState, engineRuns, configFiles, bindingState>>
      /\ UNCHANGED <<settingsHead, settingsVersions>>
  BY DEF Execute, settingsState
<1>2. JobsFit /\ RunBound(r)
  BY DEF EnginesInv, JobsFit
<1>3. FilesFit'
  BY <1>1, <1>2 DEF JobsFit, FilesFit
<1>4. scanJobs' = [x \in EngineRuns |-> scanJobs'[x]] /\ \A x \in EngineRuns : x # r => scanJobs'[x] = scanJobs[x]
  BY <1>1, <1>2 DEF JobsFit
<1>5. RunBound(r)'
  <2>1. /\ DOMAIN scanJobs'[r] = {"version", "ran", "with"} /\ scanJobs'[r].ran = "yes"
        /\ scanJobs'[r].version = scanJobs[r].version /\ scanJobs'[r].with = file
    <3> HIDE DEF file
    <3>1. DOMAIN scanJobs = EngineRuns
      BY <1>2 DEF JobsFit
    <3>2. DOMAIN scanJobs[r] = {"version", "ran", "with"}
      BY <1>2 DEF RunBound
    <3> QED
      BY <1>1, <3>1, <3>2
  <2> QED
    BY <1>1, <1>2, <2>1 DEF RunBound
<1>6. ASSUME NEW x \in EngineRuns, x # r PROVE RunBound(x)'
  BY <1>1, <1>2, <1>4, <1>6, BoundStays
<1>7. JobsFit'
  BY <1>1, <1>2, <1>3, <1>4, <1>5, <1>6 DEF JobsFit
<1> QED
  BY <1>1, <1>7, SettingsFrame, ChecksFrame, BindingFrame DEF EnginesInv

(* The remote project.                                                     *)

(* A worker's step: its own row fits, and so do the others'.               *)
LEMMA ResolverStepKeeps ==
  ASSUME EnginesInv, NEW w \in Resolvers, NEW s \in ResolveType,
         resolving' = [resolving EXCEPT ![w] = s], ResolverFits(s, binding', remoteProjects'),
         binding' \in BindingType, binding' = NoBinding \/ binding'.name # "none",
         remoteProjects' \subseteq {binding'.name} \ {"none"},
         binding'.remote # "none" => binding'.remote = binding'.name /\ binding'.name \in remoteProjects',
         \A x \in Resolvers : ResolverFits(resolving[x], binding', remoteProjects'),
         UNCHANGED <<settingsState, checkState, runState>>
  PROVE  EnginesInv'
<1>1. UNCHANGED <<settingsHead, settingsVersions>>
  BY DEF settingsState
<1>2. resolving' \in [Resolvers -> ResolveType] /\ \A x \in Resolvers : resolving'[x] = s \/ resolving'[x] = resolving[x]
  BY DEF EnginesInv, BindingFits
<1>3. \A x \in Resolvers : ResolverFits(resolving'[x], binding', remoteProjects')
  BY <1>2
<1>4. BindingFits'
  BY <1>2, <1>3 DEF BindingFits
<1> QED
  BY <1>1, <1>4, SettingsFrame, ChecksFrame, JobsFrame DEF EnginesInv

LEMMA NoResolveFits == NoResolve \in ResolveType /\ NoResolve.pc = "idle"
BY DEF NoResolve, ResolveType, Names

LEMMA NoBindingFits ==
  NoBinding \in BindingType /\ NoBinding.name = "none" /\ NoBinding.remote = "none" /\ NoBinding.started = FALSE
BY DEF NoBinding, BindingType, Names

LEMMA FromFits ==
  ASSUME NEW row \in BindingType, NEW projects, row # NoBinding
  PROVE  From(row) \in ResolveType /\ ResolverFits(From(row), row, projects)
<1>1. /\ From(row).pc = (IF row.remote # "none" THEN "done" ELSE "call")
      /\ From(row).name = row.name /\ From(row).id = row.remote
  BY DEF From
<1>2. From(row) \in ResolveType
  BY DEF From, ResolveType, BindingType
<1> QED
  BY <1>1, <1>2 DEF ResolverFits

LEMMA ResolveReadKeeps ==
  ASSUME EnginesInv, NEW w \in Resolvers, ResolveRead(w) PROVE EnginesInv'
<1> DEFINE s == IF binding = NoBinding THEN [NoResolve EXCEPT !.pc = "insert"] ELSE From(binding)
<1>1. BindingFits
  BY DEF EnginesInv
<1>2. s \in ResolveType /\ ResolverFits(s, binding, remoteProjects)
  <2>1. CASE binding = NoBinding
    <3>1. s \in ResolveType /\ s.pc = "insert"
      BY <2>1, NoResolveFits DEF ResolveType
    <3> HIDE DEF s
    <3> QED
      BY <3>1 DEF ResolverFits
  <2>2. CASE binding # NoBinding
    BY <1>1, <2>2, FromFits DEF BindingFits
  <2> QED
    BY <2>1, <2>2
<1>3. /\ resolving' = [resolving EXCEPT ![w] = s]
      /\ UNCHANGED <<settingsState, checkState, runState, binding, remoteProjects>>
  BY DEF ResolveRead, SetResolve
<1> HIDE DEF s
<1> QED
  BY <1>1, <1>2, <1>3, ResolverStepKeeps DEF BindingFits

LEMMA ResolveInsertKeeps ==
  ASSUME EnginesInv, NEW w \in Resolvers, ResolveInsert(w) PROVE EnginesInv'
<1> DEFINE row == IF binding = NoBinding THEN [NoBinding EXCEPT !.name = w] ELSE binding
<1>1. BindingFits
  BY DEF EnginesInv
<1>2. /\ binding' = row /\ resolving' = [resolving EXCEPT ![w] = From(row)]
      /\ UNCHANGED <<settingsState, checkState, runState, remoteProjects>>
  BY DEF ResolveInsert, SetResolve
<1>3. /\ row \in BindingType /\ row.name # "none" /\ row # NoBinding
      /\ remoteProjects \subseteq {row.name} \ {"none"}
      /\ row.remote # "none" => row.remote = row.name /\ row.name \in remoteProjects
      /\ binding # NoBinding => row = binding
  <2>1. CASE binding = NoBinding
    <3>1. row \in BindingType /\ row.name = w /\ row.remote = "none"
      BY <2>1, NoBindingFits DEF BindingType, Names
    <3>2. w # "none" /\ remoteProjects = {}
      BY <1>1, <2>1, NoBindingFits, EnginesAssumption DEF BindingFits
    <3> HIDE DEF row
    <3> QED
      BY <2>1, <3>1, <3>2, NoBindingFits
  <2>2. CASE binding # NoBinding
    BY <1>1, <2>2 DEF BindingFits
  <2> QED
    BY <2>1, <2>2
<1>4. \A x \in Resolvers : ResolverFits(resolving[x], row, remoteProjects)
  BY <1>1, <1>3 DEF BindingFits, ResolverFits
<1> HIDE DEF row
<1>5. From(row) \in ResolveType /\ ResolverFits(From(row), row, remoteProjects)
  BY <1>3, FromFits
<1> QED
  BY <1>2, <1>3, <1>4, <1>5, ResolverStepKeeps

LEMMA EnsureProjectKeeps ==
  ASSUME EnginesInv, NEW w \in Resolvers, ensureManagedProject(w) PROVE EnginesInv'
<1> DEFINE s == resolving[w]
           t == [s EXCEPT !.pc = "update", !.id = s.name]
<1>1. BindingFits /\ s \in ResolveType /\ ResolverFits(s, binding, remoteProjects)
  BY DEF EnginesInv, BindingFits
<1>2. /\ s.pc = "call" /\ remoteProjects' = remoteProjects \cup {s.name}
      /\ resolving' = [resolving EXCEPT ![w] = t] \/ resolving' = [resolving EXCEPT ![w] = NoResolve]
      /\ UNCHANGED <<settingsState, checkState, runState, binding>>
  BY DEF ensureManagedProject, SetResolve
<1>3. s.name = binding.name /\ binding # NoBinding /\ binding.name # "none"
  BY <1>1, <1>2 DEF ResolverFits, BindingFits
<1>4. t \in ResolveType /\ t.pc = "update" /\ t.name = s.name /\ t.id = s.name
  BY <1>1 DEF ResolveType
<1> HIDE DEF s, t
<1>5. ResolverFits(t, binding, remoteProjects') /\ ResolverFits(NoResolve, binding, remoteProjects')
  BY <1>2, <1>3, <1>4, NoResolveFits DEF ResolverFits
<1>6. \A x \in Resolvers : ResolverFits(resolving[x], binding, remoteProjects')
  BY <1>1, <1>2 DEF BindingFits, ResolverFits
<1>7. /\ remoteProjects' \subseteq {binding.name} \ {"none"} /\ binding \in BindingType
      /\ binding = NoBinding \/ binding.name # "none"
      /\ binding.remote # "none" => binding.remote = binding.name /\ binding.name \in remoteProjects'
  BY <1>1, <1>2, <1>3 DEF BindingFits
<1>8. CASE resolving' = [resolving EXCEPT ![w] = t]
  BY <1>2, <1>4, <1>5, <1>6, <1>7, <1>8, ResolverStepKeeps
<1>9. CASE resolving' = [resolving EXCEPT ![w] = NoResolve]
  BY <1>2, <1>5, <1>6, <1>7, <1>9, ResolverStepKeeps, NoResolveFits
<1> QED
  BY <1>2, <1>8, <1>9

LEMMA FindProjectKeeps ==
  ASSUME EnginesInv, NEW w \in Resolvers, findManagedProject(w) PROVE EnginesInv'
<1> DEFINE s == resolving[w]
           t == [s EXCEPT !.pc = "update", !.id = s.name]
<1>1. BindingFits /\ s \in ResolveType /\ ResolverFits(s, binding, remoteProjects)
  BY DEF EnginesInv, BindingFits
<1>2. /\ s.pc = "call"
      /\ \/ s.name \in remoteProjects /\ resolving' = [resolving EXCEPT ![w] = t]
         \/ resolving' = [resolving EXCEPT ![w] = NoResolve]
      /\ UNCHANGED <<settingsState, checkState, runState, binding, remoteProjects>>
  BY DEF findManagedProject, SetResolve
<1>3. s.name = binding.name /\ binding # NoBinding
  BY <1>1, <1>2 DEF ResolverFits
<1>4. t \in ResolveType /\ t.pc = "update" /\ t.name = s.name /\ t.id = s.name
  BY <1>1 DEF ResolveType
<1> HIDE DEF s, t
<1>5. /\ s.name \in remoteProjects => ResolverFits(t, binding, remoteProjects)
      /\ ResolverFits(NoResolve, binding, remoteProjects)
  BY <1>3, <1>4, NoResolveFits DEF ResolverFits
<1>6. CASE s.name \in remoteProjects /\ resolving' = [resolving EXCEPT ![w] = t]
  BY <1>1, <1>2, <1>4, <1>5, <1>6, ResolverStepKeeps DEF BindingFits
<1>7. CASE resolving' = [resolving EXCEPT ![w] = NoResolve]
  BY <1>1, <1>2, <1>5, <1>7, ResolverStepKeeps, NoResolveFits DEF BindingFits
<1> QED
  BY <1>2, <1>6, <1>7

LEMMA LegacyKeeps ==
  ASSUME EnginesInv, LegacyCreationArrives PROVE EnginesInv'
<1>1. /\ binding.started /\ remoteProjects' = remoteProjects \cup {binding.name}
      /\ UNCHANGED <<settingsState, checkState, runState, binding, resolving>>
      /\ UNCHANGED <<settingsHead, settingsVersions>>
  BY DEF LegacyCreationArrives, settingsState
<1>2. BindingFits
  BY DEF EnginesInv
<1>3. binding.name # "none"
  BY <1>1, <1>2, NoBindingFits DEF BindingFits
<1>4. BindingFits'
  BY <1>1, <1>2, <1>3 DEF BindingFits, ResolverFits
<1> QED
  BY <1>1, <1>4, SettingsFrame, ChecksFrame, JobsFrame DEF EnginesInv

LEMMA ResolveKeeps ==
  ASSUME EnginesInv, NEW w \in Resolvers, Resolve(w) PROVE EnginesInv'
<1> DEFINE s == resolving[w]
           t == [s EXCEPT !.pc = "done"]
           row == [binding EXCEPT !.remote = s.id]
<1>1. BindingFits /\ s \in ResolveType /\ ResolverFits(s, binding, remoteProjects)
  BY DEF EnginesInv, BindingFits
<1>2. /\ s.pc = "update"
      /\ \/ /\ binding.remote \in {"none", s.id} /\ binding' = row
            /\ resolving' = [resolving EXCEPT ![w] = t]
         \/ binding' = binding /\ resolving' = [resolving EXCEPT ![w] = NoResolve]
      /\ UNCHANGED <<settingsState, checkState, runState, remoteProjects>>
  BY DEF Resolve, SetResolve
<1>3. s.id = binding.name /\ binding.name \in remoteProjects /\ binding # NoBinding /\ binding.name # "none"
  BY <1>1, <1>2 DEF ResolverFits, BindingFits
<1>4. t \in ResolveType /\ t.pc = "done" /\ t.id = s.id
  BY <1>1 DEF ResolveType
<1>5. row \in BindingType /\ row.name = binding.name /\ row.remote = s.id
  BY <1>1 DEF BindingFits, BindingType, ResolveType
<1> HIDE DEF s, t, row
<1>6. row # NoBinding
  BY <1>3, <1>5, NoBindingFits
<1>7. ResolverFits(t, row, remoteProjects) /\ ResolverFits(NoResolve, binding, remoteProjects)
  BY <1>3, <1>4, <1>5, <1>6, NoResolveFits DEF ResolverFits
<1>8. \A x \in Resolvers : ResolverFits(resolving[x], row, remoteProjects)
  BY <1>1, <1>3, <1>5, <1>6 DEF BindingFits, ResolverFits
<1>9. CASE binding' = row /\ resolving' = [resolving EXCEPT ![w] = t]
  <2>1. remoteProjects \subseteq {row.name} \ {"none"} /\ row.name # "none" /\ row.remote = row.name /\ row.name \in remoteProjects
    BY <1>1, <1>3, <1>5 DEF BindingFits
  <2> QED
    BY <1>2, <1>4, <1>5, <1>7, <1>8, <1>9, <2>1, ResolverStepKeeps
<1>10. CASE binding' = binding /\ resolving' = [resolving EXCEPT ![w] = NoResolve]
  BY <1>1, <1>2, <1>7, <1>10, ResolverStepKeeps, NoResolveFits DEF BindingFits
<1> QED
  BY <1>2, <1>9, <1>10

LEMMA EnginesStep == EnginesInv /\ [EnginesNext]_enginesVars => EnginesInv'
<1> SUFFICES ASSUME EnginesInv, [EnginesNext]_enginesVars PROVE EnginesInv'
  OBVIOUS
<1>1. ASSUME NEW a \in EngineAdmins, SettingsSteps(a) PROVE EnginesInv'
  BY <1>1, UpdateConfigurationKeeps, SaveKeeps DEF SettingsSteps
<1>2. ASSUME NEW a \in EngineAdmins, CheckSteps(a) PROVE EnginesInv'
  BY <1>2, BeginCheckKeeps, FinishCheckKeeps DEF CheckSteps, Routes
<1>3. ASSUME NEW r \in EngineRuns, RunSteps(r) PROVE EnginesInv'
  BY <1>3, ReadSettingsKeeps, BindKeeps, ProvisionKeeps, scanKeeps, AnswerLostKeeps, ExecuteKeeps DEF RunSteps
<1>4. ASSUME NEW w \in Resolvers, ResolveSteps(w) PROVE EnginesInv'
  BY <1>4, ResolveReadKeeps, ResolveInsertKeeps, EnsureProjectKeeps, FindProjectKeeps, ResolveKeeps DEF ResolveSteps
<1>5. CASE UNCHANGED enginesVars
  <2>1. UNCHANGED <<settingsState, checkState, runState, bindingState>> /\ UNCHANGED <<settingsHead, settingsVersions>>
    BY <1>5 DEF enginesVars, settingsState, checkState, runState, bindingState
  <2> QED
    BY <2>1, SettingsFrame, ChecksFrame, JobsFrame, BindingFrame DEF EnginesInv
<1> QED
  BY <1>1, <1>2, <1>3, <1>4, <1>5, LegacyKeeps DEF EnginesNext

LEMMA EnginesInvCorrect == EnginesInv => SettingsCorrect
<1> SUFFICES ASSUME EnginesInv PROVE SettingsCorrect
  OBVIOUS
<1>1. JobRunsWithItsSettings
  <2> SUFFICES ASSUME NEW r \in EngineRuns, scanJobs[r].ran = "yes"
               PROVE  scanJobs[r].with = IF managed(settingsVersions[engineRuns[r].version])
                                         THEN ProvidersOf(settingsVersions[engineRuns[r].version]) ELSE Baseline
    BY DEF JobRunsWithItsSettings
  <2> DEFINE v == engineRuns[r].version
             u == scanJobs[r].version
  <2>1. RunBound(r) /\ FilesFit /\ SettingsFit
    BY DEF EnginesInv, JobsFit
  <2>2. /\ v \in 1..settingsHead /\ u = (IF managed(settingsVersions[v]) THEN v ELSE 0)
        /\ configFiles[u] # NoConfig /\ scanJobs[r].with = configFiles[u]
    BY <2>1 DEF RunBound
  <2>3. v \in 1..MaxSettings
    BY <2>1, <2>2, EnginesAssumption DEF SettingsFit
  <2> HIDE DEF u, v
  <2>4. CASE managed(settingsVersions[v])
    BY <2>1, <2>2, <2>3, <2>4 DEF FilesFit, v
  <2>5. CASE ~managed(settingsVersions[v])
    BY <2>1, <2>2, <2>5 DEF FilesFit, v
  <2> QED
    BY <2>4, <2>5
<1>2. ShownHealthIsOfThisVersion
  <2> SUFFICES ASSUME NEW route \in {"passive", "active"}, Entry(settingsHead, route) \in DOMAIN checks
               PROVE  checks[Entry(settingsHead, route)].health \in inspect(settingsHead, route)
    BY DEF ShownHealthIsOfThisVersion, Latest
  <2>1. PICK v \in 1..settingsHead, x \in Routes :
          Entry(settingsHead, route) = Entry(v, x) /\ checks[Entry(settingsHead, route)].health \in inspect(v, x)
    BY DEF EnginesInv, ChecksFit
  <2>2. v = settingsHead /\ x = route
    BY <2>1 DEF Entry
  <2> QED
    BY <2>1, <2>2
<1>3. OneRemoteProject
  <2>1. BindingFits
    BY DEF EnginesInv
  <2>2. Cardinality(remoteProjects) <= 1
    <3>1. IsFiniteSet({binding.name}) /\ Cardinality({binding.name}) = 1
      BY FS_Singleton
    <3>2. remoteProjects \subseteq {binding.name}
      BY <2>1 DEF BindingFits
    <3> QED
      BY <3>1, <3>2, FS_Subset
  <2>3. \A w \in Resolvers : resolving[w].pc = "done" => resolving[w].id \in remoteProjects \cap {binding.remote}
    BY <2>1 DEF BindingFits, ResolverFits
  <2> QED
    BY <2>2, <2>3 DEF OneRemoteProject
<1> QED
  BY <1>1, <1>2, <1>3 DEF SettingsCorrect

(* For every set of administrators, runs, patches and workers: a job runs  *)
(* with the provider settings of the version its run was created under, a  *)
(* health shown is one of the version it is shown for, and the workers of  *)
(* a project create at most one remote project and agree on it             *)
(* (engine_settings, engine_management, engine_project_binding).           *)
THEOREM SettingsAreUsedAsRead == EnginesSpec => []SettingsCorrect
<1>1. EnginesInit => EnginesInv
  BY EnginesInitFits
<1>2. EnginesInv /\ [EnginesNext]_enginesVars => EnginesInv'
  BY EnginesStep
<1>3. EnginesInv => SettingsCorrect
  BY EnginesInvCorrect
<1> QED
  BY <1>1, <1>2, <1>3, PTL DEF EnginesSpec

LEMMA StepBuildsOnLatest ==
  ASSUME EnginesInv, [EnginesNext]_enginesVars PROVE EditsBuildOnEachOther
<1>1. CASE UNCHANGED settingsHead
  BY <1>1 DEF EditsBuildOnEachOther
<1>2. CASE settingsHead' # settingsHead
  <2>1. PICK a \in EngineAdmins : Save(a)
    BY <1>2 DEF EnginesNext, enginesVars, SettingsSteps, CheckSteps, RunSteps, ResolveSteps, UpdateConfiguration,
                BeginCheck, FinishCheck, ReadSettings, BindEngineRunSettings, ensureProviderConfiguration, scan,
                AnswerLost, Execute, ResolveRead, ResolveInsert, ensureManagedProject, findManagedProject,
                LegacyCreationArrives, Resolve, settingsState
  <2> DEFINE e == edits[a]
             old == settingsVersions[settingsHead]
  <2>2. /\ e.pc = "save" /\ settingsHead = e.version /\ settingsHead' = settingsHead + 1
        /\ settingsVersions' = [settingsVersions EXCEPT ![settingsHead + 1] = e.next]
    BY <1>2, <2>1 DEF Save
  <2>3. SettingsFit /\ EditMade(e, settingsHead, settingsVersions)
    BY DEF EnginesInv, SettingsFit
  <2>4. \A k \in DOMAIN old : e.next[k] # old[k] => k \in DOMAIN e.patch.values \cup e.patch.clear
    BY <2>2, <2>3 DEF EditMade
  <2>5. settingsHead + 1 \in 1..MaxSettings
    BY <2>2, <2>3, EnginesAssumption DEF SettingsFit, EditMade
  <2> HIDE DEF e
  <2>6. settingsVersions'[settingsHead'] = e.next
    BY <2>2, <2>3, <2>5 DEF SettingsFit
  <2> QED
    BY <2>2, <2>4, <2>6 DEF EditsBuildOnEachOther, e
<1> QED
  BY <1>1, <1>2

(* No administrator's edit is lost: whatever the requests overlap with, a  *)
(* version saved is the one before it with the patch of its own request    *)
(* (Save compares the version under the lock on the head).                 *)
THEOREM NoEditIsLost == EnginesSpec => [][EditsBuildOnEachOther]_enginesVars
<1>1. EnginesInit => EnginesInv
  BY EnginesInitFits
<1>2. EnginesInv /\ [EnginesNext]_enginesVars => EnginesInv'
  BY EnginesStep
<1>3. EnginesInv /\ [EnginesNext]_enginesVars => [EditsBuildOnEachOther]_enginesVars
  BY StepBuildsOnLatest
<1> QED
  BY <1>1, <1>2, <1>3, PTL DEF EnginesSpec

(* The cache of checks is cleared before it outgrows its limit. *)
CacheBounded == IsFiniteSet(DOMAIN checks) /\ Cardinality(DOMAIN checks) <= CheckCacheLimit + 1

LEMMA PutBounded ==
  ASSUME CacheBounded, NEW version, NEW summary, checks' = put(checks, version, summary) PROVE CacheBounded'
<1> DEFINE kept == IF Cardinality(DOMAIN checks) > CheckCacheLimit THEN {} ELSE DOMAIN checks
           key == Entry(version, summary.route)
<1>1. DOMAIN checks' = kept \cup {key}
  BY DEF put
<1>2. IsFiniteSet(kept) /\ Cardinality(kept) \in Nat /\ Cardinality(kept) <= CheckCacheLimit
  <2>1. IsFiniteSet({}) /\ Cardinality({}) = 0 /\ CheckCacheLimit \in Nat
    BY FS_EmptySet, EnginesAssumption
  <2>2. Cardinality(DOMAIN checks) \in Nat
    BY FS_CardinalityType DEF CacheBounded
  <2> QED
    BY <2>1, <2>2 DEF CacheBounded
<1> HIDE DEF kept, key
<1>3. /\ IsFiniteSet(kept \cup {key})
      /\ Cardinality(kept \cup {key}) = Cardinality(kept) \/ Cardinality(kept \cup {key}) = Cardinality(kept) + 1
  BY <1>2, FS_AddElement
<1>4. Cardinality(kept \cup {key}) <= CheckCacheLimit + 1
  BY <1>2, <1>3, EnginesAssumption
<1> QED
  BY <1>1, <1>3, <1>4 DEF CacheBounded

LEMMA CacheStep == CacheBounded /\ [EnginesNext]_enginesVars => CacheBounded'
<1> SUFFICES ASSUME CacheBounded, [EnginesNext]_enginesVars PROVE CacheBounded'
  OBVIOUS
<1>1. ASSUME NEW a, NEW h, FinishCheck(a, h) PROVE CacheBounded'
  BY <1>1, PutBounded DEF FinishCheck
<1>2. ASSUME ~\E a, h : FinishCheck(a, h) PROVE UNCHANGED checks
  BY <1>2 DEF EnginesNext, enginesVars, SettingsSteps, CheckSteps, RunSteps, ResolveSteps, UpdateConfiguration, Save,
              BeginCheck, ReadSettings, BindEngineRunSettings, ensureProviderConfiguration, scan,
              AnswerLost, Execute, ResolveRead, ResolveInsert, ensureManagedProject, findManagedProject,
              LegacyCreationArrives, Resolve, checkState
<1> QED
  BY <1>1, <1>2 DEF CacheBounded

(* Versions, edits, checks, runs and bindings keep their types, and the    *)
(* cache of checks stays within its limit however many administrators ask  *)
(* at once (put).                                                          *)
THEOREM EnginesTypeCorrect == EnginesSpec => []EnginesTypeOK
<1>1. EnginesInit => EnginesInv /\ CacheBounded
  <2>1. ASSUME EnginesInit PROVE CacheBounded
    <3>1. DOMAIN checks = {}
      BY <2>1 DEF EnginesInit
    <3> QED
      BY <3>1, FS_EmptySet, EnginesAssumption DEF CacheBounded
  <2> QED
    BY <2>1, EnginesInitFits
<1>2. EnginesInv /\ CacheBounded /\ [EnginesNext]_enginesVars => EnginesInv' /\ CacheBounded'
  BY EnginesStep, CacheStep
<1>3. EnginesInv /\ CacheBounded => EnginesTypeOK
  <2> SUFFICES ASSUME EnginesInv, CacheBounded PROVE EnginesTypeOK
    OBVIOUS
  <2>1. settingsHead \in 1..MaxSettings /\ \A v \in 1..MaxSettings : DOMAIN settingsVersions[v] \in SettingsDomains
    BY DEF EnginesInv, SettingsFit
  <2>2. \A r \in EngineRuns : engineRuns[r] \in EngineRunType
    BY DEF EnginesInv, JobsFit
  <2>3. \A r \in EngineRuns : /\ engineRuns[r].version \in 0..MaxSettings
                              /\ engineRuns[r].status \in {"none", "creating", "pending", "provisioned",
                                                           "dispatched", "rejected"}
    BY <2>2 DEF EngineRunType
  <2>4. ASSUME NEW k \in DOMAIN checks PROVE k \in (1..MaxSettings) \X {"passive", "active"}
    <3>1. PICK v \in 1..settingsHead, route \in Routes : k = Entry(v, route)
      BY DEF EnginesInv, ChecksFit
    <3>2. v \in 1..MaxSettings
      BY <2>1, EnginesAssumption
    <3> QED
      BY <3>1, <3>2 DEF Entry, Routes
  <2>5. \A w \in Resolvers : resolving[w] \in ResolveType
    BY DEF EnginesInv, BindingFits
  <2>6. \A w \in Resolvers : resolving[w].pc \in {"idle", "insert", "call", "update", "done"}
    BY <2>5 DEF ResolveType
  <2> QED
    BY <2>1, <2>3, <2>4, <2>6 DEF EnginesTypeOK, CacheBounded, SettingsDomains
<1> QED
  BY <1>1, <1>2, <1>3, PTL DEF EnginesSpec

-----------------------------------------------------------------------------
(* The services around a run, all of them at once.                         *)

DiscoveryServices ==
  /\ AssetSpec /\ ScopesSpec /\ EnginesSpec /\ EnrichmentSpec
  /\ ActiveSpec /\ ExecutorSpec /\ CliSpec

(* Whatever the services around a discovery run do at the same time, every *)
(* variable of every one of them keeps its type.                           *)
THEOREM DiscoveryTypeCorrect == DiscoveryServices => []DiscoveryTypeOK
  BY AssetTypeCorrect, ScopesTypeCorrect, EnginesTypeCorrect, EnrichmentTypeCorrect,
     ActiveTypeCorrect, ExecutorTypeCorrect, CliTypeCorrect, PTL DEF DiscoveryServices, DiscoveryTypeOK

(* An execution sends nothing that refers to an unreported asset and calls *)
(* only a whole one a success (Execute); a command line that is killed any *)
(* number of times resumes after exactly what is done and on disk (Run).   *)
THEOREM ReportsAreCorrect == DiscoveryServices => []ReportsCorrect
  BY ExecutionReportsCorrectly, ScanResumesCorrectly, PTL DEF DiscoveryServices, ReportsCorrect

LEMMA StutterUndoesNothing ==
  /\ UNCHANGED enginesVars => EditsBuildOnEachOther
  /\ UNCHANGED assetVars => InactiveAfterMisses
<1>1. UNCHANGED enginesVars => EditsBuildOnEachOther
  BY DEF enginesVars, settingsState, EditsBuildOnEachOther
<1>2. UNCHANGED assetVars => InactiveAfterMisses
  BY DEF assetVars, InactiveAfterMisses
<1> QED
  BY <1>1, <1>2

(* No step of theirs undoes what another has done since the step read: a   *)
(* saved edit of the settings (Save), the hit that starts the misses of an *)
(* asset anew (CloseRun).                                                  *)
THEOREM NothingIsUndone == DiscoveryServices => NothingUndone
<1>1. [EditsBuildOnEachOther]_enginesVars /\ [InactiveAfterMisses]_assetVars
      => [EditsBuildOnEachOther /\ InactiveAfterMisses]_discoveryVars
  BY StutterUndoesNothing
<1> QED
  BY <1>1, NoEditIsLost, MissesBeforeInactive, PTL DEF DiscoveryServices, NothingUndone

=============================================================================
