--------------------------- MODULE TicketsProofs ----------------------------
(***************************************************************************)
(* Risks and the tickets that drive them, for every set of risks, people,  *)
(* tickets and concurrent requests: what a risk's row says is what its     *)
(* histories say, a ticket links only risks that were looked at, and moves *)
(* only along its table.                                                   *)
(***************************************************************************)
EXTENDS Tickets, TLAPS

-----------------------------------------------------------------------------
(* Risks.                                                                  *)

ScanRead == [op : {"scan"}, params : RiskParams, status : RiskStatuses \cup {"absent"}]
SlaRead == [op : {"sla"}, row : RiskRow]
ScoreRead == [op : {"score"}, score : 0..100]

\* What the row of a risk, its histories and what a scan or a pass has read of
\* it say of each other.  A scan carries a level that fits its score, a
\* due-date pass a row whose fixed_at fits its status, and a risk that a pass
\* has read exists.
RiskFine(row, tr, log, ds, ev, sc, pa) ==
    /\ row = NoRow => tr = "none" /\ pa = Idle
    /\ row # NoRow =>
          /\ \/ tr = "none" /\ row.status = "new"
             \/ tr = row.status
             \/ tr = "fixed" /\ row.status = "reopened" /\ ev = "reopened"
          /\ row.status \in DecisionStatuses =>
                \E d \in ds : d.decision = row.status /\ d.approvedBy # d.actor
          /\ row.fixedAt <=> row.status = "fixed"
          /\ row.status \in {"assigned", "fixing"} => row.due
          /\ log = row.score /\ row.level = scoreLevel(log)
    /\ sc # Idle => sc.params.level = scoreLevel(sc.params.score)
    /\ pa # Idle /\ pa.op = "sla" => (pa.row.fixedAt <=> pa.row.status = "fixed")

FineAt(r) == RiskFine(risk[r], trail[r], scoreLog[r], decisions[r], events[r], scan[r], pass[r])

RiskInv == RiskTypeOK /\ \A r \in Risks : FineAt(r)

LEMMA WeightFacts ==
    /\ DOMAIN SeverityWeight = {"critical", "high", "medium", "low", "info"}
    /\ SeverityWeight \in [DOMAIN SeverityWeight -> Nat]
  BY DEF SeverityWeight

LEMMA LevelType ==
    ASSUME NEW s \in Nat
    PROVE  scoreLevel(s) \in DOMAIN SeverityWeight
  BY DEF scoreLevel, SeverityWeight

LEMMA ScoreType ==
    ASSUME NEW r, NEW titled, NEW severity \in Severities, NEW unit \in Units
    PROVE  scoreRisk(r, titled, severity, unit) \in 0..100
  <1> DEFINE w == SeverityWeight[severity]
             b == Criticality[unit]
             x == IF r \in Exposed THEN 20 ELSE 0
             m == IF isManagementRisk(r, titled) THEN 10 ELSE 0
  <1>1. w \in Nat /\ b \in Nat
    BY WeightFacts, RisksAssumption
  <1>2. x \in Nat /\ m \in Nat
    OBVIOUS
  <1>3. scoreRisk(r, titled, severity, unit) = clampScoreInt(w + b + x + m)
    BY DEF scoreRisk
  <1> HIDE DEF w, b, x, m
  <1> QED BY <1>1, <1>2, <1>3 DEF clampScoreInt

LEMMA NextStatusFacts ==
    /\ nextRiskStatus("confirm") = "confirmed" /\ nextRiskStatus("assign") = "assigned"
    /\ nextRiskStatus("start_fix") = "fixing" /\ nextRiskStatus("mark_fixed") = "fixed"
    /\ nextRiskStatus("reopen") = "reopened" /\ nextRiskStatus("accept") = "risk_accepted"
    /\ nextRiskStatus("false_positive") = "false_positive"
    /\ FromStatuses("start_fix") = {"assigned"}
  BY DEF nextRiskStatus, FromStatuses

LEMMA NextStatusType ==
    ASSUME NEW a \in StatusActions
    PROVE  /\ nextRiskStatus(a) \in RiskStatuses \ {"new"}
           /\ nextRiskStatus(a) = "fixing" => a = "start_fix"
  BY NextStatusFacts DEF StatusActions, RiskStatuses

LEMMA RiskRowFacts ==
    /\ NoRow \notin RiskRow /\ NoRow.status = "absent" /\ "absent" \notin RiskStatuses
    /\ Idle.op = "idle"
    /\ Idle \notin ScanRead /\ Idle \notin SlaRead /\ Idle \notin ScoreRead
  <1>1. NoRow \notin RiskRow /\ NoRow.status = "absent" /\ "absent" \notin RiskStatuses
    BY DEF NoRow, RiskRow, RiskStatuses
  <1>2. Idle.op = "idle" /\ Idle \notin ScanRead /\ Idle \notin SlaRead /\ Idle \notin ScoreRead
    BY DEF Idle, ScanRead, SlaRead, ScoreRead
  <1> QED BY <1>1, <1>2

\* The row UpdateRiskStatus writes.
StatusWritten(row, update) ==
    [row EXCEPT !.status = update.status, !.owner = update.owner, !.due = update.due,
                !.confirmedAt = update.confirmedAt, !.fixedAt = update.fixedAt]

LEMMA StatusWrittenFacts ==
    ASSUME NEW row \in RiskRow, NEW update \in RiskRow
    PROVE  LET n == StatusWritten(row, update)
           IN  /\ n \in RiskRow
               /\ n.status = update.status /\ n.due = update.due /\ n.fixedAt = update.fixedAt
               /\ n.score = row.score /\ n.level = row.level
  BY DEF StatusWritten, RiskRow

LEMMA UpdateFacts ==
    ASSUME NEW row \in RiskRow, NEW in \in TransitionInput,
           Accepts(row, in)
    PROVE  LET next == nextRiskStatus(in.action)
               u == WithDue(row, buildStatusUpdate(row, in, next))
           IN  /\ u \in RiskRow /\ u.status = next
               /\ u.due = (IF next = "assigned" THEN in.due \/ ResolveDueAt(row)
                                                ELSE row.due \/ ResolveDueAt(row))
               /\ u.fixedAt = (IF next = "fixed" THEN TRUE
                               ELSE IF next = "reopened" THEN FALSE ELSE row.fixedAt)
  <1> DEFINE next == nextRiskStatus(in.action)
             b == buildStatusUpdate(row, in, next)
  <1>1. next \in RiskStatuses /\ (next = "assigned" => in.owner \in RiskUsers)
    BY NextStatusType DEF TransitionInput, Accepts, validateTransitionInput
  <1> HIDE DEF next
  <1>2. /\ b \in RiskRow /\ b.status = next
        /\ b.due = (IF next = "assigned" THEN in.due ELSE row.due)
        /\ b.fixedAt = (IF next = "fixed" THEN TRUE
                        ELSE IF next = "reopened" THEN FALSE ELSE row.fixedAt)
    <2> DEFINE owner == IF next = "assigned" THEN in.owner ELSE row.owner
               due == IF next = "assigned" THEN in.due ELSE row.due
               confirmed == row.confirmedAt \/ next = "confirmed"
               fixed == IF next = "fixed" THEN TRUE
                        ELSE IF next = "reopened" THEN FALSE ELSE row.fixedAt
    <2>1. owner \in RiskUsers \cup {NoUser} /\ due \in BOOLEAN /\ fixed \in BOOLEAN
      BY <1>1 DEF RiskRow, TransitionInput
    <2>2. confirmed \in BOOLEAN
      OBVIOUS
    <2>3. b = [row EXCEPT !.status = next, !.owner = owner, !.due = due,
                          !.confirmedAt = confirmed, !.fixedAt = fixed]
      BY DEF buildStatusUpdate, RiskRow
    <2> HIDE DEF owner, due, confirmed, fixed, b
    <2>4. /\ b \in RiskRow /\ b.status = next /\ b.due = due /\ b.fixedAt = fixed
      BY <1>1, <2>1, <2>2, <2>3 DEF RiskRow
    <2> QED BY <2>4 DEF due, fixed
  <1>3. ResolveDueAt(row) \in BOOLEAN
    BY DEF ResolveDueAt, findSLAPolicy, GetSLAPolicy
  <1> HIDE DEF b
  <1>4. /\ WithDue(row, b) \in RiskRow /\ WithDue(row, b).status = b.status
        /\ WithDue(row, b).due = (b.due \/ ResolveDueAt(row))
        /\ WithDue(row, b).fixedAt = b.fixedAt
    BY <1>2, <1>3 DEF WithDue, RiskRow
  <1> QED BY <1>2, <1>4 DEF next, b

\* A step that writes what belongs to one risk.
LEMMA OneRisk ==
    ASSUME RiskInv, NEW r \in Risks, RiskTypeOK', FineAt(r)',
           \A q \in Risks : q # r =>
              /\ risk'[q] = risk[q] /\ trail'[q] = trail[q] /\ scoreLog'[q] = scoreLog[q]
              /\ decisions'[q] = decisions[q] /\ events'[q] = events[q]
              /\ scan'[q] = scan[q] /\ pass'[q] = pass[q]
    PROVE  RiskInv'
  <1>1. ASSUME NEW q \in Risks, q # r PROVE FineAt(q)'
    BY <1>1 DEF RiskInv, FineAt
  <1> QED BY <1>1 DEF RiskInv

\* The configuration of rules, suppressions and policies is not read again.
LEMMA ConfigOnly ==
    ASSUME RiskInv, RiskTypeOK',
           UNCHANGED <<risk, trail, scoreLog, decisions, events, scan, pass>>
    PROVE  RiskInv'
  BY DEF RiskInv, FineAt

LEMMA RowExists ==
    ASSUME RiskInv, NEW r \in Risks, risk[r].status \in RiskStatuses \/ Exists(r)
    PROVE  risk[r] \in RiskRow /\ Exists(r)
  BY RiskRowFacts DEF RiskInv, RiskTypeOK, Exists

\* A risk is never deleted, and one that was looked at is never new again.
TriagedStays ==
    \A q \in Risks : Exists(q) =>
        Exists(q)' /\ (risk[q].status # "new" => risk'[q].status # "new")

LEMMA TransitionKeeps ==
    ASSUME RiskInv, NEW r \in Risks, NEW in \in TransitionInput, TransitionStatus(r, in)
    PROVE  RiskInv' /\ TriagedStays /\ risk'[r].status # "new"
  <1> DEFINE row == risk[r]
             next == nextRiskStatus(in.action)
             u == WithDue(row, buildStatusUpdate(row, in, next))
             n == StatusWritten(row, u)
             d == [decision |-> next, actor |-> in.actor,
                   approvedBy |-> in.approvedBy, expired |-> FALSE]
  <1>1. row \in RiskRow /\ Accepts(row, in)
    BY RowExists DEF TransitionStatus, GetRiskByIDForUpdate
  <1>2. /\ risk' = [risk EXCEPT ![r] = n]
        /\ trail' = [trail EXCEPT ![r] = next]
        /\ decisions' = IF next \in DecisionStatuses
                          THEN [decisions EXCEPT ![r] = decisions[r] \cup {d}] ELSE decisions
        /\ UNCHANGED <<scoreLog, policies, rules, suppress, events, scan, pass>>
    BY DEF TransitionStatus, UpdateRiskStatus, StatusWritten, InsertStatusHistory,
           InsertRiskDecision, RiskInv, RiskTypeOK
  <1>3. next \in RiskStatuses /\ next # "new" /\ (next = "fixing" => in.action = "start_fix")
    BY NextStatusType DEF TransitionInput
  <1>4. next \in DecisionStatuses => d \in Decision /\ d.decision = next /\ d.approvedBy # d.actor
    BY <1>1 DEF Accepts, validateTransitionInput, Decision, TransitionInput
  <1>5. next = "fixing" => row.status = "assigned"
    BY <1>1, <1>3, NextStatusFacts DEF Accepts
  <1>6. next = "assigned" => in.due \/ ResolveDueAt(row)
    BY <1>1 DEF Accepts
  <1>7. /\ u \in RiskRow /\ u.status = next
        /\ u.due = (IF next = "assigned" THEN in.due \/ ResolveDueAt(row)
                                         ELSE row.due \/ ResolveDueAt(row))
        /\ u.fixedAt = (IF next = "fixed" THEN TRUE
                        ELSE IF next = "reopened" THEN FALSE ELSE row.fixedAt)
    BY <1>1, UpdateFacts
  <1>8. /\ n \in RiskRow /\ n.status = next /\ n.due = u.due /\ n.fixedAt = u.fixedAt
        /\ n.score = row.score /\ n.level = row.level
    BY <1>1, <1>7, StatusWrittenFacts
  <1>9. FineAt(r)
    BY DEF RiskInv
  <1>10. row.status = "fixed" => next = "reopened"
    BY <1>1 DEF Accepts, FromStatuses, nextRiskStatus, StatusActions, TransitionInput
  <1>11. n.fixedAt <=> next = "fixed"
    BY <1>1, <1>7, <1>8, <1>9, <1>10, RiskRowFacts DEF FineAt, RiskFine, RiskRow
  <1>12. next \in {"assigned", "fixing"} => n.due
    BY <1>1, <1>5, <1>6, <1>7, <1>8, <1>9, RiskRowFacts DEF FineAt, RiskFine
  <1> HIDE DEF next, u, n, d
  <1>13. risk'[r] = n /\ trail'[r] = next /\ \A q \in Risks : q # r => risk'[q] = risk[q] /\ trail'[q] = trail[q]
    BY <1>2 DEF RiskInv, RiskTypeOK
  <1>14. /\ \A q \in Risks : q # r => decisions'[q] = decisions[q]
         /\ next \in DecisionStatuses => d \in decisions'[r]
         /\ decisions' \in [Risks -> SUBSET Decision]
    BY <1>2, <1>4 DEF RiskInv, RiskTypeOK
  <1>15. RiskTypeOK'
    <2>1. risk' \in [Risks -> RiskRow \cup {NoRow}]
      BY <1>2, <1>8 DEF RiskInv, RiskTypeOK
    <2>2. trail' \in [Risks -> RiskStatuses \cup {"none"}]
      BY <1>2, <1>3 DEF RiskInv, RiskTypeOK
    <2> QED BY <1>2, <1>14, <2>1, <2>2 DEF RiskInv, RiskTypeOK
  <1>16. FineAt(r)'
    <2>1. n # NoRow
      BY <1>8, RiskRowFacts
    <2>2. row # NoRow
      BY <1>1, RiskRowFacts
    <2>3. scoreLog[r] = n.score /\ n.level = scoreLevel(scoreLog[r])
      BY <1>8, <1>9, <2>2 DEF FineAt, RiskFine
    <2>4. next \in DecisionStatuses =>
             \E x \in decisions'[r] : x.decision = next /\ x.approvedBy # x.actor
      BY <1>4, <1>14
    <2>5. RiskFine(n, next, scoreLog[r], decisions'[r], events[r], scan[r], pass[r])
      BY <1>8, <1>9, <1>11, <1>12, <2>1, <2>3, <2>4 DEF FineAt, RiskFine
    <2> QED BY <1>2, <1>13, <2>5 DEF FineAt
  <1>17. RiskInv'
    BY <1>2, <1>13, <1>14, <1>15, <1>16, OneRisk
  <1> QED BY <1>3, <1>8, <1>13, <1>17, RiskRowFacts DEF Exists, TriagedStays

LEMMA ParamsFacts ==
    ASSUME NEW r \in Risks, NEW f \in Findings, NEW severity \in Severities
    PROVE  LET p == RiskParamsOf(r, f, severity)
           IN  p \in RiskParams /\ p.level = scoreLevel(p.score)
  <1> DEFINE score == scoreRisk(r, TRUE, severity, f.unit)
  <1>1. f.unit \in Units /\ f.owner \in RiskUsers \cup {NoUser}
    BY RisksAssumption DEF Findings
  <1>2. score \in 0..100
    BY <1>1, ScoreType
  <1>3. scoreLevel(score) \in DOMAIN SeverityWeight
    <2> HIDE DEF score
    <2>1. score \in Nat
      BY <1>2
    <2> QED BY <2>1, LevelType
  <1>4. applySuppression(r) \in BOOLEAN
    BY DEF applySuppression
  <1> HIDE DEF score
  <1> QED BY <1>1, <1>2, <1>3, <1>4 DEF RiskParamsOf, RiskParams, score

LEMMA BeginScanKeeps ==
    ASSUME RiskInv, NEW r \in Risks, NEW p \in RiskParams, p.level = scoreLevel(p.score),
           BeginScan(r, p)
    PROVE  RiskInv' /\ TriagedStays
  <1> DEFINE x == [op |-> "scan", params |-> p, status |-> risk[r].status]
  <1>1. /\ scan' = [scan EXCEPT ![r] = x]
        /\ UNCHANGED <<risk, trail, scoreLog, decisions, policies, rules, suppress,
                       events, pass>>
    BY DEF BeginScan, GetRiskByKey
  <1>2. risk[r].status \in RiskStatuses \cup {"absent"}
    BY RiskRowFacts DEF RiskInv, RiskTypeOK, RiskRow
  <1>3. x \in ScanRead /\ x.params = p
    BY <1>2 DEF ScanRead
  <1> HIDE DEF x
  <1>4. RiskTypeOK' /\ scan'[r] = x /\ \A q \in Risks : q # r => scan'[q] = scan[q]
    BY <1>1, <1>3 DEF RiskInv, RiskTypeOK, ScanRead
  <1>5. FineAt(r)'
    BY <1>1, <1>3, <1>4 DEF RiskInv, FineAt, RiskFine
  <1>6. RiskInv'
    BY <1>1, <1>4, <1>5, OneRisk
  <1> QED BY <1>1, <1>6 DEF TriagedStays, Exists

LEMMA ScanBeginsKeep ==
    ASSUME RiskInv, NEW r \in Risks, NEW f \in Findings,
           ApplyRules(r, f) \/ ApplyDefinitionMatches(r, f) \/ ReportCertificateFinding(r, f)
    PROVE  RiskInv' /\ TriagedStays
  <1>1. PICK severity \in Severities : BeginScan(r, RiskParamsOf(r, f, severity))
    <2>1. f.severity \in Severities /\ "critical" \in Severities /\ "high" \in Severities
      BY RisksAssumption DEF Findings
    <2> QED BY <2>1 DEF ApplyRules, ApplyDefinitionMatches, ReportCertificateFinding,
                        buildRuleRiskParams, buildRiskParams, certificateRiskParams
  <1>2. LET p == RiskParamsOf(r, f, severity)
        IN  p \in RiskParams /\ p.level = scoreLevel(p.score)
    BY ParamsFacts
  <1> QED BY <1>1, <1>2, BeginScanKeeps

\* What a scan writes over a row.
LEMMA RefreshedFacts ==
    ASSUME NEW row \in RiskRow, NEW p \in RiskParams
    PROVE  LET n == Refreshed(row, p)
               o == [n EXCEPT !.status = "reopened", !.fixedAt = FALSE]
           IN  /\ n \in RiskRow /\ n.status = row.status /\ n.fixedAt = row.fixedAt
               /\ n.due = row.due /\ n.score = p.score /\ n.level = p.level
               /\ o \in RiskRow /\ o.status = "reopened" /\ o.fixedAt = FALSE
               /\ o.score = p.score /\ o.level = p.level
  <1> DEFINE n == Refreshed(row, p)
  <1>1. /\ n \in RiskRow /\ n.status = row.status /\ n.fixedAt = row.fixedAt
        /\ n.due = row.due /\ n.score = p.score /\ n.level = p.level
    BY DEF Refreshed, RiskRow, RiskParams
  <1> HIDE DEF n
  <1> DEFINE o == [n EXCEPT !.status = "reopened", !.fixedAt = FALSE]
  <1>2. /\ o \in RiskRow /\ o.status = "reopened" /\ o.fixedAt = FALSE
        /\ o.score = n.score /\ o.level = n.level
    BY <1>1 DEF RiskRow, RiskStatuses
  <1> QED BY <1>1, <1>2 DEF n

LEMMA ScanWriteKeeps ==
    ASSUME RiskInv, NEW r \in Risks, ScanWrite(r)
    PROVE  RiskInv' /\ TriagedStays
  <1> DEFINE p == scan[r].params
             seen == scan[r].status
             row == risk[r]
  <1>1. /\ scan[r] # Idle /\ scan' = [scan EXCEPT ![r] = Idle]
        /\ UNCHANGED <<trail, decisions, policies, rules, suppress, pass>>
        /\ scoreLog' = [scoreLog EXCEPT ![r] = risk'[r].score]
    BY DEF ScanWrite, InsertScoreHistory
  <1>2. p \in RiskParams /\ p.level = scoreLevel(p.score)
    BY <1>1 DEF RiskInv, RiskTypeOK, FineAt, RiskFine
  <1>3. FineAt(r)
    BY DEF RiskInv
  <1>4. PICK n \in RiskRow :
          /\ risk' = [risk EXCEPT ![r] = n] /\ n.score = p.score /\ n.level = p.level
          /\ \/ /\ row = NoRow /\ n.status = "new" /\ n.fixedAt = FALSE
                /\ events' = [events EXCEPT ![r] = "new"]
             \/ /\ row \in RiskRow /\ row.status = "fixed" /\ n.status = "reopened"
                /\ n.fixedAt = FALSE /\ events' = [events EXCEPT ![r] = "reopened"]
             \/ /\ row \in RiskRow /\ n.status = row.status /\ n.fixedAt = row.fixedAt
                /\ n.due = row.due /\ events' = events
    <2>1. CASE CreateRisk(r, p) /\ InsertRiskChangeEvent(r, "new")
      <3> DEFINE n == [status |-> "new", owner |-> p.owner, due |-> FALSE,
                       confirmedAt |-> FALSE, fixedAt |-> FALSE,
                       severity |-> p.severity, unit |-> p.unit,
                       score |-> p.score, level |-> p.level,
                       suppressed |-> p.suppressed]
      <3>1. n \in RiskRow /\ n.score = p.score /\ n.level = p.level /\ n.status = "new"
            /\ n.fixedAt = FALSE
        BY <1>2 DEF RiskRow, RiskParams, RiskStatuses
      <3>2. risk' = [risk EXCEPT ![r] = n] /\ row = NoRow
        BY <2>1 DEF CreateRisk, Exists
      <3>3. events' = [events EXCEPT ![r] = "new"]
        BY <2>1 DEF InsertRiskChangeEvent
      <3> HIDE DEF n
      <3> QED BY <3>1, <3>2, <3>3
    <2>2. CASE ReopenRisk(r, p) /\ InsertRiskChangeEvent(r, "reopened")
      <3> DEFINE n == [Refreshed(row, p) EXCEPT !.status = "reopened", !.fixedAt = FALSE]
      <3>1. row.status = "fixed" /\ row \in RiskRow
        BY <2>2, RowExists DEF ReopenRisk, RiskStatuses
      <3>2. n \in RiskRow /\ n.score = p.score /\ n.level = p.level /\ n.status = "reopened"
            /\ n.fixedAt = FALSE
        BY <1>2, <3>1, RefreshedFacts
      <3>3. risk' = [risk EXCEPT ![r] = n] /\ events' = [events EXCEPT ![r] = "reopened"]
        BY <2>2 DEF ReopenRisk, InsertRiskChangeEvent
      <3> HIDE DEF n
      <3> QED BY <3>1, <3>2, <3>3
    <2>3. CASE RefreshRisk(r, p) /\ UNCHANGED events
      <3> DEFINE n == Refreshed(row, p)
      <3>1. row \in RiskRow
        BY <2>3, RowExists DEF RefreshRisk
      <3>2. n \in RiskRow /\ n.status = row.status /\ n.fixedAt = row.fixedAt
            /\ n.due = row.due /\ n.score = p.score /\ n.level = p.level
        BY <1>2, <3>1, RefreshedFacts
      <3>3. risk' = [risk EXCEPT ![r] = n] /\ events' = events
        BY <2>3 DEF RefreshRisk
      <3> HIDE DEF n
      <3> QED BY <3>1, <3>2, <3>3
    <2> QED BY <2>1, <2>2, <2>3 DEF ScanWrite
  <1>5. /\ risk'[r] = n /\ n # NoRow /\ \A q \in Risks : q # r => risk'[q] = risk[q]
        /\ risk' \in [Risks -> RiskRow \cup {NoRow}]
    BY <1>4, RiskRowFacts DEF RiskInv, RiskTypeOK
  <1>6. /\ scoreLog'[r] = n.score /\ \A q \in Risks : q # r => scoreLog'[q] = scoreLog[q]
        /\ scoreLog' \in [Risks -> 0..100]
    BY <1>1, <1>4, <1>5 DEF RiskInv, RiskTypeOK, RiskRow
  <1>7. /\ scan'[r] = Idle /\ \A q \in Risks : q # r => scan'[q] = scan[q]
        /\ scan' \in [Risks -> ScanRead \cup {Idle}]
    BY <1>1 DEF RiskInv, RiskTypeOK, ScanRead
  <1>8. /\ \A q \in Risks : q # r => events'[q] = events[q]
        /\ events' \in [Risks -> {"none", "new", "reopened"}]
    BY <1>4 DEF RiskInv, RiskTypeOK
  <1>9. RiskTypeOK'
    BY <1>1, <1>5, <1>6, <1>7, <1>8 DEF RiskInv, RiskTypeOK, ScanRead
  <1>10. FineAt(r)'
    <2>1. CASE row = NoRow /\ n.status = "new" /\ n.fixedAt = FALSE
      BY <1>1, <1>2, <1>3, <1>4, <1>5, <1>6, <1>7, <2>1 DEF FineAt, RiskFine, DecisionStatuses
    <2>2. CASE /\ row \in RiskRow /\ row.status = "fixed" /\ n.status = "reopened"
               /\ n.fixedAt = FALSE /\ events' = [events EXCEPT ![r] = "reopened"]
      <3>1. events'[r] = "reopened" /\ trail[r] = "fixed"
        BY <1>3, <2>2, RiskRowFacts DEF RiskInv, RiskTypeOK, FineAt, RiskFine
      <3> QED BY <1>1, <1>2, <1>3, <1>4, <1>5, <1>6, <1>7, <2>2, <3>1, RiskRowFacts
              DEF FineAt, RiskFine, DecisionStatuses
    <2>3. CASE /\ row \in RiskRow /\ n.status = row.status /\ n.fixedAt = row.fixedAt
               /\ n.due = row.due /\ events' = events
      BY <1>1, <1>2, <1>3, <1>4, <1>5, <1>6, <1>7, <2>3, RiskRowFacts DEF FineAt, RiskFine
    <2> QED BY <1>4, <2>1, <2>2, <2>3
  <1>11. RiskInv'
    BY <1>1, <1>5, <1>6, <1>7, <1>8, <1>9, <1>10, OneRisk
  <1> QED BY <1>4, <1>5, <1>11, RiskRowFacts DEF TriagedStays, Exists

LEMMA ScanRollbackKeeps ==
    ASSUME RiskInv, NEW r \in Risks, ScanRollback(r)
    PROVE  RiskInv' /\ TriagedStays
  <1>1. /\ scan' = [scan EXCEPT ![r] = Idle]
        /\ UNCHANGED <<risk, trail, scoreLog, decisions, policies, rules, suppress,
                       events, pass>>
    BY DEF ScanRollback
  <1>2. RiskTypeOK' /\ scan'[r] = Idle /\ \A q \in Risks : q # r => scan'[q] = scan[q]
    BY <1>1 DEF RiskInv, RiskTypeOK
  <1>3. FineAt(r)'
    BY <1>1, <1>2 DEF RiskInv, FineAt, RiskFine
  <1>4. RiskInv'
    BY <1>1, <1>2, <1>3, OneRisk
  <1> QED BY <1>1, <1>4 DEF TriagedStays, Exists

\* A pass begins: it holds what it read of the row.
LEMMA PassReadKeeps ==
    ASSUME RiskInv, NEW r \in Risks, RecalculateSLARead(r) \/ RecalculateScoresRead(r)
    PROVE  RiskInv' /\ TriagedStays
  <1>1. Exists(r) /\ risk[r] \in RiskRow
    BY RowExists DEF RecalculateSLARead, RecalculateScoresRead, ListOpenRisksForSLARecalc
  <1>2. UNCHANGED <<risk, trail, scoreLog, decisions, policies, rules, suppress,
                    events, scan>>
    BY DEF RecalculateSLARead, RecalculateScoresRead
  <1>3. PICK x : /\ x \in SlaRead \/ x \in ScoreRead
                 /\ x.op = "sla" => x.row = risk[r]
                 /\ pass' = [pass EXCEPT ![r] = x]
    <2>1. CASE RecalculateSLARead(r)
      <3> DEFINE x == [op |-> "sla", row |-> risk[r]]
      <3>1. x \in SlaRead /\ x.row = risk[r]
        BY <1>1 DEF SlaRead
      <3>2. pass' = [pass EXCEPT ![r] = x]
        BY <2>1 DEF RecalculateSLARead
      <3> QED BY <3>1, <3>2
    <2>2. CASE RecalculateScoresRead(r)
      <3> DEFINE score == scoreRisk(r, FALSE, risk[r].severity, risk[r].unit)
                 x == [op |-> "score", score |-> score]
      <3>1. risk[r].severity \in Severities /\ risk[r].unit \in Units
        BY <1>1 DEF RiskRow
      <3>2. score \in 0..100
        BY <3>1, ScoreType
      <3>3. pass' = [pass EXCEPT ![r] = x]
        BY <2>2 DEF RecalculateScoresRead
      <3> HIDE DEF score
      <3>4. x \in ScoreRead /\ x.op # "sla"
        BY <3>2 DEF ScoreRead
      <3> QED BY <3>3, <3>4
    <2> QED BY <2>1, <2>2
  <1>4. /\ pass'[r] = x /\ \A q \in Risks : q # r => pass'[q] = pass[q]
        /\ RiskTypeOK'
    BY <1>2, <1>3 DEF RiskInv, RiskTypeOK, SlaRead, ScoreRead
  <1>5. FineAt(r)'
    BY <1>1, <1>2, <1>3, <1>4 DEF RiskInv, FineAt, RiskFine, Exists
  <1>6. RiskInv'
    BY <1>2, <1>4, <1>5, OneRisk
  <1> QED BY <1>2, <1>6 DEF TriagedStays, Exists

LEMMA PassEnds ==
    ASSUME RiskInv, NEW r \in Risks, pass' = [pass EXCEPT ![r] = Idle]
    PROVE  /\ pass' \in [Risks -> SlaRead \cup ScoreRead \cup {Idle}]
           /\ pass'[r] = Idle /\ \A q \in Risks : q # r => pass'[q] = pass[q]
  BY DEF RiskInv, RiskTypeOK, SlaRead, ScoreRead

\* The due-date pass writes an older copy of the row over one with the same
\* status, so fixed_at of the copy is that of the row.
LEMMA SLAWriteKeeps ==
    ASSUME RiskInv, NEW r \in Risks, RecalculateSLAWrite(r)
    PROVE  RiskInv' /\ TriagedStays
  <1> DEFINE old == pass[r].row
             u == [old EXCEPT !.due = TRUE]
             n == StatusWritten(risk[r], u)
  <1>1. /\ pass[r].op = "sla" /\ risk[r].status = old.status
        /\ risk' = [risk EXCEPT ![r] = n] /\ pass' = [pass EXCEPT ![r] = Idle]
        /\ UNCHANGED <<trail, scoreLog, decisions, policies, rules, suppress,
                       events, scan>>
    BY DEF RecalculateSLAWrite, UpdateRiskStatus, StatusWritten
  <1>2. old \in RiskRow /\ (old.fixedAt <=> old.status = "fixed")
    BY <1>1, RiskRowFacts DEF RiskInv, RiskTypeOK, FineAt, RiskFine, ScoreRead
  <1>3. risk[r] \in RiskRow /\ Exists(r)
    BY <1>1, <1>2, RowExists DEF RiskRow
  <1>4. u \in RiskRow /\ u.status = old.status /\ u.due = TRUE /\ u.fixedAt = old.fixedAt
    BY <1>2 DEF RiskRow
  <1>5. /\ n \in RiskRow /\ n.status = risk[r].status /\ n.due = TRUE
        /\ n.fixedAt = old.fixedAt /\ n.score = risk[r].score /\ n.level = risk[r].level
    BY <1>1, <1>3, <1>4, StatusWrittenFacts
  <1> HIDE DEF old, u, n
  <1>6. /\ risk'[r] = n /\ n # NoRow /\ \A q \in Risks : q # r => risk'[q] = risk[q]
        /\ risk' \in [Risks -> RiskRow \cup {NoRow}]
    BY <1>1, <1>5, RiskRowFacts DEF RiskInv, RiskTypeOK
  <1>7. RiskTypeOK'
    BY <1>1, <1>6, PassEnds DEF RiskInv, RiskTypeOK, SlaRead, ScoreRead
  <1>8. FineAt(r)'
    BY <1>1, <1>2, <1>3, <1>5, <1>6, PassEnds DEF RiskInv, FineAt, RiskFine, Exists
  <1>9. RiskInv'
    BY <1>1, <1>6, <1>7, <1>8, PassEnds, OneRisk
  <1> QED BY <1>5, <1>6, <1>9 DEF TriagedStays, Exists

LEMMA ScoreWriteKeeps ==
    ASSUME RiskInv, NEW r \in Risks, RecalculateScoresWrite(r)
    PROVE  RiskInv' /\ TriagedStays
  <1> DEFINE score == pass[r].score
             n == [risk[r] EXCEPT !.score = score, !.level = scoreLevel(score)]
  <1>1. /\ pass[r].op = "score" /\ risk' = [risk EXCEPT ![r] = n]
        /\ scoreLog' = [scoreLog EXCEPT ![r] = risk'[r].score]
        /\ pass' = [pass EXCEPT ![r] = Idle]
        /\ UNCHANGED <<trail, decisions, policies, rules, suppress, events, scan>>
    BY DEF RecalculateScoresWrite, UpdateRiskScore, InsertScoreHistory
  <1>2. pass[r] \in ScoreRead
    BY <1>1, RiskRowFacts DEF RiskInv, RiskTypeOK, SlaRead, ScoreRead
  <1>3. score \in 0..100 /\ pass[r] # Idle
    BY <1>2, RiskRowFacts DEF ScoreRead
  <1>4. risk[r] \in RiskRow /\ Exists(r)
    BY <1>3, RowExists DEF RiskInv, FineAt, RiskFine, Exists
  <1>5. scoreLevel(score) \in DOMAIN SeverityWeight
    <2>1. score \in Nat
      BY <1>3
    <2> HIDE DEF score
    <2> QED BY <2>1, LevelType
  <1> HIDE DEF score
  <1>6. /\ n \in RiskRow /\ n.status = risk[r].status /\ n.due = risk[r].due
        /\ n.fixedAt = risk[r].fixedAt /\ n.score = score /\ n.level = scoreLevel(score)
    BY <1>3, <1>4, <1>5 DEF RiskRow
  <1> HIDE DEF n
  <1>7. /\ risk'[r] = n /\ n # NoRow /\ \A q \in Risks : q # r => risk'[q] = risk[q]
        /\ risk' \in [Risks -> RiskRow \cup {NoRow}]
    BY <1>1, <1>6, RiskRowFacts DEF RiskInv, RiskTypeOK
  <1>8. /\ scoreLog'[r] = score /\ \A q \in Risks : q # r => scoreLog'[q] = scoreLog[q]
        /\ scoreLog' \in [Risks -> 0..100]
    BY <1>1, <1>3, <1>6, <1>7 DEF RiskInv, RiskTypeOK
  <1>9. RiskTypeOK'
    BY <1>1, <1>7, <1>8, PassEnds DEF RiskInv, RiskTypeOK, SlaRead, ScoreRead
  <1>10. FineAt(r)'
    BY <1>1, <1>4, <1>6, <1>7, <1>8, PassEnds DEF RiskInv, FineAt, RiskFine, Exists
  <1>11. RiskInv'
    BY <1>1, <1>7, <1>8, <1>9, <1>10, PassEnds, OneRisk
  <1> QED BY <1>6, <1>7, <1>11 DEF TriagedStays, Exists

LEMMA PassAbortsKeeps ==
    ASSUME RiskInv, NEW r \in Risks, PassAborts(r)
    PROVE  RiskInv' /\ TriagedStays
  <1>1. /\ pass' = [pass EXCEPT ![r] = Idle]
        /\ UNCHANGED <<risk, trail, scoreLog, decisions, policies, rules, suppress,
                       events, scan>>
    BY DEF PassAborts
  <1>2. RiskTypeOK'
    BY <1>1, PassEnds DEF RiskInv, RiskTypeOK, SlaRead, ScoreRead
  <1>3. FineAt(r)'
    BY <1>1, PassEnds DEF RiskInv, FineAt, RiskFine
  <1>4. RiskInv'
    BY <1>1, <1>2, <1>3, PassEnds, OneRisk
  <1> QED BY <1>1, <1>4 DEF TriagedStays, Exists

\* An expired decision still names who took and who approved it.
LEMMA DecisionExpiresKeeps ==
    ASSUME RiskInv, NEW r \in Risks, DecisionExpires(r)
    PROVE  RiskInv' /\ TriagedStays
  <1>1. PICK d \in decisions[r] :
           decisions' = [decisions EXCEPT ![r] =
                            (decisions[r] \ {d}) \cup {[d EXCEPT !.expired = TRUE]}]
    BY DEF DecisionExpires, RiskInv, RiskTypeOK
  <1> DEFINE e == [d EXCEPT !.expired = TRUE]
  <1>2. UNCHANGED <<risk, trail, scoreLog, policies, rules, suppress, events,
                    scan, pass>>
    BY DEF DecisionExpires
  <1>3. d \in Decision
    BY DEF RiskInv, RiskTypeOK
  <1>4. e \in Decision /\ e.decision = d.decision /\ e.actor = d.actor
        /\ e.approvedBy = d.approvedBy
    BY <1>3 DEF Decision
  <1> HIDE DEF e
  <1>5. /\ decisions'[r] = (decisions[r] \ {d}) \cup {e}
        /\ \A q \in Risks : q # r => decisions'[q] = decisions[q]
    BY <1>1 DEF RiskInv, RiskTypeOK, e
  <1>6. decisions' \in [Risks -> SUBSET Decision]
    BY <1>1, <1>4 DEF RiskInv, RiskTypeOK, e
  <1>7. RiskTypeOK'
    BY <1>2, <1>6 DEF RiskInv, RiskTypeOK
  <1>8. \A s : (\E x \in decisions[r] : x.decision = s /\ x.approvedBy # x.actor) =>
                 \E x \in decisions'[r] : x.decision = s /\ x.approvedBy # x.actor
    BY <1>4, <1>5
  <1>9. FineAt(r)'
    BY <1>2, <1>8 DEF RiskInv, FineAt, RiskFine
  <1>10. RiskInv'
    BY <1>2, <1>5, <1>7, <1>9, OneRisk
  <1> QED BY <1>2, <1>10 DEF TriagedStays, Exists

LEMMA AdminKeeps ==
    ASSUME RiskInv, NEW r \in Risks, RiskAdmin(r)
    PROVE  RiskInv' /\ TriagedStays
  <1>1. UNCHANGED <<risk, trail, scoreLog, decisions, events, scan, pass>>
    BY DEF RiskAdmin, CreateRule, CreateDefinition, SetRuleEnabled, SetRule,
           SuppressionExpires, createSuppressionRule, setSuppressionRuleEnabled,
           SetSuppression, upsertSLAPolicy, UpsertSLAPolicy
  <1>2. /\ policies' \subseteq Severities \X Units
        /\ rules' \in [Risks -> RuleStates] /\ suppress' \in [Risks -> RuleStates]
    BY DEF RiskAdmin, CreateRule, CreateDefinition, SetRuleEnabled, SetRule,
           SuppressionExpires, createSuppressionRule, setSuppressionRuleEnabled,
           SetSuppression, upsertSLAPolicy, UpsertSLAPolicy, RiskInv, RiskTypeOK, RuleStates
  <1>3. RiskTypeOK'
    BY <1>1, <1>2 DEF RiskInv, RiskTypeOK
  <1>4. RiskInv'
    BY <1>1, <1>3, ConfigOnly
  <1> QED BY <1>1, <1>4 DEF TriagedStays, Exists

LEMMA RiskStepKeeps ==
    ASSUME RiskInv, RiskNext
    PROVE  RiskInv' /\ TriagedStays
  <1>1. PICK r \in Risks : RiskPeople(r) \/ RiskScan(r) \/ RiskPass(r) \/ RiskAdmin(r)
    BY DEF RiskNext
  <1>3. CASE \E in \in TransitionInputs : transitionStatus(r, in)
    BY <1>3, TransitionKeeps DEF TransitionInputs, transitionStatus
  <1>4. CASE \E u \in RiskUsers : ReopenExpiredDecision(r, u)
    <2>1. PICK u \in RiskUsers : ReopenExpiredDecision(r, u)
      BY <1>4
    <2> DEFINE in == [action |-> "reopen", actor |-> u, owner |-> NoUser,
                      reason |-> TRUE, approvedBy |-> NoUser, window |-> FALSE, due |-> FALSE]
    <2>2. in \in TransitionInput
      BY DEF TransitionInput, StatusActions
    <2>3. TransitionStatus(r, in)
      BY <2>1 DEF ReopenExpiredDecision
    <2> HIDE DEF in
    <2> QED BY <2>2, <2>3, TransitionKeeps
  <1>5. CASE DecisionExpires(r)
    BY <1>5, DecisionExpiresKeeps
  <1>6. CASE RiskScan(r)
    BY <1>6, ScanBeginsKeep, ScanWriteKeeps, ScanRollbackKeeps DEF RiskScan
  <1>7. CASE RiskPass(r)
    BY <1>7, PassReadKeeps, SLAWriteKeeps, ScoreWriteKeeps, PassAbortsKeeps DEF RiskPass
  <1>8. CASE RiskAdmin(r)
    BY <1>8, AdminKeeps
  <1> QED BY <1>1, <1>3, <1>4, <1>5, <1>6, <1>7, <1>8 DEF RiskPeople

-----------------------------------------------------------------------------
(* Tickets.                                                                *)

\* A risk assignRisk has read, and the status it goes by.
TriageRead == [risk : Risks, status : RiskStatuses \cup {"absent"}]

CreateReq == [op : {"create"}, t : Tickets, actor : RiskUsers, todo : SUBSET Risks,
              linked : SUBSET Risks, assigning : SUBSET TriageRead]
ReadReq == [op : {"read"}, t : Tickets, in : MoveInput, old : TicketStatuses]
MoveReq == [op : {"move"}, t : Tickets, in : MoveInput, old : TicketStatuses,
            assigning : SUBSET TriageRead, todo : SUBSET Risks]

\* What a request in flight may rely on: the risks a new ticket links exist and
\* were looked at, but for the one assignRisk has read as new and is about to
\* confirm; it deals with one at a time; a move was allowed by
\* the status that was read, and once the row is locked that is its status.
RequestFits(q) ==
    /\ q.op = "create" =>
          /\ ticket[q.t] = NoTicket
          /\ \A r \in q.linked : Exists(r)
          /\ \A r \in q.linked : \/ risk[r].status # "new"
                                 \/ \E a \in q.assigning : a.risk = r /\ a.status = "new"
          /\ \A a, b \in q.assigning : a = b
    /\ q.op \in {"read", "move"} =>
          /\ ticket[q.t] # NoTicket /\ q.old \in TicketFrom(q.in.action)
    /\ q.op = "move" => ticket[q.t].status = q.old

TicketInv ==
    /\ RiskInv
    /\ ticket \in [Tickets -> TicketRow \cup {NoTicket}]
    /\ request \in [Requests -> CreateReq \cup ReadReq \cup MoveReq \cup {Idle}]
    /\ \A c \in Requests : RequestFits(request[c])
    /\ \A c, d \in Requests :
          request[c].op = "create" /\ request[d].op = "create" /\ request[c].t = request[d].t => c = d
    /\ \A c, d \in Requests :
          request[c].op = "move" /\ request[d].op = "move" /\ request[c].t = request[d].t => c = d
    /\ LinkedRiskTriaged

LEMMA RequestFacts ==
    /\ NoTicket \notin TicketRow /\ NoTicket.status = "absent"
    /\ \A q \in CreateReq \cup ReadReq \cup MoveReq \cup {Idle} :
          /\ (q.op = "create") <=> q \in CreateReq
          /\ (q.op = "read") <=> q \in ReadReq
          /\ (q.op = "move") <=> q \in MoveReq
          /\ (q.op = "idle") <=> q = Idle
  <1>1. NoTicket \notin TicketRow /\ NoTicket.status = "absent"
    BY DEF NoTicket, TicketRow, TicketStatuses
  <1> QED BY <1>1, RiskRowFacts DEF CreateReq, ReadReq, MoveReq

LEMMA TriageReadFacts ==
    ASSUME RiskInv, NEW r \in Risks
    PROVE  [risk |-> r, status |-> risk[r].status] \in TriageRead
  BY RiskRowFacts DEF TriageRead, RiskInv, RiskTypeOK, NoRow, RiskRow

\* What a request knows of risks is not undone by what others do to them.
LEMMA RisksMoveOn ==
    ASSUME TicketInv, RiskInv', TriagedStays, UNCHANGED ticketVars
    PROVE  TicketInv'
  <1>1. \A c \in Requests : RequestFits(request[c])'
    BY RequestFacts DEF TicketInv, RequestFits, TriagedStays, ticketVars, CreateReq, Exists
  <1>2. LinkedRiskTriaged'
    BY RequestFacts DEF TicketInv, LinkedRiskTriaged, TriagedStays, ticketVars, TicketRow
  <1> QED BY <1>1, <1>2 DEF TicketInv, ticketVars

\* A request moves on without a change of a risk or a ticket.
LEMMA RequestStepKeeps ==
    ASSUME TicketInv, NEW c \in Requests,
           NEW q \in CreateReq \cup ReadReq \cup MoveReq \cup {Idle},
           SetRequest(c, q), UNCHANGED ticket, RisksUnchanged, RequestFits(q),
           q.op = "create" => \A d \in Requests : d # c /\ request[d].op = "create" =>
                                                     request[d].t # q.t,
           q.op = "move" => \A d \in Requests : d # c /\ request[d].op = "move" =>
                                                   request[d].t # q.t
    PROVE  TicketInv'
  <1>1. /\ request' \in [Requests -> CreateReq \cup ReadReq \cup MoveReq \cup {Idle}]
        /\ request'[c] = q /\ \A d \in Requests : d # c => request'[d] = request[d]
    BY DEF SetRequest, TicketInv
  <1>3. RiskInv'
    BY DEF RisksUnchanged, RiskInv, RiskTypeOK, FineAt, TicketInv
  <1>4. \A d \in Requests : RequestFits(request[d])'
    BY <1>1 DEF RisksUnchanged, RequestFits, TicketInv, Exists
  <1>5. LinkedRiskTriaged'
    BY DEF LinkedRiskTriaged, RisksUnchanged, TicketInv, Exists
  <1>6. \A d, e \in Requests :
           request'[d].op = "create" /\ request'[e].op = "create" /\ request'[d].t = request'[e].t => d = e
    BY <1>1 DEF TicketInv
  <1>7. \A d, e \in Requests :
           request'[d].op = "move" /\ request'[e].op = "move" /\ request'[d].t = request'[e].t => d = e
    BY <1>1 DEF TicketInv
  <1> QED BY <1>1, <1>3, <1>4, <1>5, <1>6, <1>7 DEF TicketInv

LEMMA IdleFits == Idle.op = "idle" /\ RequestFits(Idle)
  BY RiskRowFacts DEF RequestFits

LEMMA CreateBeginKeeps ==
    ASSUME TicketInv, NEW c \in Requests, NEW t \in Tickets, NEW u \in RiskUsers,
           NEW R \in SUBSET Risks, NEW due \in BOOLEAN, CreateBegin(c, t, u, R, due)
    PROVE  TicketInv'
  <1> DEFINE q == [op |-> "create", t |-> t, actor |-> u, todo |-> R,
                   linked |-> {}, assigning |-> {}]
  <1>1. /\ q \in CreateReq /\ q.op = "create" /\ q.t = t /\ q.linked = {} /\ q.assigning = {}
    BY DEF CreateReq
  <1>2. /\ SetRequest(c, q) /\ UNCHANGED ticket /\ RisksUnchanged /\ ticket[t] = NoTicket
        /\ \A d \in Requests : request[d] # Idle => request[d].t # t
    BY DEF CreateBegin
  <1> HIDE DEF q
  <1>3. RequestFits(q)
    BY <1>1, <1>2 DEF RequestFits
  <1>4. \A d \in Requests : request[d].op = "create" => request[d].t # q.t
    BY <1>1, <1>2, RiskRowFacts
  <1> QED BY <1>1, <1>2, <1>3, <1>4, RequestStepKeeps

LEMMA LinkKeeps ==
    ASSUME TicketInv, NEW c \in Requests, NEW r \in Risks, LinkTicketRisk(c, r)
    PROVE  TicketInv'
  <1> DEFINE x == request[c]
             g == [risk |-> r, status |-> risk[r].status]
             q == [x EXCEPT !.todo = x.todo \ {r}, !.linked = x.linked \cup {r},
                            !.assigning = {g}]
  <1>1. x \in CreateReq /\ x.op = "create" /\ x.assigning = {} /\ Exists(r)
    BY RequestFacts DEF LinkTicketRisk, TicketInv
  <1>2. SetRequest(c, q) /\ UNCHANGED ticket /\ RisksUnchanged
    BY <1>1 DEF LinkTicketRisk, CreateReq, Assigning
  <1>3. RequestFits(x)
    BY DEF TicketInv
  <1>4. g \in TriageRead /\ g.risk = r /\ g.status = risk[r].status
    BY TriageReadFacts DEF TicketInv
  <1> HIDE DEF x, g
  <1>5. /\ q \in CreateReq /\ q.op = "create" /\ q.t = x.t /\ q.linked = x.linked \cup {r}
        /\ q.assigning = {g}
    BY <1>1, <1>4 DEF CreateReq
  <1> HIDE DEF q
  <1>6. RequestFits(q)
    BY <1>1, <1>3, <1>4, <1>5 DEF RequestFits
  <1>7. \A d \in Requests : d # c /\ request[d].op = "create" => request[d].t # q.t
    BY <1>1, <1>5 DEF TicketInv, x
  <1> QED BY <1>2, <1>5, <1>6, <1>7, RequestStepKeeps

LEMMA AssignSkipsKeeps ==
    ASSUME TicketInv, NEW c \in Requests, AssignSkips(c)
    PROVE  TicketInv'
  <1> DEFINE x == request[c]
             q == [x EXCEPT !.assigning = {}]
  <1>1. /\ x \in CreateReq \cup MoveReq /\ x.op \in {"create", "move"}
        /\ \E a \in x.assigning : a.status # "new"
        /\ SetRequest(c, q) /\ UNCHANGED ticket /\ RisksUnchanged
    BY RequestFacts DEF AssignSkips, TicketInv, NeedsTriage
  <1>2. RequestFits(x)
    BY DEF TicketInv
  <1> HIDE DEF x
  <1>3. /\ q \in CreateReq \cup MoveReq /\ q.op = x.op /\ q.t = x.t /\ q.assigning = {}
        /\ q.op = "create" => q.linked = x.linked
        /\ q.op = "move" => q.in = x.in /\ q.old = x.old
    BY <1>1 DEF CreateReq, MoveReq
  <1> HIDE DEF q
  <1>4. RequestFits(q)
    BY <1>1, <1>2, <1>3 DEF RequestFits
  <1>5. q.op = "create" => \A d \in Requests : d # c /\ request[d].op = "create" =>
                                                  request[d].t # q.t
    BY <1>1, <1>3 DEF TicketInv, x
  <1>6. q.op = "move" => \A d \in Requests : d # c /\ request[d].op = "move" =>
                                                request[d].t # q.t
    BY <1>1, <1>3 DEF TicketInv, x
  <1> QED BY <1>1, <1>3, <1>4, <1>5, <1>6, RequestStepKeeps

LEMMA MoveReadKeeps ==
    ASSUME TicketInv, NEW c \in Requests, NEW t \in Tickets, NEW in \in MoveInputs,
           MoveRead(c, t, in)
    PROVE  TicketInv'
  <1> DEFINE q == [op |-> "read", t |-> t, in |-> in, old |-> ticket[t].status]
  <1>1. /\ SetRequest(c, q) /\ UNCHANGED ticket /\ RisksUnchanged /\ ticket[t] # NoTicket
        /\ ticket[t].status \in TicketFrom(in.action)
    BY DEF MoveRead
  <1>2. in \in MoveInput /\ ticket[t].status \in TicketStatuses
    BY <1>1 DEF MoveInputs, TicketInv, TicketRow
  <1>3. /\ q \in ReadReq /\ q.op = "read" /\ q.t = t /\ q.in = in /\ q.old = ticket[t].status
    BY <1>2 DEF ReadReq
  <1> HIDE DEF q
  <1>4. RequestFits(q)
    BY <1>1, <1>3 DEF RequestFits
  <1> QED BY <1>1, <1>3, <1>4, RequestStepKeeps

LEMMA MoveUpdateKeeps ==
    ASSUME TicketInv, NEW c \in Requests, MoveUpdate(c)
    PROVE  TicketInv'
  <1> DEFINE x == request[c]
             q == [op |-> "move", t |-> x.t, in |-> x.in, old |-> x.old, assigning |-> {},
                   todo |-> ticket[x.t].links]
  <1>1. /\ x.op = "read" /\ ~Locked(x.t) /\ ticket[x.t].status = x.old
        /\ SetRequest(c, q) /\ UNCHANGED ticket /\ RisksUnchanged
    BY DEF MoveUpdate, UpdateTicketStatus
  <1>2. x \in ReadReq /\ RequestFits(x)
    BY <1>1, RequestFacts DEF TicketInv
  <1>3. ticket[x.t] # NoTicket /\ x.old \in TicketFrom(x.in.action)
    BY <1>1, <1>2 DEF RequestFits
  <1>4. x.t \in Tickets /\ x.in \in MoveInput /\ x.old \in TicketStatuses
    BY <1>2 DEF ReadReq
  <1>5. ticket[x.t].links \in SUBSET Risks
    BY <1>3, <1>4 DEF TicketInv, TicketRow
  <1>6. /\ q \in MoveReq /\ q.op = "move" /\ q.t = x.t /\ q.in = x.in /\ q.old = x.old
    BY <1>4, <1>5 DEF MoveReq
  <1> HIDE DEF q, x
  <1>7. RequestFits(q)
    BY <1>1, <1>3, <1>6 DEF RequestFits
  <1>8. \A d \in Requests : d # c /\ request[d].op = "move" => request[d].t # q.t
    BY <1>1, <1>6 DEF Locked
  <1> QED BY <1>1, <1>6, <1>7, <1>8, RequestStepKeeps

\* A move that has dealt with a risk.
LEMMA DoneFacts ==
    ASSUME TicketInv, NEW c \in Requests, request[c].op = "move", NEW r \in Risks
    PROVE  /\ request[c] \in MoveReq
           /\ Done(c, r) \in MoveReq /\ Done(c, r).op = "move"
           /\ Done(c, r).t = request[c].t /\ Done(c, r).in = request[c].in
           /\ Done(c, r).old = request[c].old
  <1> DEFINE x == request[c]
  <1>1. x \in MoveReq
    BY RequestFacts DEF TicketInv
  <1>2. Done(c, r) = [x EXCEPT !.todo = x.todo \ {r}]
    BY <1>1 DEF Done, MoveReq
  <1> HIDE DEF x
  <1>3. LET y == [x EXCEPT !.todo = x.todo \ {r}]
        IN  y \in MoveReq /\ y.op = "move" /\ y.t = x.t /\ y.in = x.in /\ y.old = x.old
    BY <1>1 DEF MoveReq
  <1> QED BY <1>1, <1>2, <1>3 DEF x

LEMMA SkipsKeep ==
    ASSUME TicketInv, NEW c \in Requests, NEW r \in Risks, MoveSkips(c, r)
    PROVE  TicketInv'
  <1>1. /\ request[c].op = "move" /\ SetRequest(c, Done(c, r))
        /\ UNCHANGED ticket /\ RisksUnchanged
    BY DEF MoveSkips
  <1>2. RequestFits(Done(c, r))
    BY <1>1, DoneFacts DEF TicketInv, RequestFits
  <1>3. \A d \in Requests : d # c /\ request[d].op = "move" => request[d].t # Done(c, r).t
    BY <1>1, DoneFacts DEF TicketInv
  <1> QED BY <1>1, <1>2, <1>3, DoneFacts, RequestStepKeeps

LEMMA AssignReadKeeps ==
    ASSUME TicketInv, NEW c \in Requests, NEW r \in Risks, AssignRead(c, r)
    PROVE  TicketInv'
  <1> DEFINE x == request[c]
             g == [risk |-> r, status |-> risk[r].status]
             q == [x EXCEPT !.todo = x.todo \ {r}, !.assigning = {g}]
  <1>1. x \in MoveReq /\ x.op = "move"
    BY RequestFacts DEF AssignRead, TicketInv
  <1>2. SetRequest(c, q) /\ UNCHANGED ticket /\ RisksUnchanged
    BY <1>1 DEF AssignRead, MoveReq, Assigning
  <1>3. RequestFits(x) /\ g \in TriageRead
    BY TriageReadFacts DEF TicketInv
  <1> HIDE DEF x, g
  <1>4. q \in MoveReq /\ q.op = "move" /\ q.t = x.t /\ q.in = x.in /\ q.old = x.old
    BY <1>1, <1>3 DEF MoveReq
  <1> HIDE DEF q
  <1>5. RequestFits(q)
    BY <1>1, <1>3, <1>4 DEF RequestFits
  <1>6. \A d \in Requests : d # c /\ request[d].op = "move" => request[d].t # q.t
    BY <1>1, <1>4 DEF TicketInv, x
  <1> QED BY <1>2, <1>4, <1>5, <1>6, RequestStepKeeps

LEMMA DropsKeep ==
    ASSUME TicketInv, NEW c \in Requests, Rollback(c)
    PROVE  TicketInv'
  BY IdleFits, RequestStepKeeps DEF Rollback

\* A risk is moved for a ticket, in a transaction of its own; a new ticket's
\* other risks were looked at before.
LEMMA MovesRiskKeep ==
    ASSUME TicketInv, NEW c \in Requests, NEW r \in Risks, NEW in \in TransitionInput,
           TransitionStatus(r, in), request[c].op \in {"create", "move"},
           NEW q \in CreateReq \cup MoveReq, q.op = request[c].op, q.t = request[c].t,
           q.op = "create" => /\ q.linked = request[c].linked
                              /\ \A s \in q.linked : s = r \/ risk[s].status # "new"
                              /\ \A a, b \in q.assigning : a = b,
           q.op = "move" => q.in = request[c].in /\ q.old = request[c].old,
           SetRequest(c, q), UNCHANGED ticket
    PROVE  TicketInv'
  <1>1. RiskInv' /\ TriagedStays /\ risk'[r].status # "new"
    BY TransitionKeeps DEF TicketInv
  <1>2. /\ request' \in [Requests -> CreateReq \cup ReadReq \cup MoveReq \cup {Idle}]
        /\ request'[c] = q /\ \A d \in Requests : d # c => request'[d] = request[d]
    BY DEF TicketInv, SetRequest
  <1>5. ASSUME NEW d \in Requests PROVE RequestFits(request[d])'
    <2>1. RequestFits(request[d])
      BY DEF TicketInv
    <2>2. request[d].op = "create" => request[d].linked \subseteq Risks
      BY RequestFacts DEF TicketInv, CreateReq
    <2>3. CASE d = c /\ q.op = "create"
      <3>1. \A s \in q.linked : Exists(s) /\ s \in Risks
        BY <2>1, <2>2, <2>3 DEF RequestFits
      <3>2. \A s \in q.linked : Exists(s)' /\ risk'[s].status # "new"
        BY <1>1, <2>3, <3>1 DEF TriagedStays
      <3>3. ticket[q.t] = NoTicket
        BY <2>1, <2>3 DEF RequestFits
      <3> QED BY <1>2, <2>3, <3>2, <3>3 DEF RequestFits
    <2>4. CASE d = c /\ q.op = "move"
      BY <1>2, <2>1, <2>4 DEF RequestFits
    <2>5. CASE d # c
      <3>1. \A s \in Risks : Exists(s) => Exists(s)' /\ (risk[s].status # "new" => risk'[s].status # "new")
        BY <1>1 DEF TriagedStays
      <3> QED BY <1>2, <2>1, <2>2, <2>5, <3>1 DEF RequestFits
    <2> QED BY <2>3, <2>4, <2>5
  <1>6. LinkedRiskTriaged'
    BY <1>1 DEF TicketInv, LinkedRiskTriaged, TriagedStays, TicketRow
  <1>7. \A d, e \in Requests :
           request'[d].op = "create" /\ request'[e].op = "create" /\ request'[d].t = request'[e].t => d = e
    BY <1>2 DEF TicketInv
  <1>8. \A d, e \in Requests :
           request'[d].op = "move" /\ request'[e].op = "move" /\ request'[d].t = request'[e].t => d = e
    BY <1>2 DEF TicketInv
  <1> QED BY <1>1, <1>2, <1>5, <1>6, <1>7, <1>8 DEF TicketInv

LEMMA InputForType ==
    ASSUME NEW in \in MoveInput, NEW action \in StatusActions
    PROVE  RiskInputFor(in, action) \in TransitionInput
  BY DEF RiskInputFor, TransitionInput, MoveInput

LEMMA MoveRiskKeeps ==
    ASSUME TicketInv, NEW c \in Requests, NEW r \in Risks, MoveRisk(c, r)
    PROVE  TicketInv'
  <1> DEFINE in == request[c].in
             action == RiskActionFor(in, request[c].old)
  <1>1. /\ request[c].op = "move" /\ action # "none"
        /\ TransitionStatus(r, RiskInputFor(in, action))
        /\ SetRequest(c, Done(c, r)) /\ UNCHANGED ticket
    BY DEF MoveRisk
  <1>2. request[c] \in MoveReq
    BY <1>1, DoneFacts
  <1>3. in \in MoveInput /\ action \in StatusActions
    BY <1>1, <1>2 DEF MoveReq, RiskActionFor, StatusActions
  <1> HIDE DEF in, action
  <1>4. RiskInputFor(in, action) \in TransitionInput
    BY <1>3, InputForType
  <1> QED BY <1>1, <1>4, DoneFacts, MovesRiskKeep

LEMMA TriageInputType ==
    ASSUME NEW u \in RiskUsers, NEW status
    PROVE  TriageInput(u, TriageAction(status)) \in TransitionInput
  BY DEF TriageInput, TriageAction, TransitionInput, StatusActions

LEMMA AssignTriagesKeeps ==
    ASSUME TicketInv, NEW c \in Requests, AssignTriages(c)
    PROVE  TicketInv'
  <1> DEFINE x == request[c]
  <1>1. PICK a \in x.assigning :
           /\ TransitionStatus(a.risk, AssignInput(x, a))
           /\ SetRequest(c, [x EXCEPT !.assigning =
                 IF a.status = "new" THEN {[a EXCEPT !.status = "confirmed"]} ELSE {}])
    BY DEF AssignTriages
  <1> DEFINE g == [a EXCEPT !.status = "confirmed"]
             G == IF a.status = "new" THEN {g} ELSE {}
             q == [x EXCEPT !.assigning = G]
             in == AssignInput(x, a)
  <1>2. x.op \in {"create", "move"} /\ UNCHANGED ticket
    BY DEF AssignTriages
  <1>3. x \in CreateReq \cup MoveReq /\ RequestFits(x)
    BY <1>2, RequestFacts DEF TicketInv
  <1>4. a \in TriageRead
    BY <1>1, <1>3 DEF CreateReq, MoveReq
  <1>5. g \in TriageRead
    BY <1>4 DEF TriageRead, RiskStatuses
  <1>6. a.risk \in Risks /\ Actor(x) \in RiskUsers
    BY <1>2, <1>3, <1>4, RequestFacts DEF TriageRead, Actor, CreateReq, MoveReq, MoveInput
  <1>7. in \in TransitionInput
    BY <1>6, TriageInputType DEF AssignInput
  <1>8. G \in SUBSET TriageRead /\ \A b, d \in G : b = d
    BY <1>5
  <1> HIDE DEF g, G
  <1>9. /\ q \in CreateReq \cup MoveReq /\ q.op = x.op /\ q.t = x.t /\ q.assigning = G
        /\ q.op = "create" => q.linked = x.linked
        /\ q.op = "move" => q.in = x.in /\ q.old = x.old
    BY <1>3, <1>8 DEF CreateReq, MoveReq
  <1>10. q.op = "create" => \A s \in q.linked : s = a.risk \/ risk[s].status # "new"
    BY <1>1, <1>3, <1>9 DEF RequestFits
  <1>11. SetRequest(c, q) /\ TransitionStatus(a.risk, in)
    BY <1>1 DEF G, g
  <1> HIDE DEF q, in
  <1> QED BY <1>2, <1>6, <1>7, <1>8, <1>9, <1>10, <1>11, MovesRiskKeep

\* A request that commits writes its ticket's row and ends.
LEMMA CommitKeeps ==
    ASSUME TicketInv, NEW c \in Requests, request[c].op \in {"create", "move"},
           NEW n \in TicketRow, ticket' = [ticket EXCEPT ![request[c].t] = n],
           SetRequest(c, Idle), RisksUnchanged,
           \A r \in n.links : Exists(r) /\ risk[r].status # "new"
    PROVE  TicketInv'
  <1> DEFINE x == request[c]
  <1>1. /\ request' \in [Requests -> CreateReq \cup ReadReq \cup MoveReq \cup {Idle}]
        /\ request'[c] = Idle /\ \A d \in Requests : d # c => request'[d] = request[d]
    BY DEF SetRequest, TicketInv
  <1>2. RiskInv'
    BY DEF RisksUnchanged, RiskInv, RiskTypeOK, FineAt, TicketInv
  <1>3. x.t \in Tickets
    BY RequestFacts DEF TicketInv, CreateReq, MoveReq
  <1>4. /\ ticket' \in [Tickets -> TicketRow \cup {NoTicket}] /\ ticket'[x.t] = n
        /\ n # NoTicket /\ \A t \in Tickets : t # x.t => ticket'[t] = ticket[t]
    BY <1>3, RequestFacts DEF TicketInv
  <1>5. LinkedRiskTriaged'
    <2>1. ASSUME NEW t \in Tickets, ticket'[t] # NoTicket, NEW r \in ticket'[t].links
          PROVE  Exists(r) /\ risk[r].status # "new"
      BY <1>4, <2>1 DEF TicketInv, LinkedRiskTriaged
    <2> QED BY <2>1 DEF LinkedRiskTriaged, RisksUnchanged, Exists
  <1>6. ASSUME NEW d \in Requests PROVE RequestFits(request[d])'
    <2>1. CASE d = c
      BY <1>1, <2>1, RiskRowFacts DEF RequestFits
    <2>2. CASE d # c
      <3> DEFINE y == request[d]
      <3>1. RequestFits(y) /\ RequestFits(x) /\ request'[d] = y
        BY <1>1, <2>2 DEF TicketInv
      <3>2. y.op \in {"create", "read", "move"} => y.t \in Tickets
        BY RequestFacts DEF TicketInv, CreateReq, ReadReq, MoveReq
      <3>3. y.op = "create" => y.t # x.t
        BY <2>2, <3>1 DEF TicketInv, RequestFits
      <3>4. y.op = "move" => y.t # x.t
        BY <2>2, <3>1 DEF TicketInv, RequestFits
      <3> HIDE DEF x, y
      <3> QED BY <1>4, <3>1, <3>2, <3>3, <3>4 DEF RequestFits, RisksUnchanged, Exists
    <2> QED BY <2>1, <2>2
  <1>7. \A d, e \in Requests :
           request'[d].op = "create" /\ request'[e].op = "create" /\ request'[d].t = request'[e].t => d = e
    BY <1>1, RiskRowFacts DEF TicketInv
  <1>8. \A d, e \in Requests :
           request'[d].op = "move" /\ request'[e].op = "move" /\ request'[d].t = request'[e].t => d = e
    BY <1>1, RiskRowFacts DEF TicketInv
  <1> QED BY <1>1, <1>2, <1>4, <1>5, <1>6, <1>7, <1>8 DEF TicketInv

\* What TicketFollowsTable allows a step to do.
FollowsTable ==
    \A t \in Tickets : ticket[t] # NoTicket /\ ticket'[t] # ticket[t] =>
        \E a \in TicketActions : /\ ticket[t].status \in TicketFrom(a)
                                 /\ ticket'[t].status = nextStatus(a)

LEMMA CreateCommitKeeps ==
    ASSUME TicketInv, NEW c \in Requests, CreateCommit(c)
    PROVE  TicketInv' /\ FollowsTable
  <1> DEFINE x == request[c]
             n == [status |-> "open", links |-> x.linked, closedAt |-> FALSE]
  <1>1. /\ x.op = "create" /\ x.assigning = {}
        /\ ticket' = [ticket EXCEPT ![x.t] = n] /\ SetRequest(c, Idle) /\ RisksUnchanged
    BY DEF CreateCommit
  <1>2. x \in CreateReq /\ RequestFits(x)
    BY <1>1, RequestFacts DEF TicketInv
  <1>3. /\ ticket[x.t] = NoTicket
        /\ \A r \in x.linked : Exists(r) /\ risk[r].status # "new"
    BY <1>1, <1>2 DEF RequestFits
  <1>4. n \in TicketRow /\ n.links = x.linked
    BY <1>2 DEF CreateReq, TicketRow, TicketStatuses
  <1> HIDE DEF n
  <1>5. TicketInv'
    BY <1>1, <1>3, <1>4, CommitKeeps
  <1> QED BY <1>1, <1>3, <1>5 DEF FollowsTable, TicketInv

LEMMA TicketUpdateFacts ==
    ASSUME NEW row \in TicketRow, NEW next \in TicketStatuses
    PROVE  LET n == TicketStatusUpdate(row, next)
           IN  n \in TicketRow /\ n.status = next /\ n.links = row.links
  <1> DEFINE closed == row.closedAt \/ next \in {"closed", "cancelled"}
  <1>1. closed \in BOOLEAN
    OBVIOUS
  <1>2. TicketStatusUpdate(row, next) = [row EXCEPT !.status = next, !.closedAt = closed]
    BY DEF TicketStatusUpdate, TicketRow
  <1> HIDE DEF closed
  <1> QED BY <1>1, <1>2 DEF TicketRow

LEMMA NextTicketStatus ==
    ASSUME NEW a \in TicketActions
    PROVE  nextStatus(a) \in TicketStatuses
  BY DEF nextStatus, TicketActions, TicketStatuses

LEMMA MoveCommitKeeps ==
    ASSUME TicketInv, NEW c \in Requests, MoveCommit(c)
    PROVE  TicketInv' /\ FollowsTable
  <1> DEFINE x == request[c]
             a == x.in.action
             row == ticket[x.t]
             n == TicketStatusUpdate(row, nextStatus(a))
  <1>1. /\ x.op = "move" /\ ticket' = [ticket EXCEPT ![x.t] = n]
        /\ SetRequest(c, Idle) /\ RisksUnchanged
    BY DEF MoveCommit
  <1>2. x \in MoveReq /\ RequestFits(x)
    BY <1>1, RequestFacts DEF TicketInv
  <1>3. x.t \in Tickets /\ a \in TicketActions
    BY <1>2 DEF MoveReq, MoveInput
  <1>4. row # NoTicket /\ row.status \in TicketFrom(a)
    BY <1>1, <1>2 DEF RequestFits
  <1>5. row \in TicketRow
    BY <1>3, <1>4 DEF TicketInv
  <1>6. n \in TicketRow /\ n.status = nextStatus(a) /\ n.links = row.links
    BY <1>3, <1>5, NextTicketStatus, TicketUpdateFacts
  <1>7. \A r \in row.links : Exists(r) /\ risk[r].status # "new"
    BY <1>3, <1>4 DEF TicketInv, LinkedRiskTriaged
  <1> HIDE DEF n
  <1>8. TicketInv'
    BY <1>1, <1>6, <1>7, CommitKeeps
  <1>9. ticket'[x.t] = n /\ \A t \in Tickets : t # x.t => ticket'[t] = ticket[t]
    BY <1>1, <1>3 DEF TicketInv
  <1> QED BY <1>3, <1>4, <1>6, <1>8, <1>9 DEF FollowsTable

LEMMA TicketInitial == TicketInit => TicketInv
  <1> SUFFICES ASSUME TicketInit PROVE TicketInv
    OBVIOUS
  <1>1. RiskTypeOK
    BY DEF TicketInit, RiskInit, RiskTypeOK, RuleStates
  <1>2. \A r \in Risks : FineAt(r)
    BY DEF TicketInit, RiskInit, FineAt, RiskFine
  <1>4. /\ ticket \in [Tickets -> TicketRow \cup {NoTicket}] /\ LinkedRiskTriaged
    BY DEF TicketInit, RiskInit, LinkedRiskTriaged
  <1>5. /\ request \in [Requests -> CreateReq \cup ReadReq \cup MoveReq \cup {Idle}]
        /\ \A c \in Requests : request[c] = Idle
    BY DEF TicketInit
  <1>6. \A c \in Requests : RequestFits(request[c]) /\ request[c].op = "idle"
    BY <1>5, IdleFits
  <1>7. \A c \in Requests : request[c].op # "create" /\ request[c].op # "move"
    BY <1>6
  <1>8. RiskInv
    BY <1>1, <1>2 DEF RiskInv
  <1> QED BY <1>4, <1>5, <1>6, <1>7, <1>8 DEF TicketInv

LEMMA TicketStep ==
    ASSUME TicketInv, [TicketsAndRisksNext]_<<riskVars, ticketVars>>
    PROVE  TicketInv' /\ FollowsTable
  <1>1. CASE UNCHANGED <<riskVars, ticketVars>>
    <2>1. RiskInv' /\ TriagedStays
      BY <1>1 DEF riskVars, TicketInv, RiskInv, RiskTypeOK, FineAt, TriagedStays, Exists
    <2> QED BY <1>1, <2>1, RisksMoveOn DEF FollowsTable, riskVars, ticketVars
  <1>2. CASE RiskNext /\ UNCHANGED ticketVars
    BY <1>2, RiskStepKeeps, RisksMoveOn DEF TicketInv, FollowsTable, ticketVars
  <1>3. ASSUME NEW c \in Requests,
               \/ \E t \in Tickets, u \in RiskUsers, R \in SUBSET Risks, due \in BOOLEAN :
                     CreateBegin(c, t, u, R, due)
               \/ \E t \in Tickets, in \in MoveInputs : MoveRead(c, t, in)
        PROVE  TicketInv' /\ FollowsTable
    <2>1. ticket' = ticket
      BY <1>3 DEF CreateBegin, MoveRead
    <2>2. TicketInv'
      BY <1>3, CreateBeginKeeps, MoveReadKeeps
    <2> QED BY <2>1, <2>2 DEF FollowsTable
  <1>4. ASSUME NEW c \in Requests, RequestStep(c)
        PROVE  TicketInv' /\ FollowsTable
    <2>1. CASE CreateCommit(c) \/ MoveCommit(c)
      BY <2>1, CreateCommitKeeps, MoveCommitKeeps
    <2>2. CASE ~(CreateCommit(c) \/ MoveCommit(c))
      <3>1. ticket' = ticket
        BY <1>4, <2>2 DEF RequestStep, LinkTicketRisk, AssignRead, MoveRisk, MoveSkips,
              AssignTriages, AssignSkips, MoveUpdate, Rollback
      <3>2. TicketInv'
        BY <1>4, <2>2, LinkKeeps, AssignReadKeeps, MoveRiskKeeps, SkipsKeep,
           AssignTriagesKeeps, AssignSkipsKeeps, DropsKeep, MoveUpdateKeeps DEF RequestStep
      <3> QED BY <3>1, <3>2 DEF FollowsTable
    <2> QED BY <2>1, <2>2
  <1> QED BY <1>1, <1>2, <1>3, <1>4 DEF TicketsAndRisksNext, TicketNext

\* The inductive invariant of risks and tickets together: every step of a
\* person, scan, pass or request (TransitionStatus, upsertRisk, CreateTicket,
\* UpdateTicketStatus) leaves it true.
THEOREM TicketInvariant == TicketSpec => []TicketInv
  <1>1. TicketInv /\ [TicketsAndRisksNext]_<<riskVars, ticketVars>> => TicketInv'
    BY TicketStep
  <1> QED BY <1>1, TicketInitial, PTL DEF TicketSpec

\* The tables of risks and tickets, and what scans, passes and requests hold of
\* them, keep their types.
THEOREM TicketsTypeCorrect == TicketSpec => [](RiskTypeOK /\ TicketTypeOK)
  <1>1. TicketInv => RiskTypeOK /\ TicketTypeOK
    BY RequestFacts DEF TicketInv, RiskInv, TicketTypeOK, CreateReq, ReadReq, MoveReq
  <1> QED BY <1>1, TicketInvariant, PTL

\* Whatever people, scans, passes and tickets do to a risk, what its row says
\* is what its histories say (TransitionStatus, upsertRisk,
\* RecalculateSLADueAt, RecalculateScores, transitionLinkedRisk).
THEOREM RecordsAgree == TicketSpec => []RiskRecordAgrees
  <1>1. TicketInv => RiskRecordAgrees
    <2> SUFFICES ASSUME RiskInv PROVE RiskRecordAgrees
      BY DEF TicketInv
    <2>1. \A r \in Risks : FineAt(r)
      BY DEF RiskInv
    <2>2. StatusTrail /\ DecisionBehindStatus
      BY <2>1 DEF FineAt, RiskFine, StatusTrail, DecisionBehindStatus, Exists
    <2>3. FixedTimeMatches /\ HandedOutHasDue /\ ScoreOnRecord
      BY <2>1 DEF FineAt, RiskFine, FixedTimeMatches, HandedOutHasDue, ScoreOnRecord, Exists
    <2> QED BY <2>2, <2>3 DEF RiskRecordAgrees
  <1> QED BY <1>1, TicketInvariant, PTL

\* A ticket on record links only risks that exist and that somebody has looked
\* at, whoever moves the risks while it is created (LinkRisk, assignRisk).
THEOREM LinkedRisksAreTriaged == TicketSpec => []LinkedRiskTriaged
  <1>1. TicketInv => LinkedRiskTriaged
    BY DEF TicketInv
  <1> QED BY <1>1, TicketInvariant, PTL

\* A ticket moves only along the table of nextStatus from the status it has,
\* although requests read the status before they lock the row
\* (UpdateTicketStatus, transition).
THEOREM TicketsFollowTable == TicketSpec => TicketFollowsTable
  <1>1. TicketInv /\ [TicketsAndRisksNext]_<<riskVars, ticketVars>> => FollowsTable
    BY TicketStep
  <1>2. TicketInv /\ [TicketsAndRisksNext]_<<riskVars, ticketVars>> =>
          [\A t \in Tickets : ticket[t] # NoTicket /\ ticket'[t] # ticket[t] =>
              \E a \in TicketActions : /\ ticket[t].status \in TicketFrom(a)
                                       /\ ticket'[t].status = nextStatus(a)]_ticket
    BY <1>1 DEF FollowsTable
  <1> QED BY <1>2, TicketInvariant, PTL DEF TicketSpec, TicketFollowsTable

=============================================================================
