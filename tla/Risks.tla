-------------------------------- MODULE Risks --------------------------------
(***************************************************************************)
(* The risks of one project: internal/risk, its handler, service,          *)
(* repository and SQL.  Scans create, refresh and reopen risks, people     *)
(* move them through the status machine, sweeps reopen expired decisions   *)
(* and recalculate due dates and scores.                                   *)
(*                                                                         *)
(* TransitionStatus reads the row FOR UPDATE, so it is one step.  A scan,  *)
(* a due-date pass and a score pass read without a lock and write later:   *)
(* each is two steps, and between them the row may change.                 *)
(***************************************************************************)
EXTENDS Naturals, Roles

CONSTANTS
    Risks,          \* the risk keys a scan may report (riskKey, ruleRiskKey)
    RiskUsers,      \* people who act on risks
    RiskRole,       \* the role each of them has in the project (project.Access)
    AssetOwners,    \* those of them who own assets a scan reports on
    Severities,     \* a subset of DOMAIN SeverityWeight
    Exposed,        \* risks of an exposure (ExposureID # 0)
    HighRiskTypes,  \* risks of type high_risk_port or high_risk_exposure
    AdminTitles,    \* risks whose title names an admin or management page
    Units,          \* business units; NoUnit is the empty one
    Criticality,    \* BusinessUnitCriticality of the score model, by unit
    FoundBy         \* what reports each risk: "rule", "definition" or "certificate"

NoUnit == "none"

NoUser == "nobody"

RiskStatuses == {"new", "confirmed", "assigned", "fixing", "risk_accepted",
                 "false_positive", "fixed", "reopened"}

StatusActions == {"confirm", "assign", "start_fix", "mark_fixed", "reopen",
                  "accept", "false_positive"}

DecisionStatuses == {"risk_accepted", "false_positive"}

SeverityWeight == [critical |-> 40, high |-> 32, medium |-> 20, low |-> 8,
                   info |-> 2]

ASSUME RisksAssumption ==
    /\ NoUser \notin RiskUsers
    /\ AssetOwners \subseteq RiskUsers
    /\ RiskRole \in [RiskUsers -> AllRoles]
    /\ Severities \subseteq DOMAIN SeverityWeight
    /\ {"critical", "high"} \subseteq Severities
    /\ Exposed \subseteq Risks /\ HighRiskTypes \subseteq Risks
    /\ AdminTitles \subseteq Risks
    /\ NoUnit \in Units
    /\ Criticality \in [Units -> 0..100]
    /\ FoundBy \in [Risks -> {"rule", "definition", "certificate"}]

VARIABLES
    risk,        \* table risk: NoRow or a row, by risk key
    trail,       \* new_status of the last risk_status_history row, or "none"
    scoreLog,    \* score of the last risk_score_history row
    decisions,   \* table risk_decision: the rows of each risk
    policies,    \* table sla_policy: <<severity, unit>> pairs with a policy
    rules,       \* tables risk_rule and vulnerability_definition, by their risk
    suppress,    \* table suppression_rule, by the risk its selectors match
    events,      \* the last change_event of each risk: "none", "new", "reopened"
    scan,        \* the scan in flight on each risk: Idle or what it read
    pass         \* the due-date or score pass in flight on each risk

riskVars == <<risk, trail, scoreLog, decisions, policies, rules, suppress,
              events, scan, pass>>

NoRow == [status |-> "absent"]

\* The columns of table risk the operations decide on.  A time column is
\* TRUE when it is set, FALSE at the 1970 zero value (isZeroTime).
RiskRow == [status : RiskStatuses, owner : RiskUsers \cup {NoUser},
            due : BOOLEAN, confirmedAt : BOOLEAN, fixedAt : BOOLEAN,
            severity : Severities, unit : Units, score : 0..100,
            level : DOMAIN SeverityWeight, suppressed : BOOLEAN]

Decision == [decision : DecisionStatuses, actor : RiskUsers,
             approvedBy : RiskUsers, expired : BOOLEAN]

\* What rules and suppressions are: a disabled one keeps its row.
RuleStates == {"absent", "enabled", "disabled"}

Idle == [op |-> "idle"]

Exists(r) == risk[r] # NoRow

\* The row by its key, NoRow for none; no lock is taken.
GetRiskByKey(r) == risk[r]

\* SELECT ... FOR UPDATE, in the step that also writes the row and commits.
GetRiskByIDForUpdate(r) == Exists(r)

-----------------------------------------------------------------------------
(* Scoring.                                                                *)

clampScoreInt(v) == IF v > 100 THEN 100 ELSE v

\* The type or the title makes a management entry.
isManagementRisk(r, titled) == r \in HighRiskTypes \/ (titled /\ r \in AdminTitles)

scoreRisk(r, titled, severity, unit) ==
    clampScoreInt(SeverityWeight[severity] + Criticality[unit]
                  + (IF r \in Exposed THEN 20 ELSE 0)
                  + (IF isManagementRisk(r, titled) THEN 10 ELSE 0))

scoreLevel(score) ==
    CASE score >= 90 -> "critical"
      [] score >= 70 /\ score < 90 -> "high"
      [] score >= 40 /\ score < 70 -> "medium"
      [] score >= 10 /\ score < 40 -> "low"
      [] score < 10 -> "info"

-----------------------------------------------------------------------------
(* The status machine.                                                     *)

\* The statuses "action" may leave and the one it reaches.
FromStatuses(action) ==
    [confirm |-> {"new", "reopened"},
     assign |-> {"confirmed", "reopened"},
     start_fix |-> {"assigned"},
     mark_fixed |-> {"fixing", "assigned"},
     reopen |-> {"fixed", "risk_accepted", "false_positive"},
     accept |-> {"confirmed", "assigned", "fixing"},
     false_positive |-> {"new", "confirmed", "assigned", "fixing"}][action]

nextRiskStatus(action) ==
    [confirm |-> "confirmed", assign |-> "assigned", start_fix |-> "fixing",
     mark_fixed |-> "fixed", reopen |-> "reopened",
     accept |-> "risk_accepted", false_positive |-> "false_positive"][action]

AvailableStatusActions(status) ==
    {a \in StatusActions : status \in FromStatuses(a)}

\* What a caller may send: the flags say whether the reason, the decision's
\* expiry or review date and the due date are given.  What an action does not
\* read is left out.
TransitionInput ==
    [action : StatusActions, actor : RiskUsers, owner : RiskUsers \cup {NoUser},
     reason : BOOLEAN, approvedBy : RiskUsers \cup {NoUser},
     window : BOOLEAN, due : BOOLEAN]

TransitionInputs ==
    {in \in TransitionInput :
        /\ in.action # "assign" => in.owner = NoUser /\ ~in.due
        /\ in.action \in {"confirm", "assign", "start_fix"} => ~in.reason
        /\ in.action \notin {"accept", "false_positive"} =>
              in.approvedBy = NoUser /\ ~in.window}

\* Mutant: whoever decides may approve the decision too.
SelfApproved(in, next) ==
    /\ next = "assigned" => in.owner # NoUser
    /\ next \in {"fixed", "reopened"} \cup DecisionStatuses => in.reason
    /\ next \in DecisionStatuses => in.approvedBy # NoUser /\ in.window

validateTransitionInput(in, next) ==
    /\ next = "assigned" => in.owner # NoUser
    /\ next \in {"fixed", "reopened"} \cup DecisionStatuses => in.reason
    /\ next \in DecisionStatuses =>
          in.approvedBy \notin {NoUser, in.actor} /\ in.window

GetSLAPolicy(severity, unit) == <<severity, unit>> \in policies

\* A policy of the unit, or else the project's policy for the severity.
findSLAPolicy(severity, unit) ==
    \/ unit # NoUnit /\ GetSLAPolicy(severity, unit)
    \/ GetSLAPolicy(severity, NoUnit)

ResolveDueAt(row) == findSLAPolicy(row.severity, row.unit)

buildStatusUpdate(row, in, next) ==
    [row EXCEPT !.status = next,
                !.owner = IF next = "assigned" THEN in.owner ELSE @,
                !.due = IF next = "assigned" THEN in.due ELSE @,
                !.confirmedAt = @ \/ next = "confirmed",
                !.fixedAt = IF next = "fixed" THEN TRUE
                            ELSE IF next = "reopened" THEN FALSE ELSE @]

\* The due date that is missing after the update is resolved from a policy.
WithDue(row, update) == [update EXCEPT !.due = @ \/ ResolveDueAt(row)]

\* UPDATE risk SET status, owner, sla_due_at, confirmed_at, fixed_at
\* WHERE status = old: the columns of "update", the rest of the row as it is.
UpdateRiskStatus(r, old, update) ==
    /\ risk[r].status = old
    /\ risk' = [risk EXCEPT ![r] =
                   [risk[r] EXCEPT !.status = update.status, !.owner = update.owner,
                                   !.due = update.due,
                                   !.confirmedAt = update.confirmedAt,
                                   !.fixedAt = update.fixedAt]]

InsertStatusHistory(r, next) == trail' = [trail EXCEPT ![r] = next]

InsertRiskDecision(r, in, next) ==
    decisions' = [decisions EXCEPT ![r] = @ \cup
        {[decision |-> next, actor |-> in.actor,
          approvedBy |-> in.approvedBy, expired |-> FALSE]}]

\* Whether TransitionStatus accepts "in" for the row, and the row it leaves.
\* An assignment needs a due date, given or from a policy (ErrSLARequired).
Accepts(row, in) ==
    LET next == nextRiskStatus(in.action)
    IN  /\ row.status \in FromStatuses(in.action)
        /\ validateTransitionInput(in, next)
        /\ next = "assigned" => in.due \/ ResolveDueAt(row)

TransitionStatus(r, in) ==
    LET row == risk[r]
        next == nextRiskStatus(in.action)
    IN  /\ GetRiskByIDForUpdate(r)
        /\ Accepts(row, in)
        /\ UpdateRiskStatus(r, row.status,
                            WithDue(row, buildStatusUpdate(row, in, next)))
        /\ InsertStatusHistory(r, next)
        /\ IF next \in DecisionStatuses
             THEN InsertRiskDecision(r, in, next)
             ELSE UNCHANGED decisions
        /\ UNCHANGED <<scoreLog, policies, rules, suppress, events, scan,
                       pass>>

permit(u, perm) == RoleHasPerm(RiskRole[u], perm)

\* The permission an action needs on top of risk:write.
elevatedPermissionForAction(action) ==
    IF action = "accept" THEN "risk:accept"
    ELSE IF action = "false_positive" THEN "risk:suppress" ELSE "risk:write"

\* POST /risks/:id/status-transitions.
transitionStatus(r, in) ==
    /\ permit(in.actor, "risk:write")
    /\ permit(in.actor, elevatedPermissionForAction(in.action))
    /\ TransitionStatus(r, in)

\* What the page offers: the actions the table allows and the caller may do.
withPermittedActions(u, status) ==
    {a \in AvailableStatusActions(status) :
        permit(u, elevatedPermissionForAction(a))}

-----------------------------------------------------------------------------
(* Scans: ApplyDefinitionMatches, ApplyRules and ReportCertificateFinding  *)
(* all end in upsertRisk.                                                  *)

\* What a scan brings: the severity of the rule, the owner and unit of the
\* asset, whether the certificate has expired.
Findings == [severity : Severities, unit : Units,
             owner : AssetOwners \cup {NoUser}, expired : BOOLEAN]

ListEnabledRiskRules == {r \in Risks : FoundBy[r] = "rule" /\ rules[r] = "enabled"}

ListActiveSuppressionRules == {r \in Risks : suppress[r] = "enabled"}

applySuppression(r) == r \in ListActiveSuppressionRules

RiskParamsOf(r, f, severity) ==
    [severity |-> severity, unit |-> f.unit, owner |-> f.owner,
     score |-> scoreRisk(r, TRUE, severity, f.unit),
     level |-> scoreLevel(scoreRisk(r, TRUE, severity, f.unit)),
     suppressed |-> applySuppression(r)]

\* The severity and the title are the rule's, the owner and unit the asset's.
buildRuleRiskParams(r, f) == RiskParamsOf(r, f, f.severity)

buildRiskParams(r, f) == RiskParamsOf(r, f, f.severity)

\* An expired certificate is critical, one that is about to expire high.
certificateRiskParams(r, f) ==
    RiskParamsOf(r, f, IF f.expired THEN "critical" ELSE "high")

\* The scan reads what it decides on; upsertRisk writes it later.
BeginScan(r, params) ==
    /\ scan[r] = Idle
    /\ scan' = [scan EXCEPT ![r] = [op |-> "scan", params |-> params,
                                    status |-> GetRiskByKey(r).status]]
    /\ UNCHANGED <<risk, trail, scoreLog, decisions, policies, rules, suppress,
                   events, pass>>

ApplyRules(r, f) ==
    /\ r \in ListEnabledRiskRules
    /\ BeginScan(r, buildRuleRiskParams(r, f))

\* The definition must be enabled and its CPE pattern match (applyMatch).
ApplyDefinitionMatches(r, f) ==
    /\ FoundBy[r] = "definition" /\ rules[r] = "enabled"
    /\ BeginScan(r, buildRiskParams(r, f))

ReportCertificateFinding(r, f) ==
    /\ FoundBy[r] = "certificate"
    /\ BeginScan(r, certificateRiskParams(r, f))

\* The columns a scan overwrites, whatever they were.
Refreshed(row, p) ==
    [row EXCEPT !.severity = p.severity, !.unit = p.unit, !.owner = p.owner,
                !.score = p.score, !.level = p.level,
                !.suppressed = p.suppressed]

CreateRisk(r, p) ==
    /\ ~Exists(r)
    /\ risk' = [risk EXCEPT ![r] =
                   [status |-> "new", owner |-> p.owner, due |-> FALSE,
                    confirmedAt |-> FALSE, fixedAt |-> FALSE,
                    severity |-> p.severity, unit |-> p.unit,
                    score |-> p.score, level |-> p.level,
                    suppressed |-> p.suppressed]]

\* Mutant: the reopening write does not ask that the row is still fixed.
ReopenAnyway(r, p) ==
    /\ Exists(r)
    /\ risk' = [risk EXCEPT ![r] = [Refreshed(risk[r], p) EXCEPT !.status = "reopened",
                                                                 !.fixedAt = FALSE]]

\* UPDATE risk SET status = 'reopened', fixed_at = 0, ... WHERE status = 'fixed'
ReopenRisk(r, p) ==
    /\ risk[r].status = "fixed"
    /\ risk' = [risk EXCEPT ![r] = [Refreshed(risk[r], p) EXCEPT !.status = "reopened",
                                                                 !.fixedAt = FALSE]]

\* The server reports the rows it changed: a refresh that changes nothing is
\* an error.  last_seen moves with every later scan, so only the ingestion of
\* the same observation can leave the row as it is.
RefreshRisk(r, p) ==
    /\ Exists(r)
    /\ risk' = [risk EXCEPT ![r] = Refreshed(risk[r], p)]

InsertRiskChangeEvent(r, type) == events' = [events EXCEPT ![r] = type]

InsertScoreHistory(r) == scoreLog' = [scoreLog EXCEPT ![r] = risk'[r].score]

\* upsertRisk writes what it decided from the row it read, and rolls back
\* when the row no longer allows it.
ScanWrite(r) ==
    LET p == scan[r].params
        seen == scan[r].status
    IN  /\ scan[r] # Idle
        /\ \/ seen = "absent" /\ CreateRisk(r, p)
              /\ InsertRiskChangeEvent(r, "new")
           \/ seen = "fixed" /\ ReopenRisk(r, p)
              /\ InsertRiskChangeEvent(r, "reopened")
           \/ seen \notin {"absent", "fixed"} /\ RefreshRisk(r, p)
              /\ UNCHANGED events
        /\ InsertScoreHistory(r)
        /\ scan' = [scan EXCEPT ![r] = Idle]
        /\ UNCHANGED <<trail, decisions, policies, rules, suppress, pass>>

\* A duplicate key, a lost race or a dead worker: the scan leaves no trace.
ScanRollback(r) ==
    /\ scan[r] # Idle
    /\ scan' = [scan EXCEPT ![r] = Idle]
    /\ UNCHANGED <<risk, trail, scoreLog, decisions, policies, rules, suppress,
                   events, pass>>

-----------------------------------------------------------------------------
(* Passes over the project: due dates, scores and expired decisions.       *)

ListOpenRisksForSLARecalc ==
    {r \in Risks : Exists(r) /\ risk[r].status \notin
                     {"fixed", "risk_accepted", "false_positive"}}

\* The pass lists the open risks and resolves the due date of each.
RecalculateSLARead(r) ==
    /\ pass[r] = Idle
    /\ r \in ListOpenRisksForSLARecalc
    /\ ResolveDueAt(risk[r])
    /\ pass' = [pass EXCEPT ![r] = [op |-> "sla", row |-> risk[r]]]
    /\ UNCHANGED <<risk, trail, scoreLog, decisions, policies, rules, suppress,
                   events, scan>>

\* The pass writes back the owner and the times it read, with the due date,
\* when the status is still the one it read.
RecalculateSLAWrite(r) ==
    /\ pass[r].op = "sla"
    /\ UpdateRiskStatus(r, pass[r].row.status, [pass[r].row EXCEPT !.due = TRUE])
    /\ pass' = [pass EXCEPT ![r] = Idle]
    /\ UNCHANGED <<trail, scoreLog, decisions, policies, rules, suppress,
                   events, scan>>

\* RecalculateScores reads the row without a lock; its score leaves out the
\* title, so only the risk type makes a management entry.
RecalculateScoresRead(r) ==
    /\ Exists(r)
    /\ pass[r] = Idle
    /\ pass' = [pass EXCEPT ![r] =
                   [op |-> "score",
                    score |-> scoreRisk(r, FALSE, risk[r].severity, risk[r].unit)]]
    /\ UNCHANGED <<risk, trail, scoreLog, decisions, policies, rules, suppress,
                   events, scan>>

UpdateRiskScore(r, score) ==
    risk' = [risk EXCEPT ![r] = [risk[r] EXCEPT !.score = score,
                                                !.level = scoreLevel(score)]]

RecalculateScoresWrite(r) ==
    /\ pass[r].op = "score"
    /\ UpdateRiskScore(r, pass[r].score)
    /\ InsertScoreHistory(r)
    /\ pass' = [pass EXCEPT ![r] = Idle]
    /\ UNCHANGED <<trail, decisions, policies, rules, suppress, events, scan>>

\* The pass stops at the first error and does not come back to the row.
PassAborts(r) ==
    /\ pass[r].op \in {"sla", "score"}
    /\ pass' = [pass EXCEPT ![r] = Idle]
    /\ UNCHANGED <<risk, trail, scoreLog, decisions, policies, rules, suppress,
                   events, scan>>

\* Decisions past their expiry or review date, consumed or not.
ListExpiredRiskDecisions == {r \in Risks : \E d \in decisions[r] : d.expired}

\* A sweep by "u" reopens the risk of a listed decision.
ReopenExpiredDecision(r, u) ==
    /\ r \in ListExpiredRiskDecisions
    /\ TransitionStatus(r, [action |-> "reopen", actor |-> u, owner |-> NoUser,
                            reason |-> TRUE, approvedBy |-> NoUser,
                            window |-> FALSE, due |-> FALSE])

\* The expiry or review date of a decision passes.
DecisionExpires(r) ==
    /\ \E d \in decisions[r] :
          /\ ~d.expired
          /\ decisions' = [decisions EXCEPT ![r] =
                              (@ \ {d}) \cup {[d EXCEPT !.expired = TRUE]}]
    /\ UNCHANGED <<risk, trail, scoreLog, policies, rules, suppress, events,
                   scan, pass>>

-----------------------------------------------------------------------------
(* Rules, suppressions and policies.                                       *)

UpsertSLAPolicy(severity, unit) ==
    /\ policies' = policies \cup {<<severity, unit>>}
    /\ UNCHANGED <<risk, trail, scoreLog, decisions, rules, suppress, events,
                   scan, pass>>

\* PUT /sla-policies by "u".
upsertSLAPolicy(u, severity, unit) ==
    /\ permit(u, "risk:write")
    /\ UpsertSLAPolicy(severity, unit)

SetRule(r, to) ==
    /\ rules' = [rules EXCEPT ![r] = to]
    /\ UNCHANGED <<risk, trail, scoreLog, decisions, policies, suppress, events,
                   scan, pass>>

\* A new rule is enabled; its id is unique in the project.
CreateRule(r) ==
    /\ FoundBy[r] = "rule" /\ rules[r] = "absent"
    /\ SetRule(r, "enabled")

CreateDefinition(r) ==
    /\ FoundBy[r] = "definition" /\ rules[r] = "absent"
    /\ SetRule(r, "enabled")

\* A PATCH that changes nothing changes no row and is answered with not found.
SetRuleEnabled(r, to) ==
    /\ FoundBy[r] = "rule" /\ rules[r] \in {"enabled", "disabled"} \ {to}
    /\ SetRule(r, to)

\* Rows that are already suppressed stay so until the next scan.
SetSuppression(u, r, to) ==
    /\ permit(u, "risk:suppress")
    /\ suppress' = [suppress EXCEPT ![r] = to]
    /\ UNCHANGED <<risk, trail, scoreLog, decisions, policies, rules, events,
                   scan, pass>>

\* Enabled suppressions whose selectors match the risk are all alike to a
\* scan (suppressionMatches): the newest stands for them.
createSuppressionRule(u, r) ==
    /\ suppress[r] = "absent"
    /\ SetSuppression(u, r, "enabled")

setSuppressionRuleEnabled(u, r, to) ==
    /\ suppress[r] \in {"enabled", "disabled"} \ {to}
    /\ SetSuppression(u, r, to)

\* expires_at passes: the rule is no longer listed as active.
SuppressionExpires(r) ==
    /\ suppress[r] = "enabled"
    /\ suppress' = [suppress EXCEPT ![r] = "absent"]
    /\ UNCHANGED <<risk, trail, scoreLog, decisions, policies, rules, events,
                   scan, pass>>

-----------------------------------------------------------------------------
\* A project starts without risks and with any configuration.
RiskInit ==
    /\ risk = [r \in Risks |-> NoRow]
    /\ trail = [r \in Risks |-> "none"]
    /\ scoreLog = [r \in Risks |-> 0]
    /\ decisions = [r \in Risks |-> {}]
    /\ policies \in SUBSET (Severities \X Units)
    /\ rules \in [Risks -> {"absent", "enabled"}]
    /\ suppress \in [Risks -> {"absent", "enabled"}]
    /\ events = [r \in Risks |-> "none"]
    /\ scan = [r \in Risks |-> Idle]
    /\ pass = [r \in Risks |-> Idle]

RiskPeople(r) ==
    \/ \E in \in TransitionInputs : transitionStatus(r, in)
    \/ \E u \in RiskUsers : ReopenExpiredDecision(r, u)
    \/ DecisionExpires(r)

RiskScan(r) ==
    \/ \E f \in Findings : \/ ApplyRules(r, f)
                           \/ ApplyDefinitionMatches(r, f)
                           \/ ReportCertificateFinding(r, f)
    \/ ScanWrite(r)
    \/ ScanRollback(r)

RiskPass(r) ==
    \/ RecalculateSLARead(r) \/ RecalculateSLAWrite(r)
    \/ RecalculateScoresRead(r) \/ RecalculateScoresWrite(r)
    \/ PassAborts(r)

RiskAdmin(r) ==
    \/ CreateRule(r) \/ CreateDefinition(r) \/ SuppressionExpires(r)
    \/ \E to \in {"enabled", "disabled"} : SetRuleEnabled(r, to)
    \/ \E u \in RiskUsers :
          \/ createSuppressionRule(u, r)
          \/ \E to \in {"enabled", "disabled"} : setSuppressionRuleEnabled(u, r, to)
          \/ \E s \in Severities, b \in Units : upsertSLAPolicy(u, s, b)

RiskNext == \E r \in Risks : RiskPeople(r) \/ RiskScan(r) \/ RiskPass(r) \/ RiskAdmin(r)

RiskSpec == RiskInit /\ [][RiskNext]_riskVars

-----------------------------------------------------------------------------
(* Properties.                                                             *)

RiskParams == [severity : Severities, unit : Units,
               owner : RiskUsers \cup {NoUser}, score : 0..100,
               level : DOMAIN SeverityWeight, suppressed : BOOLEAN]

RiskTypeOK ==
    /\ risk \in [Risks -> RiskRow \cup {NoRow}]
    /\ trail \in [Risks -> RiskStatuses \cup {"none"}]
    /\ scoreLog \in [Risks -> 0..100]
    /\ decisions \in [Risks -> SUBSET Decision]
    /\ policies \subseteq Severities \X Units
    /\ rules \in [Risks -> RuleStates]
    /\ suppress \in [Risks -> RuleStates]
    /\ events \in [Risks -> {"none", "new", "reopened"}]
    /\ scan \in [Risks -> [op : {"scan"}, params : RiskParams,
                           status : RiskStatuses \cup {"absent"}] \cup {Idle}]
    /\ pass \in [Risks -> [op : {"sla"}, row : RiskRow]
                          \cup [op : {"score"}, score : 0..100] \cup {Idle}]

\* The status of a risk is the one its history ends with; the one exception
\* is a fixed risk a scan has reopened, which the code logs as a change event
\* and not in the history (service.go upsertRisk, TransitionStatus).  Scans,
\* people and passes that read before they write must not break it.
StatusTrail ==
    \A r \in Risks : Exists(r) =>
        \/ trail[r] = "none" /\ risk[r].status = "new"
        \/ trail[r] = risk[r].status
        \/ trail[r] = "fixed" /\ risk[r].status = "reopened"
                              /\ events[r] = "reopened"

\* A risk is accepted or written off only with a decision on record that
\* somebody other than the one who took it approved (validateTransitionInput).
DecisionBehindStatus ==
    \A r \in Risks : Exists(r) /\ risk[r].status \in DecisionStatuses =>
        \E d \in decisions[r] : /\ d.decision = risk[r].status
                                /\ d.approvedBy # d.actor

\* fixed_at is set exactly while the risk is fixed, whichever of a person,
\* a scan or a due-date pass wrote the row last.
FixedTimeMatches ==
    \A r \in Risks : Exists(r) =>
        (risk[r].fixedAt <=> risk[r].status = "fixed")

\* Work that was handed out has a due date, also after a due-date pass wrote
\* an older copy of the row back (ErrSLARequired, RecalculateSLADueAt).
HandedOutHasDue ==
    \A r \in Risks : Exists(r) /\ risk[r].status \in {"assigned", "fixing"} =>
        risk[r].due

\* The score and level of a risk are the ones its score history ends with,
\* although scans and passes compute them from rows they read earlier.
ScoreOnRecord ==
    \A r \in Risks : Exists(r) =>
        scoreLog[r] = risk[r].score /\ risk[r].level = scoreLevel(scoreLog[r])

\* What a risk's row says is what its histories say: people, scans and passes
\* (TransitionStatus, upsertRisk, RecalculateSLADueAt, RecalculateScores) read
\* a row, decide, and write it later, and none may leave the two apart.
RiskRecordAgrees ==
    /\ StatusTrail /\ DecisionBehindStatus /\ FixedTimeMatches /\ HandedOutHasDue
    /\ ScoreOnRecord

=============================================================================
