---------------------------- MODULE MCOperations ----------------------------
(***************************************************************************)
(* The services operators work with, side by side: `part' is chosen at the *)
(* start and says which service moves, with the choices that matter there. *)
(***************************************************************************)
EXTENDS Tickets, Notifications, ReportExports, Retention, Accounts,
        Workspaces, RateLimiter

VARIABLE part

RiskParts == {"people", "passes", "rules"}
AccountParts == {"sessions", "admins"}
WorkspaceParts == {"projects", "domains", "subjects"}
Parts == RiskParts \cup AccountParts \cup WorkspaceParts
         \cup {"tickets", "notify", "export", "retention", "limiter"}

opsVars == <<riskVars, ticketVars, notifVars, reportVars, retentionVars,
             accountVars, wsVars, limiterVars, part>>

-----------------------------------------------------------------------------
(* Constants.                                                              *)

MCRiskRole == [u \in RiskUsers |-> IF u = "u1" THEN "security_ops" ELSE "system_admin"]
MCCriticality == [u \in Units |-> 0]
MCFoundBy == [r1 |-> "rule", r2 |-> "definition", r3 |-> "certificate"]

MCWindow == [n1 |-> 2, n2 |-> 0]

MCReportRole == [u1 |-> "project_owner", u2 |-> "viewer"]

MCDefaultDays == [f \in PolicyFields |-> IF f = "discovery_callback" THEN 1 ELSE 2]
MCPayloads == {[days |-> [f \in PolicyFields |-> 0], batch |-> 0],
               [days |-> [f \in PolicyFields |-> 1], batch |-> 2],
               [days |-> [f \in PolicyFields |-> IF f = "audit_min" THEN 3 ELSE 1],
                batch |-> 1]}

MCTenantOf == [u \in WsUsers |-> IF u = "u3" THEN "t2" ELSE "t1"]
MCGlobalRole == [u1 |-> "system_admin", u2 |-> "none", u3 |-> "security_admin"]
MCUnder == [d \in Domains |-> IF d = "sub" THEN {"root", "sub"} ELSE {d}]

-----------------------------------------------------------------------------
(* Risks: people and scans; people and passes; scans and their rules.      *)

OneSeverity == scan'["r1"] # Idle => scan'["r1"].params.severity = "critical"
OthersUntouched(r) ==
    \A q \in Risks \ {r} : /\ ~Exists(q) /\ scan[q] = Idle
                           /\ rules[q] = "absent" /\ suppress[q] = "absent"

RisksMove ==
    \/ part = "people" /\ (RiskPeople("r1") \/ (RiskScan("r1") /\ OneSeverity))
    \/ part = "passes" /\ \/ RiskPeople("r1") \/ RiskPass("r1")
                          \/ RiskScan("r1") /\ trail["r1"] = "none" /\ OneSeverity
    \/ part = "rules" /\ \E r \in Risks :
          OthersUntouched(r) /\ (RiskScan(r) \/ RiskAdmin(r))

(* Tickets: one administrator, with two requests on one risk, in their own *)
(* name only.                                                              *)
TicketsMove ==
    \/ \E c \in Requests, t \in Tickets :
          \/ \E due \in BOOLEAN : CreateBegin(c, t, "u2", {"r1"}, due)
          \/ \E in \in MoveInputs : in.actor = "u2" /\ MoveRead(c, t, in)
    \/ \E c \in Requests : RequestStep(c)
    \/ /\ trail["r1"] = "none"
       /\ RiskScan("r1") /\ OneSeverity /\ UNCHANGED ticketVars
    \/ \E in \in TransitionInputs :
          /\ in.actor = "u2" /\ in.owner \in {NoUser, "u2"}
          /\ in.action \in {"confirm", "assign", "mark_fixed", "reopen"}
          /\ transitionStatus("r1", in) /\ UNCHANGED ticketVars

(* Accounts: sessions with password changes; administrators.               *)
Alone(u) == \A t \in tokens : t.user = u => ~RequireAuth(t)
NoneOpen == \A x \in AdminTxs : adminTx[x] = NoAdminTx

AccountsMove ==
    \/ /\ part = "sessions"
       /\ \/ \E u \in Users :
                \/ \E p \in Passwords : Alone(u) /\ Login(u, p)
                \/ \E t \in tokens : t.user = u /\ Refresh(t)
                \/ u # FirstAdmin /\ \E p, q \in Passwords : ChangePassword(u, p, q)
                \/ ChangeCurrentUserPassword(u) \/ PasswordChangeFails(u)
          \/ \E a \in Users, u \in Users \ {FirstAdmin} :
                \/ \E in \in normalizeCreatePlatformUser :
                      in.role # "system_admin" /\ Create(a, u, in)
                \/ \E p \in Passwords : ResetPassword(a, u, p)
                \/ \E x \in AdminTxs, r \in {NoRole, "security_admin"} :
                      NoneOpen /\ UpdateTenantRole(x, a, u, r)
          \/ \E x \in AdminTxs : CommitAdmin(x) \/ RollbackAdmin(x)
    \/ /\ part = "admins"
       /\ \/ \E u \in Users, p \in Passwords : Alone(u) /\ Login(u, p)
          \/ \E a, u \in Users :
                \/ \E in \in normalizeCreatePlatformUser :
                      in.password = account[FirstAdmin].password /\ Create(a, u, in)
                \/ \E x \in AdminTxs :
                      \/ \E s \in UserStatuses : Transition(x, a, u, s)
                      \/ \E r \in TenantRoles \cup {NoRole} : UpdateTenantRole(x, a, u, r)
                      \/ \E p \in Profiles : Update(x, a, u, p)
          \/ \E x \in AdminTxs : CommitAdmin(x) \/ RollbackAdmin(x)

(* Workspaces: projects and members; ownership of domains; organisations.  *)
Plain(in) == in.subject = NoSubject /\ in.ownership # "mismatch"

WorkspacesMove ==
    \/ /\ part = "projects"
       /\ \/ \E u \in WsUsers : ProjectSteps(u, 1)
          \/ ProjectBackground(1)
          \/ \E owner \in {"u2", "u3"} : CreateProject("u3", 2, owner)
          \/ \E b \in BOOLEAN :
                LET in == [code |-> "c1", primary |-> b, verification |-> "unverified",
                           source |-> "manual"]
                IN  CreateSubject("u2", 1, 1, in) \/ UpdateSubject("u2", 1, 1, in)
    \/ /\ part = "domains"
       /\ \/ \E p \in Projects : CreateProject("u1", p, "u2")
          \/ /\ \A p \in Projects : project[p] # NoProject
             /\ \E p \in Projects : \E d \in IF p = 1 THEN Domains ELSE {"root"} :
                   \/ \E in \in DomainInput : Plain(in) /\
                         (CreateDomain("u2", p, d, in) \/ (p = 1 /\ UpdateDomain("u2", p, d, in)))
                   \/ VerifyDomainOwnership("u2", p, d)
                   \/ UpdateProjectDomainProfile(p, d) \/ VerifyFails(p, d) \/ DNSChanges(p, d)
    \/ /\ part = "subjects"
       /\ \/ CreateProject("u1", 1, "u2")
          \/ \E s \in SubjectIds, in \in SubjectInput :
                /\ in.verification # "mismatch" /\ in.source = "org_intel"
                /\ CreateSubject("u2", 1, s, in) \/ UpdateSubject("u2", 1, s, in)
          \/ \E k \in Collectors :
                \/ k = "k1" /\ CollectRead(k, 1, "c1", FilingNos, {"root"})
                \/ k = "k2" /\ CollectRead(k, 1, "c1", {}, {})
                \/ \E s \in SubjectIds : ingestOrgFacts(k, s)
                \/ CollectFails(k)
          \/ \E n \in FilingNos, in \in FilingRow :
                /\ in.status \in {"valid", "unverified"} /\ in.domains = {}
                /\ CreateICP("u2", 1, n, in) \/ UpdateICP("u2", 1, n, in)
          \/ /\ profile[1]["root"] = NoProfile
             /\ CreateDomain("u2", 1, "root",
                   [ownership |-> "unverified", primary |-> FALSE, subject |-> 1])

(* Exports: the fields asked for are none or the restricted ones.          *)
ExportsMove ==
    \/ \E e \in Exports :
          \/ \E u \in ReportUsers, F \in {{}, {"full"}} : CreateExport(e, u, F)
          \/ ExportSteps(e)
    \/ \E i \in TableRows : RowCommits(i)

-----------------------------------------------------------------------------
OperationsInit ==
    /\ part \in Parts
    /\ TicketInit /\ NotifInit /\ ReportInit /\ RetentionInit /\ AccountInit
    /\ WorkspaceInit /\ LimiterInit
    /\ suppress = [r \in Risks |-> "absent"]
    /\ rules = [r \in Risks |-> IF part = "rules" THEN "absent" ELSE "enabled"]
    /\ policies \in {{}, Severities \X Units}
    /\ part \notin RiskParts => policies = Severities \X Units
    /\ account[FirstAdmin].password = "p1" /\ account[FirstAdmin].profile = "a"
    /\ \A q \in Throttled : throttled[q].key = CHOOSE k \in ClientKeys : TRUE

OperationsNext ==
    /\ UNCHANGED part
    /\ \/ /\ part \in RiskParts /\ RisksMove
          /\ UNCHANGED <<ticketVars, notifVars, reportVars, retentionVars, accountVars,
                         wsVars, limiterVars>>
       \/ /\ part = "tickets" /\ TicketsMove
          /\ UNCHANGED <<notifVars, reportVars, retentionVars, accountVars, wsVars, limiterVars>>
       \/ /\ part = "notify" /\ NotifNext
          /\ UNCHANGED <<riskVars, ticketVars, reportVars, retentionVars, accountVars,
                         wsVars, limiterVars>>
       \/ /\ part = "export" /\ ExportsMove
          /\ UNCHANGED <<riskVars, ticketVars, notifVars, retentionVars, accountVars,
                         wsVars, limiterVars>>
       \/ /\ part = "retention" /\ RetentionNext
          /\ UNCHANGED <<riskVars, ticketVars, notifVars, reportVars, accountVars, wsVars,
                         limiterVars>>
       \/ /\ part \in AccountParts /\ AccountsMove
          /\ UNCHANGED <<riskVars, ticketVars, notifVars, reportVars, retentionVars, wsVars,
                         limiterVars>>
       \/ /\ part \in WorkspaceParts /\ WorkspacesMove
          /\ UNCHANGED <<riskVars, ticketVars, notifVars, reportVars, retentionVars,
                         accountVars, limiterVars>>
       \/ /\ part = "limiter" /\ LimiterNext
          /\ UNCHANGED <<riskVars, ticketVars, notifVars, reportVars, retentionVars,
                         accountVars, wsVars>>

OperationsSpec == OperationsInit /\ [][OperationsNext]_opsVars

-----------------------------------------------------------------------------
(* Every variable of every service has its type.                           *)
OperationsTypeOK ==
    /\ RiskTypeOK /\ TicketTypeOK /\ NotifTypeOK /\ ReportTypeOK /\ RetentionTypeOK
    /\ AccountTypeOK /\ WorkspaceTypeOK /\ LimiterTypeOK

=============================================================================
