------------------------------ MODULE Workspaces ------------------------------
(***************************************************************************)
(* Projects, their members, subjects, domains and ICP filings              *)
(* (internal/project and its SQL), and the company data an org_intel run   *)
(* brings in (internal/discovery/ingest_org.go).                           *)
(*                                                                         *)
(* A project update merges its fields with the row it read, the ownership  *)
(* check reads the profile, asks the DNS and writes the profile back, and  *)
(* a collection reads in a snapshot the rows it writes back: all three are *)
(* two steps.  Every other write decides with what it reads in its own     *)
(* transaction, or asks for the status it read.                            *)
(***************************************************************************)
EXTENDS Naturals, FiniteSets, Roles

CONSTANTS
    Projects,      \* ids a project may get
    WsUsers,       \* active users (ActorScope)
    TenantOf,      \* the tenant of each user
    GlobalRole,    \* the tenant role of each user (resolveGlobalRole)
    Domains,       \* managed domains (normalizeManagedDomain)
    Under,         \* Under[d]: d and the domains above it
    SubjectIds,    \* ids of subjects
    Codes,         \* registration codes of companies
    FilingNos,     \* numbers of ICP filings
    Collectors     \* workers that ingest what org_intel runs collected

ASSUME WorkspaceAssumption ==
    /\ GlobalRole \in [WsUsers -> {"system_admin", "security_admin", "none"}]
    /\ Under \in [Domains -> SUBSET Domains] /\ \A d \in Domains : d \in Under[d]
    /\ 0 \notin Projects

VARIABLES
    project,     \* table project
    member,      \* table project_member: the role, by project and user
    subject,     \* table project_subject, by id
    profile,     \* table project_domain_profile, by project and domain
    filing,      \* table icp_filing with its domain links, by project and number
    scoped,      \* projects with a valid scope (module Scopes)
    runs,        \* task_run: projects with a pending or running run
    starting,    \* projects with a request that is about to insert a run
    updating,    \* what an update of a project read and merged
    verifying,   \* what an ownership check read, by project and domain
    txt,         \* tokens published in the DNS: <<project, domain>>
    proved,      \* history: <<project, domain>> whose token was seen
    collecting,  \* what the transaction of each collector has read
    decided      \* history: what operators' requests said of subjects, filings

projectVars == <<project, member, scoped, runs, starting, updating>>
orgVars == <<collecting, decided>>
profileVars == <<subject, profile, filing, verifying, txt, proved, collecting, decided>>
wsVars == <<projectVars, profileVars>>

Outsider == "none"
NoSubject == 0
ProjectStatuses == {"draft", "active", "suspended", "archived"}
NoProject == [status |-> "absent", owner |-> Outsider, tenant |-> Outsider]
ProjectRow == [status : ProjectStatuses \cup {"deleted"}, owner : WsUsers,
               tenant : {TenantOf[u] : u \in WsUsers}]
NoSubjectRow == [project |-> NoSubject]
SubjectRow == [project : Projects, key : {"company", "code"} \X Codes,
               primary : BOOLEAN, verification : {"unverified", "verified", "mismatch"},
               source : {"manual", "org_intel"}]
NoProfile == [ownership |-> "none"]
ProfileRow == [ownership : {"unverified", "verified", "mismatch"}, primary : BOOLEAN,
               subject : SubjectIds \cup {NoSubject}]
NoFiling == [status |-> "none"]
FilingRow == [status : {"unverified", "valid", "invalid", "cancelled"},
              subject : SubjectIds, domains : SUBSET Domains]

GetProjectByID(p) == project[p].status \in ProjectStatuses

-----------------------------------------------------------------------------
(* Access.                                                                 *)

GetProjectActorScope(u) == TenantOf[u]

GetProjectMemberRole(p, u) == member[p][u]

\* Mutant: a role of the tenant opens projects of every tenant.
AccessEverywhere(u, p) ==
    IF ~GetProjectByID(p) THEN Outsider
    ELSE IF RoleHasPerm(GlobalRole[u], "project:access") THEN GlobalRole[u]
    ELSE GetProjectMemberRole(p, u)

\* The role a request is admitted with, Outsider when it is refused.
Access(u, p) ==
    IF ~GetProjectByID(p) \/ GetProjectActorScope(u) # project[p].tenant THEN Outsider
    ELSE IF RoleHasPerm(GlobalRole[u], "project:access") THEN GlobalRole[u]
    ELSE GetProjectMemberRole(p, u)

accessID(u, p, perm) == RoleHasPerm(Access(u, p), perm)

HasGlobalPermission(u, perm) == RoleHasPerm(GlobalRole[u], perm)

ListProjectsByTenant(tenant) ==
    {p \in Projects : GetProjectByID(p) /\ project[p].tenant = tenant}

ListProjectsForMember(tenant, u) ==
    {p \in ListProjectsByTenant(tenant) : GetProjectMemberRole(p, u) # Outsider}

ListProjects(u) ==
    IF HasGlobalPermission(u, "project:read")
      THEN ListProjectsByTenant(GetProjectActorScope(u))
      ELSE ListProjectsForMember(GetProjectActorScope(u), u)

\* The totals of the console's first page.
GetWorkspaceSummary(visible) ==
    LET Count(status) == Cardinality({p \in visible : project[p].status = status})
    IN  [total |-> Cardinality(visible), active |-> Count("active"),
         draft |-> Count("draft"), suspended |-> Count("suspended")]

GetWorkspaceSummaryForMember(u) ==
    GetWorkspaceSummary({p \in ListProjectsByTenant(GetProjectActorScope(u)) :
                            GetProjectMemberRole(p, u) # Outsider})

WorkspaceSummary(u) ==
    IF HasGlobalPermission(u, "project:read")
      THEN GetWorkspaceSummary(ListProjectsByTenant(GetProjectActorScope(u)))
      ELSE GetWorkspaceSummaryForMember(u)

-----------------------------------------------------------------------------
(* Projects.                                                               *)

CreateProjectMember(p, u, role) == member' = [member EXCEPT ![p][u] = role]

\* POST /projects: the project and its owner's membership in one transaction.
CreateProject(u, p, owner) ==
    /\ HasGlobalPermission(u, "project:create")
    /\ project[p] = NoProject
    /\ GetProjectActorScope(owner) = GetProjectActorScope(u)
    /\ project' = [project EXCEPT ![p] =
           [status |-> "draft", owner |-> owner, tenant |-> GetProjectActorScope(u)]]
    /\ CreateProjectMember(p, owner, "project_owner")
    /\ UNCHANGED <<scoped, runs, starting, updating, profileVars>>

\* PATCH /projects/:id up to the transaction: an absent owner is the one read.
UpdateProjectRead(u, p, owner) ==
    /\ accessID(u, p, "project:write")
    /\ updating[p] = Outsider
    /\ GetProjectActorScope(owner) = project[p].tenant
    /\ updating' = [updating EXCEPT ![p] = owner]
    /\ UNCHANGED <<project, member, scoped, runs, starting, profileVars>>

\* Mutant: the new owner is not made a member.
OwnerOnly(p) ==
    /\ updating[p] # Outsider /\ GetProjectByID(p)
    /\ project' = [project EXCEPT ![p].owner = updating[p]]
    /\ updating' = [updating EXCEPT ![p] = Outsider]
    /\ UNCHANGED <<member, scoped, runs, starting, profileVars>>

\* A project deleted in between is not found after the write, and the
\* transaction rolls back (UpdateProjectFails).
UpdateProject(p) ==
    /\ updating[p] # Outsider /\ GetProjectByID(p)
    /\ project' = [project EXCEPT ![p].owner = updating[p]]
    /\ CreateProjectMember(p, updating[p], "project_owner")
    /\ updating' = [updating EXCEPT ![p] = Outsider]
    /\ UNCHANGED <<scoped, runs, starting, profileVars>>

UpdateProjectFails(p) ==
    /\ updating[p] # Outsider
    /\ updating' = [updating EXCEPT ![p] = Outsider]
    /\ UNCHANGED <<project, member, scoped, runs, starting, profileVars>>

validTransition(from, to) ==
    \/ from = "draft" /\ to \in {"active", "archived"}
    \/ from = "active" /\ to \in {"suspended", "archived"}
    \/ from = "suspended" /\ to \in {"active", "archived"}

GetProjectOnboardingCounts(p) ==
    [owner   |-> Cardinality({u \in WsUsers : GetProjectMemberRole(p, u) = "project_owner"}),
     subject |-> Cardinality({s \in SubjectIds : subject[s].project = p /\ subject[s].primary}),
     domain  |-> Cardinality({d \in Domains : profile[p][d] # NoProfile /\ profile[p][d].primary}),
     scope   |-> Cardinality({p} \cap scoped)]

\* ReadyToActivate
onboardingStatus(c) ==
    c.owner > 0 /\ c.subject > 0 /\ c.scope > 0 /\ (c.domain > 0 \/ c.scope > 0)

\* POST /projects/:id/transition
TransitionProject(u, p, status) ==
    /\ accessID(u, p, IF status = "archived" THEN "project:archive" ELSE "project:write")
    /\ validTransition(project[p].status, status)
    /\ status = "active" => onboardingStatus(GetProjectOnboardingCounts(p))
    /\ project' = [project EXCEPT ![p].status = status]
    /\ UNCHANGED <<member, scoped, runs, starting, updating, profileVars>>

\* What the console offers; the answer of GET /projects/:id/capabilities.
Capabilities(u, p) ==
    [permissions |-> IF Access(u, p) = Outsider THEN {} ELSE mvpRolePerms[Access(u, p)],
     canActivate |-> /\ project[p].status \in {"draft", "suspended"}
                     /\ onboardingStatus(GetProjectOnboardingCounts(p))
                     /\ accessID(u, p, "project:write")]

CountActiveProjectTaskRuns(p) == Cardinality({p} \cap runs)

\* DELETE /projects/:id, the name confirmed.
DeleteProject(u, p) ==
    /\ accessID(u, p, "project:delete")
    /\ project[p].status = "archived"
    /\ CountActiveProjectTaskRuns(p) = 0
    /\ project' = [project EXCEPT ![p].status = "deleted"]
    /\ UNCHANGED <<member, scoped, runs, starting, updating, profileVars>>

\* A run is created by a request that saw the project active.
RunRequested(u, p) ==
    /\ accessID(u, p, "discovery:run")
    /\ project[p].status = "active" /\ p \in scoped
    /\ starting' = starting \cup {p}
    /\ UNCHANGED <<project, member, scoped, runs, updating, profileVars>>

RunInserted(p) ==
    /\ p \in starting
    /\ starting' = starting \ {p} /\ runs' = runs \cup {p}
    /\ UNCHANGED <<project, member, scoped, updating, profileVars>>

RunEnds(p) ==
    /\ p \in runs
    /\ runs' = runs \ {p}
    /\ UNCHANGED <<project, member, scoped, starting, updating, profileVars>>

\* Scopes begin and end.
ScopeChanges(p) ==
    /\ GetProjectByID(p)
    /\ scoped' = IF p \in scoped THEN scoped \ {p} ELSE scoped \cup {p}
    /\ UNCHANGED <<project, member, runs, starting, updating, profileVars>>

-----------------------------------------------------------------------------
(* Subjects.                                                               *)

\* subject_key of a company entered by hand, and of one that was collected.
normalizeSubject(code) == <<"company", code>>

subjectKeyFor(code) == <<"code", code>>

\* uk_project_subject_key
GetProjectSubjectByKey(p, key) ==
    {s \in SubjectIds : subject[s].project = p /\ subject[s].key = key}

\* The primary flag is taken from the others before it is given
\* (ClearPrimaryProjectSubjects, uk_project_subject_primary).
ClearPrimaryProjectSubjects(p, primary) ==
    [s \in SubjectIds |->
        IF primary /\ subject[s].project = p THEN [subject[s] EXCEPT !.primary = FALSE]
                                             ELSE subject[s]]

\* A caller may name the source, whichever it likes ("manual" for none).
SubjectInput == [code : Codes, primary : BOOLEAN,
                 verification : {"unverified", "verified", "mismatch"},
                 source : {"manual", "org_intel"}]

SubjectFrom(p, in) ==
    [project |-> p, key |-> normalizeSubject(in.code), primary |-> in.primary,
     verification |-> in.verification, source |-> in.source]

\* What a request says of a subject that only an operator may say.
SubjectDecision(s, in) ==
    {<<"verification", s, in.verification>>} \cup (IF in.primary THEN {<<"primary", s>>} ELSE {})

\* POST and PUT /projects/:id/subjects
CreateSubject(u, p, s, in) ==
    /\ accessID(u, p, "project:write")
    /\ subject[s] = NoSubjectRow
    /\ GetProjectSubjectByKey(p, normalizeSubject(in.code)) = {}
    /\ subject' = [ClearPrimaryProjectSubjects(p, in.primary) EXCEPT ![s] = SubjectFrom(p, in)]
    /\ decided' = decided \cup SubjectDecision(s, in)
    /\ UNCHANGED <<profile, filing, verifying, txt, proved, collecting, projectVars>>

UpdateSubject(u, p, s, in) ==
    /\ accessID(u, p, "project:write")
    /\ subject[s].project = p
    /\ GetProjectSubjectByKey(p, normalizeSubject(in.code)) \subseteq {s}
    /\ subject' = [ClearPrimaryProjectSubjects(p, in.primary) EXCEPT ![s] = SubjectFrom(p, in)]
    /\ decided' = decided \cup SubjectDecision(s, in)
    /\ UNCHANGED <<profile, filing, verifying, txt, proved, collecting, projectVars>>

-----------------------------------------------------------------------------
(* Domains.                                                                *)

DomainInput == [ownership : {"unverified", "verified", "mismatch"}, primary : BOOLEAN,
                subject : SubjectIds \cup {NoSubject}]

\* Mutant: a request may declare the domain verified.
SelfDeclared(in) == TRUE

\* Nobody may declare a domain verified.
normalizeDomainInput(in) == in.ownership # "verified"

SubjectKnown(p, s) == s = NoSubject \/ (s \in SubjectIds /\ subject[s].project = p)

ClearPrimaryProjectDomains(p, primary) ==
    [d \in Domains |->
        IF primary /\ profile[p][d] # NoProfile THEN [profile[p][d] EXCEPT !.primary = FALSE]
                                                ELSE profile[p][d]]

WriteProfile(p, d, row) ==
    profile' = [profile EXCEPT ![p] =
        [ClearPrimaryProjectDomains(p, row.primary) EXCEPT ![d] = row]]

\* POST /projects/:id/domains: a domain that has a profile is overwritten.
CreateDomain(u, p, d, in) ==
    /\ accessID(u, p, "project:write")
    /\ normalizeDomainInput(in) /\ SubjectKnown(p, in.subject)
    /\ WriteProfile(p, d, in)
    /\ UNCHANGED <<subject, filing, verifying, txt, proved, orgVars, projectVars>>

UpdateDomain(u, p, d, in) ==
    /\ accessID(u, p, "project:write")
    /\ profile[p][d] # NoProfile
    /\ normalizeDomainInput(in) /\ SubjectKnown(p, in.subject)
    /\ WriteProfile(p, d, in)
    /\ UNCHANGED <<subject, filing, verifying, txt, proved, orgVars, projectVars>>

\* The operator of a domain publishes the token of a project, or removes it.
DNSChanges(p, d) ==
    /\ txt' = IF <<p, d>> \in txt THEN txt \ {<<p, d>>} ELSE txt \cup {<<p, d>>}
    /\ UNCHANGED <<subject, profile, filing, verifying, proved, orgVars, projectVars>>

\* Mutant: the token is the same for every project.
AnyProjectsToken(p, d) == \E q \in Projects : <<q, d>> \in txt

\* The token is a MAC over the project and the domain.
CheckOwnershipTXT(p, d) == <<p, d>> \in txt

\* POST /projects/:id/domains/:id/verify: the profile read and the DNS asked.
VerifyDomainOwnership(u, p, d) ==
    /\ accessID(u, p, "project:write")
    /\ profile[p][d] # NoProfile /\ verifying[p][d] = NoProfile
    /\ CheckOwnershipTXT(p, d)
    /\ verifying' = [verifying EXCEPT ![p][d] =
           [profile[p][d] EXCEPT !.ownership = "verified"]]
    /\ proved' = proved \cup (txt \cap {<<p, d>>})
    /\ UNCHANGED <<subject, profile, filing, txt, orgVars, projectVars>>

\* The write puts back the primary flag and the subject that were read.
UpdateProjectDomainProfile(p, d) ==
    /\ verifying[p][d] # NoProfile
    /\ WriteProfile(p, d, verifying[p][d])
    /\ verifying' = [verifying EXCEPT ![p][d] = NoProfile]
    /\ UNCHANGED <<subject, filing, txt, proved, orgVars, projectVars>>

VerifyFails(p, d) ==
    /\ verifying[p][d] # NoProfile
    /\ verifying' = [verifying EXCEPT ![p][d] = NoProfile]
    /\ UNCHANGED <<subject, profile, filing, txt, proved, orgVars, projectVars>>

\* The gate of active scanning: a proof of a domain covers what is under it.
CountVerifiedDomainOwnership(p, d) ==
    Cardinality({v \in Under[d] : profile[p][v].ownership = "verified"})

IsDomainOwnershipVerified(p, d) == CountVerifiedDomainOwnership(p, d) > 0

-----------------------------------------------------------------------------
(* Filings.                                                                *)

validateICP(p, in) ==
    /\ in.subject # NoSubject /\ SubjectKnown(p, in.subject)
    /\ \A d \in in.domains : profile[p][d] # NoProfile

\* POST and PUT /projects/:id/icp: the links are replaced
\* (ReplaceICPDomainLinks).
CreateICP(u, p, n, in) ==
    /\ accessID(u, p, "project:write")
    /\ filing[p][n] = NoFiling
    /\ validateICP(p, in)
    /\ filing' = [filing EXCEPT ![p][n] = in]
    /\ decided' = decided \cup {<<"status", p, n, in.status>>}
    /\ UNCHANGED <<subject, profile, verifying, txt, proved, collecting, projectVars>>

UpdateICP(u, p, n, in) ==
    /\ accessID(u, p, "project:write")
    /\ filing[p][n] # NoFiling
    /\ validateICP(p, in)
    /\ filing' = [filing EXCEPT ![p][n] = in]
    /\ decided' = decided \cup {<<"status", p, n, in.status>>}
    /\ UNCHANGED <<subject, profile, verifying, txt, proved, collecting, projectVars>>

-----------------------------------------------------------------------------
(* What an org_intel run collected, from a callback: one company and       *)
(* filings of it.                                                          *)

NoCollection == [project |-> NoSubject]

\* Domains without a profile are passed over; links are only added.
linkFilingDomains(p, domains) == {d \in domains : profile[p][d] # NoProfile}

\* The transaction's reads, all from one snapshot: the row of the company if
\* there is one, and the row or NoFiling for each filing.
CollectRead(k, p, code, filings, domains) ==
    /\ collecting[k] = NoCollection
    /\ project[p] # NoProject
    /\ collecting' = [collecting EXCEPT ![k] =
           [project |-> p, code |-> code,
            rows |-> [s \in GetProjectSubjectByKey(p, subjectKeyFor(code)) |-> subject[s]],
            filed |-> [n \in filings |-> filing[p][n]],
            domains |-> linkFilingDomains(p, domains)]]
    /\ UNCHANGED <<subject, profile, filing, verifying, txt, proved, decided, projectVars>>

\* A company that was collected before gets the key, the primary flag, the
\* verification and the source that were read; a new one is unverified and
\* not primary.
upsertSubject(x, s) ==
    [project |-> x.project, key |-> subjectKeyFor(x.code),
     primary |-> s \in DOMAIN x.rows /\ x.rows[s].primary,
     verification |-> IF s \in DOMAIN x.rows THEN x.rows[s].verification ELSE "unverified",
     source |-> IF s \in DOMAIN x.rows THEN x.rows[s].source ELSE "org_intel"]

\* Mutant: the registry's word settles the status of a filing.
RegistrySettles(x, s, n) ==
    LET old == filing[x.project][n]
    IN  [status |-> "valid", subject |-> s,
         domains |-> x.domains \cup (IF old = NoFiling THEN {} ELSE old.domains)]

\* The filing goes to the company and keeps the status that was read.
upsertFiling(x, s, n) ==
    LET old == filing[x.project][n]
    IN  [status |-> IF x.filed[n] = NoFiling THEN "unverified" ELSE x.filed[n].status,
         subject |-> s,
         domains |-> x.domains \cup (IF old = NoFiling THEN {} ELSE old.domains)]

\* UPDATE by the id that was read, or INSERT under a new id, within the unique
\* keys of the tables as they are now.
CollectsInto(x, s) ==
    /\ IF DOMAIN x.rows = {} THEN subject[s] = NoSubjectRow ELSE s \in DOMAIN x.rows
    /\ GetProjectSubjectByKey(x.project, subjectKeyFor(x.code)) \subseteq {s}
    /\ upsertSubject(x, s).primary =>
          \A o \in SubjectIds \ {s} : subject[o].project = x.project => ~subject[o].primary
    /\ \A n \in DOMAIN x.filed : x.filed[n] = NoFiling => filing[x.project][n] = NoFiling

\* The transaction's writes and its commit.
ingestOrgFacts(k, s) ==
    LET x == collecting[k]
    IN  /\ x # NoCollection
        /\ CollectsInto(x, s)
        /\ subject' = [subject EXCEPT ![s] = upsertSubject(x, s)]
        /\ filing' = [filing EXCEPT ![x.project] =
               [n \in FilingNos |-> IF n \in DOMAIN x.filed THEN upsertFiling(x, s, n)
                                                           ELSE filing[x.project][n]]]
        /\ collecting' = [collecting EXCEPT ![k] = NoCollection]
        /\ UNCHANGED <<profile, verifying, txt, proved, decided, projectVars>>

\* A duplicate key, a lost connection or the end of the worker rolls back.
CollectFails(k) ==
    /\ collecting[k] # NoCollection
    /\ collecting' = [collecting EXCEPT ![k] = NoCollection]
    /\ UNCHANGED <<subject, profile, filing, verifying, txt, proved, decided, projectVars>>

-----------------------------------------------------------------------------
WorkspaceInit ==
    /\ project = [p \in Projects |-> NoProject]
    /\ member = [p \in Projects |-> [u \in WsUsers |-> Outsider]]
    /\ subject = [s \in SubjectIds |-> NoSubjectRow]
    /\ profile = [p \in Projects |-> [d \in Domains |-> NoProfile]]
    /\ filing = [p \in Projects |-> [n \in FilingNos |-> NoFiling]]
    /\ scoped = {} /\ runs = {} /\ starting = {}
    /\ updating = [p \in Projects |-> Outsider]
    /\ verifying = [p \in Projects |-> [d \in Domains |-> NoProfile]]
    /\ txt = {} /\ proved = {} /\ decided = {}
    /\ collecting = [k \in Collectors |-> NoCollection]

ProjectSteps(u, p) ==
    \/ \E owner \in WsUsers : CreateProject(u, p, owner) \/ UpdateProjectRead(u, p, owner)
    \/ \E status \in ProjectStatuses : TransitionProject(u, p, status)
    \/ DeleteProject(u, p) \/ RunRequested(u, p)

ProjectBackground(p) ==
    UpdateProject(p) \/ UpdateProjectFails(p) \/ RunInserted(p) \/ RunEnds(p) \/ ScopeChanges(p)

DomainSteps(u, p) ==
    \E d \in Domains :
        \/ \E in \in DomainInput : CreateDomain(u, p, d, in) \/ UpdateDomain(u, p, d, in)
        \/ VerifyDomainOwnership(u, p, d)
        \/ UpdateProjectDomainProfile(p, d) \/ VerifyFails(p, d) \/ DNSChanges(p, d)

SubjectSteps(u, p) ==
    \E s \in SubjectIds, in \in SubjectInput :
        CreateSubject(u, p, s, in) \/ UpdateSubject(u, p, s, in)

FilingSteps(u, p) ==
    \E n \in FilingNos, in \in FilingRow : CreateICP(u, p, n, in) \/ UpdateICP(u, p, n, in)

CollectSteps(k) ==
    \/ \E p \in Projects, code \in Codes, filings \in SUBSET FilingNos, domains \in SUBSET Domains :
          CollectRead(k, p, code, filings, domains)
    \/ \E s \in SubjectIds : ingestOrgFacts(k, s)
    \/ CollectFails(k)

WorkspaceNext ==
    \/ \E u \in WsUsers, p \in Projects :
          ProjectSteps(u, p) \/ DomainSteps(u, p) \/ SubjectSteps(u, p) \/ FilingSteps(u, p)
    \/ \E p \in Projects : ProjectBackground(p)
    \/ \E k \in Collectors : CollectSteps(k)

WorkspaceSpec == WorkspaceInit /\ [][WorkspaceNext]_wsVars

-----------------------------------------------------------------------------
(* Properties.                                                             *)

CollectionOK(x) ==
    /\ x.project \in Projects /\ x.code \in Codes /\ x.domains \subseteq Domains
    /\ DOMAIN x.rows \subseteq SubjectIds /\ \A s \in DOMAIN x.rows : x.rows[s] \in SubjectRow
    /\ DOMAIN x.filed \subseteq FilingNos
    /\ \A n \in DOMAIN x.filed : x.filed[n] \in FilingRow \cup {NoFiling}

WorkspaceTablesOK ==
    /\ project \in [Projects -> ProjectRow \cup {NoProject}]
    /\ member \in [Projects -> [WsUsers -> AllRoles \cup {Outsider}]]
    /\ subject \in [SubjectIds -> SubjectRow \cup {NoSubjectRow}]
    /\ profile \in [Projects -> [Domains -> ProfileRow \cup {NoProfile}]]
    /\ filing \in [Projects -> [FilingNos -> FilingRow \cup {NoFiling}]]
    /\ verifying \in [Projects -> [Domains -> ProfileRow \cup {NoProfile}]]
    /\ updating \in [Projects -> WsUsers \cup {Outsider}]
    /\ scoped \subseteq Projects /\ runs \subseteq Projects /\ starting \subseteq Projects
    /\ txt \subseteq Projects \X Domains /\ proved \subseteq Projects \X Domains

CollectionsOK ==
    /\ collecting = [k \in Collectors |-> collecting[k]]
    /\ \A k \in Collectors : collecting[k] # NoCollection => CollectionOK(collecting[k])

WorkspaceTypeOK == WorkspaceTablesOK /\ CollectionsOK

\* Active scanning of a domain is open only when the token of this project was
\* seen in the DNS of the domain or of one above it: no request, no token of
\* another project and no overlap of a check with an edit makes it verified
\* (VerifyDomainOwnership, normalizeDomainInput, OwnershipToken).
VerifiedHasProof ==
    \A p \in Projects, d \in Domains :
        IsDomainOwnershipVerified(p, d) => \E v \in Under[d] : <<p, v>> \in proved

\* The list, the totals and the access check agree on what a user sees, and a
\* user sees no project of another tenant (ListProjects, WorkspaceSummary,
\* Access).
ViewsAgreeWithAccess ==
    \A u \in WsUsers :
        /\ ListProjects(u) = {p \in Projects : Access(u, p) # Outsider}
        /\ WorkspaceSummary(u).total = Cardinality(ListProjects(u))

\* The owner of a project can act as its owner: a member with that role and of
\* the project's tenant, whatever updates overlapped.
OwnerIsMember ==
    \A p \in Projects : project[p] # NoProject =>
        /\ member[p][project[p].owner] = "project_owner"
        /\ TenantOf[project[p].owner] = project[p].tenant

\* Collected data decides nothing an operator decides: a subject is verified,
\* mismatched or primary, and a filing other than unverified, only if a request
\* said so of that very row, whatever a collection read before and writes back
\* after (upsertSubject, upsertFiling).
DecidedByOperator(s, row) ==
    /\ row.verification # "unverified" => <<"verification", s, row.verification>> \in decided
    /\ row.primary => <<"primary", s>> \in decided

OperatorsDecide ==
    /\ \A s \in SubjectIds : subject[s] # NoSubjectRow => DecidedByOperator(s, subject[s])
    /\ \A p \in Projects, n \in FilingNos :
          filing[p][n].status \in {"none", "unverified"}
          \/ <<"status", p, n, filing[p][n].status>> \in decided

\* What opens a project to people and to active scanning is earned: ownership
\* of a domain by its DNS token, the owner's rights by membership, a view by
\* access, and nothing of it by what a run collected.
OwnershipCorrect ==
    VerifiedHasProof /\ OwnerIsMember /\ ViewsAgreeWithAccess /\ OperatorsDecide

=============================================================================
