---------------------------- MODULE AccessProofs ----------------------------
(***************************************************************************)
(* Who may do what, for every set of users, projects, tenants and domains: *)
(* a session is accepted only with what it was issued for (Accounts), and  *)
(* what opens a project to people and to active scanning was earned        *)
(* (Workspaces).                                                           *)
(***************************************************************************)
EXTENDS Workspaces, Accounts, FiniteSetTheorems, TLAPS

-----------------------------------------------------------------------------
(* Projects and ownership.                                                 *)

\* An owner is a member of the project and of its tenant, and so is the owner
\* an update in flight is about to set.
OwnersFit ==
    \A p \in Projects :
        /\ project[p] # NoProject =>
              /\ member[p][project[p].owner] = "project_owner"
              /\ TenantOf[project[p].owner] = project[p].tenant
        /\ updating[p] # Outsider =>
              project[p] # NoProject /\ TenantOf[updating[p]] = project[p].tenant

\* What is verified, or about to be written as verified, was seen in the DNS.
ProofsFit ==
    \A p \in Projects, d \in Domains :
        profile[p][d].ownership = "verified" \/ verifying[p][d] # NoProfile =>
            <<p, d>> \in proved

\* What a collection has read of a row that is not as a collection makes it,
\* an operator had said of that row.
FilingDecided(p, n, row) ==
    row.status \in {"none", "unverified"} \/ <<"status", p, n, row.status>> \in decided

ReadsDecided(x) ==
    /\ \A s \in DOMAIN x.rows : DecidedByOperator(s, x.rows[s])
    /\ \A n \in DOMAIN x.filed : FilingDecided(x.project, n, x.filed[n])

OrgFit ==
    /\ CollectionsOK /\ OperatorsDecide
    /\ \A k \in Collectors : collecting[k] # NoCollection => ReadsDecided(collecting[k])

WorkspaceInv == WorkspaceTablesOK /\ OwnersFit /\ ProofsFit /\ OrgFit

LEMMA OrgUnchanged ==
    ASSUME WorkspaceInv, UNCHANGED <<subject, filing, orgVars>>
    PROVE  OrgFit'
  BY DEF WorkspaceInv, OrgFit, CollectionsOK, CollectionOK, OperatorsDecide, ReadsDecided,
         FilingDecided, DecidedByOperator, orgVars

LEMMA ProjectFacts ==
    /\ NoProject \notin ProjectRow /\ NoProject.status = "absent"
    /\ "absent" \notin ProjectStatuses /\ "deleted" \notin ProjectStatuses
    /\ NoSubjectRow \notin SubjectRow /\ NoSubjectRow.project = 0
    /\ NoProfile \notin ProfileRow /\ NoProfile.ownership = "none"
    /\ NoFiling \notin FilingRow
    /\ Outsider \notin AllRoles
  <1>1. NoProject \notin ProjectRow /\ NoProject.status = "absent"
    BY DEF NoProject, ProjectRow, ProjectStatuses
  <1>2. "absent" \notin ProjectStatuses /\ "deleted" \notin ProjectStatuses
    BY DEF ProjectStatuses
  <1>3. NoSubjectRow \notin SubjectRow /\ NoSubjectRow.project = 0
    BY WorkspaceAssumption DEF NoSubjectRow, NoSubject, SubjectRow
  <1>4. NoProfile \notin ProfileRow /\ NoProfile.ownership = "none"
    BY DEF NoProfile, ProfileRow
  <1>5. NoFiling \notin FilingRow
    BY DEF NoFiling, FilingRow
  <1>6. Outsider \notin AllRoles
    BY DEF Outsider, AllRoles
  <1> QED BY <1>1, <1>2, <1>3, <1>4, <1>5, <1>6

\* A request that is admitted is about a project that is there.
LEMMA AccessFacts ==
    ASSUME WorkspaceTablesOK, NEW u \in WsUsers, NEW p \in Projects, NEW perm,
           accessID(u, p, perm)
    PROVE  /\ project[p] \in ProjectRow /\ project[p] # NoProject
           /\ project[p].status \in ProjectStatuses
           /\ TenantOf[u] = project[p].tenant
  <1>1. GetProjectByID(p) /\ TenantOf[u] = project[p].tenant
    BY ProjectFacts DEF accessID, RoleHasPerm, Access, GetProjectActorScope
  <1> QED BY <1>1, ProjectFacts DEF GetProjectByID, WorkspaceTablesOK

\* A step that writes the row of one project, its memberships or its update.
LEMMA ProjectWrite ==
    ASSUME WorkspaceInv, NEW p \in Projects, WorkspaceTablesOK', UNCHANGED profileVars,
           \A q \in Projects : q # p => /\ project'[q] = project[q]
                                        /\ member'[q] = member[q]
                                        /\ updating'[q] = updating[q],
           project'[p] # NoProject =>
              /\ member'[p][project'[p].owner] = "project_owner"
              /\ TenantOf[project'[p].owner] = project'[p].tenant,
           updating'[p] # Outsider =>
              project'[p] # NoProject /\ TenantOf[updating'[p]] = project'[p].tenant
    PROVE  WorkspaceInv'
  <1>1. OwnersFit'
    BY DEF WorkspaceInv, OwnersFit
  <1>2. ProofsFit'
    BY DEF WorkspaceInv, ProofsFit, profileVars
  <1>3. OrgFit'
    BY OrgUnchanged DEF profileVars, orgVars
  <1> QED BY <1>1, <1>2, <1>3 DEF WorkspaceInv

LEMMA CreateProjectKeeps ==
    ASSUME WorkspaceInv, NEW u \in WsUsers, NEW p \in Projects, NEW owner \in WsUsers,
           CreateProject(u, p, owner)
    PROVE  WorkspaceInv'
  <1> DEFINE n == [status |-> "draft", owner |-> owner, tenant |-> TenantOf[u]]
  <1>1. /\ project' = [project EXCEPT ![p] = n]
        /\ member' = [member EXCEPT ![p][owner] = "project_owner"]
        /\ TenantOf[owner] = TenantOf[u] /\ project[p] = NoProject
        /\ UNCHANGED <<scoped, runs, starting, updating, profileVars>>
    BY DEF CreateProject, CreateProjectMember, GetProjectActorScope
  <1>2. n \in ProjectRow /\ n.owner = owner /\ n.tenant = TenantOf[u]
    BY DEF ProjectRow, ProjectStatuses
  <1> HIDE DEF n
  <1>3. /\ project' \in [Projects -> ProjectRow \cup {NoProject}] /\ project'[p] = n
        /\ \A q \in Projects : q # p => project'[q] = project[q]
    BY <1>1, <1>2 DEF WorkspaceInv, WorkspaceTablesOK
  <1>4. /\ member' \in [Projects -> [WsUsers -> AllRoles \cup {Outsider}]]
        /\ member'[p][owner] = "project_owner"
        /\ \A q \in Projects : q # p => member'[q] = member[q]
    BY <1>1 DEF WorkspaceInv, WorkspaceTablesOK, AllRoles
  <1>5. WorkspaceTablesOK'
    BY <1>1, <1>3, <1>4 DEF WorkspaceInv, WorkspaceTablesOK, profileVars
  <1>6. updating[p] = Outsider
    BY <1>1 DEF WorkspaceInv, OwnersFit
  <1> QED BY <1>1, <1>2, <1>3, <1>4, <1>5, <1>6, ProjectWrite

LEMMA UpdateReadKeeps ==
    ASSUME WorkspaceInv, NEW u \in WsUsers, NEW p \in Projects, NEW owner \in WsUsers,
           UpdateProjectRead(u, p, owner)
    PROVE  WorkspaceInv'
  <1>1. /\ updating' = [updating EXCEPT ![p] = owner] /\ TenantOf[owner] = project[p].tenant
        /\ accessID(u, p, "project:write")
        /\ UNCHANGED <<project, member, scoped, runs, starting, profileVars>>
    BY DEF UpdateProjectRead, GetProjectActorScope
  <1>2. project[p] # NoProject
    BY <1>1, AccessFacts DEF WorkspaceInv
  <1>3. updating'[p] = owner /\ \A q \in Projects : q # p => updating'[q] = updating[q]
    BY <1>1 DEF WorkspaceInv, WorkspaceTablesOK
  <1>4. WorkspaceTablesOK'
    BY <1>1 DEF WorkspaceInv, WorkspaceTablesOK, profileVars
  <1>5. project[p] # NoProject =>
              /\ member[p][project[p].owner] = "project_owner"
              /\ TenantOf[project[p].owner] = project[p].tenant
    BY DEF WorkspaceInv, OwnersFit
  <1> QED BY <1>1, <1>2, <1>3, <1>4, <1>5, ProjectWrite

LEMMA UpdateProjectKeeps ==
    ASSUME WorkspaceInv, NEW p \in Projects, UpdateProject(p)
    PROVE  WorkspaceInv'
  <1> DEFINE o == updating[p]
             n == [project[p] EXCEPT !.owner = o]
  <1>1. /\ o # Outsider /\ GetProjectByID(p)
        /\ project' = [project EXCEPT ![p] = n]
        /\ member' = [member EXCEPT ![p][o] = "project_owner"]
        /\ updating' = [updating EXCEPT ![p] = Outsider]
        /\ UNCHANGED <<scoped, runs, starting, profileVars>>
    BY DEF UpdateProject, CreateProjectMember
  <1>2. o \in WsUsers /\ TenantOf[o] = project[p].tenant
    BY <1>1 DEF WorkspaceInv, WorkspaceTablesOK, OwnersFit
  <1>3. project[p] \in ProjectRow
    BY <1>1, ProjectFacts DEF GetProjectByID, WorkspaceInv, WorkspaceTablesOK
  <1> HIDE DEF o
  <1>4. n \in ProjectRow /\ n.owner = o /\ n.tenant = project[p].tenant
    BY <1>2, <1>3 DEF ProjectRow
  <1> HIDE DEF n
  <1>5. /\ project' \in [Projects -> ProjectRow \cup {NoProject}] /\ project'[p] = n
        /\ \A q \in Projects : q # p => project'[q] = project[q]
    BY <1>1, <1>4 DEF WorkspaceInv, WorkspaceTablesOK
  <1>6. /\ member' \in [Projects -> [WsUsers -> AllRoles \cup {Outsider}]]
        /\ member'[p][o] = "project_owner"
        /\ \A q \in Projects : q # p => member'[q] = member[q]
    BY <1>1, <1>2 DEF WorkspaceInv, WorkspaceTablesOK, AllRoles
  <1>7. /\ updating' \in [Projects -> WsUsers \cup {Outsider}] /\ updating'[p] = Outsider
        /\ \A q \in Projects : q # p => updating'[q] = updating[q]
    BY <1>1 DEF WorkspaceInv, WorkspaceTablesOK
  <1>8. WorkspaceTablesOK'
    BY <1>1, <1>5, <1>6, <1>7 DEF WorkspaceInv, WorkspaceTablesOK, profileVars
  <1> QED BY <1>1, <1>2, <1>4, <1>5, <1>6, <1>7, <1>8, ProjectWrite

LEMMA UpdateFailsKeeps ==
    ASSUME WorkspaceInv, NEW p \in Projects, UpdateProjectFails(p)
    PROVE  WorkspaceInv'
  <1>1. /\ updating' = [updating EXCEPT ![p] = Outsider]
        /\ UNCHANGED <<project, member, scoped, runs, starting, profileVars>>
    BY DEF UpdateProjectFails
  <1>2. updating'[p] = Outsider /\ \A q \in Projects : q # p => updating'[q] = updating[q]
    BY <1>1 DEF WorkspaceInv, WorkspaceTablesOK
  <1>3. WorkspaceTablesOK'
    BY <1>1 DEF WorkspaceInv, WorkspaceTablesOK, profileVars
  <1>4. project[p] # NoProject =>
              /\ member[p][project[p].owner] = "project_owner"
              /\ TenantOf[project[p].owner] = project[p].tenant
    BY DEF WorkspaceInv, OwnersFit
  <1> QED BY <1>1, <1>2, <1>3, <1>4, ProjectWrite

\* The status of a project moves or the project is deleted.
LEMMA ProjectStatusKeeps ==
    ASSUME WorkspaceInv, NEW p \in Projects, NEW s \in ProjectStatuses \cup {"deleted"},
           project[p] \in ProjectRow, project' = [project EXCEPT ![p].status = s],
           UNCHANGED <<member, scoped, runs, starting, updating, profileVars>>
    PROVE  WorkspaceInv'
  <1> DEFINE n == [project[p] EXCEPT !.status = s]
  <1>1. n \in ProjectRow /\ n.owner = project[p].owner /\ n.tenant = project[p].tenant
    BY DEF ProjectRow
  <1>2. project' = [project EXCEPT ![p] = n]
    BY DEF WorkspaceInv, WorkspaceTablesOK
  <1> HIDE DEF n
  <1>3. /\ project' \in [Projects -> ProjectRow \cup {NoProject}] /\ project'[p] = n
        /\ n # NoProject /\ \A q \in Projects : q # p => project'[q] = project[q]
    BY <1>1, <1>2, ProjectFacts DEF WorkspaceInv, WorkspaceTablesOK
  <1>4. WorkspaceTablesOK'
    BY <1>3 DEF WorkspaceInv, WorkspaceTablesOK, profileVars
  <1>5. /\ member[p][project[p].owner] = "project_owner"
        /\ TenantOf[project[p].owner] = project[p].tenant
        /\ updating[p] # Outsider => TenantOf[updating[p]] = project[p].tenant
    BY ProjectFacts DEF WorkspaceInv, OwnersFit
  <1> QED BY <1>1, <1>3, <1>4, <1>5, ProjectWrite

LEMMA ProjectStepsKeep ==
    ASSUME WorkspaceInv, NEW u \in WsUsers, NEW p \in Projects, ProjectSteps(u, p)
    PROVE  WorkspaceInv'
  <1>1. CASE \E owner \in WsUsers : CreateProject(u, p, owner) \/ UpdateProjectRead(u, p, owner)
    BY <1>1, CreateProjectKeeps, UpdateReadKeeps
  <1>2. CASE \E status \in ProjectStatuses : TransitionProject(u, p, status)
    <2>1. PICK status \in ProjectStatuses : TransitionProject(u, p, status)
      BY <1>2
    <2>2. project[p] \in ProjectRow
      BY <2>1, AccessFacts DEF TransitionProject, WorkspaceInv
    <2> QED BY <2>1, <2>2, ProjectStatusKeeps DEF TransitionProject
  <1>3. CASE DeleteProject(u, p)
    <2>1. project[p] \in ProjectRow
      BY <1>3, AccessFacts DEF DeleteProject, WorkspaceInv
    <2> QED BY <1>3, <2>1, ProjectStatusKeeps DEF DeleteProject
  <1>4. CASE RunRequested(u, p)
    <2>1. OrgFit'
      BY <1>4, OrgUnchanged DEF RunRequested, profileVars, orgVars
    <2> QED BY <1>4, <2>1 DEF RunRequested, WorkspaceInv, WorkspaceTablesOK, OwnersFit,
                              ProofsFit, profileVars
  <1> QED BY <1>1, <1>2, <1>3, <1>4 DEF ProjectSteps

LEMMA BackgroundKeeps ==
    ASSUME WorkspaceInv, NEW p \in Projects, ProjectBackground(p)
    PROVE  WorkspaceInv'
  <1>1. CASE UpdateProject(p) \/ UpdateProjectFails(p)
    BY <1>1, UpdateProjectKeeps, UpdateFailsKeeps
  <1>2. CASE RunInserted(p) \/ RunEnds(p) \/ ScopeChanges(p)
    <2>1. UNCHANGED <<project, member, updating, profileVars>>
      BY <1>2 DEF RunInserted, RunEnds, ScopeChanges
    <2>2. scoped' \subseteq Projects /\ runs' \subseteq Projects /\ starting' \subseteq Projects
      BY <1>2 DEF RunInserted, RunEnds, ScopeChanges, WorkspaceInv, WorkspaceTablesOK
    <2>3. OrgFit'
      BY <2>1, OrgUnchanged DEF profileVars, orgVars
    <2> QED BY <2>1, <2>2, <2>3 DEF WorkspaceInv, WorkspaceTablesOK, OwnersFit, ProofsFit,
                profileVars
  <1> QED BY <1>1, <1>2 DEF ProjectBackground

\* What the profile of another domain loses when the flag is given away.
LEMMA ClearedFacts ==
    ASSUME WorkspaceTablesOK, NEW p \in Projects, NEW primary
    PROVE  /\ ClearPrimaryProjectDomains(p, primary) \in [Domains -> ProfileRow \cup {NoProfile}]
           /\ \A d \in Domains :
                 ClearPrimaryProjectDomains(p, primary)[d].ownership = profile[p][d].ownership
  <1>1. ASSUME NEW d \in Domains
        PROVE  /\ ClearPrimaryProjectDomains(p, primary)[d] \in ProfileRow \cup {NoProfile}
               /\ ClearPrimaryProjectDomains(p, primary)[d].ownership = profile[p][d].ownership
    <2>1. profile[p][d] \in ProfileRow \cup {NoProfile}
      BY DEF WorkspaceTablesOK
    <2>2. CASE primary /\ profile[p][d] # NoProfile
      <3> DEFINE n == [profile[p][d] EXCEPT !.primary = FALSE]
      <3>1. n \in ProfileRow /\ n.ownership = profile[p][d].ownership
        BY <2>1, <2>2 DEF ProfileRow
      <3>2. ClearPrimaryProjectDomains(p, primary)[d] = n
        BY <2>2 DEF ClearPrimaryProjectDomains
      <3> QED BY <3>1, <3>2
    <2>3. CASE ~(primary /\ profile[p][d] # NoProfile)
      BY <2>1, <2>3 DEF ClearPrimaryProjectDomains
    <2> QED BY <2>2, <2>3
  <1>2. DOMAIN ClearPrimaryProjectDomains(p, primary) = Domains
    BY DEF ClearPrimaryProjectDomains
  <1>3. ClearPrimaryProjectDomains(p, primary) =
           [d \in Domains |-> ClearPrimaryProjectDomains(p, primary)[d]]
    BY DEF ClearPrimaryProjectDomains
  <1> HIDE DEF ClearPrimaryProjectDomains
  <1> QED BY <1>1, <1>3

LEMMA WriteProfileFacts ==
    ASSUME WorkspaceTablesOK, NEW p \in Projects, NEW d \in Domains, NEW row \in ProfileRow,
           WriteProfile(p, d, row)
    PROVE  /\ profile' \in [Projects -> [Domains -> ProfileRow \cup {NoProfile}]]
           /\ profile'[p][d] = row
           /\ \A e \in Domains : e # d => profile'[p][e].ownership = profile[p][e].ownership
           /\ \A q \in Projects : q # p => profile'[q] = profile[q]
  <1> DEFINE c == ClearPrimaryProjectDomains(p, row.primary)
             n == [c EXCEPT ![d] = row]
  <1>1. /\ c \in [Domains -> ProfileRow \cup {NoProfile}]
        /\ \A e \in Domains : c[e].ownership = profile[p][e].ownership
    BY ClearedFacts
  <1> HIDE DEF c
  <1>2. n \in [Domains -> ProfileRow \cup {NoProfile}] /\ n[d] = row
        /\ \A e \in Domains : e # d => n[e].ownership = profile[p][e].ownership
    BY <1>1
  <1>3. profile' = [profile EXCEPT ![p] = n]
    BY DEF WriteProfile, c
  <1> HIDE DEF n
  <1> QED BY <1>2, <1>3 DEF WorkspaceTablesOK

\* A profile is written that nobody declared verified without a proof.
LEMMA ProfileWriteKeeps ==
    ASSUME WorkspaceInv, NEW p \in Projects, NEW d \in Domains, NEW row \in ProfileRow,
           WriteProfile(p, d, row), row.ownership = "verified" => <<p, d>> \in proved,
           verifying' = verifying \/ verifying' = [verifying EXCEPT ![p][d] = NoProfile],
           UNCHANGED <<subject, filing, txt, proved, orgVars, projectVars>>
    PROVE  WorkspaceInv'
  <1>1. /\ profile' \in [Projects -> [Domains -> ProfileRow \cup {NoProfile}]]
        /\ profile'[p][d] = row
        /\ \A e \in Domains : e # d => profile'[p][e].ownership = profile[p][e].ownership
        /\ \A q \in Projects : q # p => profile'[q] = profile[q]
    BY WriteProfileFacts DEF WorkspaceInv
  <1>2. /\ verifying' \in [Projects -> [Domains -> ProfileRow \cup {NoProfile}]]
        /\ \A q \in Projects, e \in Domains :
              verifying'[q][e] # NoProfile => verifying[q][e] # NoProfile
    <2>1. CASE verifying' = verifying
      BY <2>1 DEF WorkspaceInv, WorkspaceTablesOK
    <2>2. CASE verifying' = [verifying EXCEPT ![p][d] = NoProfile]
      BY <2>2 DEF WorkspaceInv, WorkspaceTablesOK
    <2> QED BY <2>1, <2>2
  <1>3. ASSUME NEW q \in Projects, NEW e \in Domains,
               profile'[q][e].ownership = "verified" \/ verifying'[q][e] # NoProfile
        PROVE  <<q, e>> \in proved
    BY <1>1, <1>2, <1>3 DEF WorkspaceInv, ProofsFit
  <1>4. ProofsFit'
    BY <1>3 DEF ProofsFit
  <1>5. WorkspaceTablesOK'
    BY <1>1, <1>2 DEF WorkspaceInv, WorkspaceTablesOK, projectVars
  <1> QED BY <1>4, <1>5, OrgUnchanged DEF WorkspaceInv, OwnersFit, projectVars

LEMMA VerifyKeeps ==
    ASSUME WorkspaceInv, NEW u \in WsUsers, NEW p \in Projects, NEW d \in Domains,
           VerifyDomainOwnership(u, p, d)
    PROVE  WorkspaceInv'
  <1> DEFINE n == [profile[p][d] EXCEPT !.ownership = "verified"]
  <1>1. /\ profile[p][d] # NoProfile /\ <<p, d>> \in txt
        /\ verifying' = [verifying EXCEPT ![p][d] = n]
        /\ proved' = proved \cup (txt \cap {<<p, d>>})
        /\ UNCHANGED <<subject, profile, filing, txt, orgVars, projectVars>>
    BY DEF VerifyDomainOwnership, CheckOwnershipTXT
  <1>2. n \in ProfileRow
    <2>1. profile[p][d] \in ProfileRow
      BY <1>1 DEF WorkspaceInv, WorkspaceTablesOK
    <2> QED BY <2>1 DEF ProfileRow
  <1> HIDE DEF n
  <1>3. /\ verifying' \in [Projects -> [Domains -> ProfileRow \cup {NoProfile}]]
        /\ \A q \in Projects, e \in Domains :
              q # p \/ e # d => verifying'[q][e] = verifying[q][e]
    BY <1>1, <1>2 DEF WorkspaceInv, WorkspaceTablesOK
  <1>4. proved' \subseteq Projects \X Domains /\ <<p, d>> \in proved' /\ proved \subseteq proved'
    BY <1>1 DEF WorkspaceInv, WorkspaceTablesOK
  <1>5. ProofsFit'
    <2> SUFFICES ASSUME NEW q \in Projects, NEW e \in Domains,
                        profile[q][e].ownership = "verified" \/ verifying'[q][e] # NoProfile
                 PROVE  <<q, e>> \in proved'
      BY <1>1 DEF ProofsFit
    <2>1. CASE q = p /\ e = d
      BY <1>4, <2>1
    <2>2. CASE q # p \/ e # d
      BY <1>3, <1>4, <2>2 DEF WorkspaceInv, ProofsFit
    <2> QED BY <2>1, <2>2
  <1>6. WorkspaceTablesOK'
    BY <1>1, <1>3, <1>4 DEF WorkspaceInv, WorkspaceTablesOK, projectVars
  <1> QED BY <1>1, <1>5, <1>6, OrgUnchanged DEF WorkspaceInv, OwnersFit, projectVars

LEMMA VerifyFailsKeeps ==
    ASSUME WorkspaceInv, NEW p \in Projects, NEW d \in Domains, VerifyFails(p, d)
    PROVE  WorkspaceInv'
  <1>1. /\ verifying' = [verifying EXCEPT ![p][d] = NoProfile]
        /\ UNCHANGED <<subject, profile, filing, txt, proved, orgVars, projectVars>>
    BY DEF VerifyFails
  <1>2. /\ verifying' \in [Projects -> [Domains -> ProfileRow \cup {NoProfile}]]
        /\ \A q \in Projects, e \in Domains :
              verifying'[q][e] # NoProfile => verifying[q][e] # NoProfile
    BY <1>1 DEF WorkspaceInv, WorkspaceTablesOK
  <1>3. WorkspaceTablesOK'
    BY <1>1, <1>2 DEF WorkspaceInv, WorkspaceTablesOK, projectVars
  <1> QED BY <1>1, <1>2, <1>3, OrgUnchanged DEF WorkspaceInv, OwnersFit, ProofsFit, projectVars

LEMMA DomainStepsKeep ==
    ASSUME WorkspaceInv, NEW u \in WsUsers, NEW p \in Projects, DomainSteps(u, p)
    PROVE  WorkspaceInv'
  <1> PICK d \in Domains :
        \/ \E in \in DomainInput : CreateDomain(u, p, d, in) \/ UpdateDomain(u, p, d, in)
        \/ VerifyDomainOwnership(u, p, d)
        \/ UpdateProjectDomainProfile(p, d) \/ VerifyFails(p, d) \/ DNSChanges(p, d)
    BY DEF DomainSteps
  <1>1. CASE \E in \in DomainInput : CreateDomain(u, p, d, in) \/ UpdateDomain(u, p, d, in)
    <2>1. PICK in \in DomainInput : CreateDomain(u, p, d, in) \/ UpdateDomain(u, p, d, in)
      BY <1>1
    <2>2. in \in ProfileRow
      BY DEF DomainInput, ProfileRow
    <2>3. /\ WriteProfile(p, d, in) /\ in.ownership # "verified"
          /\ UNCHANGED <<subject, filing, verifying, txt, proved, orgVars, projectVars>>
      BY <2>1 DEF CreateDomain, UpdateDomain, normalizeDomainInput
    <2> QED BY <2>2, <2>3, ProfileWriteKeeps
  <1>2. CASE UpdateProjectDomainProfile(p, d)
    <2>1. verifying[p][d] \in ProfileRow /\ <<p, d>> \in proved
      BY <1>2 DEF UpdateProjectDomainProfile, WorkspaceInv, WorkspaceTablesOK, ProofsFit
    <2> QED BY <1>2, <2>1, ProfileWriteKeeps DEF UpdateProjectDomainProfile
  <1>3. CASE DNSChanges(p, d)
    <2>1. txt' \subseteq Projects \X Domains
      BY <1>3 DEF DNSChanges, WorkspaceInv, WorkspaceTablesOK
    <2> QED BY <1>3, <2>1, OrgUnchanged DEF DNSChanges, WorkspaceInv, WorkspaceTablesOK,
                              OwnersFit, ProofsFit, projectVars
  <1> QED BY <1>1, <1>2, <1>3, VerifyKeeps, VerifyFailsKeeps

LEMMA SubjectsClearedFacts ==
    ASSUME WorkspaceTablesOK, NEW p \in Projects, NEW primary
    PROVE  /\ ClearPrimaryProjectSubjects(p, primary) \in [SubjectIds -> SubjectRow \cup {NoSubjectRow}]
           /\ \A s \in SubjectIds :
                 \/ ClearPrimaryProjectSubjects(p, primary)[s] = subject[s]
                 \/ /\ subject[s] \in SubjectRow
                    /\ ClearPrimaryProjectSubjects(p, primary)[s] =
                          [subject[s] EXCEPT !.primary = FALSE]
  <1>1. ASSUME NEW s \in SubjectIds
        PROVE  /\ ClearPrimaryProjectSubjects(p, primary)[s] \in SubjectRow \cup {NoSubjectRow}
               /\ \/ ClearPrimaryProjectSubjects(p, primary)[s] = subject[s]
                  \/ /\ subject[s] \in SubjectRow
                     /\ ClearPrimaryProjectSubjects(p, primary)[s] =
                           [subject[s] EXCEPT !.primary = FALSE]
    <2>1. subject[s] \in SubjectRow \cup {NoSubjectRow}
      BY DEF WorkspaceTablesOK
    <2>2. CASE primary /\ subject[s].project = p
      <3>1. subject[s] \in SubjectRow
        BY <2>1, <2>2, ProjectFacts, WorkspaceAssumption
      <3>2. [subject[s] EXCEPT !.primary = FALSE] \in SubjectRow
        BY <3>1 DEF SubjectRow
      <3> QED BY <2>2, <3>1, <3>2 DEF ClearPrimaryProjectSubjects
    <2>3. CASE ~(primary /\ subject[s].project = p)
      BY <2>1, <2>3 DEF ClearPrimaryProjectSubjects
    <2> QED BY <2>2, <2>3
  <1>2. ClearPrimaryProjectSubjects(p, primary) =
           [s \in SubjectIds |-> ClearPrimaryProjectSubjects(p, primary)[s]]
    BY DEF ClearPrimaryProjectSubjects
  <1> HIDE DEF ClearPrimaryProjectSubjects
  <1> QED BY <1>1, <1>2

\* Decisions are never taken back from the history.
LEMMA DecisionsStay ==
    ASSUME NEW D, decided' = decided \cup D
    PROVE  /\ \A s, row : DecidedByOperator(s, row) => DecidedByOperator(s, row)'
           /\ \A p, n, row : FilingDecided(p, n, row) => FilingDecided(p, n, row)'
  BY DEF DecidedByOperator, FilingDecided

\* A step of an operator, who only adds to the decisions, and of no collector.
LEMMA ReadsStay ==
    ASSUME WorkspaceInv, NEW D, decided' = decided \cup D, UNCHANGED collecting
    PROVE  /\ CollectionsOK'
           /\ \A k \in Collectors : collecting'[k] # NoCollection => ReadsDecided(collecting[k])'
  <1>1. CollectionsOK'
    BY DEF WorkspaceInv, OrgFit, CollectionsOK, CollectionOK
  <1>2. ASSUME NEW k \in Collectors, collecting[k] # NoCollection
        PROVE  ReadsDecided(collecting[k])'
    <2>1. ReadsDecided(collecting[k])
      BY <1>2 DEF WorkspaceInv, OrgFit
    <2> QED BY <2>1, DecisionsStay DEF ReadsDecided, DecidedByOperator, FilingDecided
  <1> QED BY <1>1, <1>2

LEMMA SubjectStepsKeep ==
    ASSUME WorkspaceInv, NEW u \in WsUsers, NEW p \in Projects, SubjectSteps(u, p)
    PROVE  WorkspaceInv'
  <1>1. PICK s \in SubjectIds, in \in SubjectInput :
           CreateSubject(u, p, s, in) \/ UpdateSubject(u, p, s, in)
    BY DEF SubjectSteps
  <1> DEFINE c == ClearPrimaryProjectSubjects(p, in.primary)
             n == SubjectFrom(p, in)
             D == SubjectDecision(s, in)
  <1>2. /\ subject' = [c EXCEPT ![s] = n] /\ decided' = decided \cup D
        /\ UNCHANGED <<profile, filing, verifying, txt, proved, collecting, projectVars>>
    BY <1>1 DEF CreateSubject, UpdateSubject
  <1>3. n \in SubjectRow
    BY DEF SubjectFrom, SubjectInput, SubjectRow, normalizeSubject
  <1>4. /\ c \in [SubjectIds -> SubjectRow \cup {NoSubjectRow}]
        /\ \A x \in SubjectIds :
              \/ c[x] = subject[x]
              \/ /\ subject[x] \in SubjectRow
                 /\ c[x] = [subject[x] EXCEPT !.primary = FALSE]
    <2>1. WorkspaceTablesOK
      BY DEF WorkspaceInv
    <2> QED BY <2>1, SubjectsClearedFacts, Zenon
  <1>5. /\ n.verification # "unverified" => <<"verification", s, n.verification>> \in D
        /\ n.primary => <<"primary", s>> \in D
    BY DEF SubjectFrom, SubjectDecision, SubjectInput
  <1>6. ASSUME NEW x \in SubjectIds, c[x] # NoSubjectRow
        PROVE  DecidedByOperator(x, c[x])
    <2>1. CASE c[x] = subject[x]
      BY <1>6, <2>1 DEF WorkspaceInv, OrgFit, OperatorsDecide
    <2>2. CASE subject[x] \in SubjectRow /\ c[x] = [subject[x] EXCEPT !.primary = FALSE]
      <3>1. c[x].primary = FALSE /\ c[x].verification = subject[x].verification
        BY <2>2 DEF SubjectRow
      <3>2. DecidedByOperator(x, subject[x])
        BY <2>2, ProjectFacts DEF WorkspaceInv, OrgFit, OperatorsDecide
      <3> QED BY <3>1, <3>2 DEF DecidedByOperator
    <2> QED BY <1>4, <2>1, <2>2
  <1> HIDE DEF c, n, D
  <1>7. subject' \in [SubjectIds -> SubjectRow \cup {NoSubjectRow}]
    BY <1>2, <1>3, <1>4
  <1>8. ASSUME NEW x \in SubjectIds, subject'[x] # NoSubjectRow
        PROVE  DecidedByOperator(x, subject[x])'
    <2>1. CASE x = s
      BY <1>2, <1>3, <1>4, <1>5, <2>1 DEF DecidedByOperator
    <2>2. CASE x # s
      <3>1. subject'[x] = c[x]
        BY <1>2, <1>4, <2>2
      <3> QED BY <1>2, <1>6, <1>8, <3>1 DEF DecidedByOperator
    <2> QED BY <2>1, <2>2
  <1>9. OperatorsDecide'
    <2>1. ASSUME NEW q \in Projects, NEW m \in FilingNos
          PROVE  \/ filing'[q][m].status \in {"none", "unverified"}
                 \/ <<"status", q, m, filing'[q][m].status>> \in decided'
      BY <1>2 DEF WorkspaceInv, OrgFit, OperatorsDecide
    <2> QED BY <1>8, <2>1 DEF OperatorsDecide
  <1>10. OrgFit'
    BY <1>2, <1>9, ReadsStay DEF OrgFit
  <1>11. WorkspaceTablesOK'
    BY <1>2, <1>7 DEF WorkspaceInv, WorkspaceTablesOK, projectVars
  <1> QED BY <1>2, <1>10, <1>11 DEF WorkspaceInv, OwnersFit, ProofsFit, projectVars

LEMMA FilingStepsKeep ==
    ASSUME WorkspaceInv, NEW u \in WsUsers, NEW p \in Projects, FilingSteps(u, p)
    PROVE  WorkspaceInv'
  <1>1. PICK n \in FilingNos, in \in FilingRow : CreateICP(u, p, n, in) \/ UpdateICP(u, p, n, in)
    BY DEF FilingSteps
  <1>2. /\ filing' = [filing EXCEPT ![p][n] = in]
        /\ decided' = decided \cup {<<"status", p, n, in.status>>}
        /\ UNCHANGED <<subject, profile, verifying, txt, proved, collecting, projectVars>>
    BY <1>1 DEF CreateICP, UpdateICP
  <1>3. /\ filing' \in [Projects -> [FilingNos -> FilingRow \cup {NoFiling}]]
        /\ filing'[p][n] = in
        /\ \A q \in Projects, m \in FilingNos : q # p \/ m # n => filing'[q][m] = filing[q][m]
    BY <1>2 DEF WorkspaceInv, WorkspaceTablesOK
  <1>4. ASSUME NEW q \in Projects, NEW m \in FilingNos
        PROVE  \/ filing'[q][m].status \in {"none", "unverified"}
               \/ <<"status", q, m, filing'[q][m].status>> \in decided'
    <2>1. CASE q = p /\ m = n
      BY <1>2, <1>3, <2>1
    <2>2. CASE q # p \/ m # n
      BY <1>2, <1>3, <2>2 DEF WorkspaceInv, OrgFit, OperatorsDecide
    <2> QED BY <2>1, <2>2
  <1>5. ASSUME NEW s \in SubjectIds, subject'[s] # NoSubjectRow
        PROVE  DecidedByOperator(s, subject[s])'
    BY <1>2, <1>5 DEF WorkspaceInv, OrgFit, OperatorsDecide, DecidedByOperator
  <1>6. OperatorsDecide'
    BY <1>4, <1>5 DEF OperatorsDecide
  <1>7. OrgFit'
    BY <1>2, <1>6, ReadsStay DEF OrgFit
  <1>8. WorkspaceTablesOK'
    BY <1>2, <1>3 DEF WorkspaceInv, WorkspaceTablesOK, projectVars
  <1> QED BY <1>2, <1>7, <1>8 DEF WorkspaceInv, OwnersFit, ProofsFit, projectVars

LEMMA CollectionFacts ==
    ASSUME WorkspaceInv, NEW k \in Collectors, collecting[k] # NoCollection
    PROVE  /\ CollectionOK(collecting[k]) /\ ReadsDecided(collecting[k])
           /\ collecting = [i \in Collectors |-> collecting[i]]
  BY DEF WorkspaceInv, OrgFit, CollectionsOK

\* A collector reads rows that fit the decisions, or ends.
LEMMA CollectingKeeps ==
    ASSUME WorkspaceInv, NEW k \in Collectors, NEW x,
           collecting' = [collecting EXCEPT ![k] = x],
           x # NoCollection => CollectionOK(x) /\ ReadsDecided(x),
           UNCHANGED decided
    PROVE  /\ CollectionsOK'
           /\ \A i \in Collectors : collecting'[i] # NoCollection => ReadsDecided(collecting[i])'
  <1>1. /\ collecting' = [i \in Collectors |-> collecting'[i]] /\ collecting'[k] = x
        /\ \A i \in Collectors : i # k => collecting'[i] = collecting[i]
    BY DEF WorkspaceInv, OrgFit, CollectionsOK
  <1>2. ASSUME NEW i \in Collectors, collecting'[i] # NoCollection
        PROVE  CollectionOK(collecting[i])' /\ ReadsDecided(collecting[i])'
    <2>1. CASE i = k
      BY <1>1, <1>2, <2>1 DEF CollectionOK, ReadsDecided, DecidedByOperator, FilingDecided
    <2>2. CASE i # k
      <3>1. CollectionOK(collecting[i]) /\ ReadsDecided(collecting[i])
        BY <1>1, <1>2, <2>2, CollectionFacts
      <3> QED BY <1>1, <2>2, <3>1 DEF CollectionOK, ReadsDecided, DecidedByOperator, FilingDecided
    <2> QED BY <2>1, <2>2
  <1> QED BY <1>1, <1>2 DEF CollectionsOK

LEMMA CollectReadKeeps ==
    ASSUME WorkspaceInv, NEW k \in Collectors, NEW p \in Projects, NEW code \in Codes,
           NEW filings \in SUBSET FilingNos, NEW domains \in SUBSET Domains,
           CollectRead(k, p, code, filings, domains)
    PROVE  WorkspaceInv'
  <1> DEFINE S == GetProjectSubjectByKey(p, subjectKeyFor(code))
             rows == [s \in S |-> subject[s]]
             filed == [n \in filings |-> filing[p][n]]
             links == linkFilingDomains(p, domains)
             x == [project |-> p, code |-> code, rows |-> rows, filed |-> filed, domains |-> links]
  <1>1. /\ collecting' = [collecting EXCEPT ![k] = x]
        /\ UNCHANGED <<subject, profile, filing, verifying, txt, proved, decided, projectVars>>
    BY DEF CollectRead
  <1>2. \A s \in S : s \in SubjectIds /\ subject[s] \in SubjectRow /\ DecidedByOperator(s, subject[s])
    BY ProjectFacts, WorkspaceAssumption
       DEF GetProjectSubjectByKey, WorkspaceInv, WorkspaceTablesOK, OrgFit, OperatorsDecide
  <1>3. /\ DOMAIN rows \subseteq SubjectIds
        /\ \A s \in DOMAIN rows : rows[s] \in SubjectRow /\ DecidedByOperator(s, rows[s])
    BY <1>2
  <1>4. /\ DOMAIN filed \subseteq FilingNos
        /\ \A n \in DOMAIN filed : /\ filed[n] \in FilingRow \cup {NoFiling}
                                   /\ FilingDecided(p, n, filed[n])
    BY DEF WorkspaceInv, WorkspaceTablesOK, OrgFit, OperatorsDecide, FilingDecided
  <1>5. links \subseteq Domains
    BY DEF linkFilingDomains
  <1> HIDE DEF rows, filed, links
  <1>6. x.project = p /\ x.code = code /\ x.rows = rows /\ x.filed = filed /\ x.domains = links
    OBVIOUS
  <1> HIDE DEF x
  <1>7. CollectionOK(x) /\ ReadsDecided(x)
    BY <1>3, <1>4, <1>5, <1>6 DEF CollectionOK, ReadsDecided
  <1>8. OperatorsDecide'
    BY <1>1 DEF WorkspaceInv, OrgFit, OperatorsDecide, DecidedByOperator
  <1>9. OrgFit'
    BY <1>1, <1>7, <1>8, CollectingKeeps DEF OrgFit
  <1> QED BY <1>1, <1>9 DEF WorkspaceInv, WorkspaceTablesOK, OwnersFit, ProofsFit, projectVars

LEMMA CollectFailsKeeps ==
    ASSUME WorkspaceInv, NEW k \in Collectors, CollectFails(k)
    PROVE  WorkspaceInv'
  <1>1. /\ collecting' = [collecting EXCEPT ![k] = NoCollection]
        /\ UNCHANGED <<subject, profile, filing, verifying, txt, proved, decided, projectVars>>
    BY DEF CollectFails
  <1>2. OperatorsDecide'
    BY <1>1 DEF WorkspaceInv, OrgFit, OperatorsDecide, DecidedByOperator
  <1>3. OrgFit'
    BY <1>1, <1>2, CollectingKeeps DEF OrgFit
  <1> QED BY <1>1, <1>3 DEF WorkspaceInv, WorkspaceTablesOK, OwnersFit, ProofsFit, projectVars

LEMMA IngestKeeps ==
    ASSUME WorkspaceInv, NEW k \in Collectors, NEW s \in SubjectIds, ingestOrgFacts(k, s)
    PROVE  WorkspaceInv'
  <1> DEFINE x == collecting[k]
             row == upsertSubject(x, s)
             f(n) == upsertFiling(x, s, n)
             F == [n \in FilingNos |-> IF n \in DOMAIN x.filed THEN f(n) ELSE filing[x.project][n]]
  <1>1. /\ x # NoCollection
        /\ subject' = [subject EXCEPT ![s] = row]
        /\ filing' = [filing EXCEPT ![x.project] = F]
        /\ collecting' = [collecting EXCEPT ![k] = NoCollection]
        /\ UNCHANGED <<profile, verifying, txt, proved, decided, projectVars>>
    BY DEF ingestOrgFacts
  <1>2. CollectionOK(x) /\ ReadsDecided(x)
    BY <1>1, CollectionFacts
  <1>3. /\ x.project \in Projects /\ x.code \in Codes /\ x.domains \subseteq Domains
        /\ DOMAIN x.rows \subseteq SubjectIds /\ DOMAIN x.filed \subseteq FilingNos
        /\ \A i \in DOMAIN x.rows : x.rows[i] \in SubjectRow /\ DecidedByOperator(i, x.rows[i])
        /\ \A n \in DOMAIN x.filed : /\ x.filed[n] \in FilingRow \cup {NoFiling}
                                     /\ FilingDecided(x.project, n, x.filed[n])
    BY <1>2 DEF CollectionOK, ReadsDecided
  <1> HIDE DEF x
  <1>4. row \in SubjectRow /\ DecidedByOperator(s, row)
    <2>1. CASE s \in DOMAIN x.rows
      <3>1. x.rows[s] \in SubjectRow /\ DecidedByOperator(s, x.rows[s])
        BY <1>3, <2>1
      <3>2. /\ x.rows[s].primary \in BOOLEAN
            /\ x.rows[s].verification \in {"unverified", "verified", "mismatch"}
            /\ x.rows[s].source \in {"manual", "org_intel"}
        BY <3>1 DEF SubjectRow
      <3>3. row = [project |-> x.project, key |-> subjectKeyFor(x.code),
                   primary |-> x.rows[s].primary, verification |-> x.rows[s].verification,
                   source |-> x.rows[s].source]
        BY <2>1, <3>2 DEF upsertSubject
      <3>4. row \in SubjectRow
        BY <1>3, <3>2, <3>3 DEF SubjectRow, subjectKeyFor
      <3> QED BY <3>1, <3>3, <3>4 DEF DecidedByOperator
    <2>2. CASE s \notin DOMAIN x.rows
      <3>1. row = [project |-> x.project, key |-> subjectKeyFor(x.code), primary |-> FALSE,
                   verification |-> "unverified", source |-> "org_intel"]
        BY <2>2 DEF upsertSubject
      <3>2. row \in SubjectRow
        BY <1>3, <3>1 DEF SubjectRow, subjectKeyFor
      <3> QED BY <3>1, <3>2 DEF DecidedByOperator
    <2> QED BY <2>1, <2>2
  <1>5. ASSUME NEW n \in DOMAIN x.filed
        PROVE  f(n) \in FilingRow /\ FilingDecided(x.project, n, f(n))
    <2> DEFINE old == filing[x.project][n]
               links == x.domains \cup (IF old = NoFiling THEN {} ELSE old.domains)
               status == IF x.filed[n] = NoFiling THEN "unverified" ELSE x.filed[n].status
    <2>1. n \in FilingNos /\ x.filed[n] \in FilingRow \cup {NoFiling}
      BY <1>3, <1>5
    <2>2. old \in FilingRow \cup {NoFiling}
      BY <1>3, <2>1 DEF WorkspaceInv, WorkspaceTablesOK
    <2>3. links \subseteq Domains
      BY <1>3, <2>2 DEF FilingRow
    <2>4. status \in {"unverified", "valid", "invalid", "cancelled"}
      BY <2>1 DEF FilingRow
    <2>5. f(n) = [status |-> status, subject |-> s, domains |-> links]
      BY DEF upsertFiling
    <2>6. FilingDecided(x.project, n, x.filed[n])
      BY <1>3, <1>5
    <2>7. status = "unverified" \/ <<"status", x.project, n, status>> \in decided
      BY <2>1, <2>6 DEF FilingDecided, FilingRow
    <2> HIDE DEF links, status
    <2>8. f(n) \in FilingRow /\ f(n).status = status
      BY <2>3, <2>4, <2>5 DEF FilingRow
    <2> QED BY <2>7, <2>8 DEF FilingDecided
  <1> HIDE DEF row, f
  <1>6. /\ subject' \in [SubjectIds -> SubjectRow \cup {NoSubjectRow}] /\ subject'[s] = row
        /\ \A i \in SubjectIds : i # s => subject'[i] = subject[i]
    BY <1>1, <1>4 DEF WorkspaceInv, WorkspaceTablesOK
  <1>7. F \in [FilingNos -> FilingRow \cup {NoFiling}]
    BY <1>3, <1>5 DEF WorkspaceInv, WorkspaceTablesOK
  <1>8. \A n \in FilingNos : FilingDecided(x.project, n, F[n])
    <2> SUFFICES ASSUME NEW n \in FilingNos PROVE FilingDecided(x.project, n, F[n])
      OBVIOUS
    <2>1. FilingDecided(x.project, n, filing[x.project][n])
      BY <1>3 DEF WorkspaceInv, OrgFit, OperatorsDecide, FilingDecided
    <2> QED BY <1>5, <2>1
  <1> HIDE DEF F
  <1>9. /\ filing' \in [Projects -> [FilingNos -> FilingRow \cup {NoFiling}]]
        /\ filing'[x.project] = F
        /\ \A q \in Projects : q # x.project => filing'[q] = filing[q]
    BY <1>1, <1>3, <1>7 DEF WorkspaceInv, WorkspaceTablesOK
  <1>10. ASSUME NEW q \in Projects, NEW n \in FilingNos
         PROVE  \/ filing'[q][n].status \in {"none", "unverified"}
                \/ <<"status", q, n, filing'[q][n].status>> \in decided'
    <2>1. CASE q = x.project
      BY <1>1, <1>8, <1>9, <2>1 DEF FilingDecided
    <2>2. CASE q # x.project
      BY <1>1, <1>9, <2>2 DEF WorkspaceInv, OrgFit, OperatorsDecide
    <2> QED BY <2>1, <2>2
  <1>11. ASSUME NEW i \in SubjectIds, subject'[i] # NoSubjectRow
         PROVE  DecidedByOperator(i, subject[i])'
    <2>1. CASE i = s
      BY <1>1, <1>4, <1>6, <2>1 DEF DecidedByOperator
    <2>2. CASE i # s
      BY <1>1, <1>6, <1>11, <2>2 DEF WorkspaceInv, OrgFit, OperatorsDecide, DecidedByOperator
    <2> QED BY <2>1, <2>2
  <1>12. OperatorsDecide'
    BY <1>10, <1>11 DEF OperatorsDecide
  <1>13. OrgFit'
    BY <1>1, <1>12, CollectingKeeps DEF OrgFit
  <1>14. WorkspaceTablesOK'
    BY <1>1, <1>6, <1>9 DEF WorkspaceInv, WorkspaceTablesOK, projectVars
  <1> QED BY <1>1, <1>13, <1>14 DEF WorkspaceInv, OwnersFit, ProofsFit, projectVars

LEMMA CollectStepsKeep ==
    ASSUME WorkspaceInv, NEW k \in Collectors, CollectSteps(k)
    PROVE  WorkspaceInv'
  BY CollectReadKeeps, IngestKeeps, CollectFailsKeeps DEF CollectSteps

LEMMA WorkspaceInitial == WorkspaceInit => WorkspaceInv
  <1> SUFFICES ASSUME WorkspaceInit PROVE WorkspaceInv
    OBVIOUS
  <1>1. WorkspaceTablesOK
    BY DEF WorkspaceInit, WorkspaceTablesOK
  <1>2. OwnersFit
    BY DEF WorkspaceInit, OwnersFit
  <1>3. ProofsFit
    BY ProjectFacts DEF WorkspaceInit, ProofsFit
  <1>4. OrgFit
    BY DEF WorkspaceInit, OrgFit, CollectionsOK, OperatorsDecide, NoFiling
  <1> QED BY <1>1, <1>2, <1>3, <1>4 DEF WorkspaceInv

LEMMA WorkspaceStep ==
    ASSUME WorkspaceInv, [WorkspaceNext]_wsVars
    PROVE  WorkspaceInv'
  <1>1. CASE UNCHANGED wsVars
    <2>1. OrgFit'
      BY <1>1, OrgUnchanged DEF wsVars, profileVars, orgVars
    <2> QED BY <1>1, <2>1 DEF WorkspaceInv, WorkspaceTablesOK, OwnersFit, ProofsFit,
                wsVars, projectVars, profileVars
  <1>2. ASSUME NEW u \in WsUsers, NEW p \in Projects,
               ProjectSteps(u, p) \/ DomainSteps(u, p) \/ SubjectSteps(u, p) \/ FilingSteps(u, p)
        PROVE  WorkspaceInv'
    BY <1>2, ProjectStepsKeep, DomainStepsKeep, SubjectStepsKeep, FilingStepsKeep
  <1>3. ASSUME NEW p \in Projects, ProjectBackground(p)
        PROVE  WorkspaceInv'
    BY <1>3, BackgroundKeeps
  <1>4. ASSUME NEW k \in Collectors, CollectSteps(k)
        PROVE  WorkspaceInv'
    BY <1>4, CollectStepsKeep
  <1> QED BY <1>1, <1>2, <1>3, <1>4 DEF WorkspaceNext

\* The inductive invariant of the project service: owners, proofs of ownership
\* and operators' decisions fit together after every request and background step.
THEOREM WorkspaceInvariant == WorkspaceSpec => []WorkspaceInv
  <1>1. WorkspaceInv /\ [WorkspaceNext]_wsVars => WorkspaceInv'
    BY WorkspaceStep
  <1> QED BY <1>1, WorkspaceInitial, PTL DEF WorkspaceSpec

LEMMA GlobalRoles ==
    ASSUME NEW u \in WsUsers
    PROVE  /\ RoleHasPerm(GlobalRole[u], "project:access") <=> GlobalRole[u] # "none"
           /\ RoleHasPerm(GlobalRole[u], "project:read") <=> GlobalRole[u] # "none"
  <1>1. GlobalRole[u] \in {"system_admin", "security_admin", "none"}
    BY WorkspaceAssumption
  <1>2. /\ mvpRolePerms["system_admin"] = SystemAdminPerms
        /\ mvpRolePerms["security_admin"] = SecurityAdminPerms
    BY DEF mvpRolePerms
  <1>3. /\ "project:access" \in SystemAdminPerms /\ "project:access" \in SecurityAdminPerms
        /\ "project:read" \in SystemAdminPerms /\ "project:read" \in SecurityAdminPerms
    BY DEF SystemAdminPerms, SecurityAdminPerms, ProjectOwnerPerms, SecurityOpsPerms,
           DeveloperPerms, ViewerPerms
  <1>4. "none" \notin AllRoles /\ "system_admin" \in AllRoles /\ "security_admin" \in AllRoles
    BY DEF AllRoles
  <1> QED BY <1>1, <1>2, <1>3, <1>4 DEF RoleHasPerm

LEMMA ViewsAgree == WorkspaceTablesOK => ViewsAgreeWithAccess
  <1> SUFFICES ASSUME WorkspaceTablesOK, NEW u \in WsUsers
               PROVE  /\ ListProjects(u) = {p \in Projects : Access(u, p) # Outsider}
                      /\ WorkspaceSummary(u).total = Cardinality(ListProjects(u))
    BY DEF ViewsAgreeWithAccess
  <1>1. \A v : GetWorkspaceSummary(v).total = Cardinality(v)
    BY DEF GetWorkspaceSummary
  <1>2. WorkspaceSummary(u).total = Cardinality(ListProjects(u))
    BY <1>1 DEF WorkspaceSummary, GetWorkspaceSummaryForMember, ListProjects, ListProjectsForMember
  <1>3. CASE GlobalRole[u] = "none"
    BY <1>3, <1>2, GlobalRoles DEF ListProjects, HasGlobalPermission, ListProjectsForMember,
       ListProjectsByTenant, Access, GetProjectActorScope
  <1>4. CASE GlobalRole[u] # "none"
    BY <1>4, <1>2, GlobalRoles DEF ListProjects, HasGlobalPermission,
       ListProjectsByTenant, Access, GetProjectActorScope, Outsider
  <1> QED BY <1>3, <1>4

\* What opens a project is earned, for every set of projects, users, domains
\* and tenants: active scanning by a DNS token of this project, the owner's
\* rights by membership, a view by access, and what operators decide of subjects
\* and filings by their requests, not by what a run collected
\* (VerifyDomainOwnership, UpdateProject, ListProjects, ingestOrgFacts).
THEOREM OwnershipIsEarned == WorkspaceSpec => []OwnershipCorrect
  <1>1. WorkspaceInv => OwnershipCorrect
    <2> SUFFICES ASSUME WorkspaceInv PROVE OwnershipCorrect
      OBVIOUS
    <2>1. VerifiedHasProof
      <3> SUFFICES ASSUME NEW p \in Projects, NEW d \in Domains, IsDomainOwnershipVerified(p, d)
                   PROVE  \E v \in Under[d] : <<p, v>> \in proved
        BY DEF VerifiedHasProof
      <3> DEFINE S == {v \in Under[d] : profile[p][v].ownership = "verified"}
      <3>1. Cardinality(S) > 0
        BY DEF IsDomainOwnershipVerified, CountVerifiedDomainOwnership
      <3>2. S # {}
        <4>1. Cardinality({}) = 0
          BY FS_EmptySet
        <4> HIDE DEF S
        <4> QED BY <3>1, <4>1
      <3>3. PICK v \in Under[d] : profile[p][v].ownership = "verified"
        BY <3>2
      <3>4. v \in Domains
        BY WorkspaceAssumption
      <3> QED BY <3>3, <3>4 DEF WorkspaceInv, ProofsFit
    <2>2. OwnerIsMember
      BY DEF WorkspaceInv, OwnersFit, OwnerIsMember
    <2>3. ViewsAgreeWithAccess
      BY ViewsAgree DEF WorkspaceInv
    <2> QED BY <2>1, <2>2, <2>3 DEF OwnershipCorrect, WorkspaceInv, OrgFit
  <1> QED BY <1>1, WorkspaceInvariant, PTL

\* The tables of projects, members, subjects, domains and filings keep their
\* types, and so does what updates and ownership checks hold of them.
THEOREM WorkspaceTypeCorrect == WorkspaceSpec => []WorkspaceTypeOK
  <1>1. WorkspaceInv => WorkspaceTypeOK
    BY DEF WorkspaceInv, OrgFit, WorkspaceTypeOK
  <1> QED BY <1>1, WorkspaceInvariant, PTL

-----------------------------------------------------------------------------
(* Accounts and sessions.                                                  *)

USE AccountsAssumption

\* A transaction of an administrator: what it will set fits what it is for.
OpenTx ==
    {tx \in [op : {"status", "role", "profile"}, actor : Users, user : Users,
             to : UserStatuses \cup TenantRoles \cup {NoRole} \cup Profiles, before : AccountRow] :
        /\ tx.op = "status" => tx.to \in UserStatuses
        /\ tx.op = "role" => tx.to \in TenantRoles \cup {NoRole}
        /\ tx.op = "profile" => tx.to \in Profiles}

PasswordTx == [op : {"change"}, new : Passwords]

AccountTypes ==
    /\ account \in [Users -> AccountRow \cup {NoAccount}]
    /\ tokens \subseteq Claims
    /\ adminTx \in [AdminTxs -> OpenTx \cup {NoAdminTx}]
    /\ pwTx \in [Users -> PasswordTx \cup {NoAdminTx}]

\* An account that a transaction was begun for exists, and never goes away.
TxHasAccount ==
    /\ \A x \in AdminTxs : adminTx[x] # NoAdminTx => account[adminTx[x].user] \in AccountRow
    /\ \A u \in Users : pwTx[u] # NoAdminTx => account[u] \in AccountRow

\* What token t says of row, if nothing that ends a session came between.
Current(t, row) ==
    /\ row \in AccountRow
    /\ t.version <= row.version
    /\ t.version = row.version =>
          /\ t.password = row.password
          /\ row.status = "active" => t.perms = permissionsForRole(row.role)

TokensCurrent == \A t \in tokens : Current(t, account[t.user])

AccountInv == AccountTypes /\ TxHasAccount /\ TokensCurrent

LEMMA RowFacts ==
    /\ NoAccount \notin AccountRow /\ NoAdminTx \notin OpenTx /\ NoAdminTx \notin PasswordTx
    /\ NoAccount.status = "absent"
    /\ \A row \in AccountRow \cup {NoAccount} : IsActive(row) => row \in AccountRow
  <1>1. NoAccount \notin AccountRow /\ NoAccount.status = "absent"
    BY DEF NoAccount, AccountRow, UserStatuses
  <1>2. NoAdminTx \notin OpenTx /\ NoAdminTx \notin PasswordTx
    BY DEF NoAdminTx, OpenTx, PasswordTx
  <1> QED BY <1>1, <1>2 DEF IsActive

LEMMA NextVersion ==
    ASSUME NEW row \in AccountRow, row.version < MaxVersion
    PROVE  row.version + 1 \in 0..MaxVersion
  BY DEF AccountRow

\* A row n written for account u: it is the old one with its version raised,
\* or one that says the same to every token.
LEMMA WriteKeepsTokens ==
    ASSUME AccountInv, NEW u \in Users, NEW n \in AccountRow,
           account' = [account EXCEPT ![u] = n], tokens' = tokens,
           \/ account[u] = NoAccount
           \/ account[u] \in AccountRow /\ n.version = account[u].version + 1
           \/ /\ account[u] \in AccountRow /\ n.version = account[u].version
              /\ n.password = account[u].password /\ n.status = account[u].status
              /\ n.role = account[u].role
    PROVE  TokensCurrent'
  <1> SUFFICES ASSUME NEW t \in tokens PROVE Current(t, account'[t.user])
    BY DEF TokensCurrent
  <1>1. t.user \in Users /\ t.version \in Nat /\ Current(t, account[t.user])
    BY DEF AccountInv, AccountTypes, Claims, TokensCurrent
  <1>2. CASE t.user # u
    BY <1>1, <1>2 DEF AccountInv, AccountTypes
  <1>3. CASE t.user = u
    <2>1. account'[u] = n /\ account[u] \in AccountRow
      BY <1>1, <1>3 DEF AccountInv, AccountTypes, Current
    <2>2. account[u].version \in Nat /\ n.version \in Nat
      BY <2>1 DEF AccountRow
    <2> QED BY <1>1, <1>3, <2>1, <2>2, RowFacts DEF Current
  <1> QED BY <1>2, <1>3

LEMMA WriteKeeps ==
    ASSUME AccountInv, NEW u \in Users, NEW n \in AccountRow,
           account' = [account EXCEPT ![u] = n]
    PROVE  /\ account' \in [Users -> AccountRow \cup {NoAccount}]
           /\ \A v \in Users : account[v] \in AccountRow => account'[v] \in AccountRow
  BY DEF AccountInv, AccountTypes

\* A session step: a login or a refresh.
LEMMA SessionKeeps ==
    ASSUME AccountInv, NEW u \in Users,
           (\E p \in Passwords : Login(u, p)) \/ (\E t \in tokens : t.user = u /\ Refresh(t))
    PROVE  AccountInv'
  <1>1. CASE \E p \in Passwords : Login(u, p)
    <2>1. account[u] \in AccountRow /\ IsActive(account[u]) /\ tokens' = tokens \cup {issuePair(u)}
      BY <1>1, RowFacts DEF Login, AccountInv, AccountTypes
    <2>2. permissionsForRole(account[u].role) \in {{}} \cup {mvpRolePerms[r] : r \in TenantRoles}
      BY <2>1 DEF permissionsForRole, AccountRow
    <2>3. issuePair(u) \in Claims
      BY <2>1, <2>2 DEF issuePair, Permissions, GetGlobalRole, Claims, AccountRow
    <2>4. Current(issuePair(u), account[u]) /\ issuePair(u).user = u
      BY <2>1 DEF issuePair, Permissions, GetGlobalRole, Current, AccountRow
    <2>5. UNCHANGED <<account, adminTx, pwTx>>
      BY <1>1 DEF Login
    <2> QED BY <2>1, <2>3, <2>4, <2>5 DEF AccountInv, AccountTypes, TxHasAccount, TokensCurrent
  <1>2. CASE \E t \in tokens : t.user = u /\ Refresh(t)
    <2>1. PICK t \in tokens : t.user = u /\ Refresh(t)
      BY <1>2
    <2>2. t \in Claims /\ t.version = account[t.user].version
      BY <2>1 DEF Refresh, RequireAuth, GetUserByID, AccountInv, AccountTypes
    <2>3. [t EXCEPT !.version = account[t.user].version] = t
      BY <2>2 DEF Claims
    <2>4. tokens' = tokens /\ UNCHANGED <<account, adminTx, pwTx>>
      BY <2>1, <2>3 DEF Refresh
    <2> QED BY <2>4 DEF AccountInv, AccountTypes, TxHasAccount, TokensCurrent
  <1> QED BY <1>1, <1>2

LEMMA PasswordKeeps ==
    ASSUME AccountInv, NEW u \in Users,
           \/ \E p, q \in Passwords : ChangePassword(u, p, q)
           \/ ChangeCurrentUserPassword(u) \/ PasswordChangeFails(u)
    PROVE  AccountInv'
  <1>1. CASE \E p, q \in Passwords : ChangePassword(u, p, q)
    <2>1. PICK p \in Passwords, q \in Passwords : ChangePassword(u, p, q)
      BY <1>1
    <2>2. UNCHANGED <<account, tokens, adminTx>> /\ pwTx' = [pwTx EXCEPT ![u] = [op |-> "change", new |-> q]]
      BY <2>1 DEF ChangePassword
    <2>3. account[u] \in AccountRow
      BY <2>1, RowFacts DEF ChangePassword, RequireAuth, GetUserByID, AccountInv, AccountTypes
    <2>4. [op |-> "change", new |-> q] \in PasswordTx
      BY DEF PasswordTx
    <2>5. pwTx' \in [Users -> PasswordTx \cup {NoAdminTx}]
      BY <2>2, <2>4 DEF AccountInv, AccountTypes
    <2>6. \A v \in Users : pwTx'[v] # NoAdminTx => account[v] \in AccountRow
      BY <2>2, <2>3 DEF AccountInv, AccountTypes, TxHasAccount
    <2> QED BY <2>2, <2>5, <2>6 DEF AccountInv, AccountTypes, TxHasAccount, TokensCurrent
  <1>2. CASE ChangeCurrentUserPassword(u)
    <2> DEFINE n == [account[u] EXCEPT !.password = pwTx[u].new, !.mustChange = FALSE,
                                       !.version = account[u].version + 1]
    <2>1. /\ account[u] \in AccountRow /\ pwTx[u].new \in Passwords
          /\ account[u].version < MaxVersion
      BY <1>2 DEF ChangeCurrentUserPassword, AccountInv, AccountTypes, TxHasAccount, PasswordTx
    <2>2. n \in AccountRow /\ n.version = account[u].version + 1
      BY <2>1, NextVersion DEF AccountRow
    <2>3. /\ account' = [account EXCEPT ![u] = n] /\ tokens' = tokens /\ adminTx' = adminTx
          /\ pwTx' = [pwTx EXCEPT ![u] = NoAdminTx]
      BY <1>2 DEF ChangeCurrentUserPassword
    <2> HIDE DEF n
    <2>4. TokensCurrent'
      BY <2>1, <2>2, <2>3, WriteKeepsTokens
    <2>5. /\ account' \in [Users -> AccountRow \cup {NoAccount}]
          /\ \A v \in Users : account[v] \in AccountRow => account'[v] \in AccountRow
      BY <2>2, <2>3, WriteKeeps
    <2>6. AccountTypes'
      BY <2>3, <2>5 DEF AccountInv, AccountTypes
    <2>7. TxHasAccount'
      <3>1. \A x \in AdminTxs : adminTx[x] # NoAdminTx => adminTx[x].user \in Users
        BY DEF AccountInv, AccountTypes, OpenTx
      <3>2. \A v \in Users : pwTx'[v] # NoAdminTx => pwTx[v] # NoAdminTx
        BY <2>3 DEF AccountInv, AccountTypes
      <3> QED BY <2>3, <2>5, <3>1, <3>2 DEF AccountInv, TxHasAccount
    <2> QED BY <2>4, <2>6, <2>7 DEF AccountInv
  <1>3. CASE PasswordChangeFails(u)
    <2>1. UNCHANGED <<account, tokens, adminTx>> /\ pwTx' = [pwTx EXCEPT ![u] = NoAdminTx]
      BY <1>3 DEF PasswordChangeFails
    <2> QED BY <2>1 DEF AccountInv, AccountTypes, TxHasAccount, TokensCurrent
  <1> QED BY <1>1, <1>2, <1>3

\* An account is created, or its password reset.
LEMMA AccountWriteKeeps ==
    ASSUME AccountInv, NEW actor \in Users, NEW u \in Users,
           \/ \E in \in normalizeCreatePlatformUser : Create(actor, u, in)
           \/ \E p \in Passwords : ResetPassword(actor, u, p)
    PROVE  AccountInv'
  <1>1. PICK n \in AccountRow :
           /\ account' = [account EXCEPT ![u] = n] /\ UNCHANGED <<tokens, adminTx, pwTx>>
           /\ \/ account[u] = NoAccount
              \/ account[u] \in AccountRow /\ n.version = account[u].version + 1
    <2>1. CASE \E in \in normalizeCreatePlatformUser : Create(actor, u, in)
      <3>1. PICK in \in normalizeCreatePlatformUser : Create(actor, u, in)
        BY <2>1
      <3> DEFINE n == [status |-> in.status, role |-> in.role, password |-> in.password,
                       mustChange |-> TRUE, version |-> 0, profile |-> in.profile]
      <3>2. n \in AccountRow
        BY DEF normalizeCreatePlatformUser, AccountRow
      <3>3. /\ account' = [account EXCEPT ![u] = n] /\ UNCHANGED <<tokens, adminTx, pwTx>>
            /\ account[u] = NoAccount
        BY <3>1 DEF Create, CreatePlatformUser
      <3> QED BY <3>2, <3>3
    <2>2. CASE \E p \in Passwords : ResetPassword(actor, u, p)
      <3>1. PICK p \in Passwords : ResetPassword(actor, u, p)
        BY <2>2
      <3> DEFINE n == [account[u] EXCEPT !.password = p, !.mustChange = TRUE,
                                         !.version = account[u].version + 1]
      <3>2. account[u] \in AccountRow /\ account[u].version < MaxVersion
        BY <3>1 DEF ResetPassword, ResetPlatformUserPassword, AccountInv, AccountTypes
      <3>3. n \in AccountRow /\ n.version = account[u].version + 1
        BY <3>2, NextVersion DEF AccountRow
      <3>4. account' = [account EXCEPT ![u] = n] /\ UNCHANGED <<tokens, adminTx, pwTx>>
        BY <3>1 DEF ResetPassword, ResetPlatformUserPassword
      <3> QED BY <3>2, <3>3, <3>4
    <2> QED BY <2>1, <2>2
  <1>2. TokensCurrent'
    BY <1>1, WriteKeepsTokens
  <1>3. /\ account' \in [Users -> AccountRow \cup {NoAccount}]
        /\ \A v \in Users : account[v] \in AccountRow => account'[v] \in AccountRow
    BY <1>1, WriteKeeps
  <1>4. AccountTypes'
    BY <1>1, <1>3 DEF AccountInv, AccountTypes
  <1>5. TxHasAccount'
    <2>1. \A x \in AdminTxs : adminTx[x] # NoAdminTx => adminTx[x].user \in Users
      BY DEF AccountInv, AccountTypes, OpenTx
    <2> QED BY <1>1, <1>3, <2>1 DEF AccountInv, TxHasAccount
  <1> QED BY <1>2, <1>4, <1>5 DEF AccountInv

LEMMA BeginAdminKeeps ==
    ASSUME AccountInv, NEW x \in AdminTxs, NEW actor \in Users, NEW u \in Users, NEW op, NEW to,
           BeginAdmin(x, actor, u, op, to),
           \/ op = "status" /\ to \in UserStatuses
           \/ op = "role" /\ to \in TenantRoles \cup {NoRole}
           \/ op = "profile" /\ to \in Profiles
    PROVE  AccountInv'
  <1> DEFINE tx == [op |-> op, actor |-> actor, user |-> u, to |-> to, before |-> account[u]]
  <1>1. account[u] \in AccountRow
    BY DEF BeginAdmin, AccountInv, AccountTypes
  <1>2. tx \in OpenTx /\ tx.user = u
    BY <1>1 DEF OpenTx
  <1>3. adminTx' = [adminTx EXCEPT ![x] = tx] /\ UNCHANGED <<account, tokens, pwTx>>
    BY DEF BeginAdmin, GetPlatformUserByTenantID
  <1> HIDE DEF tx
  <1>4. adminTx' \in [AdminTxs -> OpenTx \cup {NoAdminTx}]
    BY <1>2, <1>3 DEF AccountInv, AccountTypes
  <1>5. \A y \in AdminTxs : adminTx'[y] # NoAdminTx => account[adminTx'[y].user] \in AccountRow
    BY <1>1, <1>2, <1>3 DEF AccountInv, AccountTypes, TxHasAccount
  <1> QED BY <1>3, <1>4, <1>5 DEF AccountInv, AccountTypes, TxHasAccount, TokensCurrent

LEMMA EndAdminKeeps ==
    ASSUME AccountInv, NEW x \in AdminTxs, CommitAdmin(x) \/ RollbackAdmin(x)
    PROVE  AccountInv'
  <1> DEFINE tx == adminTx[x]
             row == account[tx.user]
  <1>1. tx # NoAdminTx /\ adminTx' = [adminTx EXCEPT ![x] = NoAdminTx] /\ tokens' = tokens /\ pwTx' = pwTx
    BY DEF CommitAdmin, RollbackAdmin
  <1>2. tx \in OpenTx /\ tx.user \in Users /\ row \in AccountRow
    BY <1>1 DEF AccountInv, AccountTypes, TxHasAccount, OpenTx
  <1>3. /\ adminTx' \in [AdminTxs -> OpenTx \cup {NoAdminTx}]
        /\ \A y \in AdminTxs : adminTx'[y] # NoAdminTx =>
              adminTx'[y] = adminTx[y] /\ adminTx[y] # NoAdminTx /\ adminTx[y].user \in Users
    BY <1>1 DEF AccountInv, AccountTypes, OpenTx
  <1>4. CASE RollbackAdmin(x)
    <2>1. account' = account
      BY <1>4 DEF RollbackAdmin
    <2> QED BY <1>1, <1>3, <2>1 DEF AccountInv, AccountTypes, TxHasAccount, TokensCurrent
  <1>5. CASE CommitAdmin(x)
    <2>1. PICK n \in AccountRow :
             /\ account' = [account EXCEPT ![tx.user] = n]
             /\ \/ n.version = row.version + 1
                \/ /\ n.version = row.version /\ n.password = row.password
                   /\ n.status = row.status /\ n.role = row.role
      <3>1. row.version < MaxVersion
        BY <1>5 DEF CommitAdmin
      <3>2. CASE tx.op = "profile" /\ UpdatePlatformUserProfile(tx)
        <4> DEFINE n == [row EXCEPT !.profile = tx.to]
        <4>1. /\ n \in AccountRow /\ n.version = row.version /\ n.password = row.password
              /\ n.status = row.status /\ n.role = row.role
          BY <1>2, <3>2 DEF AccountRow, OpenTx
        <4>2. account' = [account EXCEPT ![tx.user] = n]
          BY <1>2, <3>2 DEF UpdatePlatformUserProfile, AccountInv, AccountTypes
        <4> QED BY <4>1, <4>2
      <3>3. CASE tx.op = "status" /\ TransitionPlatformUserStatus(tx)
        <4> DEFINE n == [row EXCEPT !.status = tx.to, !.version = row.version + 1]
        <4>1. n \in AccountRow /\ n.version = row.version + 1
          BY <1>2, <3>1, <3>3, NextVersion DEF AccountRow, OpenTx
        <4>2. account' = [account EXCEPT ![tx.user] = n]
          BY <3>3 DEF TransitionPlatformUserStatus
        <4> QED BY <4>1, <4>2
      <3>4. CASE tx.op = "role" /\ UpsertTenantUserRole(tx)
        <4> DEFINE n == [row EXCEPT !.role = tx.to, !.version = row.version + 1]
        <4>1. n \in AccountRow /\ n.version = row.version + 1
          BY <1>2, <3>1, <3>4, NextVersion DEF AccountRow, OpenTx
        <4>2. account' = [account EXCEPT ![tx.user] = n]
          BY <3>4 DEF UpsertTenantUserRole
        <4> QED BY <4>1, <4>2
      <3> QED BY <1>5, <3>2, <3>3, <3>4 DEF CommitAdmin
    <2>2. TokensCurrent'
      BY <1>1, <1>2, <2>1, WriteKeepsTokens
    <2>3. /\ account' \in [Users -> AccountRow \cup {NoAccount}]
          /\ \A v \in Users : account[v] \in AccountRow => account'[v] \in AccountRow
      BY <1>2, <2>1, WriteKeeps
    <2>4. AccountTypes'
      BY <1>1, <1>3, <2>3 DEF AccountInv, AccountTypes
    <2>5. TxHasAccount'
      BY <1>1, <1>3, <2>3 DEF AccountInv, TxHasAccount
    <2> QED BY <2>2, <2>4, <2>5 DEF AccountInv
  <1> QED BY <1>4, <1>5

LEMMA AccountInitFine == AccountInit => AccountInv
  <1> SUFFICES ASSUME AccountInit PROVE AccountInv
    OBVIOUS
  <1>1. PICK p \in Passwords, shown \in Profiles :
          account = [u \in Users |->
              IF u = FirstAdmin
                THEN [status |-> "active", role |-> "system_admin", password |-> p,
                      mustChange |-> FALSE, version |-> 0, profile |-> shown]
                ELSE NoAccount]
    BY DEF AccountInit
  <1>2. [status |-> "active", role |-> "system_admin", password |-> p,
         mustChange |-> FALSE, version |-> 0, profile |-> shown] \in AccountRow
    BY DEF AccountRow, UserStatuses, TenantRoles
  <1>3. AccountTypes
    BY <1>1, <1>2 DEF AccountInit, AccountTypes
  <1> QED BY <1>3 DEF AccountInit, AccountInv, TxHasAccount, TokensCurrent

LEMMA AccountNextKeeps == AccountInv /\ [AccountNext]_accountVars => AccountInv'
  <1> SUFFICES ASSUME AccountInv, [AccountNext]_accountVars PROVE AccountInv'
    OBVIOUS
  <1>1. CASE UNCHANGED accountVars
    BY <1>1 DEF accountVars, AccountInv, AccountTypes, TxHasAccount, TokensCurrent
  <1>2. CASE \E u \in Users : AccountSession(u)
    BY <1>2, SessionKeeps, PasswordKeeps DEF AccountSession
  <1>3. ASSUME NEW actor \in Users, NEW u \in Users, AccountAdmin(actor, u)
        PROVE  AccountInv'
    <2>1. CASE \E x \in AdminTxs, status \in UserStatuses : Transition(x, actor, u, status)
      BY <2>1, BeginAdminKeeps DEF Transition
    <2>2. CASE \E x \in AdminTxs, role \in TenantRoles \cup {NoRole} : UpdateTenantRole(x, actor, u, role)
      BY <2>2, BeginAdminKeeps DEF UpdateTenantRole
    <2>3. CASE \E x \in AdminTxs, p \in Profiles : Update(x, actor, u, p)
      BY <2>3, BeginAdminKeeps DEF Update
    <2> QED BY <1>3, <2>1, <2>2, <2>3, AccountWriteKeeps DEF AccountAdmin
  <1>4. CASE \E x \in AdminTxs : CommitAdmin(x) \/ RollbackAdmin(x)
    BY <1>4, EndAdminKeeps
  <1> QED BY <1>1, <1>2, <1>3, <1>4 DEF AccountNext

\* RequireAuth, Refresh, ChangePassword, UpdateTenantRole: a token that still
\* opens a session knows the password and the permissions of now, however
\* changes of password, status and role overlap with logins and refreshes.
THEOREM SessionsAreCurrent == AccountSpec => []SessionIsCurrent
  <1>1. AccountInv => SessionIsCurrent
    <2> SUFFICES ASSUME AccountInv, NEW t \in tokens, RequireAuth(t)
                 PROVE  /\ t.password = account[t.user].password
                        /\ t.perms = Permissions(t.user)
      BY DEF SessionIsCurrent
    <2>1. IsActive(account[t.user]) /\ t.version = account[t.user].version /\ Current(t, account[t.user])
      BY DEF RequireAuth, GetUserByID, AccountInv, TokensCurrent
    <2> QED BY <2>1 DEF Current, Permissions, GetGlobalRole, IsActive
  <1> QED BY <1>1, AccountInitFine, AccountNextKeeps, PTL DEF AccountSpec

\* The accounts, the tokens and the transactions keep their types.
THEOREM AccountTypeCorrect == AccountSpec => []AccountTypeOK
  <1>1. AccountInv => AccountTypeOK
    BY DEF AccountInv, AccountTypes, AccountTypeOK, OpenTx, PasswordTx
  <1> QED BY <1>1, AccountInitFine, AccountNextKeeps, PTL DEF AccountSpec

=============================================================================
