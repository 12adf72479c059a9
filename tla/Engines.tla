------------------------------ MODULE Engines ------------------------------
(***************************************************************************)
(* The platform's engine configuration and what it configures              *)
(* (internal/discovery: engine_settings, engine_management, engine_router, *)
(* engine_http, engine_project_binding; Baiyan internal/engine:            *)
(* configuration, http).                                                   *)
(*                                                                         *)
(* Administrators append immutable, numbered versions of the settings.  A  *)
(* run is bound to the version its creation read; its dispatch provisions  *)
(* that version's provider settings at Baiyan, in one call, and submits    *)
(* the scan in another; the job executes later.  For the active engine the *)
(* platform keeps one remote project per project, which any worker may be  *)
(* the first to create.  Secrets and URLs are set or not set.              *)
(***************************************************************************)
EXTENDS Naturals, FiniteSets, Roles

CONSTANTS EngineAdmins, EngineRole,   \* people and their global role
          EngineRuns,                 \* runs of the passive engine
          RunKind,                    \* a run -> its task type
          Patches,                    \* what an administrator may change
          MaxSettings, CheckCacheLimit,
          Resolvers                   \* workers that need the remote project

ASSUME EnginesAssumption ==
  /\ MaxSettings \in Nat \ {0} /\ CheckCacheLimit \in Nat
  /\ "none" \notin Resolvers

VARIABLES settingsHead, settingsVersions, \* the stored versions
          edits,                          \* an administrator's request
          checks, inspecting,             \* cached health, running checks
          engineRuns,                     \* the runs and their binding
          configFiles, scanJobs,          \* at Baiyan: versions, jobs
          binding, remoteProjects, resolving

----------------------------------------------------------------------------
(* Settings.                                                               *)

ConnectionKeys == {"passive_url", "passive_token", "active_url", "active_keys", "active_enabled"}

ProviderKeys == {"fofa_enabled", "fofa_key"}

secretSettingKeys == {"passive_token", "active_keys", "fofa_key"}

NoSettings == [k \in ConnectionKeys |-> ""]

(* settingsValues: the provider keys are there once they are managed. *)
settingsValues(c) == DOMAIN c

managed(c) == ProviderKeys \subseteq DOMAIN c

ProvidersOf(c) == [k \in ProviderKeys |-> c[k]]

(* The environment's settings, imported as version 1. *)
SettingsFromEnvironment == [NoSettings EXCEPT !["passive_url"] = "p1", !["passive_token"] = "t1"]

(* An adapter needs its address and its credentials. *)
NewHTTPEngineAdapter(c) == c["passive_url"] # "" /\ c["passive_token"] # ""

NewActiveAPIEngineAdapter(c) == c["active_url"] # "" /\ c["active_keys"] # ""

anyConfigured(c, keys) == \E k \in keys : c[k] # ""

NewConfiguredEngineRouter(c) ==
  [passiveSet   |-> anyConfigured(c, {"passive_url", "passive_token"}),
   passiveReady |-> NewHTTPEngineAdapter(c),
   activeSet    |-> anyConfigured(c, {"active_url", "active_keys"}),
   activeReady  |-> NewActiveAPIEngineAdapter(c)]

EngineRouteForTaskType(type) ==
  CASE type \in {"passive_intel", "dns", "org_intel"} -> "passive"
    [] type \in {"port_probe", "web_probe", "fingerprint"} -> "active"
    [] OTHER -> "none"

(* No route stands in for another. *)
EngineForTaskType(c, type) ==
  LET r == NewConfiguredEngineRouter(c)
  IN  CASE EngineRouteForTaskType(type) = "passive" -> r.passiveReady
        [] EngineRouteForTaskType(type) = "active" -> r.activeReady
        [] OTHER -> FALSE

(* Not an address of the platform's own network or of a metadata service. *)
validateManagedURL(url) == url # "metadata"

(* applySettingsPatch: an empty secret keeps the stored one; clearing is   *)
(* asked for by name.                                                      *)
Patched(c, p) ==
  [k \in DOMAIN c |->
     IF k \in p.clear THEN ""
     ELSE IF k \in DOMAIN p.values /\ ~(k \in secretSettingKeys /\ p.values[k] = "")
          THEN p.values[k] ELSE c[k]]

applySettingsPatch(c, p) ==
  LET n == Patched(c, p)
      r == NewConfiguredEngineRouter(n)
  IN  /\ DOMAIN p.values \subseteq settingsValues(c) /\ p.clear \subseteq secretSettingKeys
      /\ validateManagedURL(n["passive_url"]) /\ validateManagedURL(n["active_url"])
      /\ managed(c) /\ n["fofa_enabled"] = "true" => n["fofa_key"] # ""
      /\ r.passiveSet => r.passiveReady
      /\ r.activeSet => r.activeReady
      /\ n["active_enabled"] = "true" => r.activeReady

providerPatch(p) == (DOMAIN p.values \cup p.clear) \cap ProviderKeys # {}

(* readProviderConfiguration, only while the passive engine can be asked. *)
readLegacyProviders(c) == EngineForTaskType(c, "passive_intel")

Merge(c, providers) == [k \in DOMAIN c \cup ProviderKeys |->
                          IF k \in ProviderKeys THEN providers[k] ELSE c[k]]

----------------------------------------------------------------------------
enginesVars == <<settingsHead, settingsVersions, edits, checks, inspecting, engineRuns,
                 configFiles, scanJobs, binding, remoteProjects, resolving>>

settingsState == <<settingsHead, settingsVersions, edits>>

checkState == <<checks, inspecting>>

runState == <<engineRuns, configFiles, scanJobs>>

bindingState == <<binding, remoteProjects, resolving>>

NoEditing == [pc |-> "idle", version |-> 0, next |-> NoSettings, patch |-> [values |-> <<>>, clear |-> {}]]

NoInspection == [version |-> 0, route |-> "none"]

NoEngineRun == [status |-> "none", version |-> 0]

NoJob == [version |-> 0, ran |-> "no", with |-> <<>>]

NoBinding == [name |-> "none", remote |-> "none", started |-> FALSE]

NoResolve == [pc |-> "idle", name |-> "none", started |-> FALSE, id |-> "none"]

(* NewConfigurationManager stores Baiyan's own settings as version 0. *)
Baseline == [fofa_enabled |-> "true", fofa_key |-> "k0"]

NoConfig == <<>>

EnginesInit ==
  /\ settingsHead = 1
  /\ settingsVersions = [v \in 1..MaxSettings |-> IF v = 1 THEN SettingsFromEnvironment ELSE NoSettings]
  /\ edits = [a \in EngineAdmins |-> NoEditing]
  /\ checks = <<>> /\ inspecting = [a \in EngineAdmins |-> NoInspection]
  /\ engineRuns = [r \in EngineRuns |-> NoEngineRun]
  /\ configFiles = [v \in 0..MaxSettings |-> IF v = 0 THEN Baseline ELSE NoConfig]
  /\ scanJobs = [r \in EngineRuns |-> NoJob]
  /\ binding \in {NoBinding, [NoBinding EXCEPT !.name = "legacy", !.started = TRUE]}
  /\ remoteProjects = {} /\ resolving = [w \in Resolvers |-> NoResolve]

Latest == settingsHead

(* ForRun: a run without a binding is older than the settings. *)
ForRun(r) == IF engineRuns[r].version = 0 THEN 1 ELSE engineRuns[r].version

authorizeEngine(a) == RoleHasPerm(EngineRole[a], "admin:manage")

----------------------------------------------------------------------------
(* Management.                                                             *)

(* Current: the newest version Baiyan has. *)
Current == CHOOSE c \in {configFiles[v] : v \in 0..MaxSettings} :
             \E v \in 0..MaxSettings : /\ configFiles[v] = c /\ c # NoConfig
                                       /\ \A u \in 0..MaxSettings : configFiles[u] # NoConfig => u <= v

(* Baiyan's Save: a version is written once; the same content again is     *)
(* accepted, other content is a conflict.                                  *)
SaveConfiguration(files, v, c) ==
  IF files[v] = NoConfig THEN [files EXCEPT ![v] = c] ELSE files

SaveAccepts(files, v, c) == files[v] \in {NoConfig, c}

(* ensureProviderConfiguration: nothing to do for unmanaged providers. *)
Provisioned(files, v) ==
  IF managed(settingsVersions[v]) THEN SaveConfiguration(files, v, ProvidersOf(settingsVersions[v]))
                                  ELSE files

(* UpdateConfiguration: the version the administrator saw must be the      *)
(* latest; unmanaged providers are first read from Baiyan.                 *)
UpdateConfiguration(a, seen, p) ==
  LET c == settingsVersions[Latest]
      b == IF providerPatch(p) /\ ~managed(c) THEN Merge(c, Current) ELSE c
  IN  /\ authorizeEngine(a) /\ edits[a].pc = "idle"
      /\ providerPatch(p) /\ ~managed(c) => readLegacyProviders(c)
      /\ seen = Latest /\ Latest < MaxSettings
      /\ applySettingsPatch(b, p)
      /\ edits' = [edits EXCEPT ![a] = [pc |-> "save", version |-> seen, next |-> Patched(b, p), patch |-> p]]
      /\ UNCHANGED <<settingsHead, settingsVersions, checkState, runState, bindingState>>

(* Mutant: the version is not compared under the lock. *)
SaveOnTop(a) ==
  LET e == edits[a]
  IN  /\ e.pc = "save" /\ settingsHead < MaxSettings
      /\ edits' = [edits EXCEPT ![a] = NoEditing]
      /\ settingsHead' = settingsHead + 1
      /\ settingsVersions' = [settingsVersions EXCEPT ![settingsHead + 1] = e.next]
      /\ UNCHANGED <<checkState, runState, bindingState>>

(* Save: the head is locked and compared, the version appended. *)
Save(a) ==
  LET e == edits[a]
  IN  /\ e.pc = "save"
      /\ edits' = [edits EXCEPT ![a] = NoEditing]
      /\ IF settingsHead # e.version THEN UNCHANGED <<settingsHead, settingsVersions>>
         ELSE /\ settingsHead' = settingsHead + 1
              /\ settingsVersions' = [settingsVersions EXCEPT ![settingsHead + 1] = e.next]
      /\ UNCHANGED <<checkState, runState, bindingState>>

(* Check: the settings are read, the engine is asked, the answer cached    *)
(* under the version it was asked with.                                    *)
BeginCheck(a, route) ==
  /\ authorizeEngine(a) /\ inspecting[a] = NoInspection
  /\ route \in {"passive", "active"}
  /\ inspecting' = [inspecting EXCEPT ![a] = [version |-> Latest, route |-> route]]
  /\ UNCHANGED <<settingsState, checks, runState, bindingState>>

(* inspectPassive, inspectActive: what the base summary already decides is *)
(* not asked; otherwise the engine answers, or does not.                   *)
inspect(version, route) ==
  LET r == NewConfiguredEngineRouter(settingsVersions[version])
      isSet == IF route = "passive" THEN r.passiveSet ELSE r.activeSet
      ready == IF route = "passive" THEN r.passiveReady ELSE r.activeReady
  IN  IF ~isSet THEN {"unconfigured"} ELSE IF ~ready THEN {"degraded"}
      ELSE {"healthy", "degraded", "unreachable"}

Entry(version, route) == <<version, route>>

put(cache, version, summary) ==
  LET kept == IF Cardinality(DOMAIN cache) > CheckCacheLimit THEN {} ELSE DOMAIN cache
      key  == Entry(version, summary.route)
  IN  [k \in kept \cup {key} |-> IF k = key THEN summary ELSE cache[k]]

(* Mutant: the answer is filed under the version that is current by then. *)
FileUnderHead(a, health) ==
  LET i == inspecting[a]
  IN  /\ i # NoInspection /\ health \in inspect(i.version, i.route)
      /\ inspecting' = [inspecting EXCEPT ![a] = NoInspection]
      /\ checks' = put(checks, Latest, [route |-> i.route, health |-> health])
      /\ UNCHANGED <<settingsState, runState, bindingState>>

(* inspectPassive first provisions the version's providers; that call, or  *)
(* the one after it, may be the one that fails.                            *)
FinishCheck(a, health) ==
  LET i == inspecting[a]
      asked == i.route = "passive" /\ NewHTTPEngineAdapter(settingsVersions[i.version])
  IN  /\ i # NoInspection /\ health \in inspect(i.version, i.route)
      /\ inspecting' = [inspecting EXCEPT ![a] = NoInspection]
      /\ checks' = put(checks, i.version, [route |-> i.route, health |-> health])
      /\ \/ asked /\ configFiles' = Provisioned(configFiles, i.version)
         \/ (asked => health = "unreachable") /\ UNCHANGED configFiles
      /\ UNCHANGED <<settingsState, engineRuns, scanJobs, bindingState>>

----------------------------------------------------------------------------
(* Runs of the passive engine.                                             *)

(* CreateTaskRun: the settings are read before the transaction that writes *)
(* the run and its binding.                                                *)
ReadSettings(r) ==
  /\ engineRuns[r] = NoEngineRun
  /\ engineRuns' = [engineRuns EXCEPT ![r] = [status |-> "creating", version |-> Latest]]
  /\ UNCHANGED <<settingsState, checkState, configFiles, scanJobs, bindingState>>

BindEngineRunSettings(r) ==
  /\ engineRuns[r].status = "creating"
  /\ engineRuns' = [engineRuns EXCEPT ![r].status = "pending"]
  /\ UNCHANGED <<settingsState, checkState, configFiles, scanJobs, bindingState>>

(* Dispatch, its first call. *)
ensureProviderConfiguration(r) ==
  LET v == ForRun(r)
  IN  /\ engineRuns[r].status = "pending"
      /\ EngineRouteForTaskType(RunKind[r]) = "passive"
      /\ EngineForTaskType(settingsVersions[v], RunKind[r])
      /\ managed(settingsVersions[v]) => SaveAccepts(configFiles, v, ProvidersOf(settingsVersions[v]))
      /\ configFiles' = Provisioned(configFiles, v)
      /\ engineRuns' = [engineRuns EXCEPT ![r].status = "provisioned"]
      /\ UNCHANGED <<settingsState, checkState, scanJobs, bindingState>>

(* The options of a template made from a blueprint; engineExecutionOptions *)
(* drops the blueprint's own keys.                                         *)
engineExecutionOptions(type) ==
  CASE type = "passive_intel" -> [profile |-> "subdomain_passive", keys |-> {"profile", "max_results", "sources"}]
    [] type = "dns" -> [profile |-> "resolve", keys |-> {"profile", "max_results", "record_types"}]
    [] OTHER -> [profile |-> "organization_intelligence", keys |-> {"profile", "max_results"}]

(* The service's contract, by job type. *)
validateScanRequest(type, options) ==
  CASE type = "passive_intel" -> /\ options.profile = "subdomain_passive"
                                 /\ options.keys = {"profile", "max_results", "sources"}
    [] type = "dns" -> /\ options.profile = "resolve"
                       /\ options.keys = {"profile", "max_results", "record_types"}
    [] OTHER -> FALSE

(* scan: the profile, then the version, then the job, which a run has once. *)
scan(r) ==
  LET v == IF managed(settingsVersions[ForRun(r)]) THEN ForRun(r) ELSE 0
      ok == /\ validateScanRequest(RunKind[r], engineExecutionOptions(RunKind[r]))
            /\ configFiles[v] # NoConfig
  IN  /\ engineRuns[r].status = "provisioned"
      /\ scanJobs' = IF ok /\ scanJobs[r] = NoJob
                     THEN [scanJobs EXCEPT ![r] = [version |-> v, ran |-> "queued", with |-> <<>>]]
                     ELSE scanJobs
      /\ engineRuns' = [engineRuns EXCEPT ![r].status = IF ok THEN "dispatched" ELSE "rejected"]
      /\ UNCHANGED <<settingsState, checkState, configFiles, bindingState>>

(* An answer is lost: the dispatch is tried again from its first call. *)
AnswerLost(r) ==
  /\ engineRuns[r].status \in {"provisioned", "dispatched"} /\ scanJobs[r].ran # "yes"
  /\ engineRuns' = [engineRuns EXCEPT ![r].status = "pending"]
  /\ UNCHANGED <<settingsState, checkState, configFiles, scanJobs, bindingState>>

(* Mutant: the job runs with the newest configuration. *)
ExecuteCurrent(r) ==
  /\ scanJobs[r].ran = "queued"
  /\ scanJobs' = [scanJobs EXCEPT ![r].ran = "yes", ![r].with = Current]
  /\ UNCHANGED <<settingsState, checkState, engineRuns, configFiles, bindingState>>

Execute(r) ==
  /\ scanJobs[r].ran = "queued"
  /\ scanJobs' = [scanJobs EXCEPT ![r].ran = "yes", ![r].with = configFiles[scanJobs[r].version]]
  /\ UNCHANGED <<settingsState, checkState, engineRuns, configFiles, bindingState>>

----------------------------------------------------------------------------
(* Resolve: one remote project for the platform's project.                 *)

SetResolve(w, r) == resolving' = [resolving EXCEPT ![w] = r]

From(row) == [pc |-> IF row.remote # "none" THEN "done" ELSE "call",
              name |-> row.name, started |-> row.started, id |-> row.remote]

ResolveRead(w) ==
  /\ resolving[w].pc = "idle"
  /\ SetResolve(w, IF binding = NoBinding THEN [NoResolve EXCEPT !.pc = "insert"] ELSE From(binding))
  /\ UNCHANGED <<settingsState, checkState, runState, binding, remoteProjects>>

(* Mutant: the worker goes on with the name it made up. *)
OwnName(w) ==
  LET row == IF binding = NoBinding THEN [NoBinding EXCEPT !.name = w] ELSE binding
  IN  /\ resolving[w].pc = "insert"
      /\ binding' = row /\ SetResolve(w, [From(row) EXCEPT !.name = w])
      /\ UNCHANGED <<settingsState, checkState, runState, remoteProjects>>

(* A random name is inserted unless a row is there, and the row read back. *)
ResolveInsert(w) ==
  LET row == IF binding = NoBinding THEN [NoBinding EXCEPT !.name = w] ELSE binding
  IN  /\ resolving[w].pc = "insert"
      /\ binding' = row /\ SetResolve(w, From(row))
      /\ UNCHANGED <<settingsState, checkState, runState, remoteProjects>>

(* ensureManagedProject: the engine creates the identity once; its answer  *)
(* may be lost.                                                            *)
ensureManagedProject(w) ==
  LET s == resolving[w]
  IN  /\ s.pc = "call" /\ ~s.started
      /\ remoteProjects' = remoteProjects \cup {s.name}
      /\ \/ SetResolve(w, [s EXCEPT !.pc = "update", !.id = s.name])
         \/ SetResolve(w, NoResolve)
      /\ UNCHANGED <<settingsState, checkState, runState, binding>>

(* findManagedProject: a creation of old that may still arrive is only     *)
(* looked for, never repeated.                                             *)
findManagedProject(w) ==
  LET s == resolving[w]
  IN  /\ s.pc = "call" /\ s.started
      /\ SetResolve(w, IF s.name \in remoteProjects
                       THEN [s EXCEPT !.pc = "update", !.id = s.name] ELSE NoResolve)
      /\ UNCHANGED <<settingsState, checkState, runState, binding, remoteProjects>>

LegacyCreationArrives ==
  /\ binding.started /\ binding.name \notin remoteProjects
  /\ remoteProjects' = remoteProjects \cup {binding.name}
  /\ UNCHANGED <<settingsState, checkState, runState, binding, resolving>>

Resolve(w) ==
  LET s == resolving[w]
  IN  /\ s.pc = "update"
      /\ IF binding.remote \in {"none", s.id}
         THEN binding' = [binding EXCEPT !.remote = s.id] /\ SetResolve(w, [s EXCEPT !.pc = "done"])
         ELSE UNCHANGED binding /\ SetResolve(w, NoResolve)
      /\ UNCHANGED <<settingsState, checkState, runState, remoteProjects>>

SettingsSteps(a) ==
  \/ Save(a) \/ \E p \in Patches, v \in 1..MaxSettings : UpdateConfiguration(a, v, p)

CheckSteps(a) ==
  \/ \E route \in {"passive", "active"} : BeginCheck(a, route)
  \/ \E h \in {"unconfigured", "healthy", "degraded", "unreachable"} : FinishCheck(a, h)

RunSteps(r) ==
  \/ ReadSettings(r) \/ BindEngineRunSettings(r) \/ ensureProviderConfiguration(r)
  \/ scan(r) \/ AnswerLost(r) \/ Execute(r)

ResolveSteps(w) ==
  \/ ResolveRead(w) \/ ResolveInsert(w) \/ ensureManagedProject(w)
  \/ findManagedProject(w) \/ Resolve(w)

EnginesNext ==
  \/ \E a \in EngineAdmins : SettingsSteps(a) \/ CheckSteps(a)
  \/ \E r \in EngineRuns : RunSteps(r)
  \/ \E w \in Resolvers : ResolveSteps(w)
  \/ LegacyCreationArrives

EnginesSpec == EnginesInit /\ [][EnginesNext]_enginesVars

----------------------------------------------------------------------------
(* Properties.                                                             *)

(* Every variable has its type. *)
EnginesTypeOK ==
  /\ settingsHead \in 1..MaxSettings
  /\ \A v \in 1..MaxSettings : DOMAIN settingsVersions[v] \in {ConnectionKeys, ConnectionKeys \cup ProviderKeys}
  /\ \A r \in EngineRuns : /\ engineRuns[r].version \in 0..MaxSettings
                            /\ engineRuns[r].status \in {"none", "creating", "pending", "provisioned",
                                                          "dispatched", "rejected"}
  /\ \A k \in DOMAIN checks : k \in (1..MaxSettings) \X {"passive", "active"}
  /\ Cardinality(DOMAIN checks) <= CheckCacheLimit + 1
  /\ \A w \in Resolvers : resolving[w].pc \in {"idle", "insert", "call", "update", "done"}

(* No administrator's edit is lost: every version the store gets is the    *)
(* one before it with one accepted patch, so what two administrators saved *)
(* is all there, whatever their requests overlap with (Save compares the   *)
(* version under the lock on the head).                                    *)
EditsBuildOnEachOther ==
  settingsHead' # settingsHead =>
    /\ settingsHead' = settingsHead + 1
    /\ \E a \in EngineAdmins :
         LET old == settingsVersions[settingsHead]
             new == settingsVersions'[settingsHead']
         IN  \A k \in DOMAIN old :
               new[k] # old[k] => k \in DOMAIN edits[a].patch.values \cup edits[a].patch.clear

(* A job runs with the provider settings of the version its run was bound  *)
(* to when it was created, or with Baiyan's own while the platform managed *)
(* none, however the settings change before it is dispatched, retried or   *)
(* executed.                                                               *)
JobRunsWithItsSettings ==
  \A r \in EngineRuns : scanJobs[r].ran = "yes" =>
    scanJobs[r].with = IF managed(settingsVersions[engineRuns[r].version])
                       THEN ProvidersOf(settingsVersions[engineRuns[r].version]) ELSE Baseline

(* The health the overview shows for the current version is one its        *)
(* settings can have had: a check that ends after the settings changed is  *)
(* not shown for the new ones (the cache is keyed by the version).         *)
ShownHealthIsOfThisVersion ==
  \A route \in {"passive", "active"} :
    Entry(Latest, route) \in DOMAIN checks =>
      checks[Entry(Latest, route)].health \in inspect(Latest, route)

(* However many workers resolve at once, and whatever answers are lost,    *)
(* the engine holds at most one project for the platform's project, and    *)
(* every worker that got one got that one.                                 *)
OneRemoteProject ==
  /\ Cardinality(remoteProjects) <= 1
  /\ \A w \in Resolvers : resolving[w].pc = "done" => resolving[w].id \in remoteProjects \cap {binding.remote}

(* Settings, checks and projects are used as they were read: a job by the  *)
(* version its run was bound to, a health by the version it was asked      *)
(* with, the remote project by the name all workers agreed on.             *)
SettingsCorrect ==
  JobRunsWithItsSettings /\ ShownHealthIsOfThisVersion /\ OneRemoteProject

=============================================================================
