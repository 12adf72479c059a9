------------------------------- MODULE Scopes -------------------------------
(***************************************************************************)
(* Scopes, task templates, continuations, blueprints and the plan of a     *)
(* dispatch (internal/discovery).  A scope lists what may be scanned and   *)
(* for how long; a template names targets and a task type; a run is        *)
(* created from a template and, later and in another process, planned:     *)
(* BuildDispatchPlan reads the run, the template and then, target by       *)
(* target, the scope and the scope's list, each with a statement of its    *)
(* own and no transaction, so operators edit all of them between its       *)
(* steps.                                                                  *)
(*                                                                         *)
(* A target is a record of its type, host (or address, block, company),    *)
(* protocol and port.  Names, limits and JSON are left out where only      *)
(* their validity matters.                                                 *)
(***************************************************************************)
EXTENDS Naturals, FiniteSets, Sequences, SequencesExt, Roles

CONSTANTS ScopeIds, TemplateIds, PlanRuns,
          ScopeUsers, ScopeRole,   \* people and their role in the project
          HostUnder,        \* pairs <<sub, root>>: sub ends in "." + root
          HostAddresses,    \* hosts that are IP addresses
          BlockOf,          \* a block's name -> its addresses
          BlockBase,        \* a block's name -> its first address
          DangerousHosts,   \* refused by isDangerousDomain and isDangerousIP
          FactIds, FactRun, FactTarget,   \* observations: their run, their target
          SourceRuns,       \* finished or failed earlier runs and their scope
          TargetLists,      \* target lists a scope may be given
          TemplateForms,    \* templates a request may carry
          MaxScopeDay, ActiveAPIMaxTargets,
          MaxScopeWindow    \* the longest authorisation (365 days)

VARIABLES scopeRows, taskTemplates, planRuns, facts, cdnEdges, owned,
          webAssets, activePolicy, day, editing, pendingBlueprint

NoRule == [protocol |-> "none", subdomains |-> FALSE, root |-> FALSE, ports |-> {}]

NoScope == [status |-> "none", from |-> 0, until |-> 0, default |-> FALSE,
            rev |-> 0, targets |-> {}]

NoTemplate == [status |-> "none", scope |-> 0, type |-> "none", config |-> {},
               inherited |-> {}, source |-> 0, overCap |-> FALSE, name |-> <<>>]

ASSUME ScopesAssumption ==
  /\ \A b \in DOMAIN BlockOf : BlockOf[b] \subseteq HostAddresses
  /\ \A tpl \in TemplateForms : /\ DOMAIN tpl = DOMAIN NoTemplate
                                 /\ tpl.status \in {"enabled", "disabled"}
  /\ MaxScopeDay \in Nat /\ MaxScopeWindow \in Nat

NoPlanRun == [status |-> "none", template |-> 0, scope |-> 0, type |-> "none",
          policy |-> [enabled |-> FALSE, approval |-> FALSE, ownership |-> FALSE],
          overCap |-> FALSE, todo |-> {}, checking |-> {}, plan |-> {},
          force |-> FALSE, seen |-> {}, pieces |-> {}, torn |-> {}]

dispatchableTaskTypes == {"passive_intel", "dns", "org_intel",
                          "port_probe", "web_probe", "fingerprint"}

activeTaskTypes == {"port_probe", "web_probe", "fingerprint", "dirscan"}

----------------------------------------------------------------------------
(* Matching one target against a scope.                                    *)

targetTypes == {"domain", "ip", "cidr", "url", "company"}

(* The address and the name a target is matched by, if it has one; a block *)
(* is looked up by its first address.                                      *)
IpOf(c) == CASE c.kind = "ip" -> {c.host}
             [] c.kind = "cidr" -> {BlockBase[c.host]}
             [] c.kind = "url" -> {c.host} \cap HostAddresses
             [] OTHER -> {}

DomainOf(c) == IF c.kind \in {"domain", "url"} THEN {c.host} ELSE {}

EffectivePort(c) == IF c.port # 0 THEN c.port ELSE IF c.scheme = "https" THEN 443 ELSE 80

isDangerousHost(h) == h \in DangerousHosts

(* parseTypedTarget: what is of none of the types, or dangerous, is never  *)
(* a candidate.                                                            *)
ParsesAsTarget(c) ==
  /\ c.kind \in targetTypes
  /\ c.kind = "ip" => c.host \in HostAddresses
  /\ c.kind = "url" => c.scheme \in {"http", "https"}
  /\ ~isDangerousHost(c.host)
  /\ c.kind = "cidr" => c.host \in DOMAIN BlockOf /\ BlockOf[c.host] \cap DangerousHosts = {}

matchURLAuthorization(t, c) ==
  /\ c.kind = "url"
  /\ \/ c.host = t.host /\ t.rule.root
     \/ <<c.host, t.host>> \in HostUnder /\ t.rule.subdomains
  /\ t.rule.protocol \in {"both", c.scheme}
  /\ IF t.rule.ports = {} THEN EffectivePort(c) = (IF c.scheme = "https" THEN 443 ELSE 80)
                          ELSE EffectivePort(c) \in t.rule.ports

matchTarget(t, c) ==
  CASE t.kind = "url" /\ t.rule # NoRule -> matchURLAuthorization(t, c)
    [] t.kind = "company" -> c.kind = "company" /\ c.host = t.host
    [] t.kind = "domain" ->
         \E d \in DomainOf(c) :
           d = t.host \/ (t.coverage = "subdomains" /\ <<d, t.host>> \in HostUnder)
    [] t.kind = "ip" -> t.host \in IpOf(c)
    [] t.kind = "cidr" -> IpOf(c) \cap BlockOf[t.host] # {}
    [] t.kind = "url" /\ t.rule = NoRule ->
         c.kind = "url" /\ c.host = t.host /\ c.scheme = t.scheme /\ c.port = t.port
    [] OTHER -> FALSE

Specialized(targets, c) ==
  /\ c.kind = "url"
  /\ \E t \in targets : /\ t.mode = "include" /\ t.rule # NoRule
                        /\ c.host = t.host \/ <<c.host, t.host>> \in HostUnder

(* Mutant: the include is tried before the exclusions. *)
IncludeFirst(targets, c) ==
  IF \E t \in targets : t.mode = "include" /\ matchTarget(t, c) THEN "allowed" ELSE "no_match"

scopeMatchDecision(targets, c) ==
  LET only == Specialized(targets, c)
  IN  IF \E t \in targets : t.mode = "exclude" /\ matchTarget(t, c) THEN "excluded"
      ELSE IF \E t \in targets : /\ t.mode = "include" /\ (only => t.kind = "url")
                                 /\ matchTarget(t, c) THEN "allowed"
      ELSE IF only THEN "url_restricted" ELSE "no_match"

(* The rows a step reads. *)
GetScopeByID(sid) == scopeRows[sid]

ListScopeTargetsByScope(sid) == scopeRows[sid].targets

ListScopesByProject == {s \in ScopeIds : scopeRows[s].status # "none"}

Live(tid) == taskTemplates[tid].status \in {"enabled", "disabled"}

GetTaskTemplateByID(tid) == IF Live(tid) THEN taskTemplates[tid] ELSE NoTemplate

ListTaskTemplatesByProject == {t \in TemplateIds : Live(t)}

GetTaskRunByID(r) == planRuns[r]

ListInheritanceObservations(run) == {f \in FactIds : facts[f] # "gone" /\ FactRun[f] = run}

ListIPNetworkAttribution == cdnEdges

ListWebBlueprintAssets == webAssets

InForce(s) == s.status = "active" /\ s.from <= day /\ day <= s.until

----------------------------------------------------------------------------
(* Validation of scopes and templates.                                     *)

normalizeURLAuthorization(t) ==
  \/ t.rule = NoRule
  \/ /\ t.rule.protocol \in {"http", "https", "both"}
     /\ t.rule.root \/ t.rule.subdomains
     /\ t.host \in HostAddresses => ~t.rule.subdomains
     /\ 0 \notin t.rule.ports /\ Cardinality(t.rule.ports) <= 20

normalizeScopeTarget(t) ==
  /\ t.mode \in {"include", "exclude"}
  /\ t.coverage = "exact" \/ (t.kind = "domain" /\ t.coverage = "subdomains")
  /\ t.rule # NoRule => t.kind = "url"
  /\ IF t.kind = "url" THEN normalizeURLAuthorization(t) /\ ParsesAsTarget(t)
                       ELSE ParsesAsTarget(t)

validateScopeTargets(ts) ==
  /\ \A t \in ts : normalizeScopeTarget(t)
  /\ \A t, u \in ts : (t.kind = u.kind /\ t.mode = u.mode /\ t.host = u.host
                       /\ t.scheme = u.scheme /\ t.port = u.port) => t = u

validateScopeWindow(from, until) == from <= until /\ until <= from + MaxScopeWindow

(* activeAPIPortTargets, activeAPIWebTargets: what the active engine takes. *)
validateActiveDispatchConfig(type, config) ==
  type \in activeTaskTypes =>
    /\ config # {} /\ \A c \in config : ParsesAsTarget(c)
    /\ CASE type = "port_probe" -> \A c \in config : c.kind = "ip"
         [] type \in {"web_probe", "fingerprint"} -> \A c \in config : c.kind = "url"
         [] OTHER -> FALSE

requireActiveDispatchEnabled(policy, type) == type \in activeTaskTypes => policy.enabled

ValidateActiveTaskLimits(type, overCap) == type \in activeTaskTypes => ~overCap

prepareTaskTemplateInput(type, config, overCap) ==
  /\ type \in dispatchableTaskTypes
  /\ requireActiveDispatchEnabled(activePolicy, type)
  /\ validateActiveDispatchConfig(type, config)
  /\ ValidateActiveTaskLimits(type, overCap)

----------------------------------------------------------------------------
(* Continuations: targets derived from what an earlier run found.          *)

inheritanceScopeFingerprint(s) == <<s.status, s.from, s.until, s.rev, s.targets>>

sourceRunComplete(run) == SourceRuns[run].status \in {"success", "partial_success"}

continuationTargetType(type) ==
  CASE type \in {"dns", "passive_intel"} -> "domain"
    [] type = "port_probe" -> "ip"
    [] type \in {"web_probe", "fingerprint"} -> "url"
    [] OTHER -> "none"

applyIPNetwork(c, status) == IF c.kind = "ip" /\ c.host \in ListIPNetworkAttribution THEN "excluded" ELSE status

observationTarget(f) == FactTarget[f]

derivedCandidate(sid, run, f) ==
  LET c == observationTarget(f)
      d == scopeMatchDecision(scopeRows[sid].targets, c)
  IN  applyIPNetwork(c,
        CASE ~ParsesAsTarget(c) -> "excluded"
          [] ParsesAsTarget(c) /\ ~(InForce(scopeRows[sid]) /\ sourceRunComplete(run)) -> "blocked"
          [] OTHER -> IF d = "allowed" THEN "inherited"
                      ELSE IF d = "no_match" THEN "pending" ELSE "excluded")

(* selectedDerived: the observations must be live, the source complete, the *)
(* parent in force.                                                        *)
selectedDerived(sid, run, fs) ==
  /\ fs # {} /\ fs \subseteq ListInheritanceObservations(run)
  /\ sourceRunComplete(run) /\ InForce(scopeRows[sid])

validateInheritedSnapshot(tpl) ==
  tpl.inherited # {} =>
    LET fs == {e[1] : e \in tpl.inherited}
    IN  /\ SourceRuns[tpl.source].scope = tpl.scope
        /\ selectedDerived(tpl.scope, tpl.source, fs)
        /\ \A e \in tpl.inherited :
             /\ derivedCandidate(tpl.scope, tpl.source, e[1]) = "inherited"
             /\ FactTarget[e[1]].kind = continuationTargetType(tpl.type)
             /\ facts[e[1]] = e[2]
        /\ tpl.config = {FactTarget[f] : f \in fs}

----------------------------------------------------------------------------
(* Blueprints.                                                             *)

Step(type, needs, after) == [type |-> type, needs |-> needs, after |-> after]

builtinDiscoveryBlueprints ==
  [domain_asset_inventory |-> <<Step("passive_intel", "domain", 0), Step("dns", "domain", 1)>>,
   enterprise_profile |-> <<Step("org_intel", "company", 0)>>,
   ip_exposure_baseline |-> <<Step("port_probe", "ip", 0)>>,
   web_exposure_baseline |-> <<Step("web_probe", "url", 0)>>,
   asm_initial_baseline |-> <<Step("passive_intel", "domain", 0), Step("dns", "domain", 1),
                              Step("port_probe", "ip", 0), Step("web_probe", "url", 3)>>]

RequiredTargetTypes(key) == {st.needs : st \in Range(builtinDiscoveryBlueprints[key])}

blueprintScopeTargetTypes(sid) ==
  LET kinds == {t.kind : t \in {t \in scopeRows[sid].targets : t.mode = "include"}}
  IN  kinds \cup (IF "domain" \in kinds THEN {"url"} ELSE {})

scopeCompatibleWithBlueprint(sid, key) ==
  InForce(scopeRows[sid]) /\ RequiredTargetTypes(key) \subseteq blueprintScopeTargetTypes(sid)

(* resolveBlueprintScope: the requested scope, else the compatible default, *)
(* else the only compatible one.                                           *)
resolveBlueprintScope(requested, key) ==
  LET ok == {s \in ListScopesByProject : scopeCompatibleWithBlueprint(s, key)}
      def == {s \in ok : scopeRows[s].default}
  IN  IF requested \in ScopeIds
      THEN {requested} \cap ListScopesByProject
      ELSE IF def # {} THEN def
      ELSE IF Cardinality(ok) = 1 THEN ok ELSE {}

URL(host, scheme, port) == [kind |-> "url", host |-> host, scheme |-> scheme, port |-> port]

(* scopeURLSeeds: the concrete root endpoints of one URL target. *)
scopeURLSeeds(t, host) ==
  IF t.rule = NoRule THEN {URL(host, t.scheme, t.port)}
  ELSE {u \in {URL(host, p, q) : p \in {"http", "https"}, q \in t.rule.ports \cup {80, 443}} :
          /\ t.rule.protocol \in {"both", u.scheme}
          /\ IF t.rule.ports = {} THEN u.port = (IF u.scheme = "https" THEN 443 ELSE 80)
                                  ELSE u.port \in t.rule.ports}

(* resolveWebBlueprintTargets: known hosts and explicit endpoints that the *)
(* scope allows; one spelling per endpoint.                                *)
resolveWebBlueprintTargets(sid) ==
  LET inc     == {t \in scopeRows[sid].targets : t.mode = "include"}
      dynamic == \E t \in inc : t.kind = "domain" \/ t.rule.subdomains
      found   == IF dynamic THEN ListWebBlueprintAssets ELSE {}
      names   == {a.host : a \in found} \ HostAddresses
      hosts   == {t.host : t \in {t \in inc : t.kind = "domain"}} \cup names
      seeds   == UNION {IF t.rule # NoRule /\ ~t.rule.root THEN {} ELSE scopeURLSeeds(t, t.host)
                        : t \in {t \in inc : t.kind = "url"}}
                 \cup UNION {UNION {scopeURLSeeds(t, h) :
                                      h \in {h \in names : h = t.host \/ <<h, t.host>> \in HostUnder}}
                             : t \in {t \in inc : t.rule.subdomains}}
                 \cup {a \in found : a.kind = "url"}
      all     == {u \in {URL(h, "http", 80) : h \in hosts} \cup {URL(h, "https", 443) : h \in hosts}
                        \cup seeds :
                    /\ ParsesAsTarget(u)
                    /\ scopeMatchDecision(scopeRows[sid].targets, u) = "allowed"}
  IN  {CHOOSE v \in all : <<v.host, v.scheme, EffectivePort(v)>> = e :
         e \in {<<u.host, u.scheme, EffectivePort(u)>> : u \in all}}

(* blueprintWebTargetBatches: consecutive batches of at most the engine's  *)
(* limit.                                                                  *)
blueprintWebTargetBatches(urls) ==
  LET s == SetToSeq(urls)
      n == (Len(s) + ActiveAPIMaxTargets - 1) \div ActiveAPIMaxTargets
  IN  {Range(SubSeq(s, (i - 1) * ActiveAPIMaxTargets + 1,
                    IF i * ActiveAPIMaxTargets < Len(s) THEN i * ActiveAPIMaxTargets ELSE Len(s)))
       : i \in 1..n}

blueprintTaskConfigs(sid, st) ==
  IF st.needs = "url" THEN blueprintWebTargetBatches(resolveWebBlueprintTargets(sid))
  ELSE {{[kind |-> t.kind, host |-> t.host, scheme |-> "none", port |-> 0] :
           t \in {t \in scopeRows[sid].targets : t.mode = "include" /\ t.kind = st.needs}}}

(* PreviewDiscoveryBlueprint: every step of the blueprint has its targets, *)
(* its route and its dependencies.                                         *)
PreviewDiscoveryBlueprint(sid, key) ==
  /\ InForce(scopeRows[sid])
  /\ \A st \in Range(builtinDiscoveryBlueprints[key]) :
       /\ st.needs \in blueprintScopeTargetTypes(sid)
       /\ st.needs = "url" => resolveWebBlueprintTargets(sid) # {}
       /\ requireActiveDispatchEnabled(activePolicy, st.type)

(* The name of a web batch is a hash of its config, any other name is the  *)
(* blueprint, the step and the scope.                                      *)
blueprintTemplateName(key, i, sid, config) ==
  <<key, i, sid, IF builtinDiscoveryBlueprints[key][i].needs = "url" THEN config ELSE {}>>

----------------------------------------------------------------------------
scopesVars == <<scopeRows, taskTemplates, planRuns, facts, cdnEdges, owned,
           webAssets, activePolicy, day, editing, pendingBlueprint>>

rest == <<facts, cdnEdges, owned, webAssets, activePolicy, day>>

NoEdit == [template |-> 0, before |-> NoTemplate]

NoPending == [key |-> "none", scope |-> 0, plans |-> {}]

ScopesInit ==
  /\ scopeRows = [s \in ScopeIds |-> NoScope]
  /\ taskTemplates = [t \in TemplateIds |-> NoTemplate]
  /\ planRuns = [r \in PlanRuns |-> NoPlanRun]
  /\ facts = [f \in FactIds |-> "h1"]
  /\ cdnEdges = {} /\ owned = {} /\ webAssets = {}
  /\ activePolicy \in [enabled : BOOLEAN, approval : BOOLEAN, ownership : BOOLEAN]
  /\ day = 0 /\ editing = NoEdit /\ pendingBlueprint = NoPending

(* The reference: what a line of a scope stands for.  A block that is      *)
(* asked for is judged by its first address, and the claim is about that   *)
(* address alone.                                                          *)
Denotes(t, c) ==
  CASE t.kind = "domain" -> c.kind \in {"domain", "url"}
         /\ (c.host = t.host \/ (t.coverage = "subdomains" /\ <<c.host, t.host>> \in HostUnder))
    [] t.kind = "ip" -> c.kind \in {"ip", "url"} /\ c.host = t.host
    [] t.kind = "cidr" -> c.kind \in {"ip", "url"} /\ c.host \in BlockOf[t.host]
    [] t.kind = "company" -> c.kind = "company" /\ c.host = t.host
    [] t.kind = "url" /\ t.rule = NoRule ->
         c.kind = "url" /\ c.host = t.host /\ c.scheme = t.scheme /\ c.port = t.port
    [] t.kind = "url" /\ t.rule # NoRule ->
         /\ c.kind = "url"
         /\ \/ t.rule.root /\ c.host = t.host
            \/ t.rule.subdomains /\ <<c.host, t.host>> \in HostUnder
         /\ \E u \in scopeURLSeeds(t, c.host) :
              /\ c.scheme = u.scheme
              /\ \/ c.port = u.port
                 \/ c.port = 0 /\ u.port = (IF u.scheme = "https" THEN 443 ELSE 80)
    [] OTHER -> FALSE

JudgedAs(c) ==
  IF c.kind = "cidr" THEN [kind |-> "ip", host |-> BlockBase[c.host], scheme |-> "none", port |-> 0]
                     ELSE c

ValidOn(s, d) == s.status = "active" /\ s.from <= d /\ d <= s.until

ListAuthorises(s, c) ==
  /\ \E t \in s.targets : t.mode = "include" /\ Denotes(t, JudgedAs(c))
  /\ \A t \in s.targets : t.mode = "exclude" => ~Denotes(t, JudgedAs(c))

Authorised(s, d, c) == ValidOn(s, d) /\ ListAuthorises(s, c)

(* The ghosts of a run, since its planning began: whether its scope has    *)
(* been in force, the targets it has authorised, those its list has, then  *)
(* or later, and those during whose check the row or the day changed.      *)
Witnessed(runs, rows, d) ==
  [r \in PlanRuns |->
     IF runs[r].status = "planning"
     THEN LET run == runs[r]
              s   == rows[run.scope]
              cs  == run.todo \cup run.plan
              now == run.force \/ ValidOn(s, d)
          IN  [run EXCEPT
                 !.force = now,
                 !.seen = run.seen \cup {c \in cs : Authorised(s, d, c)},
                 !.pieces = run.pieces \cup {c \in cs : now /\ ListAuthorises(s, c)},
                 !.torn = run.torn \cup IF s = scopeRows[run.scope] /\ d = day THEN {} ELSE run.checking]
     ELSE runs[r]]

SetScopes(rows) == scopeRows' = rows /\ planRuns' = Witnessed(planRuns, rows, day)

----------------------------------------------------------------------------
(* Scopes: every write of them holds the project's lock.                   *)

ClearDefaultScopes(rows, sid) ==
  [s \in ScopeIds |-> IF s = sid THEN rows[s] ELSE [rows[s] EXCEPT !.default = FALSE]]

(* replaceProjectDefault: under the project's lock, the old default gives way. *)
replaceProjectDefault(rows, sid, default) ==
  IF default THEN ClearDefaultScopes(rows, sid) ELSE rows

ScopeRow(status, from, until, default, ts) ==
  [status |-> status, from |-> from, until |-> until, default |-> default,
   rev |-> 0, targets |-> ts]

UpdateScopeRow(s, status, default, until) ==
  [s EXCEPT !.status = status, !.default = default, !.until = until]

(* The old targets are soft-deleted and the new ones inserted. *)
ReplaceTargets(s, ts) == [s EXCEPT !.rev = s.rev + 1, !.targets = ts]

DeactivateScopeRow(s) == [s EXCEPT !.status = "inactive", !.default = FALSE]

InsertScopeTarget(s, ts) == [s EXCEPT !.targets = s.targets \cup ts]

CreateScope(sid, status, from, until, default, ts) ==
  /\ scopeRows[sid].status = "none"
  /\ status \in {"active", "inactive"} /\ (default => status = "active")
  /\ validateScopeWindow(from, until) /\ validateScopeTargets(ts)
  /\ SetScopes([replaceProjectDefault(scopeRows, sid, default)
                  EXCEPT ![sid] = ScopeRow(status, from, until, default, ts)])
  /\ UNCHANGED <<taskTemplates, editing, pendingBlueprint, rest>>

(* UpdateScope with the fields the request names; "keep" leaves one alone. *)
UpdateScope(sid, status, default, until, replace, ts) ==
  LET s   == scopeRows[sid]
      st  == IF status = "keep" THEN s.status ELSE status
      def == IF st # "active" THEN FALSE ELSE IF default = "keep" THEN s.default ELSE default = "yes"
  IN  /\ s.status # "none"
      /\ ~(st # "active" /\ default = "yes")
      /\ validateScopeWindow(s.from, until)
      /\ replace => validateScopeTargets(ts) /\ s.rev < 1
      /\ LET row == UpdateScopeRow(s, st, def, until)
         IN  SetScopes([replaceProjectDefault(scopeRows, sid, def)
                          EXCEPT ![sid] = IF replace THEN ReplaceTargets(row, ts) ELSE row])
      /\ UNCHANGED <<taskTemplates, editing, pendingBlueprint, rest>>

DeactivateScope(sid) ==
  /\ scopeRows[sid].status # "none"
  /\ SetScopes([scopeRows EXCEPT ![sid] = DeactivateScopeRow(scopeRows[sid])])
  /\ UNCHANGED <<taskTemplates, editing, pendingBlueprint, rest>>

(* AuthorizeDerivedTargets: exact includes for what is pending; a stale    *)
(* fingerprint is refused.                                                 *)
AuthorizeDerivedTargets(run, fs, fingerprint) ==
  LET sid == SourceRuns[run].scope
      new == {f \in fs : derivedCandidate(sid, run, f) # "inherited"}
  IN  /\ sid \in ListScopesByProject
      /\ selectedDerived(sid, run, fs)
      /\ fingerprint = inheritanceScopeFingerprint(scopeRows[sid])
      /\ \A f \in new : derivedCandidate(sid, run, f) = "pending"
      /\ SetScopes([scopeRows EXCEPT ![sid] = InsertScopeTarget(scopeRows[sid],
            {[kind |-> FactTarget[f].kind, host |-> FactTarget[f].host,
              scheme |-> FactTarget[f].scheme, port |-> FactTarget[f].port,
              mode |-> "include", coverage |-> "exact", rule |-> NoRule] : f \in new})])
      /\ UNCHANGED <<taskTemplates, editing, pendingBlueprint, rest>>

----------------------------------------------------------------------------
(* Templates.                                                              *)

FreeName(name) == \A t \in ListTaskTemplatesByProject : taskTemplates[t].name # name

CreateTaskTemplate(tid, tpl) ==
  /\ taskTemplates[tid].status = "none" /\ FreeName(tpl.name)
  /\ prepareTaskTemplateInput(tpl.type, tpl.config, tpl.overCap)
  /\ tpl.scope \in ListScopesByProject
  /\ validateInheritedSnapshot(tpl)
  /\ taskTemplates' = [taskTemplates EXCEPT ![tid] = tpl]
  /\ UNCHANGED <<scopeRows, planRuns, editing, pendingBlueprint, rest>>

(* CreateContinuationTemplate: a snapshot of the evidence, reused when it  *)
(* exists already.                                                         *)
CreateContinuationTemplate(tid, run, type, fs, fingerprint) ==
  LET sid    == SourceRuns[run].scope
      first  == {f \in fs : \A g \in fs : FactTarget[g] = FactTarget[f] => f <= g}
      tpl    == [NoTemplate EXCEPT !.status = "enabled", !.scope = sid, !.type = type,
                   !.config = {FactTarget[f] : f \in first},
                   !.inherited = {<<f, facts[f]>> : f \in first},
                   !.source = run, !.name = <<"continuation", run, type, first>>]
  IN  /\ sid \in ListScopesByProject
      /\ selectedDerived(sid, run, fs)
      /\ fingerprint = inheritanceScopeFingerprint(scopeRows[sid])
      /\ \A f \in fs : /\ derivedCandidate(sid, run, f) = "inherited"
                       /\ FactTarget[f].kind = continuationTargetType(type)
      /\ \A t \in ListTaskTemplatesByProject : taskTemplates[t].inherited # tpl.inherited
      /\ CreateTaskTemplate(tid, tpl)

EditAllowed(tpl, type, config) ==
  tpl.inherited # {} => type = tpl.type /\ config = tpl.config

(* UpdateTaskTemplate reads the row without a lock, merges the request into *)
(* what it read, and writes the whole row back.                            *)
ReadForUpdate(tid) ==
  /\ editing = NoEdit /\ Live(tid)
  /\ editing' = [template |-> tid, before |-> taskTemplates[tid]]
  /\ UNCHANGED <<scopeRows, taskTemplates, planRuns, pendingBlueprint, rest>>

UpdateTemplateRow(row, b, type, config, overCap) ==
  [b EXCEPT !.type = type, !.config = config, !.overCap = overCap, !.status = row.status]

UpdateTaskTemplate(type, config, overCap) ==
  LET b == editing.before
  IN  /\ editing # NoEdit
      /\ EditAllowed(b, type, config)
      /\ prepareTaskTemplateInput(type, config, overCap)
      /\ editing' = NoEdit
      /\ taskTemplates' = IF ~Live(editing.template) THEN taskTemplates
                          ELSE [taskTemplates EXCEPT ![editing.template] =
                                  UpdateTemplateRow(taskTemplates[editing.template], b, type, config, overCap)]
      /\ UNCHANGED <<scopeRows, planRuns, pendingBlueprint, rest>>

EnabledRow(row, enabled) == [row EXCEPT !.status = IF enabled THEN "enabled" ELSE "disabled"]

SetTaskTemplateEnabled(tid, enabled) ==
  LET t == taskTemplates[tid]
  IN  /\ Live(tid)
      /\ enabled => prepareTaskTemplateInput(t.type, t.config, t.overCap)
      /\ taskTemplates' = [taskTemplates EXCEPT ![tid] = EnabledRow(t, enabled)]
      /\ UNCHANGED <<scopeRows, planRuns, editing, pendingBlueprint, rest>>

SoftDeleteTaskTemplate(row) == [row EXCEPT !.status = "deleted"]

DeleteTaskTemplate(tid) ==
  /\ Live(tid)
  /\ taskTemplates' = [taskTemplates EXCEPT ![tid] = SoftDeleteTaskTemplate(taskTemplates[tid])]
  /\ UNCHANGED <<scopeRows, planRuns, editing, pendingBlueprint, rest>>

(* CreateBlueprintTaskTemplates: the preview and the plans are computed    *)
(* before the transaction that inserts the templates.                      *)
PrepareBlueprint(requested, key) ==
  /\ pendingBlueprint = NoPending
  /\ \E sid \in resolveBlueprintScope(requested, key) :
       /\ PreviewDiscoveryBlueprint(sid, key)
       /\ pendingBlueprint' = [key |-> key, scope |-> sid,
            plans |-> UNION {{<<i, c>> : c \in blueprintTaskConfigs(sid, builtinDiscoveryBlueprints[key][i])}
                             : i \in DOMAIN builtinDiscoveryBlueprints[key]}]
  /\ UNCHANGED <<scopeRows, taskTemplates, planRuns, editing, rest>>

BlueprintTemplate(p) ==
  [NoTemplate EXCEPT !.status = "enabled", !.scope = pendingBlueprint.scope,
     !.type = builtinDiscoveryBlueprints[pendingBlueprint.key][p[1]].type, !.config = p[2],
     !.name = blueprintTemplateName(pendingBlueprint.key, p[1], pendingBlueprint.scope, p[2])]

(* findMaterializedBlueprintTemplate: same scope, step and config. *)
findMaterializedBlueprintTemplate(p) ==
  \E t \in ListTaskTemplatesByProject : /\ taskTemplates[t].name = BlueprintTemplate(p).name
                                         /\ taskTemplates[t].config = p[2]

CreateBlueprintTaskTemplates ==
  LET new  == {p \in pendingBlueprint.plans : ~findMaterializedBlueprintTemplate(p)}
      free == {t \in TemplateIds : taskTemplates[t].status = "none"}
  IN  /\ pendingBlueprint # NoPending
      /\ pendingBlueprint' = NoPending
      /\ \/ /\ \A p \in new : FreeName(BlueprintTemplate(p).name)
            /\ \E at \in [new -> free] :
                 /\ \A p, q \in new : p # q => at[p] # at[q]
                 /\ taskTemplates' = [t \in TemplateIds |->
                      IF \E p \in new : at[p] = t
                      THEN BlueprintTemplate(CHOOSE p \in new : at[p] = t) ELSE taskTemplates[t]]
         \/ /\ \E p \in new : ~FreeName(BlueprintTemplate(p).name)
            /\ UNCHANGED taskTemplates
      /\ UNCHANGED <<scopeRows, planRuns, editing, rest>>

----------------------------------------------------------------------------
(* Runs.                                                                   *)

(* ValidateActiveApproval: somebody other than the actor. *)
ValidateActiveApproval(type, actor, approver) ==
  type \in activeTaskTypes => approver \in ScopeUsers /\ approver # actor

TaskRunRow(tid, t) ==
  [NoPlanRun EXCEPT !.status = "pending", !.template = tid, !.scope = t.scope, !.type = t.type,
                    !.policy = activePolicy, !.overCap = t.overCap]

CreateTaskRunFrom(r, tid, actor, approver) ==
  LET t == GetTaskTemplateByID(tid)
  IN  /\ planRuns[r].status = "none" /\ t.status = "enabled"
      /\ validateInheritedSnapshot(t)
      /\ prepareTaskTemplateInput(t.type, t.config, t.overCap)
      /\ activePolicy.approval => ValidateActiveApproval(t.type, actor, approver)
      /\ planRuns' = [planRuns EXCEPT ![r] = TaskRunRow(tid, t)]
      /\ UNCHANGED <<scopeRows, taskTemplates, editing, pendingBlueprint, rest>>

EndPlan(r, status) ==
  planRuns' = [planRuns EXCEPT ![r].status = status, ![r].todo = {}, ![r].checking = {}]

(* What BuildDispatchPlan requires of the run and its template. *)
PlanMayBegin(r, t) ==
  LET run == planRuns[r]
  IN  /\ t.status = "enabled" /\ t.scope = run.scope /\ t.type = run.type
      /\ requireActiveDispatchEnabled(run.policy, run.type)
      /\ ValidateActiveTaskLimits(run.type, run.overCap)
      /\ validateActiveDispatchConfig(run.type, t.config)
      /\ validateInheritedSnapshot(t)
      /\ t.config # {} /\ \A c \in t.config : ParsesAsTarget(c)

BuildDispatchPlan(r) ==
  LET run == GetTaskRunByID(r)
      t   == GetTaskTemplateByID(run.template)
  IN  /\ run.status = "pending"
      /\ IF PlanMayBegin(r, t)
         THEN planRuns' = Witnessed([planRuns EXCEPT ![r].status = "planning", ![r].todo = t.config],
                                    scopeRows, day)
         ELSE EndPlan(r, "refused")
      /\ UNCHANGED <<scopeRows, taskTemplates, editing, pendingBlueprint, rest>>

(* IsTypedTargetAllowed, one target at a time and the scope read anew for  *)
(* each: first its row and the clock, then, with a second statement, its   *)
(* list.                                                                   *)
CheckScope(r, c) ==
  /\ planRuns[r].status = "planning" /\ planRuns[r].checking = {} /\ c \in planRuns[r].todo
  /\ IF ParsesAsTarget(c) /\ InForce(GetScopeByID(planRuns[r].scope))
     THEN planRuns' = [planRuns EXCEPT ![r].checking = {c}]
     ELSE EndPlan(r, "refused")
  /\ UNCHANGED <<scopeRows, taskTemplates, editing, pendingBlueprint, rest>>

CheckTargets(r, c) ==
  /\ planRuns[r].status = "planning" /\ c \in planRuns[r].checking
  /\ IF scopeMatchDecision(ListScopeTargetsByScope(planRuns[r].scope), c) = "allowed"
     THEN planRuns' = [planRuns EXCEPT ![r].todo = planRuns[r].todo \ {c}, ![r].checking = {},
                                       ![r].plan = planRuns[r].plan \cup {c}]
     ELSE EndPlan(r, "refused")
  /\ UNCHANGED <<scopeRows, taskTemplates, editing, pendingBlueprint, rest>>

requireVerifiedOwnership(run) ==
  run.type \in activeTaskTypes =>
    \A c \in run.plan : /\ c.kind \in {"domain", "url"}
                        /\ \E d \in owned : c.host = d \/ <<c.host, d>> \in HostUnder

refuseCDNEdgeTargets(run) ==
  run.type \in activeTaskTypes => \A c \in run.plan : c.kind = "ip" => c.host \notin ListIPNetworkAttribution

FinishPlan(r) ==
  LET run == planRuns[r]
  IN  /\ run.status = "planning" /\ run.todo = {}
      /\ EndPlan(r, IF /\ run.policy.ownership => requireVerifiedOwnership(run)
                       /\ refuseCDNEdgeTargets(run) THEN "planned" ELSE "refused")
      /\ UNCHANGED <<scopeRows, taskTemplates, editing, pendingBlueprint, rest>>

----------------------------------------------------------------------------
(* The handlers: permission first, then the operation.                     *)

authorize(u, perm) == RoleHasPerm(ScopeRole[u], perm)

createScope(u, sid, status, from, until, default, ts) ==
  authorize(u, "scope:write") /\ CreateScope(sid, status, from, until, default, ts)

updateScope(u, sid, status, default, until, replace, ts) ==
  authorize(u, "scope:write") /\ UpdateScope(sid, status, default, until, replace, ts)

deactivateScope(u, sid) == authorize(u, "scope:write") /\ DeactivateScope(sid)

authorizeDerivedTargets(u, run, fs, fingerprint) ==
  /\ \A p \in {"scope:write", "discovery:read", "asset:read", "scope:read"} : authorize(u, p)
  /\ AuthorizeDerivedTargets(run, fs, fingerprint)

createContinuation(u, tid, run, type, fs, fingerprint) ==
  /\ \A p \in {"discovery:run", "asset:read", "scope:read"} : authorize(u, p)
  /\ CreateContinuationTemplate(tid, run, type, fs, fingerprint)

createTemplate(u, tid, tpl) ==
  authorize(u, "discovery:run") /\ tpl.inherited = {} /\ CreateTaskTemplate(tid, tpl)

updateTemplate(u, tid) == authorize(u, "discovery:run") /\ ReadForUpdate(tid)

setTemplateEnabled(u, tid, enabled) ==
  authorize(u, "discovery:run") /\ SetTaskTemplateEnabled(tid, enabled)

deleteTemplate(u, tid) == authorize(u, "discovery:run") /\ DeleteTaskTemplate(tid)

createBlueprintTemplates(u, requested, key) ==
  /\ \A p \in {"discovery:run", "asset:read"} : authorize(u, p)
  /\ PrepareBlueprint(requested, key)

createRun(u, r, tid, approver) ==
  authorize(u, "discovery:run") /\ CreateTaskRunFrom(r, tid, u, approver)

----------------------------------------------------------------------------
(* What the rest of the platform does meanwhile.                           *)

(* A later callback of the source run replaces or removes an observation,  *)
(* network enrichment finds a CDN edge, a domain's ownership is proved or  *)
(* lost, a web asset is found, the engine settings change, time passes.    *)
ObservationChanges(f, h) ==
  /\ facts[f] # h /\ facts' = [facts EXCEPT ![f] = h]
  /\ UNCHANGED <<scopeRows, taskTemplates, planRuns, cdnEdges, owned, webAssets,
                 activePolicy, day, editing, pendingBlueprint>>

EdgeFound(a) ==
  /\ cdnEdges' = cdnEdges \cup {a} /\ cdnEdges' # cdnEdges
  /\ UNCHANGED <<scopeRows, taskTemplates, planRuns, facts, owned, webAssets,
                 activePolicy, day, editing, pendingBlueprint>>

OwnershipChanges(ds) ==
  /\ owned' = ds /\ owned' # owned
  /\ UNCHANGED <<scopeRows, taskTemplates, planRuns, facts, cdnEdges, webAssets,
                 activePolicy, day, editing, pendingBlueprint>>

WebAssetFound(h) ==
  /\ webAssets' = webAssets \cup {h} /\ webAssets' # webAssets
  /\ UNCHANGED <<scopeRows, taskTemplates, planRuns, facts, cdnEdges, owned,
                 activePolicy, day, editing, pendingBlueprint>>

ActivePolicyChanges(p) ==
  /\ activePolicy' = p /\ activePolicy' # activePolicy
  /\ UNCHANGED <<scopeRows, taskTemplates, planRuns, facts, cdnEdges, owned, webAssets,
                 day, editing, pendingBlueprint>>

DayPasses ==
  /\ day < MaxScopeDay /\ day' = day + 1
  /\ planRuns' = Witnessed(planRuns, scopeRows, day + 1)
  /\ UNCHANGED <<scopeRows, taskTemplates, facts, cdnEdges, owned, webAssets,
                 activePolicy, editing, pendingBlueprint>>

ScopeSteps(u, sid) ==
  \/ \E st \in {"active", "inactive"}, from, until \in 0..MaxScopeDay, d \in BOOLEAN, ts \in TargetLists :
       createScope(u, sid, st, from, until, d, ts)
  \/ \E st \in {"keep", "active", "inactive"}, d \in {"keep", "yes", "no"}, until \in 0..MaxScopeDay,
        replace \in BOOLEAN, ts \in TargetLists : updateScope(u, sid, st, d, until, replace, ts)
  \/ deactivateScope(u, sid)

DerivedSteps(u) ==
  \E run \in DOMAIN SourceRuns, fs \in SUBSET FactIds :
    LET fingerprint == inheritanceScopeFingerprint(scopeRows[SourceRuns[run].scope])
    IN  \/ authorizeDerivedTargets(u, run, fs, fingerprint)
        \/ \E tid \in TemplateIds, type \in dispatchableTaskTypes :
             createContinuation(u, tid, run, type, fs, fingerprint)

TemplateSteps(u, tid) ==
  \/ \E tpl \in TemplateForms : createTemplate(u, tid, tpl)
  \/ updateTemplate(u, tid) \/ deleteTemplate(u, tid)
  \/ \E enabled \in BOOLEAN : setTemplateEnabled(u, tid, enabled)

PlanSteps(r) ==
  BuildDispatchPlan(r) \/ FinishPlan(r) \/ (\E c \in planRuns[r].todo : CheckScope(r, c) \/ CheckTargets(r, c))

ScopesNext ==
  \/ \E u \in ScopeUsers :
       \/ \E sid \in ScopeIds : ScopeSteps(u, sid)
       \/ DerivedSteps(u) \/ \E tid \in TemplateIds : TemplateSteps(u, tid)
       \/ \E sid \in ScopeIds \cup {0}, key \in DOMAIN builtinDiscoveryBlueprints :
            createBlueprintTemplates(u, sid, key)
       \/ \E r \in PlanRuns, tid \in TemplateIds, approver \in ScopeUsers : createRun(u, r, tid, approver)
  \/ \E tpl \in TemplateForms : UpdateTaskTemplate(tpl.type, tpl.config, tpl.overCap)
  \/ CreateBlueprintTaskTemplates \/ DayPasses
  \/ \E r \in PlanRuns : PlanSteps(r)
  \/ \E f \in FactIds, h \in {"h2", "gone"} : ObservationChanges(f, h)
  \/ \E a \in HostAddresses : EdgeFound(a)
  \/ \E ds \in SUBSET {p[2] : p \in HostUnder} : OwnershipChanges(ds)
  \/ \E tpl \in TemplateForms : \E c \in tpl.config : WebAssetFound(c)
  \/ \E p \in [enabled : BOOLEAN, approval : BOOLEAN, ownership : BOOLEAN] : ActivePolicyChanges(p)

ScopesSpec == ScopesInit /\ [][ScopesNext]_scopesVars

----------------------------------------------------------------------------
(* Properties.                                                             *)

(* Every variable has its type. *)
ScopesTypeOK ==
  /\ \A s \in ScopeIds : /\ scopeRows[s].status \in {"none", "active", "inactive"}
                         /\ scopeRows[s].default \in BOOLEAN
                         /\ scopeRows[s].from \in 0..MaxScopeDay /\ scopeRows[s].until \in 0..MaxScopeDay
  /\ \A t \in TemplateIds : taskTemplates[t].status \in {"none", "enabled", "disabled", "deleted"}
  /\ \A r \in PlanRuns : planRuns[r].status \in {"none", "pending", "planning", "planned", "refused"}
  /\ day \in 0..MaxScopeDay /\ owned \subseteq {p[2] : p \in HostUnder}

(* A plan holds only targets (of a block, the first address) that the      *)
(* scope authorised at one moment after the planning began, whatever the   *)
(* operators did between the statements of BuildDispatchPlan: what was     *)
(* excluded, expired or deactivated before the worker took the run is      *)
(* never sent.  The one exception is a target whose scope was edited, or   *)
(* whose day ended, between the two reads of its check: the scope was then *)
(* in force at one moment and its list authorised the target at a later    *)
(* one.                                                                    *)
PlanWasAuthorised ==
  \A r \in PlanRuns : \A c \in planRuns[r].plan :
    c \in planRuns[r].seen \/ (c \in planRuns[r].torn /\ c \in planRuns[r].pieces)

=============================================================================
