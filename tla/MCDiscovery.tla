---------------------------- MODULE MCDiscovery ----------------------------
(***************************************************************************)
(* The services around a discovery run, side by side: `part' is chosen at  *)
(* the start and says which one moves, with the choices that matter there. *)
(***************************************************************************)
EXTENDS MCAssets, Scopes, Engines, Enrichment, MCActiveEngine, Executors, LegacyScan

VARIABLE part

ScopeParts == {"scopes", "plan", "continue", "blueprint"}
EngineParts == {"settings", "binding", "resolve"}
Parts == AssetParts \cup ScopeParts \cup EngineParts \cup {"enrich", "active", "execute", "list", "domain"}

discoveryVars == <<assetVars, scopesVars, enginesVars, enrichmentVars, activeVars,
                   executorVars, cliVars, part>>

-----------------------------------------------------------------------------
(* Scopes, templates and plans.                                            *)

Target(k, h) == [kind |-> k, host |-> h, scheme |-> "none", port |-> 0]
ScopeTarget(c, mode, coverage, rule) ==
    [kind |-> c.kind, host |-> c.host, scheme |-> c.scheme, port |-> c.port,
     mode |-> mode, coverage |-> coverage, rule |-> rule]
Corp == ScopeTarget(Target("domain", "corp"), "include", "subdomains", NoRule)
NotWww == ScopeTarget(Target("domain", "www"), "exclude", "exact", NoRule)
Block == ScopeTarget(Target("cidr", "b1"), "include", "exact", NoRule)
Site == ScopeTarget(URL("corp", "https", 0), "include", "exact",
                    [protocol |-> "both", subdomains |-> TRUE, root |-> FALSE, ports |-> {}])
Form(type, config) == [NoTemplate EXCEPT !.status = "enabled", !.scope = 1, !.type = type,
                                         !.config = config, !.name = <<"manual">>]
PolicyOn == [enabled |-> TRUE, approval |-> TRUE, ownership |-> FALSE]
PolicyOwned == [PolicyOn EXCEPT !.ownership = TRUE]

MCHostUnder == {<<"www", "corp">>}
MCBlockOf == [b1 |-> {"a1", "a2"}]
MCBlockBase == [b1 |-> "a1"]
MCFactRun == <<1, 1>>
MCFactTarget == <<Target("ip", "a1"), Target("domain", "www")>>
MCSourceRuns == <<[status |-> "success", scope |-> 1]>>
MCScopeRole == [u1 |-> "project_owner", u2 |-> "project_owner", u3 |-> "viewer"]
MCTargetLists == {{Corp}, {Corp, NotWww}, {Corp, Block}, {Site}}
MCTemplateForms == {Form("dns", {Target("domain", "corp"), Target("domain", "www")}),
                    Form("dns", {Target("domain", "corp")}),
                    Form("port_probe", {Target("ip", "a1")})}

RunIt == (\E tid \in TemplateIds, u \in ScopeUsers : createRun(u, 1, tid, "u2")) \/ PlanSteps(1)

ScopesMove ==
    \/ /\ part = "scopes"
       /\ \E u \in ScopeUsers, sid \in ScopeIds :
            \/ \E st \in {"active", "inactive"}, d \in BOOLEAN :
                  createScope(u, sid, st, 0, 1, d, {Corp})
            \/ \E st \in {"keep", "active", "inactive"}, d \in {"keep", "yes", "no"} :
                  \E until \in {1, 2} : updateScope(u, sid, st, d, until, FALSE, {})
            \/ deactivateScope(u, sid)
    \/ /\ part = "plan"
       /\ \/ \E ts \in MCTargetLists : \/ createScope("u1", 1, "active", 0, 0, FALSE, ts)
                                       \/ updateScope("u1", 1, "keep", "keep", 1, TRUE, ts)
          \/ deactivateScope("u1", 1) \/ TemplateSteps("u1", 1)
          \/ UpdateTaskTemplate("dns", {Target("domain", "corp")}, FALSE)
          \/ RunIt \/ DayPasses \/ EdgeFound("a1")
    \/ /\ part = "continue"
       /\ \/ \E ts \in {{Corp}, {Corp, NotWww}} : createScope("u1", 1, "active", 0, 1, FALSE, ts)
          \/ DerivedSteps("u1") \/ updateTemplate("u1", 1)
          \/ UpdateTaskTemplate("dns", {Target("domain", "corp")}, FALSE)
          \/ RunIt \/ EdgeFound("a1")
          \/ \E f \in FactIds, h \in {"h2", "gone"} : ObservationChanges(f, h)
    \/ /\ part = "blueprint"
       /\ \/ \E sid \in ScopeIds, ts \in {{Corp, Block}, {Site}} :
                createScope("u1", sid, "active", 0, 1, sid = 1, ts)
          \/ \E key \in {"domain_asset_inventory", "web_exposure_baseline"}, sid \in {0, 1} :
                createBlueprintTemplates("u1", sid, key)
          \/ CreateBlueprintTaskTemplates \/ WebAssetFound(Target("domain", "www"))
          \/ planRuns[1].status = "none" /\ updateTemplate("u1", 1)
          \/ UpdateTaskTemplate("dns", {Target("domain", "corp")}, FALSE)
          \/ RunIt \/ OwnershipChanges({"corp"}) \/ ActivePolicyChanges(PolicyOn)

-----------------------------------------------------------------------------
(* Engine settings and the engine's project.                               *)

Patch(values, clear) == [values |-> values, clear |-> clear]
MCPatches == {Patch([passive_url |-> "p2"], {}), Patch([fofa_key |-> "k1"], {}),
              Patch([active_url |-> "a1", active_keys |-> "s1", active_enabled |-> "true"], {}),
              Patch([fofa_enabled |-> ""], {"fofa_key"})}
MCRunKind == [r \in EngineRuns |-> IF r = 1 THEN "passive_intel" ELSE "org_intel"]
MCEngineRole == [a \in EngineAdmins |-> "system_admin"]

EnginesMove ==
    \/ /\ part = "settings"
       /\ \/ SettingsSteps("x") \/ CheckSteps("x")
          \/ Save("y") \/ UpdateConfiguration("y", Latest, Patch([fofa_key |-> "k1"], {}))
    \/ /\ part = "binding"
       /\ \/ SettingsSteps("x")
          \/ \E r \in EngineRuns : RunSteps(r)
    \/ /\ part = "resolve"
       /\ (\E w \in Resolvers : ResolveSteps(w)) \/ LegacyCreationArrives

-----------------------------------------------------------------------------
(* Network enrichment.                                                     *)

Page(host, prints) == [host |-> host, prints |-> prints]
MCContents == {Page("h1", {"cloudflare"}), Page("ip", {}), Page("invalid", {})}
MCEnrichVersion == [o \in Observations |-> o]
Later(c) == CASE c = Page("h1", {"cloudflare"}) -> {Page("ip", {})}
              [] c = Page("ip", {}) -> {Page("invalid", {}), NoContent}
              [] OTHER -> {}

EnrichmentMove ==
    \/ \E w \in EnrichWorkers : EnricherStep(w)
    \/ RetryNetworkEnrichment \/ (usable /\ UsableChanges)
    \/ \E o \in Observations :
          LeaseRunsOut(o) \/ BecomesDue(o) \/ \E c \in Later(sites[o]) : SiteChanges(o, c)

-----------------------------------------------------------------------------
(* The executors of the passive engine.                                    *)

Name(n, form, legal) == [name |-> n, form |-> form, legal |-> legal]
Record(section, n, legal, holder, domains) ==
    [section |-> section, name |-> n, legal |-> legal, holder |-> holder, domains |-> domains]
Answer(ips, cnames) == [ips |-> ips, cnames |-> cnames]
MCScanTargets == <<"r">>
MCWithin == [n \in {"a.r", "b.r", "c.r", "r", "x"} |-> IF n = "x" THEN {} ELSE {"r"}]
MCZoneOf == [n \in {"a.r", "b.r", "c.r"} |-> "r"]
MCOffer == [fofa |-> {Name("a.r", "plain", TRUE), Name("x", "plain", TRUE)},
            subfinder |-> {Name("a.r", "dotted", TRUE), Name("b.r", "plain", TRUE),
                           Name("b.r", "junk", FALSE)}]
MCSitesOf == [fofa |-> {"a.r", "c.r", "r"}, subfinder |-> {}]
MCDNSRecord == [n \in {"r", "a.r", "b.r"} |->
                  CASE n = "a.r" -> Answer({"i1"}, {})
                    [] n = "b.r" -> Answer({"i1", "i2"}, {"c.r", "x"})
                    [] OTHER -> Answer({}, {})]
MCWildcardOf == [z \in {"r"} |-> Answer({"i1"}, {})]
MCCompanies == <<"k", "", "l">>
MCCompanyRecords ==
    [k |-> <<Record("enterprise", "s", TRUE, "", {}), Record("enterprise", "", TRUE, "", {}),
             Record("enterprise", "s", TRUE, "", {}), Record("app", "h", TRUE, "", {}),
             Record("icp", "f", TRUE, "", {"f.r"}), Record("icp", "g", FALSE, "", {}),
             Record("icp", "f", TRUE, "t", {"g.r"})>>,
     l |-> <<Record("enterprise", "l", TRUE, "", {}), Record("enterprise", "s", TRUE, "", {}),
             Record("enterprise", "u", TRUE, "", {}),
             Record("icp", "m", TRUE, "", {}), Record("icp", "n", TRUE, "t", {}),
             Record("icp", "o", TRUE, "u", {"o.r"})>>]
MCWanted == {{"auto"}, {"fofa", "hunter"}, {"aqc"}}

-----------------------------------------------------------------------------
(* The command line.                                                       *)

MCTargetList == [r1 |-> <<"x.1", "x.2", "c">>, r2 |-> <<"?">>, r3 |-> <<"d">>]
MCKindOf == [t \in {"x.1", "x.2", "c", "d", "?"} |->
               CASE t \in {"x.1", "x.2"} -> "ip" [] t = "c" -> "cidr"
                 [] t = "d" -> "domain" [] OTHER -> "unknown"]
MCBlockAddresses == [c |-> <<"y.1", "y.2">>]
MCNamesFrom == [esd |-> {"n1", "n2"}, space |-> {"n3"}]
MCAddressesOf == [n \in {"n1", "n2", "n3", "n4"} |->
                    CASE n = "n1" -> {"z.1", "lo"} [] n = "n4" -> {"z.1", "z.2"} [] OTHER -> {"z.1"}]
MCFrontOf == [n \in {"n1", "n2", "n3", "n4"} |->
                CASE n = "n2" -> "waf" [] n = "n3" -> "cdn" [] OTHER -> "none"]
CliMove ==
    /\ CliNext
    /\ IF part = "list" THEN cli'.req \in {"", "r1", "r2"}
       ELSE cli'.req \in {"", "r3"} /\ cli'.slots = 1 /\ kills' <= 1

MCNetOf == [a \in {"z.1", "z.2", "lo", "z.3"} |-> IF a = "lo" THEN "lo" ELSE "z"]

-----------------------------------------------------------------------------
(* What a part does not use starts in one state. *)
DiscoveryInit ==
    /\ part \in Parts
    /\ AssetInit /\ ScopesInit /\ EnginesInit /\ EnrichmentInit /\ ActiveInit /\ ExecutorInit
    /\ CliInit
    /\ activePolicy = IF part = "blueprint" THEN PolicyOwned ELSE PolicyOn
    /\ part # "resolve" => binding = NoBinding
    /\ \A o \in Observations : sites[o] = Page("h1", {"cloudflare"})
    /\ part # "active" => activeRun.kind = "web_probe"
    /\ part # "execute" => job.kind = "dns" /\ job.wanted = {"auto"}

DiscoveryNext ==
    /\ UNCHANGED part
    /\ \/ /\ part \in AssetParts /\ AssetsMove(part)
          /\ UNCHANGED <<scopesVars, enginesVars, enrichmentVars, activeVars, executorVars, cliVars>>
       \/ /\ part \in ScopeParts /\ ScopesMove
          /\ UNCHANGED <<assetVars, enginesVars, enrichmentVars, activeVars, executorVars, cliVars>>
       \/ /\ part \in EngineParts /\ EnginesMove
          /\ UNCHANGED <<assetVars, scopesVars, enrichmentVars, activeVars, executorVars, cliVars>>
       \/ /\ part = "enrich" /\ EnrichmentMove
          /\ UNCHANGED <<assetVars, scopesVars, enginesVars, activeVars, executorVars, cliVars>>
       \/ /\ part = "active" /\ ActiveNext
          /\ UNCHANGED <<assetVars, scopesVars, enginesVars, enrichmentVars, executorVars, cliVars>>
       \/ /\ part = "execute" /\ ExecutorNext
          /\ UNCHANGED <<assetVars, scopesVars, enginesVars, enrichmentVars, activeVars, cliVars>>
       \/ /\ part \in {"list", "domain"} /\ CliMove
          /\ UNCHANGED <<assetVars, scopesVars, enginesVars, enrichmentVars, activeVars,
                         executorVars>>

DiscoverySpec == DiscoveryInit /\ [][DiscoveryNext]_discoveryVars

-----------------------------------------------------------------------------
(* Every variable of every service has its type.                           *)
DiscoveryTypeOK ==
    /\ AssetTypeOK /\ ScopesTypeOK /\ EnginesTypeOK /\ EnrichmentTypeOK
    /\ ActiveTypeOK /\ ExecutorTypeOK /\ CliTypeOK

(* The engine's own reports can be relied on: what an execution sends is   *)
(* ingestible and a success whole (Execute), and a command line that is    *)
(* killed resumes after exactly what is done and on disk (Run).            *)
ReportsCorrect == ExecutionReports /\ ScanResumes

(* What a step that read earlier may not undo: a saved edit of the engine  *)
(* settings (Save), and the hit that starts the misses of an asset anew    *)
(* (CloseRun).                                                             *)
NothingUndone == [][EditsBuildOnEachOther /\ InactiveAfterMisses]_discoveryVars

=============================================================================
