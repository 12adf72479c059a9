----------------------------- MODULE Executors -----------------------------
(***************************************************************************)
(* One execution of a Baiyan job (engines/baiyan/internal/capability): the *)
(* router, the passive executor (sources in goroutines that publish on a   *)
(* bounded channel, one collector, then DNS with wildcard detection) and   *)
(* the enterprise lookup.  Checkpoints and delivery are EngineJob's; here  *)
(* a batch is what it says: the assets it reports and the pairs it relates.*)
(***************************************************************************)
EXTENDS Integers, FiniteSets, SequencesExt

CONSTANTS ScanKinds,              \* job types submitted
          ScanTargets,            \* the request's targets, in order
          Within,                 \* a name -> the targets it lies in
          ZoneOf,                 \* a name -> its parent zone, "" for none
          ScanSources,            \* the configured sources
          StreamSources,          \* those that publish as they find
          Wanted,                 \* sources the request may ask for
          Offer,                  \* a source -> the raw names it may return
          SitesOf,                \* a source -> the names it crawled a site of
          DNSRecord,              \* a name -> its addresses and aliases
          WildcardOf,             \* a zone -> what any name in it resolves to
          Edges,                  \* addresses and aliases of a known CDN
          DNSTypes,               \* record types a DNS job asks for
          SubdomainTargets,       \* a DNS request's targets of that type
          MaxHosts, FlushSize, ChunkSize, ChannelSize, Slots,
          Companies,              \* an enterprise request's targets, in order
          CompanyRecords,         \* a company -> the rows the registry has
          MaxOrgs, MaxFilings

(* Requests and answers are finite, and every limit of a batch or a chunk  *)
(* lets something through.                                                 *)
ASSUME ExecutorAssumption ==
  /\ ScanTargets \in Seq(ToSet(ScanTargets))
  /\ IsFiniteSet(ScanSources) /\ \A w \in Wanted : IsFiniteSet(w)
  /\ \A s \in ScanSources : IsFiniteSet(Offer[s])
  /\ Companies \in Seq(ToSet(Companies))
  /\ \A c \in ToSet(Companies) \ {""} : CompanyRecords[c] \in Seq(ToSet(CompanyRecords[c]))
  /\ {MaxHosts, ChannelSize} \subseteq Nat
  /\ {FlushSize, ChunkSize, MaxOrgs} \subseteq Nat \ {0}

VARIABLES job,        \* the executing goroutine
          sources,    \* the sources of the target at hand
          events,     \* the channel between them
          ctxDone,    \* the execution's context is cancelled
          sent,       \* natural keys of the assets reported
          dangling,   \* relations with an end that was not reported
          published,  \* history: names sources put on the channel
          answered    \* history: <<target, source>> that ended without error

executorVars == <<job, sources, events, ctxDone, sent, dangling, published, answered>>

----------------------------------------------------------------------------
(* Names and options.                                                      *)

(* Lower case and no trailing dot: raw spellings of a name are one name. *)
normalizeDomain(raw) == IF raw.legal THEN raw.name ELSE ""

withinRoot(host, root) == host = root \/ (host \in DOMAIN Within /\ root \in Within[host])

Roots == {ScanTargets[i] : i \in DOMAIN ScanTargets}

matchingRoot(host) == \E r \in Roots : withinRoot(host, r)

parentZone(host) == IF host \in DOMAIN ZoneOf THEN ZoneOf[host] ELSE ""

(* "auto", alone or among others, and no choice at all are every           *)
(* configured source; "engine" stands for there being none.                *)
requestedProviderSources ==
  LET named == IF job.wanted = {} \/ "auto" \in job.wanted THEN ScanSources ELSE job.wanted
  IN  IF named = {} THEN {"engine"} ELSE named

enscanSources == {"aqc", "tyc", "kc", "rb", "tycapi", "miit"}

requestedEnscanSources == IF job.wanted = {} THEN {"aqc"} ELSE job.wanted

(* Only a DNS job takes subdomains as targets. *)
TargetKind(target) == IF job.kind = "dns" /\ target \in SubdomainTargets THEN "subdomain" ELSE "domain"

Asset(kind, value) == <<kind, value>>

Batch(assets, relations) == [assets |-> assets, relations |-> relations]

----------------------------------------------------------------------------
(* Sending.                                                                *)

Prefix(bs, k) == UNION {bs[i].assets : i \in 1..k}

(* What a batch relates must be in it or in one before it. *)
Unreported(bs, k) ==
  UNION {{r \in bs[i].relations : ~({r[1], r[2]} \subseteq sent \cup Prefix(bs, i))} : i \in 1..k}

(* Batches go out one by one; the first that fails ends the execution, and *)
(* its deferred cancel stops the sources.                                  *)
SendAll(bs, next) ==
  \/ /\ ~ctxDone
     /\ sent' = sent \cup Prefix(bs, Len(bs))
     /\ dangling' = dangling \cup Unreported(bs, Len(bs))
     /\ job' = next /\ UNCHANGED ctxDone
  \/ \E k \in 0..(Len(bs) - 1) :
       /\ sent' = sent \cup Prefix(bs, k)
       /\ dangling' = dangling \cup Unreported(bs, k)
       /\ job' = [job EXCEPT !.pc = "stopped"] /\ ctxDone' = TRUE

----------------------------------------------------------------------------
(* Starting.                                                               *)

NewScan == [pc |-> "start", kind |-> "", wanted |-> {}, at |-> 0, hosts |-> {}, seen |-> {},
            errs |-> {}, todo |-> <<>>, wild |-> {}, failed |-> FALSE, resolved |-> {},
            looked |-> 0, orgs |-> <<>>, filings |-> {}, domains |-> {}, status |-> "running"]

NoSource == [pc |-> "none", left |-> {}, err |-> FALSE]

ExecutorInit ==
  /\ \E k \in ScanKinds, w \in Wanted : job = [NewScan EXCEPT !.kind = k, !.wanted = w]
  /\ sources = [s \in ScanSources |-> NoSource] /\ events = <<>>
  /\ ctxDone = FALSE /\ sent = {} /\ dangling = {} /\ published = {} /\ answered = {}

(* Execute: the first batch, and an error for every requested source that  *)
(* is not configured.                                                      *)
StartScan ==
  LET missing == IF job.kind = "passive_intel" THEN requestedProviderSources \ ScanSources ELSE {}
  IN  /\ job.pc = "start" /\ job.kind \in {"passive_intel", "dns"}
      /\ SendAll(<<Batch({}, {})>> \o [i \in 1..Cardinality(missing) |-> Batch({}, {})],
                 [job EXCEPT !.pc = "next", !.errs = {<<s, "PROVIDER_NOT_CONFIGURED">> : s \in missing}])
      /\ UNCHANGED <<sources, events, published, answered>>

(* Router.Execute: what is not registered is refused. *)
Route ==
  /\ job.pc = "start" /\ job.kind \notin {"passive_intel", "dns", "org_intel"}
  /\ job' = [job EXCEPT !.pc = "stopped"] /\ ctxDone' = TRUE
  /\ UNCHANGED <<sources, events, sent, dangling, published, answered>>

(* The next target is reported; a DNS job collects it, a passive one       *)
(* starts its sources.                                                     *)
NextTarget ==
  LET root == ScanTargets[job.at + 1]
      next == [job EXCEPT !.at = @ + 1, !.seen = {}]
  IN  /\ job.pc = "next" /\ job.at < Len(ScanTargets)
      /\ SendAll(<<Batch({Asset(TargetKind(root), root)}, {})>>,
                 IF job.kind = "dns" THEN [next EXCEPT !.hosts = @ \cup {root}]
                 ELSE [next EXCEPT !.pc = "collect"])
      /\ sources' = IF job'.pc # "collect" THEN sources
                    ELSE [s \in ScanSources |-> IF s \in requestedProviderSources
                                                THEN [NoSource EXCEPT !.pc = "queued", !.left = Offer[s]]
                                                ELSE NoSource]
      /\ UNCHANGED <<events, published, answered>>

----------------------------------------------------------------------------
(* A source's goroutine.                                                   *)

Root == ScanTargets[job.at]

Busy == {s \in ScanSources : sources[s].pc \in {"slot", "running", "ending"}}

NoEvent(s) == [source |-> s, found |-> {}, sites |-> {}, started |-> FALSE, done |-> FALSE, err |-> FALSE]

Publish(e) == Len(events) < ChannelSize /\ events' = Append(events, e)

SetSource(s, v) == sources' = [sources EXCEPT ![s] = v]

TakeSlot(s) ==
  /\ sources[s].pc = "queued" /\ Cardinality(Busy) < Slots
  /\ SetSource(s, [sources[s] EXCEPT !.pc = "slot"])
  /\ UNCHANGED <<job, events, ctxDone, sent, dangling, published, answered>>

PublishStart(s) ==
  /\ sources[s].pc = "slot"
  /\ Publish([NoEvent(s) EXCEPT !.started = TRUE])
  /\ SetSource(s, [sources[s] EXCEPT !.pc = "running"])
  /\ UNCHANGED <<job, ctxDone, sent, dangling, published, answered>>

(* Discover, DiscoverSites or DiscoverStream: what was found is published  *)
(* even when the source then fails.                                        *)
Discover(s, found) ==
  LET stream == s \in StreamSources
      names  == {normalizeDomain(r) : r \in found}
  IN  /\ sources[s].pc = "running" /\ found \subseteq sources[s].left
      /\ found # {} \/ (~stream /\ SitesOf[s] # {})
      /\ Publish([NoEvent(s) EXCEPT !.found = found, !.sites = IF stream THEN {} ELSE SitesOf[s]])
      /\ published' = published \cup {<<Root, n>> : n \in names}
      /\ \E err \in BOOLEAN :
           SetSource(s, IF stream THEN [sources[s] EXCEPT !.left = @ \ found]
                        ELSE [pc |-> "ending", left |-> {}, err |-> err])
      /\ UNCHANGED <<job, ctxDone, sent, dangling, answered>>

(* The search ends, well or with an error or at its time limit. *)
SearchEnds(s, err) ==
  /\ sources[s].pc = "running"
  /\ SetSource(s, [pc |-> "ending", left |-> {}, err |-> err])
  /\ UNCHANGED <<job, events, ctxDone, sent, dangling, published, answered>>

PublishEnd(s) ==
  LET err == sources[s].err
  IN  /\ sources[s].pc = "ending"
      /\ Publish([NoEvent(s) EXCEPT !.done = TRUE, !.err = err])
      /\ SetSource(s, [NoSource EXCEPT !.pc = "gone"])
      /\ answered' = IF err THEN answered ELSE answered \cup {<<Root, s>>}
      /\ UNCHANGED <<job, ctxDone, sent, dangling, published>>

(* Every wait of a source also watches the context. *)
SourceStops(s) ==
  /\ ctxDone /\ sources[s].pc \notin {"none", "gone"}
  /\ SetSource(s, [NoSource EXCEPT !.pc = "gone"])
  /\ UNCHANGED <<job, events, ctxDone, sent, dangling, published, answered>>

----------------------------------------------------------------------------
(* The collector.                                                          *)

(* Names of the target this source has not reported, that fit the limit. *)
Accepted(e, taken) ==
  LET names == {normalizeDomain(r) : r \in e.found} \ {"", Root}
      fresh == {n \in names : withinRoot(n, Root) /\ <<e.source, n>> \notin job.seen}
      room  == MaxHosts - Cardinality(job.hosts)
      new   == fresh \ job.hosts
  IN  /\ taken \subseteq fresh /\ fresh \cap job.hosts \subseteq taken
      /\ Cardinality(taken \ job.hosts) = IF Cardinality(new) <= room THEN Cardinality(new) ELSE room

Chunks(set, size) ==
  LET s == SetToSeq(set)
      n == (Len(s) + size - 1) \div size
  IN  [i \in 1..n |-> {s[j] : j \in ((i - 1) * size + 1)..(IF i * size < Len(s) THEN i * size ELSE Len(s))}]

HostBatch(names) == Batch({Asset("subdomain", n) : n \in names},
                          {<<Asset("domain", Root), Asset("subdomain", n)>> : n \in names})

(* Mutant: a crawled site brings its host into the run. *)
SitesOfAnyHost(e, hosts) ==
  LET ok == {n \in e.sites : withinRoot(n, Root)}
      key(n) == IF n = Root THEN Asset("domain", n) ELSE Asset("subdomain", n)
  IN  Batch({Asset("web", n) : n \in ok}, {<<key(n), Asset("web", n)>> : n \in ok})

(* Only sites on the target itself and on hosts the job accepted. *)
siteFacts(e, hosts) ==
  LET ok == {n \in e.sites : n = Root \/ (n \in hosts /\ withinRoot(n, Root))}
      key(n) == IF n = Root THEN Asset("domain", n) ELSE Asset("subdomain", n)
  IN  Batch({Asset("web", n) : n \in ok}, {<<key(n), Asset("web", n)>> : n \in ok})

(* A source that failed is an error of the run, whatever it had found. *)
SourceFailed(e, seen) == e.done /\ e.err

(* One event: hosts in batches, then sites, then the source's progress. *)
Collect ==
  LET e == Head(events)
  IN  /\ job.pc = "collect" /\ events # <<>>
      /\ \E taken \in SUBSET {normalizeDomain(r) : r \in e.found} :
           LET hosts == job.hosts \cup taken
               seen  == job.seen \cup {<<e.source, n>> : n \in taken}
               bs    == [i \in DOMAIN Chunks(taken, FlushSize) |-> HostBatch(Chunks(taken, FlushSize)[i])]
                        \o (IF siteFacts(e, hosts).assets = {} THEN <<>> ELSE <<siteFacts(e, hosts)>>)
                        \o (IF e.started \/ e.done THEN <<Batch({}, {})>> ELSE <<>>)
           IN  /\ Accepted(e, taken)
               /\ SendAll(bs, [job EXCEPT !.hosts = hosts, !.seen = seen,
                                 !.errs = IF SourceFailed(e, seen) THEN @ \cup {<<e.source, "PROVIDER_UNAVAILABLE">>} ELSE @])
      /\ events' = Tail(events)
      /\ UNCHANGED <<sources, published, answered>>

(* The context ends the loop, also when an event is waiting. *)
Stop ==
  /\ ctxDone /\ job.pc \notin {"done", "stopped"}
  /\ job' = [job EXCEPT !.pc = "stopped"]
  /\ UNCHANGED <<sources, events, ctxDone, sent, dangling, published, answered>>

(* The heartbeat's batch fails. *)
HeartbeatFails ==
  /\ job.pc = "collect"
  /\ job' = [job EXCEPT !.pc = "stopped"] /\ ctxDone' = TRUE
  /\ UNCHANGED <<sources, events, sent, dangling, published, answered>>

(* The channel is closed once every source has returned. *)
TargetDone ==
  /\ job.pc = "collect" /\ events = <<>>
  /\ \A s \in ScanSources : sources[s].pc \in {"none", "gone"}
  /\ job' = [job EXCEPT !.pc = "next"]
  /\ UNCHANGED <<sources, events, ctxDone, sent, dangling, published, answered>>

----------------------------------------------------------------------------
(* DNS.                                                                    *)

Zones == {parentZone(h) : h \in job.hosts} \ {""}

(* Zones in the targets where every random name resolved; a zone whose     *)
(* probes failed is not filtered.                                          *)
detectWildcards(found) ==
  found \subseteq {z \in Zones : matchingRoot(z) /\ z \in DOMAIN WildcardOf}

BeginDNS(found) ==
  /\ job.pc = "next" /\ job.at = Len(ScanTargets) /\ ~ctxDone
  /\ detectWildcards(found)
  /\ job' = [job EXCEPT !.pc = "dns", !.todo = SetToSeq(job.hosts), !.wild = found]
  /\ UNCHANGED <<sources, events, ctxDone, sent, dangling, published, answered>>

(* Every address, or with no address every alias, is the wildcard's. *)
matchesWildcard(zone, r) ==
  IF r.ips # {} THEN r.ips \subseteq WildcardOf[zone].ips
  ELSE r.cnames # {} /\ r.cnames \subseteq WildcardOf[zone].cnames

(* The alias judgement: a name outside the targets that belongs to a CDN. *)
hostAttribution(r) == \E c \in r.cnames : ~matchingRoot(c) /\ c \in Edges

(* An address is marked as an edge by its range or by its host's aliases. *)
addressAttribution(ip, edge) == IF ip \in Edges \/ edge THEN {Asset("cdn_edge", ip)} ELSE {}

requestedDNSRecordTypes == IF job.kind = "dns" THEN DNSTypes ELSE {"A", "CNAME"}

HostKey(h) == IF h \in Roots /\ job.kind = "dns" THEN Asset(TargetKind(h), h) ELSE Asset("subdomain", h)

(* The facts of one answered name; a name that only the wildcard answers   *)
(* gets no address.                                                        *)
AnswerBatch(h) ==
  LET r    == DNSRecord[h]
      zone == parentZone(h)
      ips  == IF "A" \in requestedDNSRecordTypes THEN r.ips ELSE {}
      own  == IF "CNAME" \in requestedDNSRecordTypes THEN {c \in r.cnames : matchingRoot(c)} ELSE {}
      to   == {Asset("ip", i) : i \in ips} \cup {Asset("subdomain", c) : c \in own}
  IN  IF zone \in job.wild /\ matchesWildcard(zone, r) THEN Batch({HostKey(h)}, {})
      ELSE Batch({HostKey(h)} \cup to \cup UNION {addressAttribution(i, hostAttribution(r)) : i \in ips},
                 {<<HostKey(h), a>> : a \in to})

(* One chunk: some names fail (their assets are known already), or the     *)
(* resolver drops some and says only that it failed.                       *)
ResolveChunk(ok, error) ==
  LET n     == IF Len(job.todo) < ChunkSize THEN Len(job.todo) ELSE ChunkSize
      chunk == {job.todo[i] : i \in 1..n}
      all   == Batch(UNION {AnswerBatch(h).assets : h \in ok}, UNION {AnswerBatch(h).relations : h \in ok})
  IN  /\ job.pc = "dns" /\ job.todo # <<>>
      /\ ok \subseteq chunk /\ (ok # chunk => error)
      /\ SendAll(<<Batch({}, {}), all, Batch({}, {})>>,
                 [job EXCEPT !.todo = SubSeq(@, n + 1, Len(@)), !.failed = @ \/ error,
                              !.resolved = @ \cup ok])
      /\ UNCHANGED <<sources, events, published, answered>>

(* What an enterprise lookup found: an organization refers to the company  *)
(* it was found for, a filing to its holder.                               *)
ParentOf(o) == <<Asset("org", o.name), Asset("org", o.parent)>>

HolderOf(f) == <<Asset("filing", f.no), Asset("org", f.holder)>>

OrgBatch ==
  Batch({Asset("org", o.name) : o \in ToSet(job.orgs)} \cup {Asset("filing", f.no) : f \in job.filings}
          \cup {Asset("domain", d) : d \in job.domains},
        {ParentOf(o) : o \in {x \in ToSet(job.orgs) : x.parent # ""}} \cup {HolderOf(f) : f \in job.filings})

(* The last batch says whether everything answered. *)
Completed ==
  LET errs   == job.errs \cup (IF job.failed THEN {<<"dns", "DNS_PARTIAL_FAILURE">>} ELSE {})
      status == IF errs = {} THEN "success" ELSE "partial_success"
  IN  /\ \/ job.pc = "dns" /\ job.todo = <<>>
         \/ job.pc = "org" /\ job.looked = Len(Companies)
      /\ SendAll(<<OrgBatch>>, [job EXCEPT !.pc = "done", !.errs = errs, !.status = status])
      /\ UNCHANGED <<sources, events, published, answered>>

----------------------------------------------------------------------------
(* Enterprise lookup.                                                      *)

(* An engine without the tool says so (it is no empty success); a source   *)
(* that is not on the list is refused.                                     *)
StartOrg(available) ==
  /\ job.pc = "start" /\ job.kind = "org_intel"
  /\ SendAll(<<Batch({}, {})>>,
             IF ~available THEN [job EXCEPT !.pc = "org", !.looked = Len(Companies),
                                             !.errs = {<<"enscan", "PROVIDER_NOT_CONFIGURED">>}]
             ELSE [job EXCEPT !.pc = IF requestedEnscanSources \subseteq enscanSources THEN "org" ELSE "stopped"])
  /\ UNCHANGED <<sources, events, published, answered>>

(* Of the rows in idx the first of each name, up to a limit. *)
Kept(rows, idx, limit) ==
  LET first == {i \in idx : \A j \in idx : rows[j].name = rows[i].name => i <= j}
  IN  {i \in first : Cardinality({j \in first : j < i}) < limit}

(* The rows that name an organization, beside the company itself. *)
collectOrganization(company) ==
  LET rows == CompanyRecords[company]
  IN  Kept(rows, {i \in DOMAIN rows : rows[i].section = "enterprise" /\ rows[i].name \notin {"", company}},
           MaxOrgs - 1)

(* The rows with a filing number that reads as one. *)
collectFiling(company) ==
  LET rows == CompanyRecords[company]
  IN  Kept(rows, {i \in DOMAIN rows : rows[i].section = "icp" /\ rows[i].legal}, MaxFilings)

Nth(S, n) == CHOOSE i \in S : Cardinality({j \in S : j < i}) = n - 1

(* The company itself comes from the request and is the first organization; *)
(* a filing is the holder's whom its row names, or else the company's.     *)
parseOutputDir(company) ==
  LET rows   == CompanyRecords[company]
      found  == collectOrganization(company)
      filed  == collectFiling(company)
      holder(i) == IF rows[i].holder = "" THEN company ELSE rows[i].holder
  IN  [orgs    |-> <<[name |-> company, parent |-> ""]>>
                   \o [n \in 1..Cardinality(found) |-> [name |-> rows[Nth(found, n)].name, parent |-> company]],
       filings |-> {[no |-> rows[i].name, holder |-> holder(i)] : i \in filed},
       domains |-> UNION {rows[i].domains : i \in filed}]

(* Mutant: of too many organizations the newest are kept. *)
CutFirst(orgs) == SubSeq(orgs, Len(orgs) - MaxOrgs + 1, Len(orgs))

(* The organizations of a run are cut at the limit. *)
CutLast(orgs) == SubSeq(orgs, 1, MaxOrgs)

(* A target without a name is passed over. *)
SkipCompany ==
  /\ job.pc = "org" /\ job.looked < Len(Companies) /\ Companies[job.looked + 1] = ""
  /\ job' = [job EXCEPT !.looked = @ + 1]
  /\ UNCHANGED <<sources, events, ctxDone, sent, dangling, published, answered>>

(* A company whose lookup fails is an error and does not end the run.      *)
(* Once there are too many organizations no further company is looked up.  *)
collectForCompany(code) ==
  LET out  == parseOutputDir(Companies[job.looked + 1])
      orgs == job.orgs \o out.orgs
      full == Len(orgs) >= MaxOrgs
  IN  /\ job.pc = "org" /\ job.looked < Len(Companies) /\ Companies[job.looked + 1] # "" /\ ~ctxDone
      /\ job' = IF code # "" THEN [job EXCEPT !.looked = @ + 1, !.errs = @ \cup {<<"enscan", code>>}]
                 ELSE [job EXCEPT !.looked = IF full THEN Len(Companies) ELSE @ + 1,
                                   !.orgs = IF full THEN CutLast(orgs) ELSE orgs,
                                   !.filings = @ \cup out.filings, !.domains = @ \cup out.domains]
      /\ UNCHANGED <<sources, events, ctxDone, sent, dangling, published, answered>>

----------------------------------------------------------------------------

(* The job is cancelled, or its time is up. *)
CancelScan ==
  /\ ~ctxDone /\ job.pc \notin {"done", "stopped"}
  /\ ctxDone' = TRUE
  /\ UNCHANGED <<job, sources, events, sent, dangling, published, answered>>

SourceStep(s) ==
  \/ TakeSlot(s) \/ PublishStart(s) \/ PublishEnd(s) \/ SourceStops(s)
  \/ \E found \in SUBSET Offer[s] : Discover(s, found)
  \/ \E err \in BOOLEAN : SearchEnds(s, err)

ScanStep ==
  \/ StartScan \/ Route \/ NextTarget \/ Collect \/ Stop \/ HeartbeatFails \/ TargetDone \/ Completed
  \/ SkipCompany
  \/ \E found \in SUBSET DOMAIN WildcardOf : BeginDNS(found)
  \/ \E ok \in SUBSET job.hosts, error \in BOOLEAN : ResolveChunk(ok, error)
  \/ \E available \in BOOLEAN : StartOrg(available)
  \/ \E code \in {"", "PROVIDER_TIMEOUT", "PROVIDER_UNAVAILABLE"} : collectForCompany(code)

ExecutorNext == ScanStep \/ CancelScan \/ \E s \in ScanSources : SourceStep(s)

ExecutorSpec == ExecutorInit /\ [][ExecutorNext]_executorVars

----------------------------------------------------------------------------
(* Properties.                                                             *)

(* Every variable has its type; the host table and the channel keep to     *)
(* their limits.                                                           *)
ExecutorTypeOK ==
  /\ job.pc \in {"start", "next", "collect", "dns", "org", "done", "stopped"}
  /\ job.status \in {"running", "success", "partial_success"}
  /\ job.kind = "passive_intel" => Cardinality(job.hosts) <= MaxHosts
  /\ Len(events) <= ChannelSize
  /\ Len(job.orgs) <= MaxOrgs
  /\ \A s \in ScanSources : sources[s].pc \in {"none", "queued", "slot", "running", "ending", "gone"}

(* A filing whose row names its holder. *)
NamedHolder(r) ==
  \E c \in ToSet(Companies) \ {""} : \E row \in ToSet(CompanyRecords[c]) :
    row.holder # "" /\ r = HolderOf([no |-> row.name, holder |-> row.holder])

(* What a batch relates was reported with it or before it, so that the     *)
(* platform, which resolves the references of a batch among its own assets *)
(* and those of the project, can take it: a site's host, a host's target,  *)
(* an address's name, the company an organization was found for and the    *)
(* company a filing falls to, whatever was cut or left out (Execute,       *)
(* siteFacts, parseOutputDir).  Only the holder a filing's row names need  *)
(* not be among what is reported, although parseOutputDir says that "a     *)
(* filing always has an organization to hang off".                         *)
ReferencesReported == \A r \in dangling : NamedHolder(r)

(* A run that ends as a success has had an answer of every source it asked *)
(* for every target and of DNS for every host, and has reported every name *)
(* of a target that some source published, up to the limit: no event left  *)
(* on the channel, no error that a partial result hides (Execute).         *)
SuccessMeansComplete ==
  job.status = "success" /\ job.kind = "passive_intel" =>
    /\ Roots \X requestedProviderSources \subseteq answered
    /\ job.hosts \subseteq job.resolved
    /\ \A p \in published :
         p[2] \in {"", p[1]} \/ ~withinRoot(p[2], p[1]) \/ Asset("subdomain", p[2]) \in sent
           \/ Cardinality(job.hosts) >= MaxHosts

(* What an execution reports can be ingested and is what it claims. *)
ExecutionReports == ReferencesReported /\ SuccessMeansComplete

=============================================================================
