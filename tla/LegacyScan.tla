----------------------------- MODULE LegacyScan -----------------------------
(***************************************************************************)
(* The Baiyan command line (engines/baiyan/internal/baiyan/app.go): one    *)
(* process works through a list of domains, blocks and addresses, appends  *)
(* what it finds to text files and saves a checkpoint; killed and started  *)
(* again with the same request it goes on from there.                      *)
(*                                                                         *)
(* A scan, the append of its lines and the checkpoint after it are steps   *)
(* of their own, and the process may be killed between any two.  AddMany   *)
(* and the append behind it are one step: both are lost or neither.  The   *)
(* urls a scan finds are one value, <<host, address>>.  What is probed and *)
(* how is left out; a scan finds its url or nothing, for whatever reason.  *)
(***************************************************************************)
EXTENDS Naturals, FiniteSets, SequencesExt


CONSTANTS CliRequests,      \* targets file, its content and --fast
          TargetList,       \* a request -> its targets, without repetition
          KindOf,           \* a target -> domain, cidr, ip or unknown
          BlockAddresses,   \* a block -> its addresses, in order
          SubSources,       \* subfinder, oneforall, esd, space engines
          NamesFrom,        \* a source -> the names it knows
          DerivedNames,     \* names that alterx derives and that resolve
          AddressesOf,      \* a name -> the addresses it resolves to
          FrontOf,          \* a name -> none, cdn or waf
          CertAddresses,    \* addresses with a certificate of the domain
          InternalIPs,
          NetOf,            \* an address -> its /24
          MinPerNet,        \* addresses that make a block worth a line, 3
          Concurrencies,    \* values of -mc
          MaxKills          \* how often the process is killed

(* Targets are classified before the walk, and a block lists each of its   *)
(* addresses once.                                                         *)
ASSUME CliAssumption ==
  /\ \A req \in CliRequests : TargetList[req] \in Seq(DOMAIN KindOf)
  /\ \A t \in DOMAIN KindOf :
       /\ KindOf[t] \in {"domain", "cidr", "ip", "unknown"}
       /\ KindOf[t] = "cidr" =>
            /\ BlockAddresses[t] \in Seq(ToSet(BlockAddresses[t]))
            /\ IsInjective(BlockAddresses[t])
  /\ MaxKills \in Nat

VARIABLES cli,      \* the process
          files,    \* its checkpoint and its text files
          scanLog,  \* history since the text files were last cleared
          kills     \* times the process was killed

cliVars == <<cli, files, scanLog, kills>>

Checkpoint(req, idx, phase, all, n) ==
  [req |-> req, idx |-> idx, phase |-> phase, all |-> all, n |-> n]
NoCheckpoint == Checkpoint("", 0, "none", {}, 0)
Unreadable == Checkpoint("", 0, "unreadable", {}, 0)
Readable(cp) == cp.phase \notin {"none", "unreadable"}

NoProcess ==
  [pc |-> "off", req |-> "", slots |-> 1, fresh |-> FALSE,
   idx |-> 1, mid |-> NoCheckpoint,                     \* Run
   subs |-> {}, urls |-> {}, cidrs |-> {},              \* State
   all |-> {}, base |-> {}, waiting |-> {}, prep |-> {}, waf |-> {},
   resolved |-> {}, tasks |-> {}, cert |-> {},          \* processDomainNormal
   ips |-> <<>>, n |-> 0,                               \* processIPBatch, processCIDR
   hand |-> {},                                         \* found, not yet added
   book |-> {}]                                         \* the workbook's urls

NoLog == [attempted |-> {}, scanned |-> {}, overtaken |-> {}, abandoned |-> FALSE]

CliInit ==
  /\ cli = NoProcess
  /\ files = [cp |-> NoCheckpoint, subs |-> {}, urls |-> {}, cidrs |-> {}]
  /\ scanLog = NoLog
  /\ kills = 0

Targets == TargetList[cli.req]
CliTarget == Targets[cli.idx]

canResumeFrom(cp, req) == Readable(cp) /\ cp.req = req

(* Mutant: go on after the target of the checkpoint, whatever its phase. *)
StartAfter(cp) == cp.idx + 1

startIdx(cp) == IF cp.phase = "target_done" THEN cp.idx + 1 ELSE cp.idx

(* The head of Run.  A fresh start clears the text files and leaves the    *)
(* checkpoint it could not use where it is.                                *)
RunCli(req, slots) ==
  /\ cli.pc = "off"
  /\ LET cp == files.cp
         p == [NoProcess EXCEPT !.pc = "target", !.req = req, !.slots = slots]
     IN  IF canResumeFrom(cp, req)
           THEN /\ cli' = [p EXCEPT !.idx = startIdx(cp), !.subs = files.subs,
                             !.urls = files.urls, !.cidrs = files.cidrs,
                             !.mid = IF cp.phase = "target_done" THEN NoCheckpoint ELSE cp]
                /\ UNCHANGED <<files, scanLog>>
           ELSE /\ cli' = [p EXCEPT !.fresh = TRUE]
                /\ files' = [files EXCEPT !.subs = {}, !.urls = {}, !.cidrs = {}]
                /\ scanLog' = [NoLog EXCEPT !.abandoned = Readable(cp)]

(* What saveCheckpoint may leave.  Its error is only logged.  Two saves at *)
(* once write one temporary file, and what is renamed may be neither.      *)
saveCheckpoint(cp, clash) ==
  /\ \E left \in {cp, files.cp} \cup (IF clash THEN {Unreadable} ELSE {}) :
        files' = [files EXCEPT !.cp = left]
  /\ scanLog' = [scanLog EXCEPT
       !.abandoned = @ /\ ~(cli.fresh /\ files'.cp = cp),
       !.overtaken = IF files'.cp # cp THEN @
                     ELSE @ \cup {i \in DOMAIN cli.ips :
                                    i < cp.idx /\ cli.ips[i] \in {"todo", "scan", "add"}}]

addSubdomains(names) ==
  files' = [files EXCEPT !.subs = @ \cup (names \ cli.subs)]

addURLs(urls) ==
  files' = [files EXCEPT !.urls = @ \cup (urls \ cli.urls)]

addCIDRs(found) ==
  files' = [files EXCEPT !.cidrs = @ \cup (found \ cli.cidrs)]

Attempt(i, step) == [scanLog EXCEPT !.attempted = @ \cup {<<i, step>>}]
Found(i, step, url) ==
  [Attempt(i, step) EXCEPT !.scanned = @ \cup {<<i, step, url>>}]

-----------------------------------------------------------------------------
(* The loop of Run.                                                        *)

IPBatch ==
  {i \in cli.idx .. Len(Targets) : \A k \in cli.idx .. i : KindOf[Targets[k]] = "ip"}

(* A domain whose names were collected before goes on with certificates. *)
DomainBegins(p, t) ==
  IF cli.mid.phase = "subdomains_done"
    THEN [p EXCEPT !.pc = "certs", !.all = {t} \cup cli.mid.all,
                   !.subs = @ \cup {t} \cup cli.mid.all]
    ELSE [p EXCEPT !.pc = "names", !.all = {t}, !.base = cli.urls, !.waiting = SubSources]

NextCliTarget ==
  /\ cli.pc = "target" /\ cli.idx <= Len(Targets)
  /\ LET t == CliTarget
         p == [cli EXCEPT !.mid = NoCheckpoint]
     IN  cli' =
           CASE KindOf[t] = "domain" -> DomainBegins(p, t)
             [] KindOf[t] = "cidr" ->
                  [p EXCEPT !.pc = "block", !.n = IF cli.mid.phase = "cidr_scanning"
                                                    THEN cli.mid.n ELSE 0]
             [] KindOf[t] = "ip" -> [p EXCEPT !.pc = "ips", !.ips = [i \in IPBatch |-> "todo"]]
             [] KindOf[t] = "unknown" -> [p EXCEPT !.pc = "done"]
  /\ UNCHANGED <<files, scanLog>>

TargetFinished ==
  /\ cli.pc = "done"
  /\ saveCheckpoint(Checkpoint(cli.req, cli.idx, "target_done", {}, 0), FALSE)
  /\ cli' = [NoProcess EXCEPT !.pc = "target", !.req = cli.req, !.slots = cli.slots,
               !.fresh = cli.fresh, !.idx = cli.idx + 1,
               !.subs = cli.subs, !.urls = cli.urls, !.cidrs = cli.cidrs]

(* A workbook that cannot be written ends the process with its checkpoint. *)
writeWorkbook ==
  /\ cli.pc = "target" /\ cli.idx > Len(Targets)
  /\ cli' \in {[cli EXCEPT !.pc = "written", !.book = cli.urls], NoProcess}
  /\ UNCHANGED <<files, scanLog>>

clearCheckpoint ==
  /\ cli.pc = "written"
  /\ files' = [files EXCEPT !.cp = NoCheckpoint]
  /\ cli' = NoProcess
  /\ UNCHANGED scanLog

(* Whatever was found and not yet appended is lost with the process. *)
Killed ==
  /\ cli.pc # "off" /\ kills < MaxKills
  /\ kills' = kills + 1
  /\ cli' = NoProcess
  /\ scanLog' = [scanLog EXCEPT !.scanned = {s \in @ : s[3] \notin cli.hand}]
  /\ UNCHANGED files

-----------------------------------------------------------------------------
(* A domain: processDomainNormal.                                          *)

SourceReturns(s) ==
  /\ cli.pc = "names" /\ s \in cli.waiting
  /\ \E names \in {NamesFrom[s], {}} :       \* nothing: failed or timed out
       cli' = [cli EXCEPT !.waiting = @ \ {s}, !.all = @ \cup names,
                          !.prep = @ \cup {<<s, name>> : name \in names}]
  /\ UNCHANGED <<files, scanLog>>

(* Once a name of a batch is behind a WAF, the rest of the batch is        *)
(* skipped as far as it has not begun; derived names know no batch.        *)
batchWaf(s) == s \in cli.waf

SkipName(s, name) ==
  /\ <<s, name>> \in cli.prep
  /\ batchWaf(s) \/ AddressesOf[name] = {}
  /\ cli' = [cli EXCEPT !.prep = @ \ {<<s, name>>}]
  /\ UNCHANGED <<files, scanLog>>

(* A name is behind a WAF, behind a CDN and then probed at once, or its    *)
(* new addresses are queued for the scanners.                              *)
scheduleResolved(s, name) ==
  /\ <<s, name>> \in cli.prep /\ ~batchWaf(s) /\ AddressesOf[name] # {}
  /\ LET p == [cli EXCEPT !.prep = @ \ {<<s, name>>}]
         new == (AddressesOf[name] \ InternalIPs) \ cli.resolved
         url == <<name, "cdn">>
     IN  \/ /\ FrontOf[name] = "waf"
            /\ cli' = [p EXCEPT !.waf = @ \cup ({s} \ {"alterx"})]
            /\ UNCHANGED scanLog
         \/ /\ FrontOf[name] = "cdn"
            /\ cli' = [p EXCEPT !.hand = @ \cup {url}]
            /\ scanLog' = [scanLog EXCEPT !.scanned = @ \cup {<<cli.idx, "names", url>>}]
         \/ /\ FrontOf[name] = "cdn" /\ cli' = p /\ UNCHANGED scanLog
         \/ /\ FrontOf[name] = "none"
            /\ cli' = [p EXCEPT !.resolved = @ \cup new,
                                !.tasks = @ \cup {<<name, ip>> : ip \in new}]
            /\ UNCHANGED scanLog
  /\ UNCHANGED files

scanResolvedDomainIP(t) ==
  /\ t \in cli.tasks
  /\ \/ /\ cli' = [cli EXCEPT !.tasks = @ \ {t}, !.hand = @ \cup {t}]
        /\ scanLog' = [scanLog EXCEPT !.scanned = @ \cup {<<cli.idx, "names", t>>}]
     \/ cli' = [cli EXCEPT !.tasks = @ \ {t}] /\ UNCHANGED scanLog
  /\ UNCHANGED files

(* A goroutine adds what it found, during a domain or for a certificate. *)
AddFound(u) ==
  /\ cli.pc \in {"names", "prep", "derive", "certs", "certscan"} /\ u \in cli.hand
  /\ addURLs({u})
  /\ cli' = [cli EXCEPT !.hand = @ \ {u}, !.urls = @ \cup {u}]
  /\ UNCHANGED scanLog

NamesCollected ==
  /\ cli.pc = "names" /\ cli.waiting = {}
  /\ addSubdomains(cli.all)
  /\ cli' = [cli EXCEPT !.pc = "prep", !.subs = @ \cup cli.all]
  /\ UNCHANGED scanLog

PrepDone == cli.prep = {} /\ {u \in cli.hand : u[2] = "cdn"} = {}

alterxDerive == DerivedNames \ cli.all

DeriveNames ==
  /\ cli.pc = "prep" /\ PrepDone
  /\ \E names \in {alterxDerive, {}} :
       /\ addSubdomains(names)
       /\ cli' = [cli EXCEPT !.pc = "derive", !.all = @ \cup names,
                    !.subs = @ \cup names, !.prep = {<<"alterx", x>> : x \in names}]
  /\ UNCHANGED scanLog

probeDerivedPaths(urls) == {<<u[1], "path">> : u \in urls}

(* Paths are probed on the hosts of the urls that are new since the target *)
(* began in this process.                                                  *)
DerivePaths ==
  /\ cli.pc = "derive" /\ PrepDone /\ cli.tasks = {} /\ cli.hand = {}
  /\ \E hits \in {probeDerivedPaths(cli.urls \ cli.base), {}} :
       /\ addURLs(hits)
       /\ cli' = [cli EXCEPT !.pc = "subdomains", !.urls = @ \cup hits]
  /\ scanLog' = Attempt(cli.idx, "names")

SubdomainsDone ==
  /\ cli.pc = "subdomains"
  /\ saveCheckpoint(Checkpoint(cli.req, cli.idx, "subdomains_done", cli.all, 0), FALSE)
  /\ cli' = [cli EXCEPT !.pc = "certs"]

(* Nothing: without --certscan, or when the lookups fail. *)
queryCertIPs == {CertAddresses, {}}

CertLookup ==
  /\ cli.pc = "certs"
  /\ \E ips \in queryCertIPs : cli' = [cli EXCEPT !.pc = "certscan", !.cert = ips]
  /\ UNCHANGED <<files, scanLog>>

CertScan(ip) ==
  /\ cli.pc = "certscan" /\ ip \in cli.cert /\ cli.hand = {}
  /\ LET p == [cli EXCEPT !.cert = @ \ {ip}]
         q == [p EXCEPT !.resolved = @ \cup {ip}]
     IN  IF ip \in InternalIPs \cup cli.resolved
           THEN cli' = p /\ UNCHANGED scanLog
           ELSE \/ /\ cli' = [q EXCEPT !.hand = {<<ip, ip>>}]
                   /\ scanLog' = [scanLog EXCEPT !.scanned = @ \cup
                                    {<<cli.idx, "cert", <<ip, ip>>>>}]
                \/ cli' = q /\ UNCHANGED scanLog
  /\ UNCHANGED files

buildCIDRLines(domain, ips) ==
  {<<domain, net, Cardinality({ip \in ips : NetOf[ip] = net})>> :
     net \in {x \in {NetOf[ip] : ip \in ips} :
                Cardinality({ip \in ips : NetOf[ip] = x}) >= MinPerNet}}

DomainDone ==
  /\ cli.pc = "certscan" /\ cli.cert = {} /\ cli.hand = {}
  /\ LET new == buildCIDRLines(CliTarget, cli.resolved)
     IN  /\ addCIDRs(new)
         /\ cli' = [cli EXCEPT !.pc = "done", !.cidrs = @ \cup new]
  /\ scanLog' = Attempt(cli.idx, "cert")

-----------------------------------------------------------------------------
(* Addresses, several at a time: processIPBatch.                           *)

(* A slot is free until its goroutine has saved. *)
BeginIP(i) ==
  /\ cli.pc = "ips" /\ i \in DOMAIN cli.ips /\ cli.ips[i] = "todo"
  /\ \A k \in DOMAIN cli.ips : k < i => cli.ips[k] # "todo"
  /\ Cardinality({k \in DOMAIN cli.ips : cli.ips[k] \notin {"todo", "done"}}) < cli.slots
  /\ cli' = [cli EXCEPT !.ips[i] = "scan"]
  /\ UNCHANGED <<files, scanLog>>

scanIPWeb(i) ==
  /\ cli.pc = "ips" /\ i \in DOMAIN cli.ips /\ cli.ips[i] = "scan"
  /\ LET url == <<Targets[i], Targets[i]>>
     IN  \/ /\ cli' = [cli EXCEPT !.ips[i] = "add", !.hand = @ \cup {url}]
            /\ scanLog' = Found(i, Targets[i], url)
         \/ /\ cli' = [cli EXCEPT !.ips[i] = "save"]
            /\ scanLog' = Attempt(i, Targets[i])
  /\ UNCHANGED files

AddIP(i) ==
  /\ cli.pc = "ips" /\ i \in DOMAIN cli.ips /\ cli.ips[i] = "add"
  /\ LET url == <<Targets[i], Targets[i]>>
     IN  /\ addURLs({url})
         /\ cli' = [cli EXCEPT !.ips[i] = "save", !.hand = @ \ {url}, !.urls = @ \cup {url}]
  /\ UNCHANGED scanLog

(* Mutant: the address counts as done before its urls are appended. *)
SaveFirst(i) ==
  /\ cli.pc = "ips" /\ i \in DOMAIN cli.ips /\ cli.ips[i] \in {"add", "save"}
  /\ saveCheckpoint(Checkpoint(cli.req, i, "target_done", {}, 0), FALSE)
  /\ cli' = [cli EXCEPT !.ips[i] = "done", !.hand = {}]

Saving(i) == {k \in DOMAIN cli.ips \ {i} : cli.ips[k] \in {"save", "clash"}}

SaveIP(i) ==
  /\ cli.pc = "ips" /\ i \in DOMAIN cli.ips /\ cli.ips[i] \in {"save", "clash"}
  /\ saveCheckpoint(Checkpoint(cli.req, i, "target_done", {}, 0),
                    cli.ips[i] = "clash" \/ Saving(i) # {})
  /\ cli' = [cli EXCEPT !.ips = [k \in DOMAIN @ |-> IF k = i THEN "done"
                                                   ELSE IF k \in Saving(i) THEN "clash"
                                                   ELSE @[k]]]

BatchDone ==
  /\ cli.pc = "ips" /\ \A i \in DOMAIN cli.ips : cli.ips[i] = "done"
  /\ cli' = [cli EXCEPT !.pc = "done", !.idx = @ + Cardinality(DOMAIN cli.ips) - 1]
  /\ UNCHANGED <<files, scanLog>>

-----------------------------------------------------------------------------
(* A block, one address after the other: processCIDR.                      *)

ScanBlockIP ==
  /\ cli.pc = "block"
  /\ LET ips == BlockAddresses[CliTarget]
         ip == ips[cli.n + 1]
     IN  IF cli.n = Len(ips) THEN cli' = [cli EXCEPT !.pc = "done"] /\ UNCHANGED scanLog
         ELSE \/ /\ cli' = [cli EXCEPT !.pc = "blockadd", !.hand = {<<ip, ip>>}]
                 /\ scanLog' = Found(cli.idx, ip, <<ip, ip>>)
              \/ /\ cli' = [cli EXCEPT !.pc = "blocksave"]
                 /\ scanLog' = Attempt(cli.idx, ip)
  /\ UNCHANGED files

AddBlockIP ==
  /\ cli.pc = "blockadd"
  /\ addURLs(cli.hand)
  /\ cli' = [cli EXCEPT !.pc = "blocksave", !.urls = @ \cup cli.hand, !.hand = {}]
  /\ UNCHANGED scanLog

SaveBlockIP ==
  /\ cli.pc = "blocksave"
  /\ saveCheckpoint(Checkpoint(cli.req, cli.idx, "cidr_scanning", {}, cli.n + 1), FALSE)
  /\ cli' = [cli EXCEPT !.pc = "block", !.n = @ + 1]

-----------------------------------------------------------------------------
CliStep ==
  \/ \E req \in CliRequests, slots \in Concurrencies : RunCli(req, slots)
  \/ NextCliTarget \/ TargetFinished \/ writeWorkbook \/ clearCheckpoint
  \/ \E s \in SubSources : SourceReturns(s)
  \/ \E x \in cli.prep : SkipName(x[1], x[2]) \/ scheduleResolved(x[1], x[2])
  \/ \E t \in cli.tasks : scanResolvedDomainIP(t)
  \/ \E u \in cli.hand : AddFound(u)
  \/ NamesCollected \/ DeriveNames \/ DerivePaths \/ SubdomainsDone
  \/ CertLookup \/ (\E ip \in CertAddresses : CertScan(ip)) \/ DomainDone
  \/ \E i \in DOMAIN cli.ips : BeginIP(i) \/ scanIPWeb(i) \/ AddIP(i) \/ SaveIP(i)
  \/ BatchDone
  \/ ScanBlockIP \/ AddBlockIP \/ SaveBlockIP

CliNext == Killed \/ (CliStep /\ UNCHANGED kills)

CliSpec == CliInit /\ [][CliNext]_cliVars

-----------------------------------------------------------------------------
(* Properties.                                                             *)

(* The process is in a phase Run has, with its targets in range. *)
CliTypeOK ==
  /\ cli.pc \in {"off", "target", "done", "written", "names", "prep", "derive",
                 "subdomains", "certs", "certscan", "ips", "block", "blockadd", "blocksave"}
  /\ kills \in 0 .. MaxKills
  /\ cli.pc # "off" => cli.req \in CliRequests /\ cli.idx \in 1 .. Len(Targets) + 1
  /\ files.cp.phase \in {"none", "unreadable", "target_done", "subdomains_done",
                         "cidr_scanning"}
  /\ Readable(files.cp) => files.cp.idx \in 1 .. Len(TargetList[files.cp.req])

(* What a resume from the checkpoint would not do again. *)
Steps(t) ==
  CASE KindOf[t] = "domain" -> {"names", "cert"}
    [] KindOf[t] = "cidr" -> ToSet(BlockAddresses[t])
    [] KindOf[t] = "ip" -> {t}
    [] OTHER -> {}

Passed(cp, i, step) ==
  \/ i < startIdx(cp)
  \/ i = cp.idx /\ cp.phase = "subdomains_done" /\ step = "names"
  \/ i = cp.idx /\ cp.phase = "cidr_scanning"
       /\ step \in ToSet(SubSeq(BlockAddresses[TargetList[cp.req][i]], 1, cp.n))

(* A process that resumes passes over only what was really attempted, and  *)
(* everything found there is in the files it goes on with (Run,            *)
(* saveCheckpoint after addURLs).  Left out are addresses of a parallel    *)
(* batch overtaken by a later one, and a checkpoint that survived a fresh  *)
(* start of another request.                                               *)
ResumePassesOverDone ==
  LET cp == files.cp
  IN  Readable(cp) /\ ~scanLog.abandoned =>
        /\ \A i \in 1 .. cp.idx : \A step \in Steps(TargetList[cp.req][i]) :
             Passed(cp, i, step) => <<i, step>> \in scanLog.attempted \/ i \in scanLog.overtaken
        /\ \A s \in scanLog.scanned :
             Passed(cp, s[1], s[2]) /\ s[1] \notin scanLog.overtaken => s[3] \in files.urls
        /\ cp.phase = "subdomains_done" => cp.all \subseteq files.subs

(* The workbook has every url found since the files were cleared, those of *)
(* killed processes included (writeWorkbook).                              *)
WorkbookIsWhole ==
  cli.pc = "written" => \A s \in scanLog.scanned : s[3] \in cli.book

(* A command line that is killed and run again does what is left: resuming *)
(* from the checkpoint loses no step (Run), and the workbook no url.       *)
ScanResumes == ResumePassesOverDone /\ WorkbookIsWhole

=============================================================================
