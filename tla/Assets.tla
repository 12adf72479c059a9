-------------------------------- MODULE Assets --------------------------------
(***************************************************************************)
(* The assets of one project, their relations, exposures and network       *)
(* attribution (internal/asset, internal/exposure) and the ingestion of    *)
(* discovery facts into them (internal/discovery ingest_v1.go,             *)
(* observation_*.go, network_attribution.go).                              *)
(*                                                                         *)
(* An operator's edit and the closing of a run read the rows in a snapshot *)
(* and write them later without asking whether they changed: each is two   *)
(* steps.  An import and the ingestion of a callback decide nothing from   *)
(* an earlier read (their upserts work on the current row) and are one     *)
(* step each.  An error anywhere in them rolls everything back.            *)
(***************************************************************************)
EXTENDS Naturals, FiniteSets, Sequences, Roles

CONSTANTS
    AssetKeys,      \* normalized asset keys (Normalize)
    RootOf,         \* the root domain of a subdomain; other keys are their own
    Addresses,      \* the keys that are IP addresses
    Managed,        \* the keys with a project_domain_profile
    AssetUsers,     \* people who work on assets
    AssetRole,      \* their role in the project
    ImportRows,     \* the rows an import may carry, a set of ImportInput
    DiscRuns,       \* runs of one capability
    MissThreshold,  \* WithMissThreshold, assetMissThreshold
    MaxTime,        \* bound on observed_at
    MaxConfidence,  \* 100 in the code
    MaxImportBatch, \* 500 in the code
    MaxGraphEdges   \* maxAssetGraphEdges, 100 in the code

ASSUME AssetsAssumption ==
    /\ RootOf \in [AssetKeys -> AssetKeys]
    /\ Addresses \subseteq AssetKeys /\ Managed \subseteq AssetKeys
    /\ AssetRole \in [AssetUsers -> AllRoles]
    /\ MissThreshold \in Nat \ {0}
    /\ {MaxTime, MaxConfidence, MaxImportBatch, MaxGraphEdges} \subseteq Nat

VARIABLES
    asset,      \* table asset: NoAsset or a row, by key
    relation,   \* table asset_relation: edges of the project
    exposure,   \* table exposure, by the asset: NoExposure or a row
    attribution,\* table asset_network_attribution, by the asset
    observed,   \* discovery_observation: <<run, key>> of materialized facts
    closed,     \* runs whose lifecycle has been applied
    life,       \* what the closing of a run read and means to write
    edit,       \* what an operator's edit read and means to write
    streak,     \* history: closings that missed the asset since one that hit it
    overtaken,  \* history: closings that read before another one committed
    mixed,      \* history: assets written by such a closing, until a later hit
    judged,     \* history: identifications ingested for the asset
    born,       \* history: the status the asset was inserted with
    onRecord    \* status in the newest event that names the asset, or "none"

misses == <<streak, overtaken, mixed>>

assetVars == <<asset, relation, exposure, attribution, observed, closed, life,
               edit, misses, judged, born, onRecord>>

AssetStatuses == {"active", "inactive", "ignored", "deleted"}

Sources == {"", "discovery", "manual"}

RelationTypes == {"contains", "resolves_to", "references", "cert_binding"}

NoOwner == "nobody"

NoAsset == [status |-> "absent"]

AssetRow == [status : AssetStatuses, miss : Nat, owner : AssetUsers \cup {NoOwner},
             source : Sources, confidence : 0..MaxConfidence, lastSeen : 0..MaxTime]

NoExposure == [version |-> 0, confidence |-> 0, event |-> "none"]

NoAttribution == [role |-> "none", run |-> 0, at |-> 0]

NoPlan == [to |-> "none"]

Known(k) == asset[k] # NoAsset

-----------------------------------------------------------------------------
(* Imports.                                                                *)

\* A row of an import; an address nothing can be made of has valid = FALSE.
ImportInput == [key : AssetKeys, valid : BOOLEAN, owner : AssetUsers \cup {NoOwner},
                source : Sources, confidence : 0..MaxConfidence + 1,
                status : AssetStatuses \cup {"", "bogus"}, at : 0..MaxTime]

ASSUME ImportAssumption == ImportRows \subseteq ImportInput

\* normalization and the guards a dry run and an import share
validateRowFields(in) == in.status \in AssetStatuses \cup {""}

\* Imports of one or two rows.
Batches == {<<x>> : x \in ImportRows} \cup {<<x, y>> : x \in ImportRows, y \in ImportRows}

IsImportable(in) == in.valid /\ validateRowFields(in)

GetAssetByKey(tab, k) == tab[k]

\* INSERT ... ON DUPLICATE KEY UPDATE: status, owner and miss_count of a row
\* that exists are kept, a source somebody set too, confidence only grows.
UpsertAsset(tab, p) ==
    LET row == tab[p.key]
    IN  [tab EXCEPT ![p.key] =
            IF row = NoAsset
              THEN [status |-> p.status, miss |-> 0, owner |-> p.owner,
                    source |-> p.source, confidence |-> p.confidence,
                    lastSeen |-> p.at]
              ELSE [row EXCEPT
                      !.lastSeen = p.at,
                      !.source = IF row.source \in {"", "discovery"} THEN p.source ELSE row.source,
                      !.confidence = IF row.confidence > p.confidence THEN row.confidence
                                                                      ELSE p.confidence]]

\* The table after the import of one row; the row itself when it is refused.
importWith(tab, in) ==
    IF IsImportable(in)
      THEN UpsertAsset(tab, [in EXCEPT
               !.status = IF in.status = "" THEN "active" ELSE in.status,
               !.confidence = IF in.confidence > MaxConfidence THEN MaxConfidence
                                                               ELSE in.confidence])
      ELSE tab

\* The table after a batch; after[i] is the one after its first i rows.
ImportedRows(tab, rows) ==
    LET after[i \in 0..Len(rows)] ==
            IF i = 0 THEN tab ELSE importWith(after[i - 1], rows[i])
    IN  after[Len(rows)]

\* The root domain of a subdomain, where the project manages it as an asset.
FindProjectRootDomainAsset(tab, k) ==
    {d \in Managed : d = RootOf[k] /\ d # k /\ GetAssetByKey(tab, d) # NoAsset}

\* Edges are unique by endpoints and type; a repeat refreshes the edge.
UpsertRelationRow(edges, from, type, to) == edges \cup {<<from, type, to>>}

\* What a dry run says of each row.
DryRun(tab, rows) ==
    [i \in DOMAIN rows |->
        IF ~IsImportable(rows[i]) THEN "invalid"
        ELSE IF \E j \in 1..(i - 1) : IsImportable(rows[j]) /\ rows[j].key = rows[i].key
               THEN "duplicate"
        ELSE IF GetAssetByKey(tab, rows[i].key) # NoAsset THEN "update" ELSE "new"]

permitAsset(u, perm) == RoleHasPerm(AssetRole[u], perm)

\* Rows that fail are counted and skipped; the batch and its audit event, which
\* holds counts and names no asset, are one transaction.
ImportBatch(rows) ==
    LET tab == ImportedRows(asset, rows)
        done == {rows[i].key : i \in {j \in DOMAIN rows : IsImportable(rows[j])}}
    IN  /\ Len(rows) <= MaxImportBatch
        /\ asset' = tab
        /\ relation' = relation \cup
              {e \in AssetKeys \X {"contains"} \X done :
                  e[1] \in FindProjectRootDomainAsset(tab, e[3])}
        /\ born' = [k \in AssetKeys |-> IF Known(k) THEN born[k] ELSE tab[k].status]
        /\ UNCHANGED <<exposure, attribution, observed, closed, life, edit,
                       misses, judged, onRecord>>

\* POST /assets/import
importAssets(u, rows) ==
    /\ permitAsset(u, "asset:write")
    /\ ImportBatch(rows)

-----------------------------------------------------------------------------
(* Edits by an operator.                                                   *)

\* Absent fields (Keep) are taken from the row that was read.
Keep == "keep"

UpdateFields == [status : AssetStatuses \cup {Keep}, owner : AssetUsers \cup {NoOwner, Keep},
                 source : Sources \cup {Keep}]

Merged(given, current) == IF given = Keep THEN current ELSE given

\* updateWith up to the write: the merged row.
updateRead(u, k, fields) ==
    /\ permitAsset(u, "asset:write")
    /\ Known(k) /\ edit[k] = NoPlan
    /\ fields # [status |-> Keep, owner |-> Keep, source |-> Keep]
    /\ fields.status # "deleted"
    /\ edit' = [edit EXCEPT ![k] =
           [to |-> Merged(fields.status, asset[k].status),
            owner |-> Merged(fields.owner, asset[k].owner),
            source |-> Merged(fields.source, asset[k].source)]]
    /\ UNCHANGED <<asset, relation, exposure, attribution, observed, closed,
                   life, misses, judged, born, onRecord>>

\* UPDATE asset SET source, owner, status, ... WHERE id: no column is compared.
UpdateAssetFields(k, w) ==
    asset' = [asset EXCEPT ![k] = [asset[k] EXCEPT !.status = w.to, !.owner = w.owner,
                                                   !.source = w.source]]

\* Mutant: the edit is not audited.
UnauditedUpdate(k) ==
    /\ edit[k] # NoPlan
    /\ UpdateAssetFields(k, edit[k])
    /\ edit' = [edit EXCEPT ![k] = NoPlan]
    /\ UNCHANGED <<relation, exposure, attribution, observed, closed, life,
                   misses, judged, born, onRecord>>

\* The write and its audit event commit together.
Update(k) ==
    /\ edit[k] # NoPlan
    /\ UpdateAssetFields(k, edit[k])
    /\ onRecord' = [onRecord EXCEPT ![k] = edit[k].to]
    /\ edit' = [edit EXCEPT ![k] = NoPlan]
    /\ UNCHANGED <<relation, exposure, attribution, observed, closed, life,
                   misses, judged, born>>

\* Both endpoints are assets of the project, and not the same one.
UpsertRelation(edges, tab, from, type, to) ==
    IF type \in RelationTypes /\ from # to
       /\ GetAssetByKey(tab, from) # NoAsset /\ GetAssetByKey(tab, to) # NoAsset
      THEN UpsertRelationRow(edges, from, type, to)
      ELSE edges

\* POST /assets/:id/relations
createRelation(u, from, type, to) ==
    /\ permitAsset(u, "asset:write")
    /\ relation' = UpsertRelation(relation, asset, from, type, to)
    /\ relation' # relation
    /\ UNCHANGED <<asset, exposure, attribution, observed, closed, life, edit,
                   misses, judged, born, onRecord>>

\* Edges with the asset at either end.
ListRelationsByAsset(k) == {e \in relation : k \in {e[1], e[3]}}

\* One hop around an asset: at most MaxGraphEdges edges, marked truncated
\* when there are more, and the assets at their ends.
GraphNodes(k, edges) == {k} \cup {e[1] : e \in edges} \cup {e[3] : e \in edges}

Graphs(k) ==
    {[nodes |-> GraphNodes(k, edges), edges |-> edges,
      truncated |-> edges # ListRelationsByAsset(k)] :
        edges \in {es \in SUBSET ListRelationsByAsset(k) :
                      \/ es = ListRelationsByAsset(k)
                         /\ Cardinality(es) <= MaxGraphEdges
                      \/ es # ListRelationsByAsset(k)
                         /\ Cardinality(es) = MaxGraphEdges}}

-----------------------------------------------------------------------------
(* Exposures.                                                              *)

\* The columns that make a change are one version; confidence only grows.
UpsertExposure(tab, x) ==
    [tab EXCEPT ![x.parent] =
        [@ EXCEPT !.version = x.version,
                  !.confidence = IF @ > x.confidence THEN @ ELSE x.confidence]]

GetExposureByKey(tab, x) == tab[x.parent]

exposureChanged(before, x) == before = NoExposure \/ before.version # x.version

buildChangeEvent(before) == IF before = NoExposure THEN "new" ELSE "modified"

InsertChangeEvent(tab, k, type) == [tab EXCEPT ![k] = [@ EXCEPT !.event = type]]

\* Ingestion passes no certificate dates (ingest_v1.go), so every certificate
\* is in order for it and no finding is reported.
Ingest(tab, x) ==
    LET before == GetExposureByKey(tab, x)
        after == UpsertExposure(tab, x)
    IN  IF exposureChanged(before, x)
          THEN InsertChangeEvent(after, x.parent, buildChangeEvent(before))
          ELSE after

ExposureFact == [parent : AssetKeys, version : 1..2, confidence : 0..MaxConfidence]

-----------------------------------------------------------------------------
(* Ingestion of a callback or of a page of an active engine's results.     *)

\* An asset fact; "cdn" says that the engine identified a CDN edge with a
\* versioned rule.
AssetFact == [key : AssetKeys, confidence : 0..MaxConfidence, at : 1..MaxTime,
              cdn : BOOLEAN]

attributionRole(f) ==
    IF ~f.cdn THEN "none" ELSE IF f.key \in Addresses THEN "cdn_edge" ELSE "cdn_served"

\* Mutant: what arrives last is kept, whenever it was observed.
LastWriteWins(tab, r, f) ==
    IF attributionRole(f) = "none" THEN tab
    ELSE [tab EXCEPT ![f.key] = [role |-> attributionRole(f), run |-> r, at |-> f.at]]

\* A newer observation replaces an older one; nothing is ever cleared.
upsertNetworkAttribution(tab, r, f) ==
    IF attributionRole(f) = "none" \/ f.at < tab[f.key].at THEN tab
    ELSE [tab EXCEPT ![f.key] = [role |-> attributionRole(f), run |-> r, at |-> f.at]]

\* One observation per run and key, materialized with its asset.
UpsertDiscoveryObservation(r, k) == observed \cup {<<r, k>>}

\* client_ref and natural_key of the batch first, then the project's assets.
resolveFactReference(facts, k) == k \in {f.key : f \in facts} \/ Known(k)

assetMateriallyChanged(before, after) ==
    \/ before = NoAsset
    \/ before.source # after.source
    \/ before.confidence # after.confidence
    \/ before.status # after.status

\* A batch with one asset fact, and relations and exposures that may refer to
\* it or to assets of the project.  The run's row is locked throughout.
ingestCallbackFactsWith(r, f, edges, exposures) ==
    LET k == f.key
        tab == importWith(asset, [key |-> k, valid |-> TRUE, owner |-> NoOwner,
                                  source |-> "discovery", status |-> "active",
                                  confidence |-> f.confidence, at |-> f.at])
    IN  /\ r \notin closed /\ life[r] = NoPlan
        /\ \A e \in edges : /\ resolveFactReference({f}, e[1])
                            /\ resolveFactReference({f}, e[3])
                            /\ e[1] # e[3]
        /\ \A x \in exposures : resolveFactReference({f}, x.parent)
        /\ asset' = tab
        /\ onRecord' = [onRecord EXCEPT ![k] =
               IF assetMateriallyChanged(asset[k], tab[k]) THEN tab[k].status ELSE onRecord[k]]
        /\ born' = [born EXCEPT ![k] = IF Known(k) THEN born[k] ELSE tab[k].status]
        /\ attribution' = upsertNetworkAttribution(attribution, r, f)
        /\ judged' = [judged EXCEPT ![k] =
               IF attributionRole(f) = "none" THEN judged[k] ELSE judged[k] \cup {<<r, f.at>>}]
        /\ observed' = UpsertDiscoveryObservation(r, k)
        /\ relation' = relation \cup edges
        /\ exposure' = [p \in AssetKeys |->
               IF \E x \in exposures : x.parent = p
                 THEN Ingest(exposure, CHOOSE x \in exposures : x.parent = p)[p]
                 ELSE exposure[p]]
        /\ UNCHANGED <<closed, life, edit, misses>>

-----------------------------------------------------------------------------
(* The lifecycle, applied when a run closes.                               *)

ListCurrentDiscoveryAssetObservationKeys(r) == {k \in AssetKeys : <<r, k>> \in observed}

ListDiscoveryLifecycleAssets ==
    {k \in AssetKeys : /\ \E r \in DiscRuns : <<r, k>> \in observed
                       /\ Known(k) /\ asset[k].source = "discovery"}

\* Mutant: one miss less than the threshold is enough.
EarlyInactive(row, hit, allowMiss) ==
    IF hit THEN [from |-> row.status, miss |-> 0,
                 to |-> IF row.status = "inactive" THEN "active" ELSE row.status]
    ELSE IF ~allowMiss \/ row.status = "ignored" THEN NoPlan
    ELSE [from |-> row.status, miss |-> row.miss + 1,
          to |-> IF row.status = "active" /\ row.miss + 2 >= MissThreshold
                   THEN "inactive" ELSE row.status]

\* Mutant: a hit does not reset the count.
HitKeepsMisses(row, hit, allowMiss) ==
    IF hit THEN [from |-> row.status, miss |-> row.miss,
                 to |-> IF row.status = "inactive" THEN "active" ELSE row.status]
    ELSE IF ~allowMiss \/ row.status = "ignored" THEN NoPlan
    ELSE [from |-> row.status, miss |-> row.miss + 1,
          to |-> IF row.status = "active" /\ row.miss + 1 >= MissThreshold
                   THEN "inactive" ELSE row.status]

\* The row one asset is to get, or NoPlan for none.
lifecycleTarget(row, hit, allowMiss) ==
    IF hit THEN [from |-> row.status, miss |-> 0,
                 to |-> IF row.status = "inactive" THEN "active" ELSE row.status]
    ELSE IF ~allowMiss \/ row.status = "ignored" THEN NoPlan
    ELSE [from |-> row.status, miss |-> row.miss + 1,
          to |-> IF row.status = "active" /\ row.miss + 1 >= MissThreshold
                   THEN "inactive" ELSE row.status]

Unchanged(row, target) == target # NoPlan /\ target.to = row.status /\ target.miss = row.miss

\* What the closing of run r means to write; misses count for a full success.
ApplyDiscoveryObservationLifecycle(r, success) ==
    /\ r \notin closed /\ life[r] = NoPlan
    /\ life' = [life EXCEPT ![r] =
           [to |-> "close",
            hits |-> ListCurrentDiscoveryAssetObservationKeys(r) \cap ListDiscoveryLifecycleAssets,
            rows |-> [k \in AssetKeys |->
                IF k \notin ListDiscoveryLifecycleAssets THEN NoPlan
                ELSE LET t == lifecycleTarget(asset[k],
                                  k \in ListCurrentDiscoveryAssetObservationKeys(r),
                                  success)
                     IN  IF Unchanged(asset[k], t) THEN NoPlan ELSE t]]]
    /\ UNCHANGED <<asset, relation, exposure, attribution, observed, closed,
                   edit, misses, judged, born, onRecord>>

\* UPDATE asset SET miss_count, status WHERE id: the row may have changed.
UpdateAssetLifecycle(row, t) ==
    IF t = NoPlan THEN row ELSE [row EXCEPT !.status = t.to, !.miss = t.miss]

\* History.  A hit starts an asset's streak anew, a miss adds to it.  Closings
\* that have read and not written are overtaken from now on, and what one of
\* them writes is mixed with what came between.
CountMisses(r) ==
    LET hits == life[r].hits
        counted == {k \in AssetKeys : life[r].rows[k] # NoPlan} \ hits
    IN  /\ streak' = [k \in AssetKeys |-> IF k \in hits THEN 0
                                          ELSE IF k \in counted THEN streak[k] + 1
                                          ELSE streak[k]]
        /\ mixed' = IF r \in overtaken THEN mixed \cup hits \cup counted ELSE mixed \ hits
        /\ overtaken' = (overtaken \cup {q \in DiscRuns : life[q] # NoPlan}) \ {r}

\* All rows, their change events and the end of the run commit together.
CloseRun(r) ==
    LET t == life[r].rows
    IN  /\ life[r] # NoPlan
        /\ asset' = [k \in AssetKeys |-> UpdateAssetLifecycle(asset[k], t[k])]
        /\ onRecord' = [k \in AssetKeys |-> IF t[k] = NoPlan THEN onRecord[k] ELSE t[k].to]
        /\ closed' = closed \cup {r}
        /\ life' = [life EXCEPT ![r] = NoPlan]
        /\ CountMisses(r)
        /\ UNCHANGED <<relation, exposure, attribution, observed, edit, judged, born>>

\* The closing transaction fails; the run is closed by a later try.
CloseRollback(r) ==
    /\ life[r] # NoPlan
    /\ life' = [life EXCEPT ![r] = NoPlan]
    /\ overtaken' = overtaken \ {r}
    /\ UNCHANGED <<asset, relation, exposure, attribution, observed, closed,
                   edit, streak, mixed, judged, born, onRecord>>

-----------------------------------------------------------------------------
AssetInit ==
    /\ asset = [k \in AssetKeys |-> NoAsset]
    /\ relation = {}
    /\ exposure = [k \in AssetKeys |-> NoExposure]
    /\ attribution = [k \in AssetKeys |-> NoAttribution]
    /\ observed = {} /\ closed = {}
    /\ life = [r \in DiscRuns |-> NoPlan]
    /\ edit = [k \in AssetKeys |-> NoPlan]
    /\ streak = [k \in AssetKeys |-> 0] /\ overtaken = {} /\ mixed = {}
    /\ judged = [k \in AssetKeys |-> {}]
    /\ born = [k \in AssetKeys |-> "absent"]
    /\ onRecord = [k \in AssetKeys |-> "none"]

AssetImport ==
    \/ \E u \in AssetUsers, rows \in Batches : importAssets(u, rows)
    \/ \E u \in AssetUsers, from, to \in AssetKeys, type \in RelationTypes :
          createRelation(u, from, type, to)

AssetEdit(k) ==
    \/ \E u \in AssetUsers, f \in UpdateFields : updateRead(u, k, f)
    \/ Update(k)

AssetIngest(r) ==
    \E f \in AssetFact, edges \in SUBSET (AssetKeys \X {"resolves_to"} \X AssetKeys),
       exposures \in {{}} \cup {{x} : x \in ExposureFact} :
        ingestCallbackFactsWith(r, f, edges, exposures)

AssetClose(r) ==
    \/ \E success \in BOOLEAN : ApplyDiscoveryObservationLifecycle(r, success)
    \/ CloseRun(r) \/ CloseRollback(r)

AssetNext ==
    \/ AssetImport
    \/ \E k \in AssetKeys : AssetEdit(k)
    \/ \E r \in DiscRuns : AssetIngest(r) \/ AssetClose(r)

AssetSpec == AssetInit /\ [][AssetNext]_assetVars

-----------------------------------------------------------------------------
(* Properties.                                                             *)

AssetTypeOK ==
    /\ asset \in [AssetKeys -> AssetRow \cup {NoAsset}]
    /\ relation \subseteq AssetKeys \X RelationTypes \X AssetKeys
    /\ \A k \in AssetKeys : attribution[k].role \in {"none", "cdn_edge", "cdn_served"}
    /\ observed \subseteq DiscRuns \X AssetKeys
    /\ closed \subseteq DiscRuns
    /\ streak \in [AssetKeys -> Nat] /\ overtaken \subseteq DiscRuns /\ mixed \subseteq AssetKeys
    /\ born \in [AssetKeys -> AssetStatuses \cup {"absent"}]
    /\ onRecord \in [AssetKeys -> AssetStatuses \cup {"none"}]

\* What the views show agrees with the tables.  The rows a dry run calls new
\* are the assets the import then adds: a valid row must not hide behind an
\* invalid one with the same key, nor the other way round (DryRun, ImportBatch).
\* Every edge of a graph ends in two of its nodes, and a graph that is not
\* marked truncated shows every edge of the asset (Graph).
ViewsAgree ==
    /\ \A rows \in Batches :
          {k \in AssetKeys : ~Known(k) /\ ImportedRows(asset, rows)[k] # NoAsset}
            = {rows[i].key : i \in {j \in DOMAIN rows : DryRun(asset, rows)[j] = "new"}}
    /\ \A k \in AssetKeys : Known(k) => \A g \in Graphs(k) :
          /\ \A e \in g.edges : {e[1], e[3]} \subseteq g.nodes
          /\ \A n \in g.nodes : Known(n)
          /\ ~g.truncated => g.edges = ListRelationsByAsset(k)

\* A closing gives an active asset up only when as many closings in a row as
\* the threshold asks for, itself included, have missed it: a hit in between
\* starts the count anew, whatever edits, imports and rolled-back closings came
\* between its read and its write.  Closings that overlapped are excepted:
\* each writes back a count it read without a lock, so that misses from before
\* another one's hit come back.
InactiveAfterMisses ==
    \A r \in DiscRuns, k \in AssetKeys :
       /\ life[r] # NoPlan /\ r \in closed' \ closed
       /\ life[r].rows[k] # NoPlan
       /\ life[r].rows[k].from = "active" /\ life[r].rows[k].to = "inactive"
       /\ r \notin overtaken /\ k \notin mixed
       => streak[k] + 1 >= MissThreshold

\* The status of an asset is the one the newest event that names it shows, or
\* the one it was inserted with when there is none (an import names nothing):
\* edits and closings that overwrite each other at least say so.
StatusOnRecord ==
    \A k \in AssetKeys :
        asset[k].status = IF onRecord[k] = "none" THEN born[k] ELSE onRecord[k]

\* The network attribution of an asset is the newest identification that was
\* ingested for it, in whatever order the callbacks of its runs came in
\* (upsertNetworkAttribution: a later run that cannot tell clears nothing).
AttributionIsLatest ==
    \A k \in AssetKeys : judged[k] # {} =>
        /\ <<attribution[k].run, attribution[k].at>> \in judged[k]
        /\ \A j \in judged[k] : j[2] <= attribution[k].at

\* What the asset tables say agrees with what was done and ingested, in
\* whatever order imports, edits, callbacks and closings came in.
AssetRecordAgrees == StatusOnRecord /\ AttributionIsLatest /\ ViewsAgree

=============================================================================
