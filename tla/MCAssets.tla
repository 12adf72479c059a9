------------------------------ MODULE MCAssets ------------------------------
(***************************************************************************)
(* An instance of Assets for TLC: closings of three runs that found the    *)
(* same asset, ingestion of two, and imports.                              *)
(***************************************************************************)
EXTENDS Assets

MCRootOf == [k \in AssetKeys |-> IF k = "sub" THEN "dom" ELSE k]
MCAssetRole == [u \in AssetUsers |-> "security_ops"]
Row(k, s) == [key |-> k, valid |-> TRUE, owner |-> NoOwner, source |-> "manual",
              confidence |-> 1, status |-> s, at |-> 1]
MCImportRows == {Row("dom", ""), Row("sub", "bogus"), Row("sub", "active")}
Fact(k, c, at, cdn) == [key |-> k, confidence |-> c, at |-> at, cdn |-> cdn]

\* Edits of one or two fields.
Edit(status, owner, source) == [status |-> status, owner |-> owner, source |-> source]
MCEdits == {Edit("active", Keep, Keep), Edit("inactive", Keep, Keep), Edit("ignored", "u1", Keep),
            Edit(Keep, Keep, "manual"), Edit(Keep, Keep, "discovery")}

AssetParts == {"closing", "ingest", "import"}

AssetsMove(part) ==
    \/ /\ part = "closing"
       /\ \/ \E r \in DiscRuns : \/ AssetClose(r)
                                 \/ ingestCallbackFactsWith(r, Fact("sub", 1, 1, FALSE), {}, {})
          \/ (\E f \in MCEdits : updateRead("u1", "sub", f)) \/ Update("sub")
    \/ /\ part = "ingest"
       /\ \/ \E r \in {1, 2}, at \in 1..2, cdn \in BOOLEAN :
                ingestCallbackFactsWith(r, Fact("ip", 1, at, cdn), {},
                    {[parent |-> "ip", version |-> r, confidence |-> 0]})
          \/ ingestCallbackFactsWith(1, Fact("sub", 0, 1, TRUE),
                                     {<<"sub", "resolves_to", "ip">>}, {})
    \/ /\ part = "import"
       /\ \/ \E rows \in Batches : importAssets("u1", rows)
          \/ \E from, to \in AssetKeys : createRelation("u1", from, "references", to)

=============================================================================
