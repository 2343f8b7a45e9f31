-------------------------- MODULE ReleaseCandidate --------------------------
(***************************************************************************)
(* semantic/registry.py, _validate_release_candidate, and the constraints  *)
(* the control tables put on the rows _persist_release_candidate inserts   *)
(* (docker/migrations/control/002 and 004).                                *)
(*                                                                         *)
(* A text is abstracted to whether it is blank, a vector to the set of its *)
(* dimension (NoVector: absent).  Rows are sequences, for what matters is  *)
(* that the keys among them are distinct.                                  *)
(***************************************************************************)
EXTENDS Naturals, Sequences

CONSTANT Nothing      \* None: an absent id, checksum or number

NoVector == {}

Ids(rows) == {rows[i].id : i \in DOMAIN rows}
DistinctIds(rows) == \A i, j \in DOMAIN rows : rows[i].id = rows[j].id => i = j

\* The dimensions of the vectors of a candidate.
Dimensions(c) ==
    UNION ({c.documents[i].vector : i \in DOMAIN c.documents}
           \cup {c.assets[i].vector : i \in DOMAIN c.assets})

AssetTypes == {"domain", "metric", "dimension", "relation", "example", "policy",
               "qa", "view"}
AssetStatuses == {"active", "retired", "error"}
EdgeTypes == {"approved_join", "metric_dependency", "lineage"}
EdgeStatuses == {"approved", "retired", "rejected"}
Severities == {"error", "warning"}

-----------------------------------------------------------------------------
(* _validate_release_candidate.                                            *)

ValidHeader(c) ==
    /\ c.ok
    /\ ~c.blankHeader
    /\ c.schemaVersion = 3
    /\ (c.snapshot = Nothing) = (c.snapshotChecksum = Nothing)
    /\ c.assets # <<>> => c.snapshot # Nothing

ValidDocuments(c) ==
    /\ c.documents # <<>>
    /\ DistinctIds(c.documents)
    /\ \A i \in DOMAIN c.documents : ~c.documents[i].blank

ValidAssets(c) ==
    /\ DistinctIds(c.assets)
    /\ \A i \in DOMAIN c.assets :
          /\ ~c.assets[i].blank
          /\ c.assets[i].type \in AssetTypes
          /\ c.assets[i].status \in AssetStatuses
          /\ c.assets[i].id \in Ids(c.documents)

\* The id of an alias is its normalized form.
ValidAliases(c) ==
    /\ DistinctIds(c.aliases)
    /\ \A i \in DOMAIN c.aliases :
          /\ c.aliases[i].asset \in Ids(c.assets)
          /\ ~c.aliases[i].blank

ValidEdges(c) ==
    /\ DistinctIds(c.edges)
    /\ \A i \in DOMAIN c.edges :
          /\ {c.edges[i].source, c.edges[i].target} \subseteq Ids(c.assets)
          /\ c.edges[i].source # c.edges[i].target
          /\ c.edges[i].type \in EdgeTypes
          /\ c.edges[i].status \in EdgeStatuses

ValidIssues(c) ==
    /\ \A i \in DOMAIN c.issues :
          /\ c.issues[i].asset \in Ids(c.assets) \cup {Nothing}
          /\ c.issues[i].severity \in Severities
          /\ ~c.issues[i].blank
    /\ c.reported \in {Nothing, Len(c.issues)}
    /\ c.reportedVersion \in {Nothing, c.schemaVersion}

\* _embedding_dimension and the embedding contract: all vectors have one
\* dimension, which the candidate names together with a profile, or there is
\* neither a vector nor a contract.
ValidEmbedding(c) ==
    \/ /\ Dimensions(c) = {}
       /\ c.profile = Nothing
       /\ c.dimension = Nothing
    \/ \E d \in Dimensions(c) \ {0} :
          /\ Dimensions(c) = {d}
          /\ c.dimension = d
          /\ c.profile # Nothing

ValidCandidate(c) ==
    /\ ValidHeader(c)
    /\ ValidDocuments(c)
    /\ ValidAssets(c)
    /\ ValidAliases(c)
    /\ ValidEdges(c)
    /\ ValidIssues(c)
    /\ ValidEmbedding(c)

-----------------------------------------------------------------------------
(* What the tables accept.                                                 *)

\* semantic_releases: CHECKs on the version and the embedding contract.
ReleaseRow(c) ==
    /\ c.schemaVersion = 3
    /\ (c.profile = Nothing) = (c.dimension = Nothing)
    /\ c.dimension # Nothing => c.dimension > 0

\* Primary keys, foreign keys and CHECKs of the child tables.
ChildRows(c) ==
    /\ DistinctIds(c.documents) /\ DistinctIds(c.assets)
    /\ DistinctIds(c.aliases) /\ DistinctIds(c.edges)
    /\ \A i \in DOMAIN c.assets :
          /\ ~c.assets[i].blank
          /\ c.assets[i].type \in AssetTypes
          /\ c.assets[i].status \in AssetStatuses
    /\ \A i \in DOMAIN c.aliases :
          c.aliases[i].asset \in Ids(c.assets) /\ ~c.aliases[i].blank
    /\ \A i \in DOMAIN c.edges :
          /\ {c.edges[i].source, c.edges[i].target} \subseteq Ids(c.assets)
          /\ c.edges[i].source # c.edges[i].target
          /\ c.edges[i].type \in EdgeTypes
          /\ c.edges[i].status \in EdgeStatuses
    /\ \A i \in DOMAIN c.issues :
          c.issues[i].severity \in Severities /\ ~c.issues[i].blank

TablesAccept(c) == ReleaseRow(c) /\ ChildRows(c)

\* CHECK (edge_id <> ''), which _validate_release_candidate has no equivalent of.
EdgeIdsAccepted(c) == \A i \in DOMAIN c.edges : ~c.edges[i].blank
=============================================================================
