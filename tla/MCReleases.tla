----------------------------- MODULE MCReleases -----------------------------
(* The instances of TypedRuntime that TLC checks.                          *)
EXTENDS TypedRuntime, TLC

CONSTANTS p1, p2

\* Sessions are interchangeable: nothing but the index of tx tells them apart.
MCSession == {p1, p2}
MCSymmetry == Permutations(MCSession)

-----------------------------------------------------------------------------
(* Candidates: those that _validate_release_candidate accepts, and one       *)
(* change at a time to one of them that it refuses.                        *)

Document(id) == [id |-> id, blank |-> FALSE, vector |-> NoVector]
Asset(id, type) ==
    [id |-> id, blank |-> FALSE, type |-> type, status |-> "active", vector |-> NoVector]
Edge(id, source, target) ==
    [id |-> id, blank |-> FALSE, source |-> source, target |-> target,
     type |-> "lineage", status |-> "approved"]

\* What run_indexer publishes: documents and no snapshot.
Plain(checksum) ==
    [ok |-> TRUE, blankHeader |-> FALSE, checksum |-> checksum, schemaVersion |-> 3,
     snapshot |-> Nothing, snapshotChecksum |-> Nothing,
     documents |-> <<Document("m"), Document("t")>>, assets |-> <<>>, aliases |-> <<>>,
     edges |-> <<>>, issues |-> <<>>, reported |-> 0, reportedVersion |-> 3,
     profile |-> Nothing, dimension |-> Nothing]

\* A materialized release bound to snapshot s.
Typed(checksum, s) ==
    [Plain(checksum) EXCEPT
        !.snapshot = s, !.snapshotChecksum = s,
        !.assets = <<Asset("m", "metric"), Asset("t", "relation")>>,
        !.aliases = <<[id |-> "alias", asset |-> "m", blank |-> FALSE]>>,
        !.edges = <<Edge("e", "m", "t")>>,
        !.issues = <<[asset |-> "t", severity |-> "warning", blank |-> FALSE]>>,
        !.reported = 1]

Base == Typed("a", "s1")

Refused ==
    {[Base EXCEPT !.edges = <<Edge("e", "m", "m")>>],
     [Base EXCEPT !.edges = <<Edge("e", "m", "t"), Edge("e", "t", "m")>>],
     [Base EXCEPT !.edges = <<Edge("e", "m", "x")>>],
     [Base EXCEPT !.documents = <<Document("m"), Document("m"), Document("t")>>],
     [Base EXCEPT !.assets = <<Asset("m", "metric"), Asset("x", "relation")>>],
     [Base EXCEPT !.assets = <<Asset("m", "table"), Asset("t", "relation")>>],
     [Base EXCEPT !.aliases = <<[id |-> "alias", asset |-> "m", blank |-> FALSE],
                                [id |-> "alias", asset |-> "t", blank |-> FALSE]>>],
     [Base EXCEPT !.issues = <<[asset |-> "t", severity |-> "info", blank |-> FALSE]>>],
     [Base EXCEPT !.dimension = 2],
     [Base EXCEPT !.documents[1].vector = {2}, !.documents[2].vector = {3},
                  !.profile = "model", !.dimension = 2],
     [Base EXCEPT !.snapshot = Nothing, !.snapshotChecksum = Nothing],
     [Base EXCEPT !.reported = 2],
     [Base EXCEPT !.schemaVersion = 2, !.reportedVersion = 2],
     [Base EXCEPT !.ok = FALSE]}

\* "p" has vectors, "e" a blank edge id.
MCCandidates ==
    {Base, Typed("b", "s1"),
     [Plain("p") EXCEPT !.documents[1].vector = {2}, !.documents[2].vector = {2},
                        !.profile = "model", !.dimension = 2],
     [Base EXCEPT !.edges[1].blank = TRUE, !.checksum = "e"]}
    \cup Refused

-----------------------------------------------------------------------------
(* What the releases say: "b" gives the metric another relation document and
   adds a metric that only some identities may see.                        *)

MCMetrics(c) ==
    LET m == [id |-> "m", active |-> TRUE, enabled |-> TRUE, source |-> "orders",
              columns |-> {"valid"}, time |-> "at", permissions |-> {},
              policy |-> "work_order_metric_eligibility_v1"]
    IN  CASE c = "a" -> {m}
          [] c = "b" -> {m, [m EXCEPT !.id = "n", !.permissions = {"audit"}]}
          [] OTHER -> {}
MCRelations(c) ==
    CASE c = "a" -> {[id |-> "t", name |-> "orders"]}
      [] c = "b" -> {[id |-> "t", name |-> "orders"], [id |-> "u", name |-> "other"]}
      [] OTHER -> {}
MCTables(s) ==
    {[name |-> "orders", types |-> [valid |-> "bool", at |-> "timestamp"]]}
MCViews == {[name |-> "orders", columns |-> {"valid", "at"}]}
MCGrants == {{}, {"*"}}
MCQuestions == {[m |-> 1, n |-> 2]}
=============================================================================
