--------------------------- MODULE SchemaSnapshots ---------------------------
(***************************************************************************)
(* semantic/schema_snapshot.py: the one-shot snapshotter that collects the *)
(* catalogue of the business database, joins it with the policy file,      *)
(* compares it with a baseline and publishes it, and the release that      *)
(* binds a validated snapshot.  Several snapshotters and the owner of the  *)
(* business database work at the same time.                                *)
(*                                                                         *)
(* A relation id is <<schema, name>>; an unqualified reference is <<name>>. *)
(* Columns are numbers.  A checksum is the content it is computed from.    *)
(* Primary key, indexes, partition key and kind of a relation are one      *)
(* value, its layout.  The row locks of publication are in ReleaseStore:   *)
(* here one publication is one step.                                       *)
(***************************************************************************)
EXTENDS Integers, Sequences, FiniteSets, SequencesExt

CONSTANTS Catalogs,      \* states of the business catalogue: functions on relation ids
          RunArguments,  \* arguments of a run
          Stored,        \* snapshots an earlier version of the program may have left
          Snapshotters,
          MaxRelations,  \* the collector's bound
          MaxRuns        \* bounds the runs of a behaviour

VARIABLES catalog,       \* the business catalogue
          snapshots,     \* schema_snapshots: candidate |-> its row
          active,        \* the snapshot of the active release, as a set of at most one
          job,           \* what each snapshotter is doing
          runs,          \* runs started
          approved       \* history: the shapes somebody let in

snapshotVars == <<catalog, snapshots, active, job, runs, approved>>

NoColumn == 0
NoRelation == <<>>
Unbounded == -1      \* freshness_sla_seconds is None
Current == "v2"
Legacy == "v1"
CurrentParser == "postgres-catalog-v1"
ScopeLevels == <<"city_company", "area", "team", "employee">>
ValueTypes == <<"none", "integer", "text">>

-----------------------------------------------------------------------------
(* Collection.                                                             *)

\* _normalize_relation_ref: NoRelation when the reference is refused.
NormalizedRef(ref, schemas) ==
    CASE Len(ref) = 1 /\ Cardinality(schemas) = 1 -> <<CHOOSE s \in schemas : TRUE, ref[1]>>
      [] Len(ref) = 2 /\ ref[1] \in schemas -> ref
      [] OTHER -> NoRelation

NormalizedRefs(refs, schemas) == {NormalizedRef(r, schemas) : r \in refs}

\* The rows of _RELATION_QUERY.
Slice(request) ==
    {r \in DOMAIN catalog :
        /\ r[1] \in request.schemas
        /\ request.relations # {} => r \in NormalizedRefs(request.relations, request.schemas)}

CollectRefused(request) ==
    LET refs == NormalizedRefs(request.relations, request.schemas)
        policyRefs == NormalizedRefs(DOMAIN request.policies, request.schemas)
    IN  \/ ~request.policyFileReads
        \/ request.schemas = {}
        \/ NoRelation \in refs \cup policyRefs
        \/ Cardinality(refs) > MaxRelations
        \/ Cardinality(Slice(request)) > MaxRelations
        \/ ~(policyRefs \subseteq Slice(request))

NoPolicy == [sensitivity |-> "unclassified", sensitive |-> {}, freshness |-> Unbounded, coverage |-> <<>>]

PolicyFor(r, request) ==
    LET named == {ref \in DOMAIN request.policies : NormalizedRef(ref, request.schemas) = r}
    IN  IF named = {} THEN NoPolicy ELSE request.policies[CHOOSE ref \in named : TRUE]

Position(x, s) == IF x \in ToSet(s) THEN CHOOSE i \in DOMAIN s : s[i] = x ELSE Len(s) + 1

\* _normalize_organization_coverage: one order for one set of bindings.
NormalizedCoverage(coverage) ==
    LET key(b) == <<Position(b.level, ScopeLevels), b.field, Position(b.type, ValueTypes)>>
        before(a, b) == \E i \in 1..3 : key(a)[i] < key(b)[i] /\ \A j \in 1..(i - 1) : key(a)[j] = key(b)[j]
    IN  SortSeq(coverage, before)

\* A key or a parent outside the slice is dropped.
RelationOf(r, request) ==
    LET raw == catalog[r]
        policy == PolicyFor(r, request)
        slice == Slice(request)
    IN  [columns |-> raw.columns, layout |-> raw.layout, rows |-> raw.rows,
         foreign |-> {k \in raw.foreign : k.target \in slice},
         parent |-> IF raw.parent \in slice THEN raw.parent ELSE NoRelation,
         sensitivity |-> policy.sensitivity, sensitive |-> policy.sensitive,
         freshness |-> policy.freshness, coverage |-> NormalizedCoverage(policy.coverage)]

BuildCandidate(request) ==
    [source |-> request.source, schemas |-> request.schemas, parser |-> CurrentParser,
     format |-> Current, relations |-> [r \in Slice(request) |-> RelationOf(r, request)]]

\* _relation_structure_payload: what the database owns, without its size.
Structure(relation) ==
    [columns |-> relation.columns, layout |-> relation.layout,
     foreign |-> relation.foreign, parent |-> relation.parent]

\* schema_checksum.
SchemaChecksum(c) ==
    [source |-> c.source, schemas |-> c.schemas, parser |-> c.parser,
     relations |-> [r \in DOMAIN c.relations |-> Structure(c.relations[r])]]

\* _candidate_payload: the first format has neither a marker nor coverage.
\* The checksum of a candidate is that of its payload.
Payload(c) ==
    [source |-> c.source, schemas |-> c.schemas, parser |-> c.parser, structure |-> SchemaChecksum(c),
     marker |-> IF c.format = Legacy THEN "absent" ELSE c.format,
     relations |-> [r \in DOMAIN c.relations |-> [c.relations[r] EXCEPT !.coverage = <<>>]],
     coverage |-> IF c.format = Legacy THEN <<>> ELSE [r \in DOMAIN c.relations |-> c.relations[r].coverage]]

\* schema_snapshot_candidate_from_payload.
FromPayload(p) ==
    LET format == IF p.marker = "absent" THEN Legacy ELSE p.marker
    IN  [source |-> p.source, schemas |-> p.schemas, parser |-> p.parser, format |-> format,
         relations |-> [r \in DOMAIN p.relations |->
            [p.relations[r] EXCEPT !.coverage = IF format = Legacy THEN <<>> ELSE p.coverage[r]]]]

-----------------------------------------------------------------------------
(* Validation.                                                             *)

\* The binding reserves its field: the checks before seen_fields.add pass.
Complete(coverage, i) ==
    LET b == coverage[i]
    IN  /\ b.level \in ToSet(ScopeLevels) \ {"city_company"}
        /\ \A j \in 1..(i - 1) : coverage[j].level # b.level
        /\ b.field # NoColumn
        /\ b.type \in {"integer", "text"}

\* validate_organization_coverage: the bindings that have a problem.
CoverageProblems(relation) ==
    {i \in DOMAIN relation.coverage :
        LET b == relation.coverage[i]
        IN  \/ b.level \notin ToSet(ScopeLevels)
            \/ \E j \in 1..(i - 1) : relation.coverage[j].level = b.level
            \/ b.level = "city_company" /\ (b.field # NoColumn \/ b.type # "none")
            \/ /\ b.level # "city_company"
               /\ \/ ~Complete(relation.coverage, i)
                  \/ \E j \in 1..(i - 1) :
                        Complete(relation.coverage, j) /\ relation.coverage[j].field = b.field
                  \/ b.field \notin DOMAIN relation.columns
                  \/ relation.columns[b.field] # b.type}

\* Mutant: a change of organization coverage is no drift.
DriftUncovered(before, after) ==
    \/ before.source # after.source
    \/ before.parser # after.parser
    \/ before.schemas # after.schemas
    \/ DOMAIN before.relations # DOMAIN after.relations
    \/ \E r \in DOMAIN before.relations \cap DOMAIN after.relations :
        LET b == before.relations[r]
            a == after.relations[r]
        IN  Structure(b) # Structure(a) \/ b.sensitivity # a.sensitivity \/ b.sensitive # a.sensitive

\* _schema_drift_issues, all of them errors.
Drift(before, after) ==
    \/ before.source # after.source
    \/ before.parser # after.parser
    \/ before.schemas # after.schemas
    \/ DOMAIN before.relations # DOMAIN after.relations
    \/ \E r \in DOMAIN before.relations \cap DOMAIN after.relations :
        LET b == before.relations[r]
            a == after.relations[r]
        IN  \/ Structure(b) # Structure(a)
            \/ b.sensitivity # a.sensitivity
            \/ b.sensitive # a.sensitive
            \/ b.coverage # a.coverage

\* validate_schema_snapshot, the errors; previous is a set of at most one.
ReportOk(candidate, required, previous) ==
    /\ DOMAIN candidate.relations # {}
    /\ required \subseteq DOMAIN candidate.relations
    /\ \A r \in DOMAIN candidate.relations :
        LET relation == candidate.relations[r]
        IN  /\ relation.freshness = Unbounded \/ relation.freshness > 0
            /\ relation.sensitive \subseteq DOMAIN relation.columns
            /\ CoverageProblems(relation) = {}
    /\ \A p \in previous : ~Drift(p, candidate)

Report(candidate, required, previous) ==
    [ok |-> ReportOk(candidate, required, previous), of |-> Payload(candidate),
     structure |-> SchemaChecksum(candidate), count |-> Cardinality(DOMAIN candidate.relations)]

-----------------------------------------------------------------------------
(* The store.                                                              *)

\* _snapshot_from_row accepts the row of payload p.
Readable(p) ==
    LET c == FromPayload(p)
        row == snapshots[p]
    IN  /\ p.marker \in {"absent", Current}
        /\ Payload(c) = p
        /\ row.report.of = p
        /\ row.report.structure = SchemaChecksum(c)
        /\ row.report.count = Cardinality(DOMAIN c.relations)
        /\ row.report.ok = (row.state # "rejected")

\* bind_schema_snapshot accepts the snapshot of payload p.
Bindable(p) ==
    /\ snapshots[p].state = "validated"
    /\ snapshots[p].report.ok
    /\ snapshots[p].report.of = p
    /\ snapshots[p].report.structure = SchemaChecksum(FromPayload(p))

Known(p) == p \in DOMAIN snapshots

\* Mutant: the report of the first publication is kept.
PersistedOnce(p, report) ==
    (p :> [state |-> IF report.ok THEN "validated" ELSE "rejected",
           report |-> IF Known(p) THEN snapshots[p].report ELSE report]) @@ snapshots

\* The UPDATE of publish.
Persisted(p, report) ==
    (p :> [state |-> IF report.ok THEN "validated" ELSE "rejected", report |-> report]) @@ snapshots

\* publish refuses to revive a retired snapshot or to demote a validated one.
PublishRefused(p, report) ==
    /\ Known(p)
    /\ snapshots[p].state = "retired" \/ (snapshots[p].state = "validated" /\ ~report.ok)

-----------------------------------------------------------------------------
(* History: what the drift check protects.  A shape is let in by the first *)
(* snapshot, which has no baseline, or by naming a snapshot of that shape  *)
(* as the baseline of a run.                                               *)

Shape(c) ==
    [source |-> c.source, schemas |-> c.schemas, parser |-> c.parser,
     relations |-> [r \in DOMAIN c.relations |->
        [structure |-> Structure(c.relations[r]), sensitivity |-> c.relations[r].sensitivity,
         sensitive |-> c.relations[r].sensitive, coverage |-> c.relations[r].coverage]]]

-----------------------------------------------------------------------------
NoJob == [phase |-> "idle", request |-> {}, candidate |-> {}, baseline |-> {}]

SnapshotsInit ==
    /\ catalog \in Catalogs
    /\ snapshots \in Stored
    /\ active \in {{}} \cup {{p} : p \in {q \in DOMAIN snapshots : Bindable(q)}}
    /\ job = [s \in Snapshotters |-> NoJob]
    /\ runs = 0
    /\ approved = {Shape(FromPayload(p)) : p \in {q \in DOMAIN snapshots : snapshots[q].state # "rejected"}}

\* main and collect: one repeatable-read transaction.
Collect(s, request) ==
    /\ job[s].phase = "idle"
    /\ runs < MaxRuns
    /\ runs' = runs + 1
    /\ job' = IF CollectRefused(request) THEN job
              ELSE [job EXCEPT ![s] = [phase |-> "collected", request |-> {request},
                                       candidate |-> {BuildCandidate(request)}, baseline |-> {}]]
    /\ UNCHANGED <<catalog, snapshots, active, approved>>

\* An unknown id reads as no baseline.
BaselineIs(s, rows) ==
    /\ job' = IF \A p \in rows : Readable(p)
              THEN [job EXCEPT ![s].phase = "compared", ![s].baseline = {FromPayload(p) : p \in rows}]
              ELSE [job EXCEPT ![s] = NoJob]
    /\ UNCHANGED <<catalog, snapshots, active, runs>>

ReadActive(s) ==
    /\ job[s].phase = "collected"
    /\ \A r \in job[s].request : ~r.named
    /\ BaselineIs(s, active)
    /\ UNCHANGED approved

ReadNamed(s) ==
    /\ job[s].phase = "collected"
    /\ \A r \in job[s].request : r.named
    /\ \E rows \in {{}} \cup {{p} : p \in DOMAIN snapshots} :
        /\ BaselineIs(s, rows)
        /\ approved' = approved \cup {Shape(FromPayload(p)) : p \in rows}

\* validate_schema_snapshot and publish.
PublishSnapshot(s) ==
    /\ job[s].phase = "compared"
    /\ \E request \in job[s].request, candidate \in job[s].candidate :
        LET report == Report(candidate, NormalizedRefs(request.relations, request.schemas), job[s].baseline)
            p == Payload(candidate)
        IN  /\ snapshots' = IF PublishRefused(p, report) \/ (Known(p) /\ snapshots[p].state = "validated")
                        THEN snapshots ELSE Persisted(p, report)
            /\ approved' = IF report.ok /\ job[s].baseline = {} THEN approved \cup {Shape(candidate)}
                           ELSE approved
    /\ job' = [job EXCEPT ![s] = NoJob]
    /\ UNCHANGED <<catalog, active, runs>>

\* The process dies, or a connection is lost.
SnapshotterDies(s) ==
    /\ job[s].phase # "idle"
    /\ job' = [job EXCEPT ![s] = NoJob]
    /\ UNCHANGED <<catalog, snapshots, active, runs, approved>>

\* A release bound to the snapshot becomes the active one.
ActivateBound ==
    /\ \E p \in DOMAIN snapshots : Bindable(p) /\ active' = {p}
    /\ UNCHANGED <<catalog, snapshots, job, runs, approved>>

\* The owner of the business database changes it.
AlterCatalog ==
    /\ catalog' \in Catalogs
    /\ UNCHANGED <<snapshots, active, job, runs, approved>>

SnapshotsNext ==
    \/ \E s \in Snapshotters :
        \/ \E request \in RunArguments : Collect(s, request)
        \/ ReadActive(s)
        \/ ReadNamed(s)
        \/ PublishSnapshot(s)
        \/ SnapshotterDies(s)
    \/ ActivateBound
    \/ AlterCatalog

-----------------------------------------------------------------------------
\* A snapshot is validated only in a shape that somebody let in, whatever the
\* database and the policy file did meanwhile: the database's structure and
\* the governance of its relations change together with an approval or not at
\* all (_schema_drift_issues and the baseline chosen by run_snapshotter).
DriftIsApproved ==
    \A p \in DOMAIN snapshots : snapshots[p].state = "validated" => Shape(FromPayload(p)) \in approved

\* Every stored snapshot can be read back and every validated one bound to a
\* release, and a validated one is safe to narrow by: each organization level
\* has one column of its own, of the declared type, and every column or
\* relation it speaks of is in it (publish against _snapshot_from_row,
\* bind_schema_snapshot and the consumers of organization_coverage).
SnapshotsHold ==
    \A p \in DOMAIN snapshots :
        /\ Readable(p)
        /\ snapshots[p].state = "validated" =>
            /\ Bindable(p)
            /\ \A r \in DOMAIN p.relations :
                LET relation == FromPayload(p).relations[r]
                    narrow == {b \in ToSet(relation.coverage) : b.level # "city_company"}
                IN  /\ relation.sensitive \subseteq DOMAIN relation.columns
                    /\ \A k \in relation.foreign : k.target \in DOMAIN p.relations
                    /\ relation.parent \in DOMAIN p.relations \cup {NoRelation}
                    /\ \A b \in narrow : b.field \in DOMAIN relation.columns /\ relation.columns[b.field] = b.type
                    /\ \A b, c \in narrow : b # c => b.level # c.level /\ b.field # c.field
=============================================================================
