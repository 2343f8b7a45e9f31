---------------------------- MODULE MetricQuery ----------------------------
(***************************************************************************)
(* orchestration/metric_query.py: a validated plan for one metric is        *)
(* compiled into one query over an approved relation, prepared, compiled    *)
(* again immediately before it runs, and its rows are validated.  Between   *)
(* the two compilations the clock runs, a release is activated and the      *)
(* aggregates are rebuilt.                                                  *)
(*                                                                          *)
(* A query is the record of the constraints its SQL states.  Day d begins   *)
(* at instant 2d and has its noon at 2d + 1; 0 is SQL's NULL.  A count is   *)
(* a ratio over 1.                                                          *)
(***************************************************************************)
EXTENDS Naturals, Sequences, SequencesExt, FiniteSets, FiniteSetsExt, Functions, TLC

CONSTANTS Plans, Auths,   \* the requests, and the trusted contexts they come with
          Deployments,    \* each a metric's contract and its RelationBindings, in order of id
          Facts,          \* the business facts, each with the time it is recorded
          FirstOfMonth,   \* the first day of a day's month
          MaxRows,        \* the row cap of the gateway
          MaxNow, MaxRelease

VARIABLES deployed,  \* the deployment at hand
          world,     \* the clock, the active release, the freshness record of each source
          asked,     \* the plan, the authorization and the release of its context
          prepared, phase, answer

metricVars == <<deployed, world, asked, prepared, phase, answer>>

Metric == deployed.metric
Sources == deployed.sources

-----------------------------------------------------------------------------
(* Failure codes: the first condition that fails decides.                  *)

FirstFailure(checks) ==
    LET bad == {i \in DOMAIN checks : checks[i][1]}
    IN IF bad = {} THEN "none" ELSE checks[Min(bad)][2]

\* _SOURCE_REJECTIONS: another source may still be tried.
Degradable == {"permission_denied", "relation_unapproved", "aggregate_coverage_unapproved",
    "column_unapproved", "time_index_required", "time_range_too_large",
    "grain_or_dimension_unsupported", "dimension_combination_unsupported",
    "aggregate_sla_missing", "freshness_authority_mismatch"}

NoAuth == [level |-> "none", ids |-> {}, enabled |-> TRUE, sameRun |-> TRUE]
Rank == [city_company |-> 0, area |-> 1, team |-> 2, employee |-> 3]
Grouped(p) == p.intent \in {"comparison", "ranking"}
Entries(p) == {p.filters[i] : i \in DOMAIN p.filters}
OrgEntries(p) == {e \in Entries(p) : e.field \in DOMAIN Rank}
Dimension(p) == IF Grouped(p) /\ p.dims # <<>> THEN p.dims[1] ELSE "none"

\* _organization_scope
OrganizationFailure(p, s, auth) ==
    LET trusted == auth # NoAuth
        covered == IF trusted THEN s.covers ELSE s.covers \cup {"city_company"}
        uncovered(code) == IF trusted THEN "organization_coverage_unapproved" ELSE code
        perDimension(d) == <<<<d \notin Metric.dims, "grain_or_dimension_unsupported">>,
                             <<d \notin covered, uncovered("grain_or_dimension_unsupported")>>>>
        perFilter(e) == <<<<~e.alias \/ e.field = "city_company" \/ e.field \notin Metric.dims,
                            "filter_unsupported">>,
                          <<e.field \notin covered, uncovered("filter_unsupported")>>>>
        org == SelectSeq(p.filters, LAMBDA e : e.field \in DOMAIN Rank)
    IN FirstFailure(
         FlattenSeq([i \in DOMAIN p.dims |-> perDimension(p.dims[i])])
         \o <<<<Len(p.dims) > 1, "dimension_combination_unsupported">>,
              <<Grouped(p) /\ (p.dims = <<>> \/ p.dims = <<"city_company">>), "operation_unsupported">>,
              <<~Grouped(p) /\ Range(p.dims) \ {"city_company"} # {}, "dimension_combination_unsupported">>>>
         \o FlattenSeq([i \in DOMAIN org |-> perFilter(org[i])])
         \o <<<<Cardinality(Range(p.dims) \cup {e.field : e \in OrgEntries(p)}) > 1,
                "dimension_combination_unsupported">>>>)

\* The user filters: typed membership where the filter is at the caller's level.
FilterFailure(p, auth) ==
    FirstFailure(<<
        <<\E i, j \in DOMAIN p.filters : i # j /\ p.filters[i].field = p.filters[j].field,
          "filter_unsupported">>,
        <<\E e \in Entries(p) \ OrgEntries(p) : e.field \notin Metric.filters \/ e.op # "eq",
          "filter_unsupported">>,
        <<\E e \in Entries(p) : e.op \notin {"eq", "in"}, "filter_unsupported">>,
        <<\E e \in OrgEntries(p) : e.field = auth.level /\ ~(e.values \subseteq auth.ids),
          "authorization_denied">>>>)

\* _compile_source, up to the query.
SourceFailure(p, s, auth) ==
    LET requested == {e.field : e \in OrgEntries(p)} \cup ({Dimension(p)} \ {"none"})
        organization == OrganizationFailure(p, s, auth)
        filters == FilterFailure(p, auth)
    IN FirstFailure(<<
        <<"permission" \in s.defects, "permission_denied">>,
        <<"relation" \in s.defects, "relation_unapproved">>,
        <<auth # NoAuth /\ "coverage" \in s.defects, "organization_coverage_invalid">>,
        <<s.aggregate /\ "aggregate" \in s.defects, "aggregate_coverage_unapproved">>,
        <<auth # NoAuth /\ auth.level \notin s.covers, "organization_coverage_unapproved">>,
        <<organization # "none", organization>>,
        <<auth # NoAuth /\ \E l \in requested : Rank[l] < Rank[auth.level], "organization_scope_denied">>,
        <<"columns" \in s.defects, "column_unapproved">>,
        <<~s.aggregate /\ "index" \in s.defects, "time_index_required">>,
        <<p.grain \notin Metric.grains, "grain_or_dimension_unsupported">>,
        <<(p.end - p.start) + 1 > s.maxDays, "time_range_too_large">>,
        <<p.dates # <<>> /\ (p.intent # "trend" \/ p.grain # "day" \/ p.dims # <<>>),
          "available_period_shape_invalid">>,
        <<filters # "none", filters>>>>)

\* Mutant: the inclusive end date becomes the exclusive end of the interval.
WindowEndExclusive(p) == 2 * p.end

\* The inclusive dates as one half-open interval.
WindowEnd(p) == 2 * (p.end + 1)

\* The scope whose daily rows an aggregate is asked for.
AggregateScope(p, auth) ==
    IF Grouped(p) THEN Dimension(p)
    ELSE IF OrgEntries(p) # {} THEN (CHOOSE e \in OrgEntries(p) : TRUE).field
    ELSE IF auth # NoAuth THEN auth.level ELSE "city_company"

\* The constraints of the compiled statement.
QueryOf(p, s, auth, fresh, degraded) ==
    [source |-> s.id, aggregate |-> s.aggregate, from |-> 2 * p.start, to |-> WindowEnd(p),
     dates |-> Range(p.dates), fresh |-> fresh, degraded |-> degraded,
     scope |-> IF s.aggregate THEN AggregateScope(p, auth) ELSE "rows",
     where |-> {[field |-> e.field, ids |-> e.values] : e \in Entries(p)}
               \cup (IF s.aggregate THEN {} ELSE {[field |-> "valid", ids |-> {TRUE}]})
               \cup (IF auth.level \in {"none", "city_company"} THEN {}
                     ELSE {[field |-> auth.level, ids |-> auth.ids]}),
     group |-> IF p.intent = "trend" THEN "period" ELSE Dimension(p)]

-----------------------------------------------------------------------------
(* Sources.                                                                *)

NoQuery == [failed |-> "none", query |-> <<>>]
Failed(code) == [failed |-> code, query |-> <<>>]
Unknown == [status |-> "unknown", asOf |-> 0, release |-> 0]

\* _freshness: the record of the source, aged by the clock.
Freshness(s, w) ==
    LET mark == w.marks[s.id]
    IN IF mark.status = "fresh" /\ Metric.sla > 0 /\ w.now - mark.asOf > Metric.sla
       THEN [mark EXCEPT !.status = "stale"] ELSE mark
FreshnessFailure(s, w) ==
    FirstFailure(<<<<s.aggregate /\ Metric.sla = 0, "aggregate_sla_missing">>,
                   <<w.marks[s.id].release \notin {0, w.release}, "freshness_authority_mismatch">>>>)

\* What _select_source makes of one source.
Attempt(p, s, auth, w) ==
    LET stale == FreshnessFailure(s, w)
        bad == SourceFailure(p, s, auth)
        fresh == Freshness(s, w).status
    IN IF stale # "none" THEN stale ELSE IF bad # "none" THEN bad
       ELSE IF s.aggregate /\ fresh # "fresh" THEN "aggregate_" \o fresh ELSE "none"

\* The aggregates that were rejected and do not let the detail relation answer.
Blocked(aggregates, code) ==
    {i \in DOMAIN aggregates : code[i] # "none" /\ ~aggregates[i].fallback}

\* _select_source: the first fresh aggregate; else, unless one forbids it, the
\* first detail relation that compiles.
SelectSource(p, auth, w) ==
    LET aggregates == SelectSeq(Sources, LAMBDA s : s.aggregate /\ s.defines /\ ~p.detail)
        details == SelectSeq(Sources, LAMBDA s : ~s.aggregate)
        code == [i \in DOMAIN aggregates |-> Attempt(p, aggregates[i], auth, w)]
        final(i) == code[i] = "none" \/ code[i] \notin Degradable \cup {"aggregate_stale", "aggregate_unknown"}
        ends == {i \in DOMAIN aggregates : final(i)}
        blocked == Blocked(aggregates, code)
        detail == [i \in DOMAIN details |->
                     IF p.detail /\ ~details[i].detailRequired THEN "detail_strategy_denied"
                     ELSE Attempt(p, details[i], auth, w)]
        detailEnds == {i \in DOMAIN details : detail[i] \notin Degradable}
        made(s) == [failed |-> "none",
                    query |-> QueryOf(p, s, auth, Freshness(s, w), IF s.aggregate THEN {} ELSE Range(code))]
    IN IF ends # {}
       THEN LET i == Min(ends) IN IF code[i] = "none" THEN made(aggregates[i]) ELSE Failed(code[i])
       ELSE IF blocked # {} THEN Failed(code[Min(blocked)])
       ELSE IF detailEnds # {}
       THEN LET i == Min(detailEnds) IN IF detail[i] = "none" THEN made(details[i]) ELSE Failed(detail[i])
       ELSE Failed("source_missing_or_rejected")

\* MetricQueryCompiler.compile
CompileMetric(a, w) ==
    LET early == FirstFailure(<<
            <<~a.auth.sameRun, "authorization_run_binding_mismatch">>,
            <<a.auth # NoAuth /\ (~a.auth.enabled \/ a.auth.ids = {}), "authorization_denied">>,
            <<a.plan.intent \notin {"metric", "trend", "comparison", "ranking"}, "operation_unsupported">>,
            <<w.release # a.release, "active_release_mismatch">>>>)
    IN IF early # "none" THEN Failed(early) ELSE SelectSource(a.plan, a.auth, w)

-----------------------------------------------------------------------------
(* The database, from the statements the compiler writes (external).        *)

Bit(b) == IF b THEN 1 ELSE 0
Recorded(now) == {f \in Facts : f.recorded <= now}
Counts(f) == [num |-> Bit(Metric.ratio => f.den /\ f.num), den |-> Bit(Metric.ratio /\ f.den)]

\* A detail row per fact; a daily row per fact of the scope's own identifiers.
DetailRows(now) ==
    {[at |-> f.at, area |-> f.area, team |-> f.team, kind |-> f.kind, valid |-> f.valid,
      fact |-> f.id] @@ Counts(f) : f \in Recorded(now)}
AggregateRows(scope, asOf) ==
    {[at |-> 2 * (f.at \div 2), area |-> IF scope = "city_company" THEN 0 ELSE f.area,
      team |-> IF scope = "team" THEN f.team ELSE 0, kind |-> f.kind, fact |-> f.id] @@ Counts(f) :
        f \in {g \in Recorded(asOf) : g.valid}}

Period(p, at) == IF p.grain = "day" THEN at \div 2 ELSE FirstOfMonth[at \div 2]
KeyOf(p, q, r) == IF q.group = "none" THEN 0 ELSE IF q.group = "period" THEN Period(p, r.at) ELSE r[q.group]
Satisfies(q, r) ==
    /\ q.from <= r.at /\ r.at < q.to /\ (q.dates # {} => r.at \div 2 \in q.dates)
    /\ \A c \in q.where : r[c.field] \in c.ids
    /\ q.group \in {"area", "team"} => r[q.group] # 0
GroupRow(p, q, rows, k) ==
    LET group == {r \in rows : KeyOf(p, q, r) = k}
        den == MapThenSumSet(LAMBDA r : r.den, group)
    IN [key |-> k, num |-> MapThenSumSet(LAMBDA r : r.num, group), den |-> IF Metric.ratio THEN den ELSE 1]

\* A ratio in hundredths of a per cent, rounded half up, after NULL for one over 0.
ValueOf(r) == IF ~Metric.ratio THEN r.num
              ELSE IF r.den = 0 THEN 0 ELSE 1 + (20000 * r.num + r.den) \div (2 * r.den)
Better(a, b) == ValueOf(a) > ValueOf(b) \/ (ValueOf(a) = ValueOf(b) /\ a.key < b.key)
Select(p, q, now) ==
    LET table == IF q.aggregate THEN AggregateRows(q.scope, q.fresh.asOf) ELSE DetailRows(now)
        rows == {r \in table : Satisfies(q, r)}
        keys == IF q.group = "none" THEN {0} ELSE {KeyOf(p, q, r) : r \in rows}
        groups == {GroupRow(p, q, rows, k) : k \in keys}
        sorted == SetToSortSeq(groups, LAMBDA a, b : IF p.intent = "ranking" THEN Better(a, b) ELSE a.key < b.key)
        limit == IF p.intent = "ranking" THEN p.limit ELSE Len(sorted)
    IN SubSeq(sorted, 1, Min({limit, MaxRows, Len(sorted)}))

-----------------------------------------------------------------------------
(* The runner.                                                             *)

MayBeTruncated(p, rows) ==
    Len(rows) = MaxRows /\ ~(p.intent = "ranking" /\ p.limit <= MaxRows)

\* execute, from the gateway's rows on: _reject_calculation_error_rows,
\* _validate_rows and, for an input of a calculation, project_dependency_scalar.
RowsFailure(p, q, rows) ==
    LET keys == [i \in DOMAIN rows |-> rows[i].key]
        first == IF p.grain = "month" THEN FirstOfMonth[p.start] ELSE p.start
    IN FirstFailure(<<
        <<MayBeTruncated(p, rows), "result_may_be_truncated">>,
        <<\E i \in DOMAIN rows : rows[i].den = 0, "calculation_undefined">>,
        <<p.intent = "metric" /\ Len(rows) # 1, "result_shape_invalid">>,
        <<p.intent = "ranking" /\ Len(rows) > p.limit, "result_shape_invalid">>,
        <<q.group = "period" /\ \E i \in DOMAIN keys : keys[i] \notin first .. p.end, "result_shape_invalid">>,
        <<Cardinality(Range(keys)) # Len(keys), "result_shape_invalid">>,
        <<p.dates # <<>> /\ keys # p.dates, "available_period_set_invalid">>,
        <<p.intent = "ranking" /\ \E i \in 1 .. Len(rows) - 1 : ~Better(rows[i], rows[i + 1]), "result_shape_invalid">>,
        <<p.dependency /\ Len(rows) # 1, "dependency_scalar_required">>>>)

MetricInit ==
    /\ deployed \in Deployments
    /\ world = [now |-> 1, release |-> 1, marks |-> [s \in {t.id : t \in Range(Sources)} |-> Unknown]]
    /\ asked \in [plan : Plans, auth : Auths, release : {1}]
    /\ prepared = NoQuery /\ phase = "asked" /\ answer = <<>>

\* GatewayMetricStepRunner.prepare
Prepare ==
    LET made == CompileMetric(asked, world)
    IN /\ phase = "asked"
       /\ prepared' = made
       /\ phase' = IF made.failed = "none" THEN "prepared" ELSE "failed"
       /\ UNCHANGED <<deployed, world, asked, answer>>

\* Mutant: what was prepared runs, without another look at the authority.
RecheckNever ==
    /\ phase = "prepared" /\ phase' = "running"
    /\ UNCHANGED <<deployed, world, asked, prepared, answer>>

\* execute, up to the gateway.
Recheck ==
    LET made == CompileMetric(asked, world)
    IN /\ phase = "prepared"
       /\ phase' = IF made = prepared THEN "running" ELSE "failed"
       /\ UNCHANGED <<deployed, world, asked, prepared, answer>>

RunQuery ==
    LET rows == Select(asked.plan, prepared.query, world.now)
        bad == RowsFailure(asked.plan, prepared.query, rows)
    IN /\ phase = "running"
       /\ phase' = IF bad = "none" THEN "answered" ELSE "failed"
       /\ answer' = IF bad = "none" THEN rows ELSE <<>>
       /\ UNCHANGED <<deployed, world, asked, prepared>>

\* The world around a request.
Live == phase \in {"asked", "prepared", "running"}
Tick ==
    /\ Live /\ world.now < MaxNow
    /\ world' = [world EXCEPT !.now = @ + 1]
    /\ UNCHANGED <<deployed, asked, prepared, phase, answer>>
Rebuild(s) ==
    /\ Live /\ s.aggregate
    /\ world' = [world EXCEPT !.marks[s.id] = [status |-> "fresh", asOf |-> world.now, release |-> world.release]]
    /\ UNCHANGED <<deployed, asked, prepared, phase, answer>>
ActivateNext ==
    /\ Live /\ world.release < MaxRelease
    /\ world' = [world EXCEPT !.release = @ + 1]
    /\ UNCHANGED <<deployed, asked, prepared, phase, answer>>

MetricNext ==
    \/ Prepare \/ Recheck \/ RunQuery \/ Tick \/ ActivateNext
    \/ \E s \in Range(Sources) : Rebuild(s)

-----------------------------------------------------------------------------
(* Properties.                                                             *)

\* Reference: the facts a request is about, and nothing the caller may not see.
Visible(a, f) == a.auth.level \in {"none", "city_company"} \/ f[a.auth.level] \in a.auth.ids
About(a, f) ==
    /\ f.valid /\ Visible(a, f)
    /\ f.at \div 2 \in a.plan.start .. a.plan.end
    /\ a.plan.dates # <<>> => f.at \div 2 \in Range(a.plan.dates)
    /\ \A e \in Entries(a.plan) : f[e.field] \in e.values
GroupOf(a, f) ==
    IF a.plan.intent = "metric" THEN 0
    ELSE IF a.plan.intent = "trend" THEN Period(a.plan, f.at) ELSE f[Dimension(a.plan)]
AsOf == IF prepared.query.aggregate THEN prepared.query.fresh.asOf ELSE world.now
FactsOf(k) == {f \in Facts : f.recorded <= AsOf /\ About(asked, f) /\ GroupOf(asked, f) = k}
Exact(row) ==
    IF Metric.ratio
    THEN /\ row.den = Cardinality({f \in FactsOf(row.key) : f.den}) /\ row.den > 0
         /\ row.num = Cardinality({f \in FactsOf(row.key) : f.den /\ f.num})
    ELSE row.num = Cardinality(FactsOf(row.key))

\* An answer counts exactly the facts asked for, within the caller's scope,
\* whichever source it was read from, and leaves no group out: a ranking is the
\* best of all groups, and no full page passes for a complete one
\* (_compile_source, _select_source, GatewayMetricStepRunner.execute).
AnswersExact ==
    phase = "answered" =>
        LET keys == {answer[i].key : i \in DOMAIN answer}
            others == {k \in {GroupOf(asked, f) : f \in Facts} \ keys : k # 0 /\ FactsOf(k) # {}}
        IN /\ \A i \in DOMAIN answer : Exact(answer[i])
           /\ asked.plan.intent # "ranking" => others = {}
           /\ asked.plan.intent = "ranking" /\ others # {} =>
                /\ Len(answer) = asked.plan.limit
                /\ \A k \in others, i \in DOMAIN answer :
                    LET other == [num |-> Cardinality({f \in FactsOf(k) : Metric.ratio => f.den /\ f.num}),
                                  den |-> Cardinality({f \in FactsOf(k) : f.den})]
                    IN ValueOf(other) <= ValueOf(answer[i])

\* What runs is what the current authority would compile: the release the
\* request was resolved in is still active, an aggregate is read only within its
\* freshness limit, and the detail relation only where no approved aggregate of
\* the metric forbids it.
RunsUnderAuthority == [][
    phase = "prepared" /\ phase' = "running" =>
        /\ world.release = asked.release
        /\ prepared.query.aggregate => /\ prepared.query.fresh.status = "fresh"
                                       /\ world.now - prepared.query.fresh.asOf <= Metric.sla
        /\ ~prepared.query.aggregate =>
            \A s \in Range(Sources) : s.aggregate /\ s.defines /\ ~s.fallback => asked.plan.detail]_metricVars
=============================================================================
