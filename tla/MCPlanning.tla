----------------------------- MODULE MCPlanning -----------------------------
(***************************************************************************)
(* Model-checking instance of the way from a question to its numbers: the  *)
(* proposal of a plan and its clarification, the validation and            *)
(* compilation of the plan, and the query of one metric.  They share no    *)
(* variable, so one behaviour exercises one of them, chosen in the initial *)
(* state.                                                                  *)
(***************************************************************************)
EXTENDS QueryProposal, QueryPlanning, MetricQuery

VARIABLE subject

mcPlanningVars == <<subject, proposalVars, planVars, metricVars>>

-----------------------------------------------------------------------------
(* Proposals: a calendar of seven weeks in three years of three months.    *)

MCCalendar ==
    <<<<1, 1, 1>>, <<1, 1, 2>>, <<1, 1, 3>>, <<1, 1, 4>>, <<1, 1, 5>>,
      <<1, 2, 1>>, <<1, 2, 2>>, <<1, 2, 3>>,
      <<1, 3, 1>>, <<1, 3, 2>>, <<1, 3, 3>>, <<1, 3, 4>>, <<1, 3, 5>>, <<1, 3, 6>>,
      <<2, 1, 1>>, <<2, 1, 2>>, <<2, 1, 3>>, <<2, 1, 4>>, <<2, 1, 5>>,
      <<2, 2, 1>>, <<2, 2, 2>>, <<2, 2, 3>>, <<2, 2, 4>>,
      <<2, 3, 1>>, <<2, 3, 2>>, <<2, 3, 3>>, <<2, 3, 4>>, <<2, 3, 5>>, <<2, 3, 6>>,
      <<3, 1, 1>>, <<3, 1, 2>>, <<3, 1, 3>>, <<3, 1, 4>>, <<3, 1, 5>>,
      <<3, 2, 1>>, <<3, 2, 2>>, <<3, 2, 3>>,
      <<3, 3, 1>>, <<3, 3, 2>>, <<3, 3, 3>>, <<3, 3, 4>>, <<3, 3, 5>>, <<3, 3, 6>>>>
MCLastDay == <<3, 6>>

Relative(token) == <<"relative", token>>
TimeIs(text) == <<"time", text>>

\* "soon", the 31st and a range that runs backwards are not times.
Texts ==
    {Relative(t) : t \in {"today", "yesterday", "this week", "last week", "this month",
                          "last month", "this year", "last year", "soon"}}
    \cup {<<"date", d>> : d \in {<<2, 2, 4>>, <<1, 2, 4>>, <<2, 2>>, <<2, 4>>, <<3>>, <<0>>, <<1, 2, 1>>}}
    \cup {<<"range", <<1, 3, 6>>, <<2, 1, 2>>>>, <<"range", <<2, 1, 2>>, <<1, 3, 6>>>>, <<"latest">>, <<"recent">>}

MCQuestions ==
    {<<>>, <<TimeIs(Relative("today")), TimeIs(Relative("today"))>>, <<TimeIs(<<"empty">>)>>,
     <<TimeIs(<<"recent">>), <<"intent", "trend">>>>}
    \cup {<<TimeIs(text)>> : text \in Texts}
    \cup {<<TimeIs(Relative(t)), <<"grain", "month">>>> : t \in {"today", "last month", "last week"}}
    \cup {<<<<"grain", "week">>>>, <<<<"grain", "day">>, <<"grain", "day">>>>,
          <<<<"dim", "city_company">>>>, <<<<"dim", "area">>>>,
          <<<<"intent", "ranking">>, <<"dim", "city_company">>>>, <<<<"top", 3>>>>,
          <<<<"filter", "declared">>, TimeIs(Relative("last year"))>>, <<<<"filter", "wrong">>>>,
          <<<<"org", "x">>>>}

MCContracts == {[grains |-> {"day"}, dims |-> {"city_company"}], [grains |-> {"day", "month"}, dims |-> {}]}
MCProbes ==
    {[latest |-> 0, window |-> <<>>], [latest |-> 9, window |-> <<7, 9>>], [latest |-> 9, window |-> <<9, 7>>]}
MCReplies ==
    {[time |-> text] : text \in Texts}
    \cup {[grain |-> g] : g \in {"day", "month", "week"}}
    \cup {[time |-> Relative(t), grain |-> g] : t \in {"today", "soon"}, g \in {"day", "month"}}

-----------------------------------------------------------------------------
(* Plans: a calculated metric m3 of m1 and m2, in catalogues that bind it  *)
(* well, to roles that differ in case only, to an unusable role, to too    *)
(* few inputs, and next to a second binding.                               *)

Input(role, metric) == [role |-> role, metric |-> metric, nested |-> FALSE]
Bound(key, inputs, template, sum) ==
    [key |-> key, inputs |-> inputs, template |-> template, sum |-> sum, release |-> 1]
TwoInputs == <<Input("a", "m1"), Input("b", "m2")>>

MCCatalogs ==
    {<<>>,
     [m3 |-> Bound("m3", TwoInputs, "ratio", 1)],
     [m3 |-> Bound("m3", <<Input("a", "m1"), Input("A", "m2")>>, "cased", 2)],
     [m3 |-> Bound("m3", <<Input("_c", "m1")>>, "ratio", 3)],
     [m3 |-> Bound("m3", <<Input("a", "m1")>>, "ratio", 4)],
     [m3 |-> Bound("m3", TwoInputs, "ratio", 5), m2 |-> Bound("m2", <<Input("a", "m1")>>, "single", 6)]}
MCTemplates == [ratio |-> {"a", "b"}, cased |-> {"a", "A"}, single |-> {"a"}]

Query(metrics) ==
    [metrics |-> metrics, intent |-> "metric", domainKnown |-> TRUE, permitted |-> TRUE,
     detailSource |-> FALSE, slots |-> FALSE]
MCQueries ==
    {Query(<<"m3">>), Query(<<"m1">>), Query(<<"m1", "m2">>), Query(<<"m1", "m3">>)}
    \cup {[Query(<<"m3">>) EXCEPT !.intent = i] : i \in {"detail", "trend"}}
    \cup {[Query(<<"m1">>) EXCEPT !.slots = TRUE], [Query(<<"m1">>) EXCEPT !.permitted = FALSE],
          [Query(<<"m1">>) EXCEPT !.intent = "detail", !.detailSource = TRUE]}

Context(release, assets) ==
    [release |-> release, assets |-> assets, status |-> "resolved", slots |-> FALSE, relations |-> FALSE]
MCContexts ==
    {Context(1, {"m1", "m2", "m3"}), Context(2, {"m1", "m2", "m3"}), Context(1, {"m1", "m3"}),
     [Context(1, {"m1"}) EXCEPT !.status = "conflict"], [Context(1, {"m1"}) EXCEPT !.status = "partial"]}

Authored(sum, inputs, used) == [sum |-> sum, inputs |-> inputs, used |-> used, bindingValid |-> TRUE]
MCSpecs ==
    {Authored(11, TwoInputs, {"a", "b"}), Authored(12, TwoInputs, {"a"}),
     Authored(13, <<Input("a", "m1"), Input("b", "m1")>>, {"a", "b"}),
     Authored(14, <<Input("a", "none")>>, {"a"})}

-----------------------------------------------------------------------------
(* Metric queries: seven facts in three areas, one outside every area, one *)
(* the metric does not count; aggregates that cover less than the detail.  *)

FactAt(id, at, area, team, kind, num, den, recorded) ==
    [id |-> id, at |-> at, area |-> area, team |-> team, employee |-> 0, kind |-> kind,
     num |-> num, den |-> den, recorded |-> recorded, valid |-> id # 9]
MCFacts ==
    {FactAt(1, 2, 1, 11, 1, TRUE, TRUE, 1), FactAt(2, 3, 1, 12, 2, FALSE, TRUE, 1),
     FactAt(3, 5, 2, 21, 1, TRUE, TRUE, 1), FactAt(4, 6, 2, 21, 1, TRUE, TRUE, 2),
     FactAt(5, 7, 3, 31, 1, FALSE, FALSE, 2), FactAt(6, 4, 0, 0, 2, FALSE, TRUE, 1),
     FactAt(9, 4, 1, 11, 1, TRUE, TRUE, 1)}
MCFirstOfMonth == <<1, 1, 3, 3, 5>>

Plain(intent) ==
    [intent |-> intent, grain |-> "day", dims |-> <<>>, filters |-> <<>>, start |-> 1, end |-> 3,
     dates |-> <<>>, detail |-> FALSE, limit |-> 2, dependency |-> FALSE]
FilterOn(field, op, values) == [field |-> field, op |-> op, values |-> values, alias |-> TRUE]
MCPlans ==
    {Plain(i) : i \in {"metric", "trend", "ranking", "detail"}}
    \cup {[Plain("metric") EXCEPT !.dependency = TRUE, !.filters = <<FilterOn("kind", "eq", {1})>>],
          [Plain("metric") EXCEPT !.filters = <<FilterOn("area", "in", {1, 2})>>],
          [Plain("metric") EXCEPT !.filters = <<FilterOn("team", "eq", {11})>>],
          [Plain("metric") EXCEPT !.filters = <<FilterOn("area", "eq", {1}), FilterOn("team", "eq", {11})>>],
          [Plain("metric") EXCEPT !.end = 4, !.detail = TRUE],
          [Plain("metric") EXCEPT !.grain = "hour"],
          [Plain("trend") EXCEPT !.grain = "month", !.start = 2],
          [Plain("trend") EXCEPT !.dates = <<1, 3>>],
          [Plain("trend") EXCEPT !.dates = <<1, 2>>, !.dims = <<"area">>],
          [Plain("comparison") EXCEPT !.dims = <<"area">>],
          [Plain("comparison") EXCEPT !.dims = <<"team">>, !.detail = TRUE],
          [Plain("ranking") EXCEPT !.dims = <<"area">>],
          [Plain("ranking") EXCEPT !.dims = <<"team">>, !.limit = 1, !.end = 4]}

Scope(level, ids) == [level |-> level, ids |-> ids, enabled |-> TRUE, sameRun |-> TRUE]
MCAuths ==
    {NoAuth, Scope("city_company", {1}), Scope("area", {1}), Scope("area", {1, 2}), Scope("area", {}),
     Scope("team", {11, 21}), Scope("employee", {1}), [Scope("area", {1}) EXCEPT !.sameRun = FALSE]}

MetricOf(ratio) ==
    [dims |-> {"city_company", "area", "team"}, grains |-> {"day", "month"}, filters |-> {"kind"},
     sla |-> 1, ratio |-> ratio]
Source(id, aggregate) ==
    [id |-> id, aggregate |-> aggregate, defines |-> TRUE, fallback |-> TRUE, detailRequired |-> TRUE,
     defects |-> {}, covers |-> {"city_company", "area", "team"}, maxDays |-> 4]
SourceLists ==
    {<<Source("daily", TRUE), Source("detail", FALSE)>>,
     <<[Source("daily", TRUE) EXCEPT !.fallback = FALSE, !.maxDays = 3],
       [Source("detail", FALSE) EXCEPT !.detailRequired = FALSE]>>,
     <<[Source("daily", TRUE) EXCEPT !.covers = {"city_company", "area"}, !.defines = FALSE],
       [Source("hourly", TRUE) EXCEPT !.defects = {"aggregate"}], Source("detail", FALSE)>>}
MCDeployments == {[metric |-> MetricOf(r), sources |-> s] : r \in BOOLEAN, s \in SourceLists}

-----------------------------------------------------------------------------
\* The parts that a behaviour leaves alone start in one state.
ProposalIdle ==
    /\ clock = 1 /\ probe = CHOOSE p \in MCProbes : TRUE
    /\ question = [text |-> <<>>, contract |-> CHOOSE c \in MCContracts : TRUE]
PlanIdle ==
    /\ request = [query |-> Query(<<"m1">>), catalog |-> <<>>]
    /\ context = Context(1, {"m1", "m3"})
MetricIdle ==
    /\ deployed = CHOOSE d \in MCDeployments : TRUE
    /\ asked = [plan |-> Plain("metric"), auth |-> NoAuth, release |-> 1]

MCPlanningInit ==
    /\ subject \in {"proposal", "plan", "metric"}
    /\ subject = "proposal" \/ ProposalIdle
    /\ ProposalInit
    /\ subject = "plan" \/ PlanIdle
    /\ PlanningInit
    /\ subject = "metric" \/ MetricIdle
    /\ MetricInit

MCPlanningNext ==
    /\ UNCHANGED subject
    /\ \/ subject = "proposal" /\ ProposalNext /\ UNCHANGED <<planVars, metricVars>>
       \/ subject = "plan" /\ PlanningNext /\ UNCHANGED <<proposalVars, metricVars>>
       \/ subject = "metric" /\ MetricNext /\ UNCHANGED <<proposalVars, planVars>>

MCPlanningSpec == MCPlanningInit /\ [][MCPlanningNext]_mcPlanningVars
=============================================================================
