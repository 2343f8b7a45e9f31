--------------------------- MODULE QueryProposal ---------------------------
(***************************************************************************)
(* orchestration/deterministic_query_plan.py: a question of the closed     *)
(* grammar becomes a query plan whose relative dates are resolved against  *)
(* the clock of that moment; what stays open is asked for in rounds, and   *)
(* every round refines the plan saved by the round before.  Days pass      *)
(* between the rounds.                                                     *)
(*                                                                         *)
(* A date is its position in a calendar; position 1 is date.min, a Monday. *)
(* A question is its sequence of clauses <<key, value>> behind a selector  *)
(* that matched one metric.                                                *)
(***************************************************************************)
EXTENDS Integers, Sequences, FiniteSets, FiniteSetsExt, Functions

CONSTANTS Calendar,    \* the dates <<year, month, day>>, in order
          LastDay,     \* <<month, day>> of the last day of every year
          CarrierDay,  \* 1970-01-01
          Questions, Replies,
          Contracts,   \* what a metric supports: [grains, dims]
          Probes,      \* what the server probed: [latest (0: none), window]
          MaxDays

VARIABLES clock, question, probe, draft, dialogue,
          named        \* history: the time text in force and the day it was given

proposalVars == <<clock, question, probe, draft, dialogue, named>>

Day == DOMAIN Calendar
Year(d) == Calendar[d][1]
Month(d) == Calendar[d][2]
Unnamed == <<<<"none">>, 0>>
NoDraft == [range |-> <<0, 0>>, dates |-> <<>>, grain |-> "day", intent |-> "metric", slots |-> {}]

-----------------------------------------------------------------------------
(* Time expressions: a period <<first, last>>, or none at all.             *)

Position == [date \in Range(Calendar) |-> CHOOSE d \in Day : Calendar[d] = date]

\* _safe_date
SafeDate(y, m, d) == {Position[date] : date \in {<<y, m, d>>} \cap DOMAIN Position}
Whole(firsts, lasts) == {<<f, l>> : f \in firsts, l \in lasts}

\* _monday
Monday(d) == d - ((d - 1) % 7)

\* Date arithmetic that leaves the calendar raises, and resolves to nothing.
Span(first, last) == IF {first, last} \subseteq Day THEN {<<first, last>>} ELSE {}

\* _resolve_relative
ResolveRelative(token, now) ==
    LET firstOf(d) == SafeDate(Year(d), Month(d), 1)
    IN CASE token = "today" -> Span(now, now)
         [] token = "yesterday" -> Span(now - 1, now - 1)
         [] token = "this week" -> Span(Monday(now), now)
         [] token = "last week" -> Span(Monday(now) - 7, Monday(now) - 7 + 6)
         [] token = "this month" -> Whole(firstOf(now), {now})
         [] token = "last month" ->
              UNION {Whole(firstOf(last), {last}) : last \in {f - 1 : f \in firstOf(now)} \cap Day}
         [] token = "this year" -> Whole(SafeDate(Year(now), 1, 1), {now})
         [] token = "last year" -> Whole(SafeDate(Year(now) - 1, 1, 1),
                                         SafeDate(Year(now) - 1, LastDay[1], LastDay[2]))
         [] OTHER -> {}

\* _absolute_period: a day, a month or a year.
AbsolutePeriod(date) ==
    CASE Len(date) = 3 -> {<<d, d>> : d \in SafeDate(date[1], date[2], date[3])}
      [] Len(date) = 2 ->
           LET days == {d \in Day : Year(d) = date[1] /\ Month(d) = date[2]}
           IN Whole(SafeDate(date[1], date[2], 1), IF days = {} THEN {} ELSE {Max(days)})
      [] OTHER -> Whole(SafeDate(date[1], 1, 1), SafeDate(date[1], LastDay[1], LastDay[2]))

\* _resolve_range
ResolveRange(first, last) ==
    {p \in Whole(SafeDate(first[1], first[2], first[3]), SafeDate(last[1], last[2], last[3])) :
        p[1] <= p[2]}

\* resolve_time_expression; the server's own expressions mean nothing to it.
ResolveTime(text, now) ==
    CASE text[1] = "relative" -> ResolveRelative(text[2], now)
      [] text[1] = "date" -> AbsolutePeriod(text[2])
      [] text[1] = "range" -> ResolveRange(text[2], text[3])
      [] OTHER -> {}

-----------------------------------------------------------------------------
(* The grammar.                                                            *)

Clauses(q, key) == {i \in DOMAIN q : q[i][1] = key}
Clause(q, key, default) ==
    IF Clauses(q, key) = {} THEN default ELSE q[CHOOSE i \in Clauses(q, key) : TRUE][2]
AsksGroups(q) == Clause(q, "intent", "metric") \in {"comparison", "ranking"}

\* _require_organization_scope_authorized, _dimension_value: no organization
\* dimension at all, and the company only for a single number.
DimensionRefused(q) ==
    LET dim == Clause(q, "dim", "none")
    IN \/ dim \in {"area", "team", "employee"}
       \/ dim = "city_company" /\ AsksGroups(q)
       \/ dim \notin {"none", "city_company"}

\* parse_proposal: the questions it raises on.  The last time clause stands,
\* but two of them conflict.
Refused(q) ==
    \/ \E i \in DOMAIN q : q[i][1] \notin {"time", "grain", "dim", "intent", "top", "filter"}
    \/ \E i, j \in DOMAIN q : i # j /\ q[i][1] = q[j][1] /\ q[i][1] # "time"
    \/ \E i \in Clauses(q, "time") : q[i][2] = <<"empty">>
    \/ Clause(q, "grain", "day") \notin {"day", "month"}
    \/ Clause(q, "intent", "metric") \notin {"metric", "trend", "comparison", "ranking"}
    \/ Clause(q, "top", 1) \notin 1 .. 100 \/ Clause(q, "filter", "declared") # "declared"
    \/ DimensionRefused(q)
    \/ AsksGroups(q) /\ Clauses(q, "dim") = {}
    \/ ~AsksGroups(q) /\ Clauses(q, "top") # {}
TimeText(q) == IF Clauses(q, "time") = {} THEN <<"none">> ELSE q[Max(Clauses(q, "time"))][2]
Conflict(q) == Cardinality(Clauses(q, "time")) > 1

\* _available_dates
AvailableDates ==
    IF \A i, j \in DOMAIN probe.window : i < j => probe.window[i] < probe.window[j]
    THEN probe.window ELSE <<>>

\* _bind_available_dates
BoundDates(q) == IF TimeText(q) = <<"recent">> /\ ~Conflict(q) THEN AvailableDates ELSE <<>>

\* _resolve_time
ProposedPeriods(q, now) ==
    LET text == TimeText(q)
        dates == BoundDates(q)
    IN CASE Conflict(q) -> {}
         [] text = <<"latest">> -> IF probe.latest = 0 THEN {} ELSE {<<probe.latest, probe.latest>>}
         [] text = <<"recent">> -> IF dates = <<>> THEN {} ELSE {<<dates[1], dates[Len(dates)]>>}
         [] OTHER -> ResolveTime(text, now)

\* build_plan
BuildPlan(q, now, contract) ==
    LET periods == ProposedPeriods(q, now)
        grain == Clause(q, "grain", "day")
    IN [range |-> IF periods = {} THEN <<CarrierDay, CarrierDay>> ELSE CHOOSE p \in periods : TRUE,
        dates |-> BoundDates(q), grain |-> grain, intent |-> Clause(q, "intent", "metric"),
        slots |-> {s \in {"time", "grain", "dimension"} :
                     CASE s = "time" -> periods = {}
                       [] s = "grain" -> grain \notin contract.grains
                       [] OTHER -> Clause(q, "dim", "city_company") \notin contract.dims
                                   /\ Clauses(q, "dim") # {}}]

\* QueryPlan.validate_available_dates
ValidPlan(p) ==
    p.dates # <<>> => /\ p.intent = "trend"
                      /\ p.dates[1] >= p.range[1] /\ p.dates[Len(p.dates)] <= p.range[2]

-----------------------------------------------------------------------------
(* Rounds of clarification.                                                *)

\* Mutant: a round that only settles the grain takes its window from today.
RefineResampled(p, bindings, contract, now) ==
    LET periods == IF "time" \in DOMAIN bindings THEN ResolveTime(bindings["time"], now)
                   ELSE IF named = Unnamed THEN {} ELSE ResolveTime(named[1], now)
        grain == IF "grain" \in DOMAIN bindings THEN bindings["grain"] ELSE p.grain
    IN [p EXCEPT !.range = IF periods = {} THEN @ ELSE CHOOSE t \in periods : TRUE,
                 !.grain = grain,
                 !.slots = {s \in @ : \/ s = "time" /\ periods = {}
                                      \/ s = "grain" /\ grain \notin contract.grains}]

\* _apply_slot_bindings_to_plan, for bindings it does not raise on.
Refine(p, bindings, contract, now) ==
    LET periods == IF "time" \in DOMAIN bindings THEN ResolveTime(bindings["time"], now) ELSE {}
        grain == IF "grain" \in DOMAIN bindings THEN bindings["grain"] ELSE p.grain
    IN [p EXCEPT !.range = IF periods = {} THEN @ ELSE CHOOSE t \in periods : TRUE,
                 !.grain = grain,
                 !.slots = {s \in @ \cup DOMAIN bindings :
                              \/ s \notin DOMAIN bindings
                              \/ s = "time" /\ periods = {}
                              \/ s = "grain" /\ grain \notin contract.grains}]

\* What it raises on: an unknown grain, and the carrier as a window.
RefineRaises(bindings, now) ==
    \/ "grain" \in DOMAIN bindings /\ bindings["grain"] \notin {"day", "month"}
    \/ "time" \in DOMAIN bindings /\ ResolveTime(bindings["time"], now) = {<<CarrierDay, CarrierDay>>}

ProposalInit ==
    /\ clock \in Day /\ probe \in Probes
    /\ question \in [text : Questions, contract : Contracts]
    /\ draft = NoDraft /\ named = Unnamed
    /\ dialogue = [stage |-> "asked", days |-> 0]

\* An unresolved slot is asked for; a plan without one goes on to execution.
Settle(p) == dialogue' = [dialogue EXCEPT !.stage = IF p.slots = {} THEN "planned" ELSE "pending"]
Halt(why) == dialogue' = [dialogue EXCEPT !.stage = why] /\ UNCHANGED <<draft, named>>

\* propose
Propose ==
    LET q == question.text
        p == BuildPlan(q, clock, question.contract)
    IN /\ dialogue.stage = "asked"
       /\ IF Refused(q) \/ ~ValidPlan(p) THEN Halt("failed")
          ELSE /\ draft' = p /\ Settle(p)
               /\ named' = IF "time" \in p.slots THEN Unnamed ELSE <<TimeText(q), clock>>
       /\ UNCHANGED <<clock, question, probe>>

\* engine.py replan_node: _continuation_eligibility, then
\* replan_with_slot_bindings from the active plan.
Reply(bindings) ==
    LET p == Refine(draft, bindings, question.contract, clock)
        timely == "time" \in DOMAIN bindings /\ ResolveTime(bindings["time"], clock) # {}
    IN /\ dialogue.stage = "pending" /\ DOMAIN bindings \subseteq draft.slots
       /\ IF ~(draft.slots \subseteq {"time", "grain"}) \/ RefineRaises(bindings, clock) \/ ~ValidPlan(p)
          THEN Halt("stopped")
          ELSE /\ draft' = p /\ Settle(p)
               /\ named' = IF timely THEN <<bindings["time"], clock>> ELSE named
       /\ UNCHANGED <<clock, question, probe>>

NewDay ==
    /\ dialogue.stage \in {"asked", "pending"} /\ dialogue.days < MaxDays /\ clock + 1 \in Day
    /\ clock' = clock + 1 /\ dialogue' = [dialogue EXCEPT !.days = @ + 1]
    /\ UNCHANGED <<question, probe, draft, named>>

ProposalNext == Propose \/ NewDay \/ \E b \in Replies : Reply(b)

-----------------------------------------------------------------------------

\* Reference: the days that a time text names on a day.
Months(d) == Year(d) * LastDay[1] + Month(d)
Weeks(d) == (d - 1) \div 7
DaysNamed(text, now) ==
    LET token == text[2]
        unit(u, d) == CASE u = "day" -> d [] u = "week" -> Weeks(d)
                        [] u = "month" -> Months(d) [] OTHER -> Year(d)
        current(u) == {d \in Day : unit(u, d) = unit(u, now) /\ d <= now}
        previous(u) == {d \in Day : unit(u, d) = unit(u, now) - 1}
    IN CASE text[1] = "latest" -> {probe.latest}
         [] text[1] = "recent" -> Range(probe.window)
         [] text[1] = "date" -> {d \in Day : \A i \in DOMAIN token : Calendar[d][i] = token[i]}
         [] text[1] = "range" -> Position[text[2]] .. Position[text[3]]
         [] token = "today" -> current("day") [] token = "yesterday" -> previous("day")
         [] token = "this week" -> current("week") [] token = "last week" -> previous("week")
         [] token = "this month" -> current("month") [] token = "last month" -> previous("month")
         [] token = "this year" -> current("year") [] OTHER -> previous("year")

\* However many rounds and days a clarification takes, a plan that leaves no
\* slot open (the only kind that is compiled) covers exactly the days its last
\* valid time text named on the day it was given: current periods up to that
\* day, previous ones whole.  The 1970 carrier is the window only of a plan that
\* still asks for its time, or of a question that names that day; and the grain
\* is one that the metric supports.
PlannedPeriodIsNamed ==
    dialogue.stage = "planned" =>
        /\ named # Unnamed
        /\ LET days == DaysNamed(named[1], named[2])
           IN /\ draft.range = <<Min(days), Max(days)>>
              /\ IF named[1] = <<"recent">> THEN Range(draft.dates) = days
                 ELSE draft.range[1] .. draft.range[2] = days /\ draft.dates = <<>>
        /\ draft.grain \in question.contract.grains
=============================================================================
