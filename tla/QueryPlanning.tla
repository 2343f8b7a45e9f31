--------------------------- MODULE QueryPlanning ---------------------------
(***************************************************************************)
(* orchestration/planning.py and approved_compute.py: a proposed query     *)
(* plan is validated, compiled into typed steps and the steps are          *)
(* validated again, against a context that may have been resolved anew in  *)
(* between.  The second validator trusts nothing the compiler did, so the  *)
(* plan it is given may differ from the compiled one in a few places.      *)
(*                                                                         *)
(* A checksum is the content it is taken of, or a number that stands for   *)
(* it.  A failure code is a condition that does not hold.                  *)
(***************************************************************************)
EXTENDS Naturals, Sequences, SequencesExt, FiniteSets, Functions

CONSTANTS Catalogs,    \* the calculation catalogues a deployment may have: a
                       \* function from metric keys to bindings each
          Queries, Contexts, Specs,
          Templates,   \* trusted_template_registry: the roles of each template
          MaxFetches,  \* max_sql_candidates and max_sql_executions of the route
          MaxEdits

VARIABLES request,     \* the query plan (with what its identity permits) and the catalogue
          context,     \* the resolved ContextBundle
          stage, validated, plan,
          edits        \* in how many places the plan differs from the compiled one

planVars == <<request, context, stage, validated, plan, edits>>

-----------------------------------------------------------------------------
(* Contracts.                                                              *)

NoOrigin == [origin |-> "none", role |-> "none", sum |-> 0, out |-> "none"]
Step == [id |-> <<"none", "none">>, kind |-> "fetch", metrics |-> <<>>, needs |-> {},
         refs |-> <<>>, from |-> NoOrigin, template |-> "none", spec |-> <<>>]
NoPlan == [query |-> <<>>, release |-> 0, steps |-> <<>>]

Of(p, kind) == {s \in Range(p.steps) : s.kind = kind}
Canonical(s) == s.from.origin = "canonical"
Calculations(p) == {s \in Of(p, "trusted") : Canonical(s)}
Inputs(p, origin) == {s \in Of(p, "fetch") : s.from.origin = origin}
Value(s) == <<s.id, "value">>
RolesOf(inputs) == {inputs[i].role : i \in DOMAIN inputs}

\* derived_output_id: the provenance an ad hoc calculation gives its inputs.
DerivedFrom(spec, role) ==
    [origin |-> "adhoc", role |-> role, sum |-> spec.sum, out |-> "derived"]

\* The validators of the steps and of ExecutionPlan.
Settled(p) ==
    LET ready[n \in 0 .. Len(p.steps)] ==
            IF n = 0 THEN {}
            ELSE {s.id : s \in {t \in Range(p.steps) : t.needs \subseteq ready[n - 1]}}
    IN ready[Len(p.steps)]
ValidDag(p) ==
    LET ids == {s.id : s \in Range(p.steps)}
    IN /\ p.steps # <<>> /\ Cardinality(ids) = Len(p.steps)
       /\ \A s \in Range(p.steps) :
            /\ s.needs \subseteq ids \ {s.id}
            /\ s.kind # "fetch" => s.needs # {}
            /\ \A r \in DOMAIN s.refs : s.refs[r][1] \in s.needs
            /\ s.kind = "fetch" => s.from = NoOrigin \/ (s.from.role # "none" /\ Len(s.metrics) = 1)
            /\ s.kind = "trusted" => s.from = NoOrigin \/ (Canonical(s) /\ s.from.role = "none")
            /\ s.kind = "adhoc" => DOMAIN s.refs = s.spec.used /\ s.from = DerivedFrom(s.spec, "none")
       /\ Settled(p) = ids

-----------------------------------------------------------------------------
(* The query plan.                                                         *)

\* PlanValidator.validate_query_plan
QueryDenied(q, c) ==
    \/ c.status = "conflict" \/ ~q.domainKnown \/ ~q.permitted
    \/ ~(Range(q.metrics) \subseteq c.assets)
    \/ q.detailSource /\ ~c.relations
    \/ q.intent = "detail" /\ ~q.detailSource
QueryUnclear(q, c) == c.status # "resolved" \/ c.slots \/ q.slots
ValidateQueryPlan(q, c) ==
    CASE QueryDenied(q, c) -> "deny" [] QueryUnclear(q, c) -> "clarify" [] OTHER -> "allow"

-----------------------------------------------------------------------------
(* The compiler.  A compilation that raises yields no plan.                *)

\* _dependency_fetch_step_id and _ad_hoc_fetch_step_id
Lower(role) == IF role = "A" THEN "a" ELSE role
FetchId(role) == <<"fetch", Lower(role)>>
Supported(inputs) ==
    /\ \A i \in DOMAIN inputs : inputs[i].role # "_c"
    /\ \A i, j \in DOMAIN inputs : FetchId(inputs[i].role) = FetchId(inputs[j].role) => i = j

InputFetch(input, from) ==
    [Step EXCEPT !.id = FetchId(input.role), !.metrics = <<input.metric>>, !.from = from]
Verify(id) ==
    [Step EXCEPT !.id = <<"verify", "result">>, !.kind = "verify", !.needs = {id},
                 !.refs = <<<<id, "result">>>>, !.spec = {"typed_result_present"}]
Consumer(calculation, inputs) ==
    [calculation EXCEPT !.refs = [r \in RolesOf(inputs) |-> <<FetchId(r), "value">>],
                        !.needs = {FetchId(r) : r \in RolesOf(inputs)}]

\* _compile_bound_calculation
BoundSteps(q, b) ==
    IF ~Supported(b.inputs) \/ q.intent # "metric" THEN <<>>
    ELSE LET from(r) == [origin |-> "canonical", role |-> r, sum |-> b.sum, out |-> b.key]
             calculation == Consumer([Step EXCEPT !.id = <<"calculate", "metric">>,
                                                  !.kind = "trusted", !.template = b.template,
                                                  !.from = from("none")], b.inputs)
         IN [i \in DOMAIN b.inputs |-> InputFetch(b.inputs[i], from(b.inputs[i].role))]
              \o <<calculation, Verify(calculation.id)>>

\* PlanCompiler.compile: one catalogue-bound metric alone, or a direct fetch.
CompiledSteps(q, catalog) ==
    IF Range(q.metrics) \cap DOMAIN catalog = {}
    THEN LET fetch == [Step EXCEPT !.id = <<"fetch", "metrics">>, !.metrics = q.metrics]
         IN <<fetch, Verify(fetch.id)>>
    ELSE IF Len(q.metrics) # 1 THEN <<>> ELSE BoundSteps(q, catalog[q.metrics[1]])

\* PlanCompiler.compile_ad_hoc, up to the steps it makes.
AdHocAccepted(q, c, spec, catalog) ==
    LET metrics == {spec.inputs[i].metric : i \in DOMAIN spec.inputs}
    IN /\ q.intent = "metric" /\ spec.bindingValid /\ Supported(spec.inputs)
       /\ RolesOf(spec.inputs) = spec.used
       /\ \A i \in DOMAIN spec.inputs : spec.inputs[i].metric # "none" /\ ~spec.inputs[i].nested
       /\ Cardinality(metrics) = Len(spec.inputs)
       /\ metrics = Range(q.metrics) /\ metrics \subseteq c.assets
       /\ metrics \cap DOMAIN catalog = {}

\* _compile_ad_hoc_calculation
AdHocSteps(spec) ==
    LET calculation == Consumer([Step EXCEPT !.id = <<"calculate", "adhoc">>, !.kind = "adhoc",
                                             !.from = DerivedFrom(spec, "none"), !.spec = spec], spec.inputs)
    IN [i \in DOMAIN spec.inputs |->
          InputFetch(spec.inputs[i], DerivedFrom(spec, spec.inputs[i].role))]
         \o <<calculation, Verify(calculation.id)>>

-----------------------------------------------------------------------------
(* The execution plan.                                                     *)

Binding(catalog, k) == IF k \in DOMAIN catalog THEN {catalog[k]} ELSE {}

\* Mutant: any metric will do for a role.
InputProvenByRole(s, p, c, catalog, input) ==
    /\ input.metric \notin DOMAIN catalog
    /\ \E f \in {f \in Inputs(p, "canonical") : f.id \in s.needs /\ f.from.role = input.role} :
        input.metric \in c.assets /\ input.role \in DOMAIN s.refs /\ s.refs[input.role] = Value(f)

\* ApprovedCalculationCatalog.validate_calculation, its fourth part: one input
\* of the binding, from a metric that is not itself bound.
InputProven(s, p, c, catalog, input) ==
    /\ input.metric \notin DOMAIN catalog
    /\ \E f \in {f \in Inputs(p, "canonical") : f.id \in s.needs /\ f.from.role = input.role} :
        /\ f.metrics = <<input.metric>> /\ input.metric \in c.assets
        /\ input.role \in DOMAIN s.refs /\ s.refs[input.role] = Value(f)

CalculationProven(s, p, c, catalog) ==
    \E b \in Binding(catalog, s.from.out) :
        /\ s.template = b.template /\ s.from.sum = b.sum /\ c.release = b.release
        /\ s.template \in DOMAIN Templates /\ Templates[s.template] = RolesOf(b.inputs)
        /\ DOMAIN s.refs = RolesOf(b.inputs)
        /\ \A id \in s.needs : \E f \in Inputs(p, "canonical") :
            /\ f.id = id /\ f.from.role \in RolesOf(b.inputs)
            /\ f.from.sum = b.sum /\ f.from.out = b.key
            /\ \A g \in Inputs(p, "canonical") : g.id \in s.needs /\ g.from.role = f.from.role => g = f
        /\ \A i \in DOMAIN b.inputs : InputProven(s, p, c, catalog, b.inputs[i])
        /\ \A f \in Of(p, "fetch") : b.key \notin Range(f.metrics)

\* validate_bound_outputs
BoundOutputsProven(q, p, catalog) ==
    /\ \A s \in Calculations(p) : s.from.out \in Range(q.metrics)
    /\ \A k \in Range(q.metrics) \cap DOMAIN catalog :
        /\ Cardinality({s \in Calculations(p) : s.from.out = k}) = 1
        /\ \A f \in Of(p, "fetch") : k \notin Range(f.metrics)

\* validate_dependency_provenance, and _ad_hoc_closure_failures for the others:
\* every input is consumed by one calculation, in its role.
Owned(p, origin, calculations) ==
    \A f \in Inputs(p, origin) : \E s \in calculations :
        /\ {t \in calculations : f.id \in t.needs} = {s}
        /\ f.from.sum = s.from.sum /\ f.from.out = s.from.out
        /\ f.from.role \in DOMAIN s.refs /\ s.refs[f.from.role] = Value(f)

\* _ad_hoc_v1_closure_failures
AdHocShape(p) ==
    \A s \in Of(p, "adhoc") :
        LET fetches == Of(p, "fetch")
            checks == Of(p, "verify")
        IN /\ Of(p, "adhoc") = {s} /\ Of(p, "trusted") = {} /\ Cardinality(checks) = 1
           /\ \A f \in fetches : f.from.origin = "adhoc"
           /\ {f.from.role : f \in fetches} = RolesOf(s.spec.inputs)
           /\ Cardinality(fetches) = Cardinality(RolesOf(s.spec.inputs))
           /\ s.needs = {f.id : f \in fetches}
           /\ \A v \in checks : v = [Verify(s.id) EXCEPT !.id = v.id]

\* _ad_hoc_step_failures, and the catalogue's share of it.
AdHocProven(s, p, c, q, catalog) ==
    LET inputs == s.spec.inputs
        metrics == {inputs[i].metric : i \in DOMAIN inputs}
    IN /\ \A i \in DOMAIN inputs : inputs[i].metric # "none" /\ ~inputs[i].nested
       /\ Cardinality(metrics) = Len(inputs) /\ metrics = Range(q.metrics)
       /\ metrics \cap DOMAIN catalog = {}
       /\ \A i \in DOMAIN inputs :
            LET matches == {f \in Inputs(p, "adhoc") : f.id \in s.needs /\ f.from.role = inputs[i].role}
            IN /\ Cardinality(matches) = 1 /\ inputs[i].metric \in c.assets
               /\ \A f \in matches : f.metrics = <<inputs[i].metric>>

\* PlanValidator.validate_execution_plan
ExecutionDenied(p, q, c, catalog) ==
    \/ p.query # q \/ p.release # c.release
    \/ Cardinality(Of(p, "fetch")) > MaxFetches
    \/ Of(p, "adhoc") # {} /\ Calculations(p) \cup Inputs(p, "canonical") # {}
    \/ ~AdHocShape(p) \/ ~Owned(p, "adhoc", Of(p, "adhoc"))
    \/ DOMAIN catalog = {} /\ Calculations(p) \cup Inputs(p, "canonical") # {}
    \/ ~BoundOutputsProven(q, p, catalog) \/ ~Owned(p, "canonical", Calculations(p))
    \/ \E s \in Calculations(p) : ~CalculationProven(s, p, c, catalog)
    \/ \E s \in Of(p, "adhoc") : ~AdHocProven(s, p, c, q, catalog)
    \/ \E s \in Of(p, "verify") : ~(s.spec \subseteq {"typed_result_present"})

\* No template is on the allowlist of a deployment.
ValidateExecutionPlan(p, q, c, catalog) ==
    CASE ExecutionDenied(p, q, c, catalog) -> "deny"
      [] Of(p, "trusted") \ Calculations(p) # {} -> "approval"
      [] OTHER -> "allow"

-----------------------------------------------------------------------------

PlanningInit ==
    /\ request \in [query : Queries, catalog : Catalogs]
    /\ context \in Contexts
    /\ stage = "proposed" /\ validated = <<>> /\ plan = NoPlan /\ edits = 0

\* engine: validate, compile and validate run in different nodes of the graph.
Validate ==
    /\ stage = "proposed"
    /\ stage' = IF ValidateQueryPlan(request.query, context) = "allow" THEN "validated" ELSE "refused"
    /\ validated' = <<request.query, context>>
    /\ UNCHANGED <<request, context, plan, edits>>

Compiled(steps) ==
    LET made == [query |-> request.query, release |-> context.release, steps |-> steps]
        valid == validated = <<request.query, context>> /\ ValidDag(made)
    IN /\ stage = "validated"
       /\ stage' = IF valid THEN "compiled" ELSE "refused"
       /\ plan' = IF valid THEN made ELSE NoPlan
       /\ UNCHANGED <<request, context, validated, edits>>
Compile == Compiled(CompiledSteps(request.query, request.catalog))
CompileAdHoc(spec) ==
    Compiled(IF AdHocAccepted(request.query, context, spec, request.catalog)
             THEN AdHocSteps(spec) ELSE <<>>)

\* The context is resolved anew under the release that is active by then.
Resolve(c) ==
    /\ stage \in {"validated", "compiled"} /\ c # context
    /\ context' = c
    /\ UNCHANGED <<request, stage, validated, plan, edits>>

\* The plans a step away: a step dropped or copied, an input of another metric,
\* role, origin or binding, a reference or a dependency of another step.
Changed(s, p) ==
    {[s EXCEPT !.metrics = <<m>>] : m \in {"m1", "m2", "m3"}}
    \cup {[s EXCEPT !.from = o] : o \in {t.from : t \in Range(p.steps)} \cup {NoOrigin}}
    \cup {[s EXCEPT !.refs[r] = v] : r \in DOMAIN s.refs,
                                     v \in {Value(t) : t \in Range(p.steps)} \cup {<<FetchId("a"), "rows">>}}
    \cup {[s EXCEPT !.needs = @ \cup {t.id}] : t \in Range(p.steps)}
    \cup {[s EXCEPT !.needs = @ \ {t.id}] : t \in Range(p.steps)}
    \cup {[s EXCEPT !.from.sum = 7], [s EXCEPT !.template = "other"]}
    \cup {[s EXCEPT !.spec = {"unknown"}] : v \in {s} \cap Of(p, "verify")}
Edited(p) ==
    {[p EXCEPT !.steps = RemoveAt(@, i)] : i \in DOMAIN p.steps}
    \cup {[p EXCEPT !.steps = Append(@, [p.steps[i] EXCEPT !.id = <<"extra", "step">>])] : i \in DOMAIN p.steps}
    \cup UNION {{[p EXCEPT !.steps[i] = s] : s \in Changed(p.steps[i], p)} : i \in DOMAIN p.steps}

Edit ==
    /\ stage = "compiled" /\ edits < MaxEdits
    /\ plan' \in {p \in Edited(plan) : ValidDag(p)} /\ plan' # plan
    /\ edits' = edits + 1
    /\ UNCHANGED <<request, context, stage, validated>>

ValidateSteps ==
    /\ stage = "compiled"
    /\ stage' = ValidateExecutionPlan(plan, request.query, context, request.catalog)
    /\ UNCHANGED <<request, context, validated, plan, edits>>

PlanningNext ==
    \/ Validate \/ Compile \/ Edit \/ ValidateSteps
    \/ \E spec \in Specs : CompileAdHoc(spec)
    \/ \E c \in Contexts : Resolve(c)
-----------------------------------------------------------------------------
(* Properties.                                                             *)

\* Reference: s computes the requested metric k from exactly the metrics that
\* the catalogue names for it, each read from a fetch of that metric alone.
Computes(s, p, b) ==
    /\ s.template = b.template /\ DOMAIN s.refs = RolesOf(b.inputs)
    /\ \A i \in DOMAIN b.inputs : \E f \in Of(p, "fetch") :
        s.refs[b.inputs[i].role] = Value(f) /\ f.metrics = <<b.inputs[i].metric>>

\* validate_execution_plan allows a plan only if, whatever the compiler or
\* anybody after it did to the steps, it answers the request it is bound to in
\* the release that is active now: every catalogue-bound metric comes from its
\* one approved calculation over its own inputs and is never fetched, no other
\* calculation claims authority, and an ad hoc one reads exactly the requested
\* metrics.
AllowedPlanIsAuthoritative ==
    stage = "allow" =>
        LET q == request.query
            bound == Range(q.metrics) \cap DOMAIN request.catalog
        IN /\ plan.query = q /\ plan.release = context.release
           /\ \A k \in bound :
                /\ context.release = request.catalog[k].release
                /\ \E s \in Of(plan, "trusted") : Computes(s, plan, request.catalog[k])
                /\ \A f \in Of(plan, "fetch") : k \notin Range(f.metrics)
           /\ Cardinality(Of(plan, "trusted")) = Cardinality(bound)
           /\ \A f \in Of(plan, "fetch") : f.from # NoOrigin =>
                \E s \in Range(plan.steps) : \E r \in DOMAIN s.refs : s.refs[r] = Value(f)
           /\ \A s \in Of(plan, "adhoc") :
                /\ bound = {} /\ Of(plan, "trusted") = {}
                /\ UNION {Range(f.metrics) : f \in Of(plan, "fetch")} = Range(q.metrics)
                /\ \A i \in DOMAIN s.spec.inputs : \E f \in Of(plan, "fetch") :
                    /\ s.refs[s.spec.inputs[i].role] = Value(f)
                    /\ f.metrics = <<s.spec.inputs[i].metric>>

\* What PlanCompiler produces, validated in the context it was compiled in and
\* within the route's budget, is denied only for a catalogue binding that does
\* not hold by itself: the two halves agree on the shape of a plan.
CompilerMeetsValidator ==
    stage = "deny" /\ edits = 0 /\ validated = <<request.query, context>>
      /\ Cardinality(Of(plan, "fetch")) <= MaxFetches =>
        \E s \in Of(plan, "trusted") :
            LET b == request.catalog[s.from.out]
            IN \/ b.release # context.release
               \/ b.template \notin DOMAIN Templates \/ Templates[b.template] # RolesOf(b.inputs)
               \/ \E i \in DOMAIN b.inputs : b.inputs[i].metric \in DOMAIN request.catalog
                                             \/ b.inputs[i].metric \notin context.assets

\* The compiler and the validator agree, and what they let through is
\* authoritative.
PlansAreSound == AllowedPlanIsAuthoritative /\ CompilerMeetsValidator
=============================================================================
