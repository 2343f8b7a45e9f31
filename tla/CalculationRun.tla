--------------------------- MODULE CalculationRun ---------------------------
(***************************************************************************)
(* One run of a saved calculation: semantic/calculation_contract.py (what  *)
(* a calculation may be), semantic/calculation_runtime.py (what it is      *)
(* worth) and the service, resolver and fetcher that read its inputs one   *)
(* after the other while the draft may be edited and a new business day    *)
(* may be published.  An ad hoc step enters at the evaluation.             *)
(*                                                                         *)
(* A number is a fraction <<n, d>> with d > 0: the 64 digits of the Decimal *)
(* context and its overflow are abstracted.  A value is tagged with its    *)
(* kind on the wire, and carries NaN when its text is not a number.        *)
(***************************************************************************)
EXTENDS Integers, Sequences, FiniteSets, FiniteSetsExt, SequencesExt

CONSTANTS Drafts,        \* the calculations the version's draft may hold
          Edits,         \* the ones it is edited to while a run is under way
          Bindings,      \* parameter values: name -> value
          BusinessDates, \* the business date asked for, 0 for the latest
          Published,     \* the worlds: metric -> day -> fact
          Governed,      \* the metrics the fetcher serves
          AdHoc,         \* resolved inputs of ad hoc steps: role -> value
          MaxDepth, MaxNodes, MaxDay

VARIABLES stored, world, today, call

runVars == <<stored, world, today, call>>

NaN == <<0, 0>>
\* A calculation's id stands for its checksum.
NoSpec == [id |-> 0]
NoResult == [tag |-> "none", num |-> NaN, range |-> 0, asOf |-> 0]

-----------------------------------------------------------------------------
(* The contract.                                                           *)

\* _children
Children(e) ==
    CASE e.op \in {"add", "subtract", "multiply", "divide", "gt", "le"} -> <<e.left, e.right>>
      [] e.op \in {"is_null", "is_not_null", "coalesce", "round"} -> <<e.operand>>
      [] e.op \in {"all", "any"} -> e.conditions
      [] e.op = "case" -> [i \in DOMAIN e.whens |-> e.whens[i].condition]
                            \o [i \in DOMAIN e.whens |-> e.whens[i].then] \o e.otherwise
      [] OTHER -> <<>>

\* _walk, expression_depth and expression_node_count
RECURSIVE Walk(_)
Walk(e) == <<e>> \o FlattenSeq([i \in DOMAIN Children(e) |-> Walk(Children(e)[i])])
RECURSIVE Depth(_)
Depth(e) == 1 + Max({0} \cup {Depth(Children(e)[i]) : i \in DOMAIN Children(e)})
Bounded(e) == Depth(e) <= MaxDepth /\ Len(Walk(e)) <= MaxNodes

\* referenced_input_roles and referenced_parameter_names
Roles(e) == {n.role : n \in {m \in ToSet(Walk(e)) : m.op \in {"input", "aggregate"}}}
Names(e) == {n.name : n \in {m \in ToSet(Walk(e)) : m.op = "parameter"}}

\* CalculationSpec and CalculationInputSpec
SpecValid(s) ==
    /\ \A i, j \in DOMAIN s.inputs : s.inputs[i].role = s.inputs[j].role => i = j
    /\ \A i \in DOMAIN s.inputs : s.inputs[i].provenance # "ad_hoc_metric" => s.inputs[i].metric # "none"
    /\ Bounded(s.expression)
    /\ Roles(s.expression) \subseteq {s.inputs[i].role : i \in DOMAIN s.inputs}
    /\ Names(s.expression) \subseteq DOMAIN s.parameters
    /\ s.rounding # "none" => s.precision >= 0

\* value_matches_type; a fraction kept as text is a string to it
Matches == {<<"str", "string">>, <<"bool", "boolean">>, <<"int", "integer">>,
            <<"int", "decimal">>, <<"decimal", "decimal">>, <<"date", "date">>, <<"date", "string">>}

\* CalculationExecutionBinding.binding_failures
BindingFails(b, s) ==
    \/ b.spec # s.id \/ ~(DOMAIN b.values \subseteq DOMAIN s.parameters)
    \/ \E n \in DOMAIN s.parameters :
        IF n \notin DOMAIN b.values THEN s.parameters[n].required
        ELSE \/ <<b.values[n].kind, s.parameters[n].type>> \notin Matches
             \/ s.parameters[n].allowed # {} /\ b.values[n].num \notin s.parameters[n].allowed

-----------------------------------------------------------------------------
(* The evaluator: a number, null, or the code it raises.                   *)

Number(x) == [tag |-> "value", num |-> x]
Null == [tag |-> "null", num |-> NaN]
Raise(code) == [tag |-> code, num |-> NaN]

\* Decimal.quantize
Quantize(x, places, mode) ==
    LET n == x[1] * 10 ^ places
        low == n \div x[2]
        rest == n % x[2]
        up == CASE mode = "floor" -> FALSE
                [] mode = "ceil" -> rest > 0
                [] 2 * rest # x[2] -> 2 * rest > x[2]
                [] mode = "half_up" -> n > 0
                [] mode = "half_down" -> n < 0
                [] OTHER -> low % 2 = 1
    IN <<IF up THEN low + 1 ELSE low, 10 ^ places>>

\* _coerce_numeric
Coerced(v, code) ==
    CASE v.kind = "none" -> Null
      [] v.kind \in {"bool", "float"} \/ v.num = NaN -> Raise(code)
      [] OTHER -> Number(v.num)

Arithmetic(op, a, b) ==
    CASE op = "add" -> Number(<<a[1] * b[2] + b[1] * a[2], a[2] * b[2]>>)
      [] op = "subtract" -> Number(<<a[1] * b[2] - b[1] * a[2], a[2] * b[2]>>)
      [] op = "multiply" -> Number(<<a[1] * b[1], a[2] * b[2]>>)
      [] b[1] = 0 -> Raise("division_by_zero")
      [] OTHER -> Number(IF b[1] > 0 THEN <<a[1] * b[2], a[2] * b[1]>>
                                     ELSE <<-(a[1] * b[2]), -(a[2] * b[1])>>)

Truths == {"true", "false", "unknown"}

\* Mutant: a conjunction stops at the first condition that does not hold.
JoinedShort(op, states) ==
    LET decisive == {i \in DOMAIN states : states[i] # (IF op = "all" THEN "true" ELSE "false")}
    IN IF decisive = {} THEN (IF op = "all" THEN "true" ELSE "false") ELSE states[Min(decisive)]

\* _condition, for AllOperand and AnyOperand: every condition is evaluated.
Joined(op, states) ==
    LET raised == {i \in DOMAIN states : states[i] \notin Truths}
        decides == IF op = "all" THEN "false" ELSE "true"
    IN CASE raised # {} -> states[Min(raised)]
         [] decides \in ToSet(states) -> decides
         [] "unknown" \in ToSet(states) -> "unknown"
         [] OTHER -> IF op = "all" THEN "true" ELSE "false"

Truth(holds) == IF holds THEN "true" ELSE "false"

RECURSIVE Evaluate(_, _, _), Condition(_, _, _)

\* _condition
Condition(e, in, ps) ==
    CASE e.op \in {"is_null", "is_not_null"} ->
           LET x == Evaluate(e.operand, in, ps)
           IN IF x.tag \in {"null", "value"} THEN Truth((x.tag = "null") = (e.op = "is_null")) ELSE x.tag
      [] e.op \in {"gt", "le"} ->
           LET a == Evaluate(e.left, in, ps)
               b == Evaluate(e.right, in, ps)
               gt == a.num[1] * b.num[2] > b.num[1] * a.num[2]
           IN CASE a.tag # "value" -> IF a.tag = "null" THEN "unknown" ELSE a.tag
                [] b.tag # "value" -> IF b.tag = "null" THEN "unknown" ELSE b.tag
                [] OTHER -> Truth(gt = (e.op = "gt"))
      [] OTHER -> Joined(e.op, [i \in DOMAIN e.conditions |-> Condition(e.conditions[i], in, ps)])

\* _evaluate
Evaluate(e, in, ps) ==
    CASE e.op = "literal" -> Number(e.value)
      [] e.op = "null" -> Null
      [] e.op = "input" -> IF e.role \in DOMAIN in THEN Coerced(in[e.role], "input_not_numeric")
                           ELSE Raise("input_missing")
      [] e.op = "parameter" -> IF e.name \in DOMAIN ps THEN Coerced(ps[e.name], "parameter_not_numeric")
                               ELSE Raise("parameter_missing")
      [] e.op = "aggregate" -> Raise("aggregate_unsupported")
      [] e.op = "round" -> LET x == Evaluate(e.operand, in, ps)
                           IN IF x.tag = "value" THEN Number(Quantize(x.num, e.digits, "half_up")) ELSE x
      [] e.op = "coalesce" -> LET x == Evaluate(e.operand, in, ps)
                              IN IF x.tag = "null" THEN Number(e.default.value) ELSE x
      [] e.op = "case" ->
           LET taken == {i \in DOMAIN e.whens : Condition(e.whens[i].condition, in, ps) \notin {"false", "unknown"}}
               state == Condition(e.whens[Min(taken)].condition, in, ps)
           IN CASE taken = {} -> IF e.otherwise = <<>> THEN Null ELSE Evaluate(e.otherwise[1], in, ps)
                [] state = "true" -> Evaluate(e.whens[Min(taken)].then, in, ps)
                [] OTHER -> Raise(state)
      [] e.op \in {"add", "subtract", "multiply", "divide"} ->
           LET a == Evaluate(e.left, in, ps)
               b == Evaluate(e.right, in, ps)
           IN CASE a.tag # "value" -> a [] b.tag # "value" -> b [] OTHER -> Arithmetic(e.op, a.num, b.num)
      [] OTHER ->
           LET state == Condition(e, in, ps)
           IN CASE state = "unknown" -> Null
                [] state \in Truths -> Number(<<IF state = "true" THEN 1 ELSE 0, 1>>)
                [] OTHER -> Raise(state)

\* evaluate_calculation
EvaluateCalculation(s, in, ps) ==
    LET x == Evaluate(s.expression, in, ps)
    IN CASE ~Bounded(s.expression) -> Raise("expression_too_large")
         [] x.tag = "null" -> Raise("result_null_unsupported")
         [] x.tag = "value" /\ s.precision >= 0 ->
              Number(Quantize(x.num, s.precision, IF s.rounding = "none" THEN "half_up" ELSE s.rounding))
         [] OTHER -> x

-----------------------------------------------------------------------------
(* The run.                                                                *)

\* _conservative_data_as_of
ConservativeAsOf(got) ==
    IF \E i \in DOMAIN got : got[i].asOf = 0 THEN 0 ELSE Min({got[i].asOf : i \in DOMAIN got})

\* Mutant: the range of the first input stands for all of them.
CommonRangeFirst(got) == got[1].range

\* _common_time_range
CommonRange(got) ==
    IF \A i \in DOMAIN got : got[i].range = got[1].range THEN got[1].range ELSE 0

\* execute_custom_calculation, after the checks the resolver has made as well:
\* every declared input is there, in its role.
ExecuteCustom(s, b, got) ==
    LET in == [r \in {got[i].role : i \in DOMAIN got} |-> got[CHOOSE i \in DOMAIN got : got[i].role = r].value]
        x == EvaluateCalculation(s, in, b.values)
    IN [tag |-> x.tag, num |-> x.num,
        range |-> IF x.tag = "value" THEN CommonRange(got) ELSE 0,
        asOf |-> IF x.tag = "value" THEN ConservativeAsOf(got) ELSE 0]

RunInit ==
    /\ stored \in {d \in Drafts : SpecValid(d)} /\ world \in Published /\ today = 1
    /\ call \in [phase : {"asked", "adhoc"}, date : BusinessDates, binding : Bindings,
                 spec : {NoSpec}, got : {<<>>}, result : {NoResult}]

Goes(phase) == call' = [call EXCEPT !.phase = phase]
Refuse == Goes("refused")

\* CustomDefinitionExecutionService.execute: get_exact_version
ReadExact ==
    /\ call.phase = "asked"
    /\ call' = [call EXCEPT !.phase = "read", !.spec = stored]
    /\ UNCHANGED <<stored, world, today>>

\* CustomDefinitionService.execute_version: the checksum, then the binding
ExecuteVersion ==
    /\ call.phase = "read"
    /\ IF stored.id # call.spec.id \/ BindingFails(call.binding, stored) THEN Refuse ELSE Goes("resolving")
    /\ UNCHANGED <<stored, world, today>>

\* LocalRealGovernedInputFetcher.fetch_metric_input, and the checks of
\* TypedMetricCalculationInputResolver.resolve_inputs on what it returns.
Fetched(requirement) ==
    LET date == IF call.date = 0 THEN today ELSE call.date
        fact == world[requirement.metric][date]
        served == requirement.provenance = "published_gold" /\ requirement.metric \in Governed
        usable == fact.value.kind \in {"int", "str", "float"} /\ fact.asOf # 0
        exact == IF fact.value.kind = "float" THEN [fact.value EXCEPT !.kind = "decimal"] ELSE fact.value
    IN IF ~served \/ date > today \/ ~usable THEN {}
       ELSE {[role |-> requirement.role, metric |-> requirement.metric, range |-> date,
              value |-> exact, asOf |-> fact.asOf]}
FetchInput ==
    LET n == Len(call.got) + 1
    IN /\ call.phase = "resolving" /\ n <= Len(call.spec.inputs)
       /\ \/ \E got \in Fetched(call.spec.inputs[n]) :
                call' = [call EXCEPT !.got = Append(@, got)]
          \/ Refuse    \* authorization, runtime, plan or execution is unavailable
       /\ UNCHANGED <<stored, world, today>>

Execute ==
    /\ call.phase = "resolving" /\ Len(call.got) = Len(call.spec.inputs)
    /\ call' = [call EXCEPT !.phase = "done", !.result = ExecuteCustom(call.spec, call.binding, call.got)]
    /\ UNCHANGED <<stored, world, today>>

\* RuntimeCalculationRunner.execute: the step's contract has proved the binding.
ExecuteAdHoc(in) ==
    LET x == EvaluateCalculation(stored, in, call.binding.values)
    IN /\ call.phase = "adhoc" /\ DOMAIN in = Roles(stored.expression) /\ ~BindingFails(call.binding, stored)
       /\ call' = [call EXCEPT !.phase = "answered", !.spec = stored,
                               !.result = [NoResult EXCEPT !.tag = x.tag, !.num = x.num],
                               !.got = SetToSeq({[role |-> r, value |-> in[r]] : r \in DOMAIN in})]
       /\ UNCHANGED <<stored, world, today>>

\* The owner edits the draft, and a business day is published, meanwhile.
EditDraft(d) ==
    /\ call.phase \in {"asked", "read", "resolving"} /\ d.id # stored.id /\ SpecValid(d)
    /\ stored' = d /\ UNCHANGED <<world, today, call>>
PublishDay ==
    /\ call.phase \in {"asked", "resolving"} /\ today < MaxDay
    /\ today' = today + 1 /\ UNCHANGED <<stored, world, call>>

RunNext ==
    \/ ReadExact \/ ExecuteVersion \/ FetchInput \/ Execute \/ PublishDay
    \/ \E in \in AdHoc : ExecuteAdHoc(in)
    \/ \E d \in Edits : EditDraft(d)

-----------------------------------------------------------------------------

\* A value that a saved calculation returns is the value of exactly the content
\* whose binding was checked, over facts that were published for the days it
\* read; it names a business date only if every input is of that date (the
\* latest date may advance between two fetches), and a data_as_of that none of
\* its inputs is older than.
ResultsAreDated ==
    call.phase = "done" /\ call.result.tag = "value" =>
        /\ ~BindingFails(call.binding, call.spec)
        /\ {call.got[i].role : i \in DOMAIN call.got} = {call.spec.inputs[i].role : i \in DOMAIN call.spec.inputs}
        /\ \A i \in DOMAIN call.got :
            LET g == call.got[i]
            IN /\ g.value.num = world[g.metric][g.range].value.num
               /\ call.result.asOf <= g.asOf
               /\ call.result.range # 0 => g.range = call.result.range
               /\ call.date # 0 => call.result.range = call.date

\* Reference: the truth of a conjunction or a disjunction is the least or the
\* greatest of its conditions' truths, whatever their order.
Degree == [false |-> 0, unknown |-> 1, true |-> 2]
OrderFree(e, in, ps) ==
    LET of(conditions) == Condition([e EXCEPT !.conditions = conditions], in, ps)
        states == {Condition(c, in, ps) : c \in ToSet(e.conditions)}
        degrees == {Degree[s] : s \in states}
    IN IF states \subseteq Truths
       THEN Degree[of(e.conditions)] = IF e.op = "all" THEN Min(degrees) ELSE Max(degrees)
       ELSE of(e.conditions) \notin Truths /\ of(Reverse(e.conditions)) \notin Truths

\* _condition: "a failing condition is never hidden by an earlier short-circuit",
\* and the outcome of ALL and ANY does not depend on the order of the conditions.
\* A calculation that was accepted never fails for its shape: what it can raise
\* is a null result, a division by zero, a value that is not a number, an
\* aggregate or an optional input or parameter that is absent.
AcceptedCalculationsEvaluate ==
    call.phase = "answered" =>
        LET in == [r \in {call.got[i].role : i \in DOMAIN call.got} |->
                     call.got[CHOOSE i \in DOMAIN call.got : call.got[i].role = r].value]
        IN /\ \A e \in {n \in ToSet(Walk(call.spec.expression)) : n.op \in {"all", "any"}} :
                OrderFree(e, in, call.binding.values)
           /\ call.result.tag \in {"value", "result_null_unsupported", "division_by_zero", "input_not_numeric",
                                   "parameter_not_numeric", "parameter_missing", "aggregate_unsupported"}
           /\ call.result.tag = "parameter_missing" =>
                \E n \in DOMAIN call.spec.parameters : ~call.spec.parameters[n].required
=============================================================================
