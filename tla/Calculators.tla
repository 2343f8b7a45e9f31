---------------------------- MODULE Calculators -----------------------------
(***************************************************************************)
(* The two graphs that answer a question by calculating: CodeAct           *)
(* (agents/codeact_engine) plans, fetches, writes code, runs it in a child *)
(* process and validates the result; the older agents/dynamic_calc does so *)
(* without validation, or runs a trusted template.  supervisor/agent.py    *)
(* picks the graph and bounds its time.                                    *)
(*                                                                         *)
(* A node of a graph is an action; what models, the database and the code  *)
(* answer is nondeterministic.  Generated code is known by its number.     *)
(***************************************************************************)
EXTENDS Integers, Sequences, FiniteSets

CONSTANTS MaxCodeRepair,   \* code_max_repair_rounds
          MaxFetch         \* how many fetch steps a plan has at most

VARIABLES host,    \* the deployment: codeact_mode and what the kernel permits
          at,      \* the node that runs next, or how the turn ended
          calc     \* the state of the graph

calcVars == <<host, at, calc>>

CalcOver == {"idle", "formatted", "hitl_fallback", "fallback", "aborted"}
NoRun == [code |-> 0, ran |-> FALSE, success |-> FALSE, result |-> "none",
          limited |-> TRUE, applied |-> TRUE]
NoReport == [code |-> 0, errors |-> {}]
FreshCalc == [engine |-> "none", steps |-> 0, expected |-> "Any", template |-> "none",
              fetched |-> <<>>, told |-> {}, bound |-> {}, code |-> 0, written |-> 0,
              run |-> NoRun, report |-> NoReport, repairs |-> 0]

CalcInit ==
    /\ host \in [mode : {"disabled", "trusted-template", "unsafe-dev"}, enabled : BOOLEAN,
                 limits : BOOLEAN, unlimited : BOOLEAN]
    /\ at = "idle" /\ calc = FreshCalc

\* codeact_capability and _invoke_codeact_agent; the dynamic_metric_calculation
\* tool goes to its graph whatever the mode.
CodeActTool ==
    /\ at = "idle" /\ host.enabled /\ host.mode # "disabled"
    /\ IF host.mode = "trusted-template"
       THEN at' = "plan" /\ calc' = [FreshCalc EXCEPT !.engine = "dynamic"]
       ELSE at' = "decompose" /\ calc' = [FreshCalc EXCEPT !.engine = "codeact"]
    /\ UNCHANGED host

DynamicTool ==
    /\ at = "idle" /\ at' = "plan"
    /\ calc' = [FreshCalc EXCEPT !.engine = "dynamic"]
    /\ UNCHANGED host

\* _invoke_sql_runnable: the graph timeout or an exception of a node (the models
\* are mostly called outside of any try) ends the turn with a message.
Aborted ==
    /\ at \notin CalcOver /\ at' = "aborted"
    /\ UNCHANGED <<host, calc>>

-----------------------------------------------------------------------------
(* Planning.                                                               *)

\* _validate_data_sources and _validate_compute_chain: every table is named,
\* every step is described and depends on earlier steps that exist.
Ingestible(card) ==
    /\ card.named /\ card.described
    /\ \A s \in DOMAIN card.deps : \A d \in card.deps[s] : d \in DOMAIN card.deps /\ d < s
    /\ card.steps > 0 \/ DOMAIN card.deps # {}

Cards == [steps : 0 .. MaxFetch, named : BOOLEAN, described : BOOLEAN,
          deps : {<<>>} \cup [1 .. 2 -> SUBSET (1 .. 3)]]

\* _derive_validation_criteria: only a rate, which must be a float, has a range.
Expected == {"Any", "float", "int", "DataFrame", "list"}

\* decompose, lock and ingest: nobody is asked in between.
Plan ==
    /\ at = "decompose"
    /\ \E ready \in {[steps |-> c.steps, ok |-> Ingestible(c)] : c \in Cards},
          expected \in Expected :
        /\ at' = IF ready.ok THEN "fetch" ELSE "hitl_fallback"
        /\ calc' = [calc EXCEPT !.steps = ready.steps, !.expected = expected]
    /\ UNCHANGED host

\* plan_node and after_plan_router
PlanDynamic ==
    /\ at = "plan"
    /\ \E steps \in 0 .. MaxFetch, abort \in BOOLEAN, template \in {"none", "valid", "invalid"} :
        /\ calc' = [calc EXCEPT !.steps = steps, !.template = template]
        /\ at' = IF host.mode = "trusted-template"
                 THEN IF template # "none" THEN "code_exec" ELSE "fallback"
                 ELSE IF abort \/ steps = 0 THEN "fallback" ELSE "data_fetch"
    /\ UNCHANGED host

-----------------------------------------------------------------------------
(* Fetching.  A frame is a pair of its number in the code and the step it  *)
(* holds the rows of.                                                      *)

\* parallel_fetch and after_fetch_router: a step has data or, after all its
\* attempts, an error.
Fetch ==
    /\ at = "fetch"
    /\ \E results \in [1 .. calc.steps -> BOOLEAN] :
        /\ calc' = [calc EXCEPT !.fetched = [i \in 1 .. calc.steps |->
                                                [step |-> i, ok |-> results[i]]]]
        /\ at' = IF \E i \in 1 .. calc.steps : results[i] THEN "code_gen" ELSE "hitl_fallback"
    /\ UNCHANGED host

\* data_fetch and after_data_fetch_router: a step without SQL leaves no entry.
FetchDynamic ==
    /\ at = "data_fetch"
    /\ \E results \in [1 .. calc.steps -> {"data", "error", "skipped"}] :
        LET entries == SelectSeq([i \in 1 .. calc.steps |-> [step |-> i, ok |-> results[i] = "data"]],
                                 LAMBDA e : results[e.step] # "skipped")
        IN /\ calc' = [calc EXCEPT !.fetched = entries]
           /\ at' = IF \E i \in DOMAIN entries : entries[i].ok THEN "code_gen" ELSE "fallback"
    /\ UNCHANGED host

\* _build_data_variables_desc: the frames the model is told about.
Described(entries, engine) ==
    LET usable == IF engine = "codeact" THEN SelectSeq(entries, LAMBDA e : e.ok) ELSE entries
    IN {<<i - 1, usable[i].step>> : i \in {j \in DOMAIN usable : usable[j].ok}}

\* Mutant: failed steps are counted when the frames are numbered.
ExecContextShifted(entries, engine) ==
    {<<i - 1, entries[i].step>> : i \in {j \in DOMAIN entries : entries[j].ok}}

\* _build_exec_context, and its counterpart in dynamic_calc's code_exec_node.
ExecContext(entries, engine) ==
    {<<IF engine = "codeact" THEN Cardinality({j \in 1 .. i - 1 : entries[j].ok}) ELSE i - 1,
       entries[i].step>> : i \in {j \in DOMAIN entries : entries[j].ok}}

-----------------------------------------------------------------------------
(* Code.                                                                   *)

Written(c, some) ==
    [c EXCEPT !.written = @ + 1, !.code = IF some THEN c.written + 1 ELSE 0,
              !.told = Described(c.fetched, c.engine)]

CodeGen ==
    /\ at = "code_gen" /\ at' = "code_exec"
    /\ \E some \in BOOLEAN : calc' = Written(calc, some)
    /\ UNCHANGED host

\* What a result can look like to the validator, and the errors it finds.
Result == {"none", "empty", "count", "real", "outside", "inf", "nan", "text", "rows"}
Kind(r) == CASE r \in {"empty", "rows"} -> "list" [] r = "count" -> "int"
             [] r = "text" -> "str" [] OTHER -> "float"
Accepts(expected) == CASE expected = "int" -> {"int"} [] expected = "float" -> {"int", "float"}
                       [] expected = "list" -> {"list"} [] OTHER -> {"int", "float", "list", "str"}

\* _check_null, _check_type, _check_value_range and _check_reasonableness.
Errors(r, expected) ==
    {e \in {"null", "type", "range", "inf"} :
        \/ e = "null" /\ r \in {"none", "empty"}
        \/ e = "type" /\ r # "none" /\ Kind(r) \notin Accepts(expected)
        \/ e = "range" /\ expected = "float" /\ r \in {"outside", "inf"}
        \/ e = "inf" /\ r = "inf"}

\* The runs of a piece of code.  ProcessSandbox limits its child and kills one
\* that is late, also one that cannot hand over a large result; SandboxExecutor
\* runs in a thread that cannot be limited.  A run that is cut short is reported
\* with the default of SandboxResult.resource_limits_applied.
Runs(c) ==
    LET limited == c.engine = "codeact" /\ host.limits
        base == [NoRun EXCEPT !.code = c.code]
        run == [base EXCEPT !.ran = TRUE, !.limited = limited]
    IN IF c.code = 0 \/ host.mode # "unsafe-dev" THEN {base}
       ELSE {base} \cup
            IF ~limited /\ ~host.unlimited THEN {[base EXCEPT !.applied = FALSE]}
            ELSE {[run EXCEPT !.success = TRUE, !.result = r, !.applied = limited] : r \in Result}
                 \cup {[run EXCEPT !.applied = limited \/ c.engine = "dynamic"], run}

\* after_exec_router and after_code_exec_router
AfterRun(run, n, engine) ==
    IF run.success THEN IF engine = "codeact" THEN "validate" ELSE "format"
    ELSE IF n < MaxCodeRepair /\ (engine = "codeact" \/ host.mode = "unsafe-dev")
    THEN "repair" ELSE "fallback"

\* TrustedTemplateRegistry.execute: an approved template with valid input.
TemplateRun(c) ==
    IF c.template = "valid" THEN [NoRun EXCEPT !.success = TRUE, !.result = "real"] ELSE NoRun

CodeExec ==
    /\ at = "code_exec"
    /\ \E run \in IF calc.engine = "codeact" THEN Runs(calc)
                  ELSE IF ~host.enabled \/ host.mode = "disabled" THEN {NoRun}
                  ELSE IF host.mode = "trusted-template" THEN {TemplateRun(calc)}
                  ELSE Runs(calc) :
        /\ calc' = [calc EXCEPT !.run = run, !.bound = ExecContext(calc.fetched, calc.engine)]
        /\ at' = AfterRun(run, calc.repairs, calc.engine)
    /\ UNCHANGED host

\* after_validate_router
AfterValidate(errors, n) ==
    IF errors = {} THEN "format"
    ELSE IF errors \cap {"type", "range"} # {} THEN "hitl_fallback"
    ELSE IF n < MaxCodeRepair THEN "repair" ELSE "hitl_fallback"

Validate ==
    /\ at = "validate"
    /\ LET errors == Errors(calc.run.result, calc.expected)
       IN /\ calc' = [calc EXCEPT !.report = [code |-> calc.run.code, errors |-> errors]]
          /\ at' = AfterValidate(errors, calc.repairs)
    /\ UNCHANGED host

\* repair_node and code_repair_node
Repaired(c, some) == [Written(c, some) EXCEPT !.repairs = @ + 1]

Repair ==
    /\ at = "repair" /\ at' = "code_exec"
    /\ \E some \in BOOLEAN : calc' = Repaired(calc, some)
    /\ UNCHANGED host

Answer ==
    /\ at = "format" /\ at' = "formatted"
    /\ UNCHANGED <<host, calc>>

CalcStep ==
    \/ Plan \/ PlanDynamic \/ Fetch \/ FetchDynamic \/ CodeGen \/ CodeExec
    \/ Validate \/ Repair \/ Answer

CalcNext == CodeActTool \/ DynamicTool \/ CalcStep \/ Aborted

\* LangGraph keeps running the nodes of a turn that was started.
CalcFairness == WF_calcVars(CalcStep)

-----------------------------------------------------------------------------

\* A calculation that was started ends, however often code fails or is refused:
\* repairs after a run and repairs after a validation share one budget.
CalculationsEnd == at \notin CalcOver ~> at \in CalcOver

\* CodeAct shows a result only when it came from the code that was written last,
\* when the validation that passed was the one of that very run, and when every
\* frame the code was told about holds the rows of the step it was described
\* with, although other steps failed.
CalculationsBacked ==
    /\ at \in {"format", "formatted"} =>
        /\ calc.run.success
        /\ calc.run.code = calc.code
        /\ calc.engine = "codeact" =>
            /\ calc.report = [code |-> calc.code, errors |-> {}]
            /\ Errors(calc.run.result, calc.expected) = {}
    /\ calc.run.ran => calc.told = calc.bound

=============================================================================
