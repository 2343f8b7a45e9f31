---------------------------- MODULE MCExecution ----------------------------
(***************************************************************************)
(* Model-checking instance of what executes a question: the plan executor  *)
(* of the v2 engine on every acyclic plan of three steps, the SQL agent    *)
(* with its memory, and the calculators.  They share no variable, so one   *)
(* behaviour exercises one of them, chosen in the initial state.           *)
(***************************************************************************)
EXTENDS PlanExecution, SqlAgent, Calculators

VARIABLE executor

mcExecutionVars == <<executor, vars, agentVars, calcVars>>

MCStep == 1 .. 3

\* No step depends on itself through others: some order of the steps has
\* every dependency first.
Acyclic(deps) ==
    \E rank \in [MCStep -> MCStep] :
        \A s \in MCStep : \A d \in deps[s] : rank[d] < rank[s]

MCPlans ==
    {[kind |-> k, deps |-> d, edges |-> e] :
        k \in [MCStep -> {"fetch", "compute"}],
        d \in {d \in [MCStep -> SUBSET MCStep] : Acyclic(d)}, e \in {1, 2}}

MCLimits ==
    [c \in Counters |-> IF c \in {"sql_candidates", "sql_executions"} THEN 2 ELSE 1]

\* The choices of the initial state are one choice in the parts that do not run.
SomePlan ==
    /\ plan = [kind |-> [s \in MCStep |-> "fetch"], deps |-> [s \in MCStep |-> {}],
               edges |-> 1]
    /\ mode = "QUERY"
SomeHost == host = [mode |-> "disabled", enabled |-> FALSE, limits |-> FALSE, unlimited |-> FALSE]

MCExecutionInit ==
    /\ executor \in {"plan", "sql", "calculators"}
    /\ executor = "plan" \/ SomePlan
    /\ executor = "calculators" \/ SomeHost
    /\ Init /\ SqlAgentInit /\ CalcInit

PlanRuns == executor = "plan" /\ Next

MCExecutionNext ==
    /\ UNCHANGED executor
    /\ \/ PlanRuns /\ UNCHANGED <<agentVars, calcVars>>
       \/ executor = "sql" /\ SqlAgentNext /\ UNCHANGED <<vars, calcVars>>
       \/ executor = "calculators" /\ CalcNext /\ UNCHANGED <<vars, agentVars>>

\* Every await ends: the executor's by its timeout, the model's by its deadline.
MCExecutionSpec ==
    /\ MCExecutionInit /\ [][MCExecutionNext]_mcExecutionVars
    /\ WF_vars(PlanRuns) /\ SqlAgentFairness /\ CalcFairness

\* Whatever is started ends: no plan leaves the executor without a current step
\* before all its steps have run, and no answer of the models keeps the rewrite,
\* repair and tournament loops of the agent, or the repair loop of the
\* calculators, going for ever.
ExecutionsEnd ==
    /\ executor = "plan" ~> phase = "end"
    /\ TurnsEnd
    /\ CalculationsEnd
=============================================================================
