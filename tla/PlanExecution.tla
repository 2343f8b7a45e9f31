---------------------------- MODULE PlanExecution ----------------------------
(***************************************************************************)
(* orchestration/execution.py, class PlanExecutor, and the nodes of        *)
(* orchestration/engine.py that spend the route budget of a run: compile,  *)
(* execute, analysis and model.                                            *)
(*                                                                         *)
(* The executor runs the steps of a plan one after the other inside one    *)
(* asyncio.timeout.  The timeout is delivered at an await of the step that *)
(* runs: while a fetch is prepared, while its SQL runs, while a            *)
(* calculation or a verification runs.  Between the awaits the ledger is   *)
(* charged without interruption.                                           *)
(***************************************************************************)
EXTENDS RouteBudget, Sequences, FiniteSets

CONSTANTS Step,      \* step ids of a plan, as numbers
          Plans,     \* execution plans the compiler may produce
          MaxHops    \* bound on the join hops of a prepared statement

IsPlan(p) ==
    /\ p.kind \in [Step -> {"fetch", "compute"}]
    /\ p.deps \in [Step -> SUBSET Step]
    /\ p.edges \in Nat

\* Step ids are ordered; every plan has the same steps here.
ASSUME PlanAssumption ==
    /\ Step \subseteq Nat /\ IsFiniteSet(Step) /\ Step # {}
    /\ MaxHops \in Nat
    /\ \A p \in Plans : IsPlan(p)

VARIABLES plan,      \* the compiled plan
          mode,      \* ANALYZE interprets the result, QUERY does not, BUILD
                     \* calls a model without a plan
          ledger,    \* the RouteBudgetLedger of the run
          phase,     \* where the run is
          todo,      \* steps that have no output yet
          round,     \* the round in which _ordered_steps resolved each step
          receipts,  \* step receipts, in order
          outputs,   \* steps with an output, in order
          status,    \* status of the execution record
          ran,       \* history: how often each SQL was run
          called     \* history: model calls made

vars == <<plan, mode, ledger, phase, todo, round, receipts, outputs,
          status, ran, called>>

work == <<todo, round, receipts, outputs, ran>>
execution == <<work, status>>

ExecutionModes == {"QUERY", "ANALYZE", "BUILD"}
Phases == {"compile", "execute", "steps", "sql", "interpret", "model", "end"}

\* route_node opens a fresh ledger for the run.
Init ==
    /\ plan \in Plans
    /\ mode \in ExecutionModes
    /\ ledger = NewLedger
    /\ phase = IF mode = "BUILD" THEN "interpret" ELSE "compile"
    /\ todo = Step
    /\ round = [s \in Step |-> 0]
    /\ receipts = <<>>
    /\ outputs = <<>>
    /\ status = "none"
    /\ ran = [f \in Fingerprint |-> 0]
    /\ called = 0

-----------------------------------------------------------------------------
(* The order of the steps.                                                 *)

\* The steps resolved after n rounds of _ordered_steps.
Resolved(p) ==
    LET r[n \in 0 .. Cardinality(Step)] ==
            IF n = 0 THEN {} ELSE r[n - 1] \cup {s \in Step : p.deps[s] \subseteq r[n - 1]}
    IN  r

Round(p, s) ==
    CHOOSE n \in 1 .. Cardinality(Step) : s \in Resolved(p)[n] \ Resolved(p)[n - 1]

\* _ordered_steps: by round, and by id within a round.
Earlier(s, t) ==
    \/ round[s] < round[t]
    \/ round[s] = round[t] /\ s < t

\* The steps run one after the other: the current one is the first to do.
Current(s) == s \in todo /\ \A t \in todo \ {s} : Earlier(s, t)

-----------------------------------------------------------------------------
(* compile_node and the checks of PlanExecutor.execute.                    *)

Fetches(p) == {s \in Step : p.kind[s] = "fetch"}

\* Mutant: the plan may need one statement too many.
FitsLoosely(p) ==
    /\ Cardinality(Fetches(p)) <= Limits["sql_candidates"] + 1
    /\ Cardinality(Fetches(p)) <= Limits["sql_executions"] + 1
    /\ p.edges <= Limits["join_hops"]

\* validate_execution_plan: the part that compares a plan with the budget.
Fits(p) ==
    /\ Cardinality(Fetches(p)) <= Limits["sql_candidates"]
    /\ Cardinality(Fetches(p)) <= Limits["sql_executions"]
    /\ p.edges <= Limits["join_hops"]

\* The run stops with a reason and nothing else happens.
Stop(reason) ==
    /\ ledger' = Halt(ledger, reason)
    /\ phase' = "end"
    /\ UNCHANGED <<plan, mode, execution, called>>

\* compile_node allows the plan, or stops: it does not compile, is denied or
\* needs an approval.
Compile ==
    /\ phase = "compile"
    /\ \/ /\ Fits(plan)
          /\ phase' = "execute"
          /\ UNCHANGED <<plan, mode, ledger, execution, called>>
       \/ Stop("execution_plan_compilation_failed")
       \/ Stop("execution_plan_denied")

\* The executor begins, unless the validation record is not about this very
\* plan or the deadline leaves nothing beyond the reserve.
BeginExecution ==
    /\ phase = "execute"
    /\ \/ /\ phase' = "steps"
          /\ round' = [s \in Step |-> Round(plan, s)]
          /\ UNCHANGED <<plan, mode, ledger, todo, receipts, outputs, status, ran, called>>
       \/ /\ \/ ledger' = Halt(ledger, "execution_plan_mismatch") /\ status' = "failed"
             \/ ledger' = Halt(ledger, "deadline_reserve") /\ status' = "deadline_exceeded"
          /\ phase' = "end"
          /\ UNCHANGED <<plan, mode, work, called>>

-----------------------------------------------------------------------------
(* The steps.                                                              *)

\* Mutant: the failed step is left out of the record.
StepFailsSilently(s, b, outcome) ==
    /\ ledger' = b
    /\ status' = outcome
    /\ phase' = "end"
    /\ UNCHANGED <<plan, mode, work, called>>

\* The step s ends the execution: a failed receipt, no output.
StepFails(s, b, outcome) ==
    /\ ledger' = b
    /\ receipts' = Append(receipts, <<s, "failed">>)
    /\ status' = outcome
    /\ phase' = "end"
    /\ UNCHANGED <<plan, mode, todo, round, outputs, ran, called>>

\* The step s has an output and a receipt; the loop goes on.
StepSucceeds(s) ==
    /\ receipts' = Append(receipts, <<s, "succeeded">>)
    /\ outputs' = Append(outputs, s)
    /\ todo' = todo \ {s}
    /\ phase' = "steps"
    /\ UNCHANGED <<plan, mode, ledger, round, status, ran, called>>

\* The charges of _execute_step between prepare and execute.
Admit(b, f, hops) ==
    BeginSqlExecution(ObserveJoinHops(RecordSqlCandidate(b, f), hops))

\* A fetch is prepared and admitted by the ledger, so its SQL starts; or the
\* ledger stops it; or it cannot be prepared.
Prepare(s) ==
    /\ phase = "steps"
    /\ Current(s)
    /\ plan.kind[s] = "fetch"
    /\ \/ \E f \in Fingerprint, hops \in 0 .. MaxHops :
             /\ Active(Admit(ledger, f, hops))
             /\ ledger' = Admit(ledger, f, hops)
             /\ ran' = [ran EXCEPT ![f] = @ + 1]
             /\ phase' = "sql"
             /\ UNCHANGED <<plan, mode, todo, round, receipts, outputs, status, called>>
       \/ \E f \in Fingerprint, hops \in 0 .. MaxHops :
             /\ ~Active(Admit(ledger, f, hops))
             /\ StepFails(s, Admit(ledger, f, hops), "failed")
       \/ \E t \in Taxonomy : StepFails(s, Halt(ledger, t), "failed")

\* The SQL returned: its receipt is accepted, or names another statement, an
\* error or a denial.
SqlReturns(s) ==
    /\ phase = "sql"
    /\ Current(s)
    /\ \/ StepSucceeds(s)
       \/ \E t \in Taxonomy : StepFails(s, Halt(ledger, t), "failed")

\* A calculation or a verification: every input is an output of a step it
\* depends on.
Compute(s) ==
    /\ phase = "steps"
    /\ Current(s)
    /\ plan.kind[s] = "compute"
    /\ \/ StepSucceeds(s)
       \/ \E t \in Taxonomy : StepFails(s, Halt(ledger, t), "failed")

\* asyncio.timeout fires during the current step.
DeadlineExceeded(s) ==
    /\ phase \in {"steps", "sql"}
    /\ Current(s)
    /\ StepFails(s, Halt(ledger, "execution_deadline_exceeded"), "deadline_exceeded")

\* Every step succeeded: execute_node grounds the answer; ANALYZE goes on to
\* interpret it.
Succeed ==
    /\ phase = "steps"
    /\ todo = {}
    /\ status' = "succeeded"
    /\ phase' = IF mode = "ANALYZE" THEN "interpret" ELSE "end"
    /\ UNCHANGED <<plan, mode, ledger, work, called>>

-----------------------------------------------------------------------------
(* The one model call of analysis_node and of model_node.                  *)

\* No call: the evidence is unusable or the deadline is spent, the fast route
\* blocks it, or the ledger refuses it.
CallModel ==
    /\ phase = "interpret"
    /\ \/ /\ Active(BeginModelCall(ledger))
          /\ ledger' = BeginModelCall(ledger)
          /\ called' = called + 1
          /\ phase' = "model"
          /\ UNCHANGED <<plan, mode, execution>>
       \/ /\ ~Active(BeginModelCall(ledger))
          /\ Stop("model_call_budget_exhausted")
       \/ /\ mode = "ANALYZE"
          /\ phase' = "end"
          /\ UNCHANGED <<plan, mode, ledger, execution, called>>
       \/ /\ mode = "BUILD"
          /\ Stop("fast_model_call_blocked") \/ Stop("deadline_reserve")

\* The call returned after some provider retries, failed, or overran its own
\* call budget.
ModelReturns ==
    /\ phase = "model"
    /\ phase' = "end"
    /\ \/ \E n \in 0 .. MaxRetries + 1 : ledger' = RecordProviderRetries(ledger, n)
       \/ \E t \in Taxonomy, denied, retryable \in BOOLEAN :
             ledger' = Halt(RecordError(ledger, t, denied, retryable), t)
       \/ \E t \in Taxonomy : ledger' = Halt(ledger, t)
    /\ UNCHANGED <<plan, mode, execution, called>>

-----------------------------------------------------------------------------

RunStep(s) == Prepare(s) \/ SqlReturns(s) \/ Compute(s) \/ DeadlineExceeded(s)

Next ==
    \/ Compile \/ BeginExecution \/ Succeed \/ CallModel \/ ModelReturns
    \/ \E s \in Step : RunStep(s)

Spec == Init /\ [][Next]_vars

-----------------------------------------------------------------------------
(* Properties.                                                             *)

\* Type correctness of the run's bookkeeping.
TypeOK ==
    /\ IsPlan(plan)
    /\ mode \in ExecutionModes
    /\ phase \in Phases
    /\ todo \subseteq Step
    /\ DOMAIN round = Step
    /\ receipts \in Seq(Step \X {"succeeded", "failed"})
    /\ outputs \in Seq(Step)
    /\ status \in {"none", "succeeded", "failed", "deadline_exceeded"}
    /\ ran \in [Fingerprint -> Nat]
    /\ called \in Nat

\* The ledger stays within the limits of the route, whatever the plan needs
\* and however its steps fail, and an active ledger has no breaker due.
BudgetRespected == LedgerOK(ledger)

\* The ledger accounts for what was really done: the model was called as
\* often as it says, and no statement was run as often as max_same_sql.
SpentAsRecorded ==
    /\ called = ledger.used["model_calls"]
    /\ \A f \in Fingerprint : ran[f] <= ledger.seen[f] /\ ran[f] < MaxSameSql

\* A run goes on only while its ledger is active: whatever stopped it ends it.
NothingAfterStop == phase # "end" => Active(ledger)

\* The inductive invariant of a run's spending.
ExecutionInv == TypeOK /\ BudgetRespected /\ SpentAsRecorded /\ NothingAfterStop

\* The current step finds an output for each of its dependencies, so
\* _resolve_ref never fails on a plan whose contract holds.
InputsReady ==
    \A s \in todo :
        phase \in {"steps", "sql"} /\ Current(s) =>
            \A d \in plan.deps[s] : \E i \in 1 .. Len(outputs) : outputs[i] = d

\* The record satisfies the validators of PlanExecutionRecord: a receipt per
\* step at most, outputs exactly for the receipts that succeeded, a stop
\* reason when the execution did not succeed.  The step that failed is named
\* last, and no step runs before the outputs it takes its inputs from are in.
RecordValid ==
    LET failed == status \in {"failed", "deadline_exceeded"}
        ids == {receipts[i][1] : i \in 1 .. Len(receipts)}
        good == {i \in 1 .. Len(receipts) : receipts[i][2] = "succeeded"}
    IN  /\ Cardinality(ids) = Len(receipts)
        /\ Len(outputs) = Cardinality(good)
        /\ \A i \in good : i <= Len(outputs) /\ outputs[i] = receipts[i][1]
        /\ status = "succeeded" => ids = Step /\ Len(outputs) = Len(receipts)
        /\ failed => /\ ~Active(ledger)
                     /\ receipts # <<>> => receipts[Len(receipts)][2] = "failed"
        /\ InputsReady

\* A plan the validator allowed under the limits of its route is never
\* stopped for needing too many statements.
ValidatedPlanFits ==
    ledger.stop \notin {"sql_candidate_budget_exhausted", "sql_execution_budget_exhausted"}
=============================================================================
