--------------------------- MODULE AnswerEvidence ---------------------------
(***************************************************************************)
(* From step receipts to what the user is told: the receipts a plan's      *)
(* execution leaves (orchestration/execution.py), the facts grounded on    *)
(* them (grounding.py), the evidence bundle of an analysis and the check   *)
(* on the model's interpretation of it (analysis_evidence.py).             *)
(*                                                                         *)
(* An output is its values with, for a trend, their periods; one value is  *)
(* a scalar and several are a list, as in _project_output.  Days, values   *)
(* and sources are numbers, 0 for an absent one.                           *)
(***************************************************************************)
EXTENDS Integers, Sequences, FiniteSets, FiniteSetsExt, SequencesExt

CONSTANTS Plans,          \* sequences of steps [id, kind, key, role]
          Values,         \* what a step may return
          Receipts,       \* what the query gateway may say of a fetch
          Day(_),         \* the number a day is written with
          MaxPoints, MaxFacts

VARIABLES steps, intent, receipts, outputs, told, evidence, claim, at

evidenceVars == <<steps, intent, receipts, outputs, told, evidence, claim, at>>

NoReceipt == [asOf |-> 0, fresh |-> "unknown", degraded |-> {}, source |-> 0]
NoAnswer == [facts |-> <<>>, flags |-> {}, asOf |-> 0]
NoClaim == [cites |-> {}, numbers |-> {}]

EvidenceInit ==
    /\ steps \in Plans /\ intent \in {"metric", "trend", "ranking"}
    /\ receipts = <<>> /\ outputs = <<>> /\ at = "executing"
    /\ told = NoAnswer /\ evidence = NoAnswer /\ claim = NoClaim

-----------------------------------------------------------------------------
(* The execution.                                                          *)

\* The outputs a step of each kind may have: a rowset, one dependency value,
\* a calculation's scalar.  A trend's periods are distinct and ascending.
Rowsets == UNION {[1..n -> Values] : n \in 0..(MaxPoints + 1)}
Returned(step) ==
    LET periods(v) == IF intent = "trend" THEN [i \in DOMAIN v |-> i] ELSE <<>>
    IN IF step.kind = "fetch" /\ step.role = "none" /\ intent # "metric"
       THEN {[values |-> v, periods |-> periods(v)] : v \in Rowsets}
       ELSE {[values |-> <<v>>, periods |-> <<>>] : v \in Values}

\* PlanExecutor.execute: the receipt of a step that succeeded; only a fetch has
\* been through the gateway.
RunStep ==
    LET step == steps[Len(receipts) + 1]
    IN /\ at = "executing" /\ Len(receipts) < Len(steps)
       /\ \E output \in Returned(step), r \in IF step.kind = "fetch" THEN Receipts ELSE {NoReceipt} :
            /\ receipts' = Append(receipts, [step |-> step.id, kind |-> step.kind, seen |-> r])
            /\ outputs' = Append(outputs, output)
       /\ UNCHANGED <<steps, intent, told, evidence, claim, at>>

\* A failed step ends the run: nothing is grounded.
StepFails ==
    /\ at = "executing" /\ Len(receipts) < Len(steps)
    /\ at' = "stopped" /\ UNCHANGED <<steps, intent, receipts, outputs, told, evidence, claim>>

-----------------------------------------------------------------------------
(* The grounded answer.                                                    *)

FactOf(i, scope, value, range) ==
    [step |-> steps[i].id, key |-> steps[i].key, scope |-> scope, range |-> range,
     status |-> IF value = <<>> THEN "unavailable" ELSE "grounded",
     value |-> value, seen |-> receipts[i].seen]

\* _fact_id
FactId(f) == <<f.step, f.key, f.status, f.value, f.range>>

\* _trend_points: none, when there are more than the bound
TrendPoints(output) == IF Len(output.values) > MaxPoints THEN <<>> ELSE output.periods

\* Mutant: the inputs of a calculation are answers too.
RequestedAny(step) == step.kind = "fetch"

\* A fetch that feeds a calculation role is not an answer.
Requested(step) == step.kind = "fetch" /\ step.role = "none"

\* _build_answer_facts_with_flags: the facts of one receipt
Facts(i) ==
    LET output == outputs[i]
    IN CASE Requested(steps[i]) /\ intent = "trend" /\ TrendPoints(output) # <<>> ->
              [p \in DOMAIN output.periods |-> FactOf(i, "metric", <<output.values[p]>>, output.periods[p])]
         [] Requested(steps[i]) -> <<FactOf(i, "metric", output.values, 0)>>
         [] steps[i].kind = "calculation" /\ steps[i].key # "none" -> <<FactOf(i, "metric", output.values, 0)>>
         [] steps[i].kind = "adhoc" -> <<FactOf(i, "derived", output.values, 0)>>
         [] OTHER -> <<>>

\* fetches first, then calculations, then derived results
Grounded ==
    LET of(kind) == FlattenSeq([i \in DOMAIN receipts |-> IF receipts[i].kind = kind THEN Facts(i) ELSE <<>>])
    IN of("fetch") \o of("calculation") \o of("adhoc")

\* receipt_degradation_flags: every receipt counts, a calculation's too
DegradationFlags ==
    UNION {r.seen.degraded \cup (IF r.seen.fresh = "fresh" THEN {} ELSE {r.seen.fresh}) : r \in ToSet(receipts)}

\* execute_node: ground_execution_answer, and the data_as_of of its provenance,
\* which is that of the first fact that has one.
GroundAnswer ==
    LET dated == SelectSeq(Grounded, LAMBDA f : f.seen.asOf # 0)
    IN /\ at = "executing" /\ Len(receipts) = Len(steps)
       /\ told' = [facts |-> Grounded, flags |-> DegradationFlags,
                   asOf |-> IF dated = <<>> THEN 0 ELSE dated[1].seen.asOf]
       /\ at' = "grounded" /\ UNCHANGED <<steps, intent, receipts, outputs, evidence, claim>>

-----------------------------------------------------------------------------
(* The analysis.                                                           *)

\* build_analysis_evidence: a fact is used if it is canonical, scalar, and its
\* receipt says the same of it.
Proven(f) ==
    /\ f.scope = "metric" /\ Len(f.value) <= 1
    /\ \E r \in ToSet(receipts) : r.step = f.step /\ r.kind \in {"fetch", "calculation"} /\ r.seen = f.seen

\* _conservative_data_as_of
OldestAsOf(facts) ==
    IF \E f \in ToSet(facts) : f.seen.asOf = 0 THEN 0 ELSE Min({f.seen.asOf : f \in ToSet(facts)})

BuildEvidence ==
    LET proven == SelectSeq(told.facts, Proven)
        unproven == IF Len(proven) < Len(told.facts) THEN {"omitted"} ELSE {}
        undated == IF OldestAsOf(proven) = 0 THEN {"as_of_incomplete"} ELSE {}
        of(f) == f.seen.degraded \cup (IF f.seen.fresh = "fresh" THEN {} ELSE {f.seen.fresh})
        usable == /\ Len(told.facts) <= MaxFacts /\ proven # <<>>
                  /\ Cardinality({FactId(f) : f \in ToSet(proven)}) = Len(proven)
    IN /\ at = "grounded"
       /\ IF usable
          THEN /\ at' = "analysing"
               /\ evidence' = [facts |-> proven, asOf |-> OldestAsOf(proven),
                               flags |-> told.flags \cup unproven \cup undated \cup UNION {of(f) : f \in ToSet(proven)}]
          ELSE at' = "stopped" /\ UNCHANGED evidence
       /\ UNCHANGED <<steps, intent, receipts, outputs, told, claim>>

\* _numeric_tokens of a fact's value, range and data_as_of
Tokens(f) == ToSet(f.value) \cup {Day(d) : d \in {f.range, f.seen.asOf} \ {0}}

\* The numbers a statement may use: those of the facts it cites.
Allowed(statement) == UNION {Tokens(f) : f \in {g \in ToSet(evidence.facts) : FactId(g) \in statement.cites}}

\* validate_analysis_interpretation on a statement of the model's reply
Valid(statement) ==
    /\ statement.cites \subseteq {FactId(f) : f \in ToSet(evidence.facts)}
    /\ statement.numbers \subseteq Allowed(statement)

\* analysis_node: the model's reply, which may cite and claim anything
Interpret(statement) ==
    /\ at = "analysing"
    /\ IF Valid(statement) THEN at' = "interpreted" /\ claim' = statement
                           ELSE at' = "stopped" /\ UNCHANGED claim
    /\ UNCHANGED <<steps, intent, receipts, outputs, told, evidence>>

\* analysis_node: the budget, the deadline or the model gateway refuses
ModelFails ==
    /\ at = "analysing"
    /\ at' = "stopped" /\ UNCHANGED <<steps, intent, receipts, outputs, told, evidence, claim>>

Unknown == {<<"none", "none", "grounded", <<>>, 0>>}
Statements == [cites : SUBSET ({FactId(f) : f \in ToSet(told.facts)} \cup Unknown),
               numbers : SUBSET (Values \cup {Day(d) : d \in 1..MaxPoints} \cup {Day(r.asOf) : r \in Receipts})]

EvidenceNext ==
    \/ RunStep \/ StepFails \/ GroundAnswer \/ BuildEvidence \/ ModelFails
    \/ at = "analysing" /\ \E s \in Statements : Interpret(s)

-----------------------------------------------------------------------------

\* What the user is told was executed: each fact is an output of a succeeded
\* step (a trend point, the one of its own period), no metric is answered by
\* two steps (a calculation's inputs never stand beside its result), every
\* requested result is told, and an answer on stale or degraded data says so.
FactsAreExecuted ==
    at \in {"grounded", "analysing", "interpreted"} =>
        /\ \A f \in ToSet(told.facts) : \E i \in DOMAIN steps :
            /\ steps[i].id = f.step
            /\ f.range = 0 => f.value = outputs[i].values
            /\ f.range # 0 => \E p \in DOMAIN outputs[i].periods :
                                outputs[i].periods[p] = f.range /\ f.value = <<outputs[i].values[p]>>
            /\ f.scope = "metric" => \A g \in ToSet(told.facts) : g.key = f.key => g.step = f.step
            /\ f.seen.degraded \subseteq told.flags /\ (f.seen.fresh = "stale" => "stale" \in told.flags)
        /\ \A i \in DOMAIN steps :
            (steps[i].role = "none" /\ steps[i].key # "none" /\ steps[i].kind # "verify")
                <=> \E f \in ToSet(told.facts) : f.step = steps[i].id

\* A model's interpretation reaches the user only if each number of it is the
\* value or a date of a canonical fact that the statement itself cites; and the
\* bundle's data_as_of is no later than that of any fact in it.
ClaimsAreTraceable ==
    at = "interpreted" =>
        /\ \A n \in claim.numbers : \E f \in ToSet(told.facts) :
            /\ FactId(f) \in claim.cites /\ f.scope = "metric" /\ Len(f.value) <= 1
            /\ f.value = <<n>> \/ n \in {Day(f.range), Day(f.seen.asOf)}
        /\ evidence.asOf # 0 => \A f \in ToSet(evidence.facts) : f.seen.asOf >= evidence.asOf
        /\ evidence.asOf = 0 => "as_of_incomplete" \in evidence.flags
        /\ told.flags \subseteq evidence.flags

\* From the receipts to the interpretation, nothing is told that was not executed.
AnswersAreTraceable == FactsAreExecuted /\ ClaimsAreTraceable
=============================================================================
