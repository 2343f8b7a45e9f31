----------------------------- MODULE RouteBudget -----------------------------
(***************************************************************************)
(* orchestration/budget.py, class RouteBudgetLedger: what one run may      *)
(* spend on its route.                                                     *)
(*                                                                         *)
(* A method is an operator from the ledger before to the ledger after.     *)
(* Every method that charges starts with _ensure_active, so on a stopped   *)
(* ledger it raises and changes nothing; and whenever one raises it has    *)
(* stopped the ledger.  "It raised" is therefore "the result is stopped".  *)
(* begin_repair has no caller and is left out.                             *)
(***************************************************************************)
EXTENDS Naturals

CONSTANTS Fingerprint,   \* SQL fingerprints
          Taxonomy,      \* error codes of models and steps
          Limits,        \* the RouteBudget of the run's route
          MaxSameSql,    \* policy.max_same_sql
          MaxSameError,  \* policy.max_same_error
          MaxRetries     \* policy.max_retryable_provider_errors

Counters == {"model_calls", "sql_candidates", "sql_executions", "join_hops"}

\* The bounds RouteBudget and RoutingBudgetPolicy put on their fields.
ASSUME BudgetAssumption ==
    /\ Limits \in [Counters -> Nat]
    /\ MaxSameSql \in Nat \ {0}
    /\ MaxSameError \in Nat \ {0}
    /\ MaxRetries \in Nat
    /\ "none" \notin Taxonomy

NewLedger ==
    [used |-> [c \in Counters |-> 0], retries |-> 0,
     seen |-> [f \in Fingerprint |-> 0], errors |-> [t \in Taxonomy |-> 0],
     stop |-> "none"]

Active(b) == b.stop = "none"

\* halt: the first reason is kept.
Halt(b, reason) == IF Active(b) THEN [b EXCEPT !.stop = reason] ELSE b

\* _increment
Increment(b, c, reason) ==
    IF ~Active(b) THEN b
    ELSE IF b.used[c] >= Limits[c] THEN Halt(b, reason)
    ELSE [b EXCEPT !.used[c] = @ + 1]

BeginModelCall(b) == Increment(b, "model_calls", "model_call_budget_exhausted")

BeginSqlExecution(b) ==
    Increment(b, "sql_executions", "sql_execution_budget_exhausted")

\* The loop breaker of record_sql_candidate.
CountSql(b, f) ==
    LET c == [b EXCEPT !.seen[f] = @ + 1]
    IN  IF c.seen[f] >= MaxSameSql THEN Halt(c, "repeated_sql") ELSE c

RecordSqlCandidate(b, f) ==
    LET c == Increment(b, "sql_candidates", "sql_candidate_budget_exhausted")
    IN  IF Active(c) THEN CountSql(c, f) ELSE c

\* Mutant: the hops are recorded before they are compared.
ObserveJoinHopsFirst(b, hops) ==
    LET c == [b EXCEPT !.used["join_hops"] = hops]
    IN  IF ~Active(b) THEN b
        ELSE IF hops > Limits["join_hops"] THEN Halt(c, "join_hop_budget_exhausted")
        ELSE c

ObserveJoinHops(b, hops) ==
    IF ~Active(b) THEN b
    ELSE IF hops > Limits["join_hops"] THEN Halt(b, "join_hop_budget_exhausted")
    ELSE IF hops > b.used["join_hops"] THEN [b EXCEPT !.used["join_hops"] = hops]
    ELSE b

RecordProviderRetries(b, retries) ==
    LET c == [b EXCEPT !.retries = @ + retries]
    IN  IF ~Active(b) THEN b
        ELSE IF c.retries > MaxRetries
        THEN Halt(c, "retryable_provider_error_budget_exhausted")
        ELSE c

RecordError(b, taxonomy, denied, retryable) ==
    LET c == [b EXCEPT !.errors[taxonomy] = @ + 1]
        d == IF retryable THEN RecordProviderRetries(c, 1) ELSE c
    IN  IF ~Active(b) THEN b
        ELSE IF denied THEN Halt(d, "policy_denied")
        ELSE IF c.errors[taxonomy] >= MaxSameError THEN Halt(d, "repeated_error")
        ELSE d

-----------------------------------------------------------------------------

\* The reasons the ledger and its callers stop a run for.
Reasons ==
    Taxonomy \cup
    {"model_call_budget_exhausted", "sql_candidate_budget_exhausted",
     "sql_execution_budget_exhausted", "join_hop_budget_exhausted",
     "retryable_provider_error_budget_exhausted", "repeated_sql",
     "repeated_error", "policy_denied", "execution_plan_compilation_failed",
     "execution_plan_denied", "execution_plan_mismatch", "deadline_reserve",
     "execution_deadline_exceeded", "fast_model_call_blocked"}

Ledgers ==
    [used : [Counters -> Nat], retries : Nat, seen : [Fingerprint -> Nat],
     errors : [Taxonomy -> Nat], stop : Reasons \cup {"none"}]

\* A well-formed ledger: no counter is above the limit of its route, and
\* while the ledger is active no loop breaker is due.
LedgerOK(b) ==
    /\ b \in Ledgers
    /\ \A c \in Counters : b.used[c] <= Limits[c]
    /\ \A f \in Fingerprint : b.seen[f] <= MaxSameSql
    /\ Active(b) => /\ \A f \in Fingerprint : b.seen[f] < MaxSameSql
                    /\ b.retries <= MaxRetries
=============================================================================
