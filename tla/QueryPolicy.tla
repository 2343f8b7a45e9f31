---------------------------- MODULE QueryPolicy ----------------------------
(***************************************************************************)
(* infra/governance/query_gateway.py, class PolicyEngine, and the two pure *)
(* decisions of the gateway around it: what a streamed result may contain  *)
(* and how a database failure is classified.                               *)
(*                                                                         *)
(* A query is the record of what the policy looks at in its syntax tree:   *)
(*   text        "empty", "garbled" or "sql"                               *)
(*   statements  how many statements were parsed                           *)
(*   select      is the statement a query                                  *)
(*   writes      does the tree hold a write, DDL or server command         *)
(*   locks       does any SELECT in it lock rows                           *)
(*   ctes, depth number of CTEs, nesting of queries                        *)
(*   joins       kinds of its joins                                        *)
(*   functions   where its functions live                                  *)
(*   params      its parameters, "positional" and "odd" for unsafe ones    *)
(*   tables      where its tables live                                     *)
(*   scoped      could the scopes of its tables be resolved                *)
(*   limitKind   "none", "ties", "expression" or "literal", and            *)
(*   limit       the literal                                               *)
(*   renders     can its bind parameters be rendered                       *)
(***************************************************************************)
EXTENDS Integers, Sequences

CONSTANTS MaxRows,        \* row cap of every query
          MaxCtes,        \* PolicyEngine.max_ctes
          MaxDepth,       \* PolicyEngine.max_query_depth
          MaxPlanCost,    \* planner cost cap
          MaxPlanRows,    \* planner row cap
          MaxResultBytes  \* encoded size cap of a result

\* One line of the policy: the refusal it raises and when.
Check(fails, code) == [fails |-> fails, code |-> code]

\* _validate_complexity.
ComplexityChecks(q) ==
    << Check(q.ctes > MaxCtes, "POLICY_DENIED"),
       Check(q.depth > MaxDepth, "POLICY_DENIED"),
       Check(q.joins \cap {"cross", "unconstrained"} # {}, "POLICY_DENIED") >>

\* _validate_functions: forbidden names, then functions of other schemas.
FunctionChecks(q) ==
    << Check("forbidden" \in q.functions, "POLICY_DENIED"),
       Check("foreign" \in q.functions, "SCHEMA_DENIED") >>

\* _parameter_names: only :name parameters.
ParameterChecks(q) ==
    << Check(q.params \cap {"positional", "odd"} # {}, "PARAMETER_MISMATCH") >>

\* _enforce_schema: every table belongs to the allowed schema.
SchemaChecks(q) ==
    << Check(~q.scoped, "INVALID_SQL"),
       Check(q.tables \cap {"other_database", "other_schema"} # {}, "SCHEMA_DENIED") >>

\* _apply_limit, its refusals.
LimitChecks(q) ==
    << Check(q.limitKind \in {"ties", "expression"}, "POLICY_DENIED"),
       Check(q.limitKind = "literal" /\ q.limit < 0, "POLICY_DENIED") >>

\* prepare: the checks in the order the code makes them.
PolicyChecks(q) ==
    << Check(q.text = "empty", "INVALID_SQL"),
       Check(q.text = "garbled", "INVALID_SQL"),
       Check(q.statements # 1, "POLICY_DENIED"),
       Check(~q.select, "POLICY_DENIED"),
       Check(q.writes, "POLICY_DENIED"),
       Check(q.locks, "POLICY_DENIED") >>
    \o ComplexityChecks(q) \o FunctionChecks(q) \o ParameterChecks(q)
    \o SchemaChecks(q) \o LimitChecks(q)
    \o << Check(~q.renders, "INVALID_SQL") >>

\* validate_params: the supplied names are exactly the placeholders.
ParamsMatch(q, supplied) == q.params = supplied

\* The refusal of prepare and validate_params, or "ok".
Verdict(q, supplied) ==
    LET checks == PolicyChecks(q)
        failed == {i \in 1 .. Len(checks) : checks[i].fails}
    IN  CASE failed # {} ->
                checks[CHOOSE i \in failed : \A j \in failed : i <= j].code
          [] failed = {} /\ ~ParamsMatch(q, supplied) -> "PARAMETER_MISMATCH"
          [] OTHER -> "ok"

\* _apply_limit: the LIMIT of the statement that runs.
SafeLimit(q) ==
    IF q.limitKind = "none" \/ q.limit > MaxRows THEN MaxRows ELSE q.limit

\* _plan_in_session: cost is judged before rows.
PlanVerdict(cost, rows) ==
    CASE cost > MaxPlanCost -> "COST_EXCEEDED"
      [] cost <= MaxPlanCost /\ rows > MaxPlanRows -> "ROWS_EXCEEDED"
      [] OTHER -> "ok"

\* Encoded size of the first n rows: brackets, and ", " between rows.
EncodedSize(sizes, n) ==
    LET total[k \in 0 .. n] ==
            IF k = 0 THEN 2
            ELSE total[k - 1] + sizes[k] + (IF k > 1 THEN 2 ELSE 0)
    IN  total[n]

\* _stream_in_session: rows are taken one by one; the first row over the row
\* cap or over the byte cap refuses the whole result.
StreamVerdict(sizes) ==
    LET over == {n \in 1 .. Len(sizes) :
                    n > MaxRows \/ EncodedSize(sizes, n) > MaxResultBytes}
        first == CHOOSE n \in over : \A m \in over : n <= m
    IN  CASE over = {} -> "ok"
          [] over # {} /\ first > MaxRows -> "ROWS_EXCEEDED"
          [] OTHER -> "RESULT_TOO_LARGE"

\* _classify_database_error and _sqlstate: code and retryability of what the
\* driver raised while planning or executing.
Classify(failure, phase) ==
    CASE failure \in {"timeout", "statement_cancelled"} -> <<"TIMEOUT", TRUE>>
      [] failure = "connection" -> <<"CONNECTION_ERROR", TRUE>>
      [] failure = "transient" -> <<"TRANSIENT_DATABASE_ERROR", TRUE>>
      [] failure = "permission" -> <<"PERMISSION_DENIED", FALSE>>
      [] failure = "parameter" -> <<"PARAMETER_INVALID", FALSE>>
      [] failure = "relation" -> <<"RELATION_NOT_FOUND", FALSE>>
      [] failure = "other" /\ phase = "plan" -> <<"PLAN_FAILED", FALSE>>
      [] OTHER -> <<"DATABASE_ERROR", FALSE>>
=============================================================================
