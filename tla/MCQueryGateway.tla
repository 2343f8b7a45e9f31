--------------------------- MODULE MCQueryGateway ---------------------------
(* The instance of QueryGateway that TLC checks.                           *)
EXTENDS QueryGateway

CONSTANTS t1, t2, t3

AllowedQuery ==
    [text |-> "sql", statements |-> 1, select |-> TRUE, writes |-> FALSE,
     locks |-> FALSE, ctes |-> 1, depth |-> 1, joins |-> {"constrained"},
     functions |-> {"plain"}, params |-> {}, tables |-> {"own"}, scoped |-> TRUE,
     limitKind |-> "literal", limit |-> 1, renders |-> TRUE]

MCTask == {t1, t2, t3}
WriteQuery == [AllowedQuery EXCEPT !.writes = TRUE]

ACall(kind, q) == [kind |-> kind, query |-> q, supplied |-> {}]

\* One task executes good and bad queries while two compete with it for the
\* slot and for the queue place.
MCCalls(p) ==
    CASE p = t1 -> {ACall("execute", AllowedQuery), ACall("execute", WriteQuery)}
      [] p = t2 -> {ACall("preflight", AllowedQuery)}
      [] p = t3 -> {ACall("preflight", WriteQuery), ACall("preflight", AllowedQuery)}
MCEstimates == {<<1, 1>>, <<9, 1>>}
MCResults == {<<3>>, <<9>>}
MCFailures == {"timeout"}
=============================================================================
