---------------------------- MODULE TypedRuntime ----------------------------
(***************************************************************************)
(* orchestration/typed_runtime.py with semantic/policy_evidence.py,        *)
(* semantic/context_compiler.py and the release checks of                  *)
(* orchestration/metric_query.py: a request composes its components over   *)
(* one release, read once, while publishers and rollbacks move the active  *)
(* pointer.  And semantic/retrieval.py, the retrieval of the earlier       *)
(* agents, which joins the pointer once per search.                        *)
(***************************************************************************)
EXTENDS ReleaseStore

CONSTANTS Request,      \* requests in flight
          Metrics(_),   \* metric documents with a contract, by release content
          Relations(_), \* its active relation documents
          Tables(_),    \* the relations of a schema snapshot
          Views,        \* ai_views.yaml: the published views
          Grants,       \* permission sets an identity may have
          Questions     \* a question: the length of the label it names, by metric

VARIABLE req
runtimeVars == <<releases, pointer, seq, snapshots, tx, req>>

-----------------------------------------------------------------------------
(* The relation bindings of a release.                                     *)

\* executable_metric_contracts: active documents with an active, enabled contract.
Executable(c) == {m \in Metrics(c) : m.active /\ m.enabled}

TimeTypes == {"timestamp", "timestamptz"}
KnownPolicies == {"work_order_metric_eligibility_v1"}

\* _build_binding for the source src: exactly one view, one active relation
\* document and one physical relation; the published columns are physical ones,
\* and every metric of the source finds its columns and one time type there.
SourceBinds(c, s, src) ==
    LET mine == {m \in Executable(c) : m.source = src}
    IN  \E view \in Views, doc \in Relations(c), table \in Tables(s) :
          /\ {w \in Views : w.name = src} = {view}
          /\ {d \in Relations(c) : d.name = src} = {doc}
          /\ {t \in Tables(s) : t.name = src} = {table}
          /\ view.columns # {}
          /\ view.columns \subseteq DOMAIN table.types
          /\ \A m \in mine : m.columns \cup {m.time} \subseteq view.columns
          /\ \E t \in TimeTypes : \A m \in mine : table.types[m.time] = t

\* build_relation_bindings and build_eligibility_policies raise nothing and
\* there is something to bind.
Binds(c, s) ==
    /\ Executable(c) # {}
    /\ \A m \in Executable(c) :
          SourceBinds(c, s, m.source) /\ m.policy \in KnownPolicies

\* The relation documents that the bindings of content c give to the source src.
BoundRelations(c, src) ==
    {d \in Relations(c) : d.name = src /\ \E m \in Executable(c) : m.source = src}

\* The identity's permissions cover what the metric requires.
Permitted(m, granted) == "*" \in granted \/ m.permissions \subseteq granted

\* detect_metric_candidates: the metrics with the longest label q names.
Named(ms, q) ==
    {m \in ms : q[m.id] > 0 /\ \A n \in ms : q[n.id] <= q[m.id]}

\* _visible_metric_documents: of the visible metrics those the question names,
\* or all of them when it names none.
Evidence(c, granted, q) ==
    LET visible == {m \in Metrics(c) : m.active /\ Permitted(m, granted)}
    IN  IF Named(visible, q) # {} THEN Named(visible, q) ELSE visible

-----------------------------------------------------------------------------
(* Requests.                                                               *)

NoContext == [release |-> NoRelease, snapshot |-> Nothing, metrics |-> {}, relations |-> {}]
NoQuery == [release |-> NoRelease, snapshot |-> Nothing, metric |-> Nothing, relation |-> Nothing]

\* release is the release read first, whose bindings the request carries.
NewRequest(kind, stage, granted, question, release) ==
    [kind |-> kind, stage |-> stage, granted |-> granted, question |-> question,
     release |-> release, snapshot |-> Nothing, context |-> NoContext,
     query |-> NoQuery, found |-> {}]

NoRequest == NewRequest("none", "idle", {}, Nothing, NoRelease)

RuntimeInit == StoreInit /\ req = [r \in Request |-> NoRequest]

Serving(r, kind, stage) == req[r].kind = kind /\ req[r].stage = stage

\* Of a refused request only the reason is left.
Refuse(r, why) ==
    req' = [req EXCEPT ![r] = NewRequest(req[r].kind, why, {}, Nothing, NoRelease)]

\* The authorization is present, belongs to the run and allows it, or the
\* factory refuses before it reads anything.
Ask(r, granted, question, allowed) ==
    /\ req[r] = NoRequest
    /\ req' = [req EXCEPT ![r] =
                  NewRequest("typed", IF allowed THEN "asked" ELSE "unauthorized",
                             granted, question, NoRelease)]
    /\ UNCHANGED storeVars

\* read_active: one statement joins the pointer and the release; the documents
\* it then reads by id never change.
ReadActive(r) ==
    /\ Serving(r, "typed", "asked")
    /\ IF pointer = NoRelease \/ releases[pointer].state # "active"
       THEN Refuse(r, "no_active_semantic_release")
       ELSE IF releases[pointer].snapshot = Nothing
            THEN Refuse(r, "schema_snapshot_unbound")
            ELSE req' = [req EXCEPT ![r].stage = "read", ![r].release = pointer]
    /\ UNCHANGED storeVars

Content(v) == releases[v].content

\* The snapshot of the release is read, in a transaction of its own, and the
\* components are built over both.
BuildRuntime(r) ==
    LET v == req[r].release
        s == releases[v].snapshot
    IN  /\ Serving(r, "typed", "read")
        /\ IF snapshots[s] # "validated"
           THEN Refuse(r, "schema_snapshot_unavailable")
           ELSE IF ~Binds(Content(v), s)
                THEN Refuse(r, "no_binding")
                ELSE req' = [req EXCEPT ![r].stage = "built", ![r].snapshot = s]
        /\ UNCHANGED storeVars

\* Mutant: the components follow the active pointer.
BoundReadActiveLive(r) == pointer

\* bound_read_active: the release the components of r are given.
BoundReadActive(r) == req[r].release

\* retrieve_permitted and SemanticContextResolver.resolve: the visible metrics
\* with the relations their sources are bound to, as far as they are documents
\* of the release and the context's budget keeps them.
Resolve(r) ==
    LET v == BoundReadActive(r)
        ms == Evidence(Content(v), req[r].granted, req[r].question)
        ds == UNION {BoundRelations(Content(req[r].release), m.source) : m \in ms}
        metrics == {m.id : m \in ms}
        relations == {d.id : d \in ds} \cap {d.id : d \in Relations(Content(v))}
    IN  /\ Serving(r, "typed", "built")
        /\ \E kept \in SUBSET (metrics \cup relations) :
              IF kept = {} \/ releases[v].snapshot = Nothing
              THEN Refuse(r, "semantic_context_unusable")
              ELSE req' = [req EXCEPT
                      ![r].stage = "resolved",
                      ![r].context =
                          [release |-> v, snapshot |-> releases[v].snapshot,
                           metrics |-> kept \cap metrics,
                           relations |-> kept \cap relations]]
        /\ UNCHANGED storeVars

\* _parse_question: the one metric of the context the question names.  It is
\* looked up in the release that Resolve bound to the shared registry, which is
\* the context's.
Propose(r) ==
    LET ctx == req[r].context
        named == Named({m \in Metrics(Content(ctx.release)) :
                           m.active /\ m.id \in ctx.metrics}, req[r].question)
    IN  /\ Serving(r, "typed", "resolved")
        /\ IF Cardinality(named) # 1
           THEN Refuse(r, "metric_selector")
           ELSE \E m \in named :
                   req' = [req EXCEPT ![r].stage = "proposed",
                                      ![r].query = [NoQuery EXCEPT !.metric = m.id]]
        /\ UNCHANGED storeVars

\* MetricQueryCompiler.compile and _compile_source.  admitted stands for the
\* checks on the plan's shape, window, organization scope and indexes; the
\* metric is the release's, the relation one that the bindings map it to and
\* that the context approves.
Compile(r, admitted) ==
    LET v == BoundReadActive(r)
        ctx == req[r].context
        sources ==
            {p \in Executable(Content(v)) \X Relations(Content(req[r].release)) :
                /\ p[1].id = req[r].query.metric
                /\ Permitted(p[1], req[r].granted)
                /\ p[2] \in BoundRelations(Content(req[r].release), p[1].source)
                /\ p[2].id \in ctx.relations \cap {d.id : d \in Relations(Content(v))}}
    IN  /\ Serving(r, "typed", "proposed")
        /\ IF \/ ~admitted
              \/ v # ctx.release
              \/ ctx.snapshot # req[r].snapshot
              \/ releases[v].snapshot # req[r].snapshot
              \/ sources = {}
           THEN Refuse(r, "not_compiled")
           ELSE \E p \in sources :
                   req' = [req EXCEPT
                              ![r].stage = "compiled",
                              ![r].query = [release |-> v, snapshot |-> req[r].snapshot,
                                            metric |-> p[1].id, relation |-> p[2].id]]
        /\ UNCHANGED storeVars

-----------------------------------------------------------------------------
(* retrieve_active_semantic.                                               *)

\* read_active: the release the answer will name.
Retrieve(r) ==
    /\ req[r] = NoRequest
    /\ req' = [req EXCEPT ![r] =
                  NewRequest("legacy", IF pointer = NoRelease THEN "degraded" ELSE "labelled",
                             {}, Nothing, pointer)]
    /\ UNCHANGED storeVars

\* search_lexical joins the pointer again.
SearchLexical(r) ==
    /\ Serving(r, "legacy", "labelled")
    /\ req' = [req EXCEPT ![r].stage = "embedding", ![r].found = {pointer}]
    /\ UNCHANGED storeVars

\* search_vector does so once more, after the embedding provider has answered;
\* if it fails, or must not be asked, the lexical documents are the answer.
SearchVector(r, embedded) ==
    /\ Serving(r, "legacy", "embedding")
    /\ req' = [req EXCEPT ![r].stage = "retrieved",
                          ![r].found = @ \cup (IF embedded THEN {pointer} ELSE {})]
    /\ UNCHANGED storeVars

\* Any other failure: the answer names no release and has no documents.
RetrievalFails(r) ==
    /\ req[r].kind = "legacy" /\ req[r].stage \in {"labelled", "embedding"}
    /\ Refuse(r, "degraded")
    /\ UNCHANGED storeVars

-----------------------------------------------------------------------------
\* The answer, or the refusal, has reached the caller.
Answer(r) ==
    /\ req[r].stage \notin {"idle", "asked", "read", "built", "resolved", "proposed",
                            "labelled", "embedding"}
    /\ req' = [req EXCEPT ![r] = NoRequest]
    /\ UNCHANGED storeVars

RequestNext(r) ==
    \/ \E g \in Grants, q \in Questions, allowed \in BOOLEAN : Ask(r, g, q, allowed)
    \/ ReadActive(r)
    \/ BuildRuntime(r)
    \/ Resolve(r)
    \/ Propose(r)
    \/ \E admitted \in BOOLEAN : Compile(r, admitted)
    \/ Retrieve(r)
    \/ SearchLexical(r)
    \/ \E embedded \in BOOLEAN : SearchVector(r, embedded)
    \/ RetrievalFails(r)
    \/ Answer(r)

RuntimeNext ==
    \/ StoreNext /\ UNCHANGED req
    \/ \E r \in Request : RequestNext(r)

RuntimeSpec == RuntimeInit /\ [][RuntimeNext]_runtimeVars

-----------------------------------------------------------------------------
(* Properties.                                                             *)

\* A query is compiled from one release: the context, the metric contract and
\* the bindings are its, and so is the snapshot, in which the relation the
\* binding names is a table with every column the metric needs.  It stays so
\* however the pointer has moved since the release was read.  And a request
\* whose release is bound to a snapshot finds it validated, though the two are
\* read in different transactions and snapshotters write between.
RequestCoherent ==
    \A r \in Request :
      /\ req[r].stage # "schema_snapshot_unavailable"
      /\ Serving(r, "typed", "compiled") =>
            LET q == req[r].query
                c == Content(q.release)
            IN  /\ q.release = req[r].release
                /\ q.release = req[r].context.release
                /\ q.snapshot = releases[q.release].snapshot
                /\ \E m \in Executable(c), d \in Relations(c), t \in Tables(q.snapshot) :
                      /\ m.id = q.metric /\ d.id = q.relation
                      /\ d.name = m.source /\ t.name = m.source
                      /\ m.columns \cup {m.time} \subseteq DOMAIN t.types
                      /\ Permitted(m, req[r].granted)
=============================================================================
