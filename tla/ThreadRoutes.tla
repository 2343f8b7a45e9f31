---------------------------- MODULE ThreadRoutes ----------------------------
(***************************************************************************)
(* v2.py: the routes that start and resume runs of one owned thread, over  *)
(* the engine of RunEngine.                                                *)
(*                                                                         *)
(* A route awaits between reading the checkpoint, invoking the engine and  *)
(* answering, so every check is about a checkpoint that may have changed   *)
(* when the engine loads it.  The checkpoint key contains the owner: other *)
(* users reach other threads.                                              *)
(***************************************************************************)
EXTENDS RunEngine

CONSTANT Requests(_)  \* what each client asks for: <<kind, mode or action>>

VARIABLES runs,    \* run ids minted so far
          ask,     \* what each client's request asks for
          permitted, \* history: runs submitted or resumed by a request whose
                     \* authorization permits the agent
          reentered  \* history: runs resumed before they had a typed runtime

history == <<permitted, reentered>>
routeVars == <<runs, ask, history>>
allVars == <<engineVars, routeVars>>

RequestedModes == Modes \cup {"auto"}

\* resolve_requested_mode
EffectiveMode(m) == IF m = "auto" THEN "ANALYZE" ELSE m

NoAsk == [kind |-> "none", mode |-> "QUERY", payload |-> NoPayload]

RoutesInit ==
    /\ EngineInit
    /\ runs = 0
    /\ ask = [c \in Client |-> NoAsk]
    /\ permitted = {}
    /\ reentered = {}

\* A request passes the checks its route makes on the latest checkpoint.
\* Its authorization was resolved just before (only a factory deployment
\* looks at it); nothing else happens between the arrival of a request and
\* that read.  A request that fails a check, or repeats one whose result the
\* checkpoint holds, is answered from what was read and changes nothing.
Accept(c, request, stage) ==
    /\ pc' = [pc EXCEPT ![c] = stage]
    /\ ask' = [ask EXCEPT ![c] = request]
    /\ \E g \in IF wiring = "factory" THEN BOOLEAN ELSE {FALSE} :
          grant' = [grant EXCEPT ![c] = g]
    /\ UNCHANGED <<wiring, cp, st, rt, resume, execs, runs, history>>

\* The route answers and the request is over.
Done(c) ==
    /\ pc' = [pc EXCEPT ![c] = "idle"]
    /\ st' = [st EXCEPT ![c] = Blank]
    /\ grant' = [grant EXCEPT ![c] = FALSE]
    /\ rt' = [rt EXCEPT ![c] = FALSE]
    /\ resume' = [resume EXCEPT ![c] = NoPayload]
    /\ ask' = [ask EXCEPT ![c] = NoAsk]
    /\ UNCHANGED <<wiring, cp, execs, runs, history>>

Asks(c, kind, what) == pc[c] = "idle" /\ <<kind, what>> \in Requests(c)

-----------------------------------------------------------------------------
(* POST /queries and /queries/stream.                                      *)

\* Requests that will still mint a run id.
Minting == {c \in Client : pc[c] = "submit"}

\* _validate_mode_switch_lineage: a mode changes only through a switch that
\* names the current run of the thread.
LineageValid(mode, from) ==
    IF cp.run = 0 THEN from = 0
    ELSE IF from = 0 THEN cp.mode = mode
    ELSE cp.mode # mode /\ cp.run = from

Query(c) ==
    /\ runs + Cardinality(Minting) < MaxRuns
    /\ \E m \in RequestedModes, from \in 0 .. runs :
          /\ Asks(c, "query", m)
          /\ LineageValid(EffectiveMode(m), from)
          /\ Accept(c, [NoAsk EXCEPT !.kind = "query", !.mode = EffectiveMode(m)], "submit")

\* The engine is invoked with a new envelope (its run id is fresh).
Submit(c) ==
    /\ pc[c] = "submit"
    /\ runs' = runs + 1
    /\ Start(c, runs + 1, ask[c].mode)
    /\ permitted' = permitted \cup (IF grant[c] THEN {runs + 1} ELSE {})
    /\ UNCHANGED <<ask, reentered>>

\* extract_blocks: response blocks, then the capability outcome, then the
\* pending request, then the last message; and the run it is about.
Blocks(s) ==
    IF s.blocks # 0 THEN <<"blocks", s.blocks>>
    ELSE IF s.capability # 0 THEN <<"suggestion", s.capability>>
    ELSE IF s.pending # 0 THEN <<"clarification", s.run>>
    ELSE <<"text", s.run>>

-----------------------------------------------------------------------------
(* POST /threads/{id}/actions.                                             *)

Payload(kind, k, a, v, exact) ==
    [kind |-> kind, key |-> k, action |-> a, version |-> v, exact |-> exact]

Resuming(kind, p) == [NoAsk EXCEPT !.kind = kind, !.payload = p]

\* Approve or reject the prompted plan, naming the version that was seen,
\* under a key the checkpoint does not know.
Action(c) ==
    /\ cp.hitlStatus = "awaiting_action"
    /\ \E k \in Keys, a \in HitlActions :
          /\ Asks(c, "action", a)
          /\ cp.applied[k] = "none"
          /\ Accept(c, Resuming("action", Payload("legacy", k, a, cp.hitlVersion, TRUE)),
                    "resume")

\* A typed decision on the pending clarification, under a new key.  The route
\* dumps the whole decision model into the payload, schema_version included.
Decision(c) ==
    /\ Awaiting(cp)
    /\ \E k \in Keys, a \in DecisionActions :
          /\ Asks(c, "decision", a)
          /\ cp.ledger[k] = NoEntry
          /\ Accept(c, Resuming("decision", Payload("typed", k, a, cp.pending, FALSE)),
                    "resume")

\* An embedding caller answers the clarification it sees by resuming the
\* compiled graph itself, with exactly the keys decision_node accepts.
EngineResume(c) ==
    /\ Awaiting(cp)
    /\ \E k \in Keys, a \in DecisionActions :
          /\ Asks(c, "embedded", a)
          /\ Accept(c, Resuming("embedded", Payload("typed", k, a, cp.pending, TRUE)), "resume")

\* The engine is resumed from whatever the latest checkpoint is by now.
Resume(c) ==
    /\ pc[c] = "resume"
    /\ Continue(c, ask[c].payload)
    /\ permitted' = permitted \cup (IF grant[c] THEN {cp.run} ELSE {})
    /\ reentered' = reentered \cup
                       (IF cp.next \in {"receive", "typed_runtime"} THEN {cp.run} ELSE {})
    /\ UNCHANGED <<runs, ask>>

\* A decision is acknowledged when the returned ledger holds it, else it is a
\* conflict.
Acknowledged(c) == st[c].ledger[ask[c].payload.key] = Entry(ask[c].payload)

\* The engine returned and the route answers: a query with Blocks, an action
\* with the status of the returned state, whoever caused it, a decision with its
\* record; an embedding caller has the state itself.
Answer(c) ==
    /\ pc[c] = "returned"
    /\ Done(c)

\* An exception from the engine is a server error.
ServerError(c) ==
    /\ pc[c] = "failed"
    /\ Done(c)

\* What happens to a request once it has arrived.
Serve(c) ==
    \/ Submit(c) \/ Resume(c) \/ Answer(c) \/ ServerError(c)
    \/ Step(c) /\ UNCHANGED routeVars

RoutesNext ==
    \E c \in Client :
        Query(c) \/ Action(c) \/ Decision(c) \/ EngineResume(c) \/ Serve(c)

RoutesSpec == RoutesInit /\ [][RoutesNext]_allVars

\* Every coroutine the event loop can run is run; every await in a node is
\* bounded by a deadline.
RoutesFairSpec == RoutesSpec /\ \A c \in Client : WF_allVars(Serve(c))

-----------------------------------------------------------------------------
(* Properties.                                                             *)

\* Type correctness of the channels and of the requests.
StateOK(s) ==
    /\ s.next \in Nodes \cup {"none", "end"}
    /\ s.run \in 0 .. MaxRuns
    /\ s.mode \in Modes
    /\ s.blocks \in 0 .. MaxRuns
    /\ s.capability \in 0 .. MaxRuns
    /\ s.hitlVersion \in 0 .. 2
    /\ s.hitlStatus \in HitlStatuses
    /\ s.decisionStatus \in DecisionStatuses
    /\ s.pending \in {0, s.decisionVersion}

\* The statuses the action route consults say where the graph stands: an
\* approval or a decision is awaited exactly when the thread is suspended at
\* that node.  (While a new run is submitted the old statuses are still
\* there; receive_node clears them.)
PromptMatchesGraph(s) ==
    s.next # "receive" =>
        /\ s.next = "hitl" <=> s.hitlStatus = "awaiting_action"
        /\ s.next = "decision" <=> Awaiting(s)

\* A run in QUERY mode never calls a model, however it is wired, routed or
\* resumed (after_route: "QUERY / Mode1 is a HARD zero-model capability").
QueryZeroModel(s) == s.mode = "QUERY" => ~s.called \/ s.next = "receive"

\* A run that recorded a stop reason is never routed to a node that compiles,
\* executes or calls a model.
StopIsFinal(s) == s.stop => s.next \notin {"compile", "execute", "analysis", "model"}

\* All of them hold of the checkpoint and of every invocation's state, however
\* the nodes of a run interleave with the resumes of other clients.
ThreadInv ==
    \A s \in {cp} \cup {st[c] : c \in Client} :
        StateOK(s) /\ PromptMatchesGraph(s) /\ QueryZeroModel(s) /\ StopIsFinal(s)

\* With a typed-runtime factory the executor runs at most once for a run,
\* although a resume that was checked against an older checkpoint continues
\* the graph of a run in flight: the fresh scope of that invocation has no
\* runtime.  Only a resume that slips in before typed_runtime has run can
\* execute the run again.
RunExecutesOnce ==
    wiring = "factory" => \A r \in Runs \ reentered : execs[r] <= 1

\* The query request c is about to be answered with this kind of response.
Answering(c, kind) ==
    pc[c] = "returned" /\ ask[c].kind = "query" /\ Blocks(st[c])[1] = kind

\* Neither permission nor answers migrate from one run of the thread to the next:
\* with a factory a run executes only if a request made for that very run was
\* permitted, and the response blocks a query is answered with are of its run.
RunsAreSeparate ==
    /\ wiring = "factory" => \A r \in Runs : execs[r] > 0 => r \in permitted
    /\ \A c \in Client : Answering(c, "blocks") => Blocks(st[c])[2] = st[c].run

\* Every request is answered: no payload makes the graph prompt itself.
EveryRequestAnswered == \A c \in Client : pc[c] # "idle" ~> pc[c] = "idle"

\* A typed decision that passes the checks of the route is recorded, when no
\* other request interferes.
AcceptedDecisionIsRecorded ==
    \A c \in Client : pc[c] = "returned" /\ ask[c].kind = "decision" => Acknowledged(c)
=============================================================================
