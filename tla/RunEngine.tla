----------------------------- MODULE RunEngine -----------------------------
(***************************************************************************)
(* orchestration/engine.py: the run graph create_v2_engine builds, over    *)
(* the checkpoint of one thread.                                           *)
(*                                                                         *)
(* An invocation (ainvoke) loads the latest checkpoint and then works on   *)
(* its own copy: one node per superstep, each saving the whole state.      *)
(* Nothing locks a thread, so invocations interleave and the last save     *)
(* wins.  A node is one action: what it reads is its own copy, so only the *)
(* order of the saves and of the effects matters.                          *)
(***************************************************************************)
EXTENDS Naturals, FiniteSets

CONSTANTS Client,     \* requests in flight at once, each runs one invocation
          Wirings,    \* deployments to consider, a subset of WiringKinds
          Keys,       \* idempotency keys
          MaxRuns     \* bound on the number of runs of the thread

\* How create_v2_engine is given its typed pipeline: not at all, by static
\* collaborators, or by a factory that is resolved once per invocation.
WiringKinds == {"none", "static", "factory"}

ASSUME EngineAssumption ==
    /\ Wirings \subseteq WiringKinds
    /\ MaxRuns \in Nat

VARIABLES wiring,   \* the deployment's wiring, fixed
          cp,       \* the thread's latest checkpoint
          pc,       \* stage of each client's request
          st,       \* the state an invocation works on
          grant,    \* the request's authorization context permits the agent
          rt,       \* the invocation's scope holds a typed runtime
          resume,   \* payload of Command(resume) not yet consumed
          execs     \* how often the plan executor ran for each run

engineVars == <<wiring, cp, pc, st, grant, rt, resume, execs>>

Runs == 1 .. MaxRuns
Modes == {"QUERY", "ANALYZE", "BUILD"}
Nodes == {"receive", "typed_runtime", "context", "plan", "validate", "route",
          "compile", "execute", "analysis", "model", "mode_capability", "hitl",
          "decision", "replan"}
\* The actions by what follows from them: modify and cancel are recorded like
\* approve and reject, a cancelled decision like a rejected one.
HitlActions == {"approve", "reject"}
DecisionActions == {"resolve", "choose", "reject"}
HitlStatuses == {"none", "awaiting_action", "approved", "rejected", "failed"}
DecisionStatuses ==
    {"none", "awaiting_decision", "resolved_pending_revalidation", "rejected",
     "choose_recorded_no_continuation", "resolved_pending_current_authorization",
     "revalidation_denied", "continuation_stopped"}

\* No resume payload.
NoPayload == [kind |-> "none", key |-> CHOOSE k \in Keys : TRUE,
              action |-> "reject", version |-> 0, exact |-> TRUE]

\* A ledger entry: the decision recorded under a key, and on which version.
NoEntry == <<"none", 0>>
Entry(p) == <<p.action, p.version>>

\* The channels of V2EngineState that steer control.  run and mode are the
\* run envelope; blocks and capability name the run that produced them (0:
\* none); next is the node the checkpoint would continue at.
Blank == [next |-> "none", run |-> 0, mode |-> "QUERY", stop |-> FALSE,
          grant |-> FALSE, qval |-> "none", route |-> "none",
          called |-> FALSE, blocks |-> 0,
          capPending |-> FALSE, capability |-> 0,
          needsHitl |-> FALSE, hitlVersion |-> 0, hitlStatus |-> "none",
          applied |-> [k \in Keys |-> "none"],
          pending |-> 0, decisionStatus |-> "none", decisionVersion |-> 0,
          ledger |-> [k \in Keys |-> NoEntry]]

EngineInit ==
    /\ wiring \in Wirings
    /\ cp = Blank
    /\ pc = [c \in Client |-> "idle"]
    /\ st = [c \in Client |-> Blank]
    /\ grant = [c \in Client |-> FALSE]
    /\ rt = [c \in Client |-> FALSE]
    /\ resume = [c \in Client |-> NoPayload]
    /\ execs = [r \in Runs |-> 0]

Typed == wiring # "none"

-----------------------------------------------------------------------------
(* Invocations.                                                            *)

\* Mutant: the typed runtime outlives the invocation that resolved it.
InvokeSharedScope(c, s, payload) ==
    /\ pc' = [pc EXCEPT ![c] = "running"]
    /\ st' = [st EXCEPT ![c] = s]
    /\ cp' = s
    /\ resume' = [resume EXCEPT ![c] = payload]
    /\ rt' = [rt EXCEPT ![c] = \E d \in Client : rt[d]]
    /\ UNCHANGED <<wiring, grant, execs>>

\* _RequestScopedTypedEngine.ainvoke: every invocation starts with a fresh
\* scope cell.  The graph continues from the state s.
Invoke(c, s, payload) ==
    /\ pc' = [pc EXCEPT ![c] = "running"]
    /\ st' = [st EXCEPT ![c] = s]
    /\ cp' = s
    /\ resume' = [resume EXCEPT ![c] = payload]
    /\ rt' = [rt EXCEPT ![c] = FALSE]
    /\ UNCHANGED <<wiring, grant, execs>>

\* ainvoke with new input: the envelope is written over the thread's latest
\* state and the graph restarts; receive has not run yet.
Start(c, run, mode) ==
    Invoke(c, [cp EXCEPT !.next = "receive", !.run = run, !.mode = mode], NoPayload)

\* ainvoke(Command(resume)): the graph continues wherever the latest
\* checkpoint stands, interrupted there or not.
Continue(c, payload) == Invoke(c, cp, payload)

At(c, node) == pc[c] = "running" /\ st[c].next = node

\* The superstep ends: the state is saved as the thread's latest checkpoint.
Save(c, s) ==
    /\ st' = [st EXCEPT ![c] = s]
    /\ cp' = s
    /\ UNCHANGED <<wiring, pc, grant>>

\* An exception leaves the graph: the request fails, nothing is saved.
Raise(c) ==
    /\ pc' = [pc EXCEPT ![c] = "failed"]
    /\ UNCHANGED <<wiring, cp, st, grant, rt, resume>>

\* _request_runtime: the collaborators exist for this invocation.
Collaborators(c) == wiring = "factory" => rt[c]

-----------------------------------------------------------------------------
(* The conditional edges.                                                  *)

StopOr(s, node) == IF s.stop THEN "end" ELSE node

AfterPlan(s) ==
    IF s.capPending THEN "mode_capability"
    ELSE IF s.mode = "BUILD" /\ s.blocks # 0 THEN "end"
    ELSE StopOr(s, "validate")

Awaiting(s) == s.decisionStatus = "awaiting_decision" /\ s.pending # 0

AfterValidation(s) ==
    IF s.stop THEN "end" ELSE IF Awaiting(s) THEN "decision" ELSE "route"

AfterDecision(s) ==
    IF s.decisionStatus = "resolved_pending_revalidation" THEN "replan" ELSE "end"

AfterReplan(s) == IF Awaiting(s) THEN "decision" ELSE "end"

AfterRoute(s) ==
    IF s.stop THEN "end"
    ELSE IF s.mode = "QUERY" THEN IF Typed THEN "compile" ELSE "mode_capability"
    ELSE IF Typed /\ (s.mode = "ANALYZE" \/ s.route = "fast") THEN "compile"
    ELSE "model"

\* Mutant: a stopped execution is interpreted all the same.
AfterExecuteIgnoresStop(s) == IF s.mode = "ANALYZE" THEN "analysis" ELSE "end"

AfterExecute(s) == StopOr(s, IF s.mode = "ANALYZE" THEN "analysis" ELSE "end")
AfterModel(s) == IF s.needsHitl THEN "hitl" ELSE "end"

-----------------------------------------------------------------------------
(* The nodes, in the order of the graph.                                   *)

\* What receive_node clears.  The envelope is kept, and so are the channels
\* it does not name: the capability flag and outcome, the approval version
\* and the applied actions of the previous run.
Reset(s) ==
    [Blank EXCEPT !.run = s.run, !.mode = s.mode,
                  !.capPending = s.capPending, !.capability = s.capability,
                  !.hitlVersion = s.hitlVersion, !.applied = s.applied]

\* Mutant: the authorization of the previous run is kept.
ReceiveKeepsAuthority(c) ==
    /\ At(c, "receive")
    /\ Save(c, [Reset(st[c]) EXCEPT
                    !.grant = st[c].grant \/ grant[c],
                    !.next = IF wiring = "factory" THEN "typed_runtime" ELSE "context"])
    /\ UNCHANGED <<rt, resume, execs>>

\* receive_node: the run starts, bound to the authorization its own request
\* resolved.
Receive(c) ==
    /\ At(c, "receive")
    /\ Save(c, [Reset(st[c]) EXCEPT
                    !.grant = grant[c],
                    !.next = IF wiring = "factory" THEN "typed_runtime" ELSE "context"])
    /\ UNCHANGED <<rt, resume, execs>>

\* typed_runtime_node: the factory builds this invocation's runtime from the
\* snapshot bound to the run, or refuses.
TypedRuntime(c) ==
    /\ At(c, "typed_runtime")
    /\ \/ /\ st[c].grant
          /\ rt' = [rt EXCEPT ![c] = TRUE]
          /\ Save(c, [st[c] EXCEPT !.next = "context"])
       \/ /\ UNCHANGED rt
          /\ Save(c, [st[c] EXCEPT !.stop = TRUE, !.next = "end"])
    /\ UNCHANGED <<resume, execs>>

\* context_node: semantic context is compiled, or the run stops.
Context(c) ==
    /\ At(c, "context")
    /\ Collaborators(c)
    /\ \/ Save(c, [st[c] EXCEPT !.next = "plan"])
       \/ Typed /\ Save(c, [st[c] EXCEPT !.stop = TRUE, !.next = "end"])
    /\ UNCHANGED <<rt, resume, execs>>

\* What plan_node may write: a plan; a provider that does not support the
\* request, answered by mode; a failure or a missed deadline.
Proposals(s) ==
    {s, [s EXCEPT !.stop = TRUE],
     CASE s.mode = "BUILD" -> [s EXCEPT !.blocks = s.run]
       [] s.mode = "QUERY" -> [s EXCEPT !.capPending = TRUE]
       [] OTHER -> [s EXCEPT !.stop = TRUE]}

PlanNode(c) ==
    /\ At(c, "plan")
    /\ Collaborators(c)
    /\ \E s \in IF Typed THEN Proposals(st[c]) ELSE {st[c]} :
          Save(c, [s EXCEPT !.next = AfterPlan(s)])
    /\ UNCHANGED <<rt, resume, execs>>

\* A clarification request is opened with the next version.
Clarify(s) ==
    [s EXCEPT !.pending = s.decisionVersion + 1,
              !.decisionVersion = s.decisionVersion + 1,
              !.decisionStatus = "awaiting_decision", !.needsHitl = FALSE]

\* What validate_node may write: the plan is allowed; it needs a bounded
\* clarification; it is denied, or no bounded clarification or no verdict
\* could be formed.
Validations(s) ==
    {[s EXCEPT !.qval = "allow"],
     Clarify([s EXCEPT !.qval = "clarify"]),
     [s EXCEPT !.qval = "deny", !.stop = TRUE]}

Validate(c) ==
    /\ At(c, "validate")
    /\ \E s \in IF Typed THEN Validations(st[c]) ELSE {st[c]} :
          Save(c, [s EXCEPT !.next = AfterValidation(s)])
    /\ UNCHANGED <<rt, resume, execs>>

\* choose_route: fast is for deterministic plans only.  Which route it is
\* matters to BUILD runs; the others are compiled whatever the route.
RouteChoices(s) ==
    IF s.mode # "BUILD" THEN {"standard"}
    ELSE IF Typed THEN {"fast", "standard", "deep"} ELSE {"standard", "deep"}

\* route_node: governed analysis without a typed pipeline stops here.
Route(c) ==
    /\ At(c, "route")
    /\ \E s \in IF st[c].mode = "ANALYZE" /\ ~Typed
                THEN {[st[c] EXCEPT !.stop = TRUE]}
                ELSE {[st[c] EXCEPT !.route = r] : r \in RouteChoices(st[c])} :
          Save(c, [s EXCEPT !.next = AfterRoute(s)])
    /\ UNCHANGED <<rt, resume, execs>>

\* mode_capability_node: the outcome names this run and QUERY, whatever the
\* mode of the run.
ModeCapability(c) ==
    /\ At(c, "mode_capability")
    /\ Save(c, [st[c] EXCEPT !.capability = st[c].run, !.stop = TRUE,
                             !.needsHitl = FALSE, !.next = "end"])
    /\ UNCHANGED <<rt, resume, execs>>

\* compile_node: PlanCompiler refuses a plan whose validation is no allow;
\* the execution plan is then validated under the route's budget.
Compile(c) ==
    /\ At(c, "compile")
    /\ \/ /\ st[c].qval = "allow"
          /\ Save(c, [st[c] EXCEPT !.next = "execute"])
       \/ Save(c, [st[c] EXCEPT !.stop = TRUE, !.next = "end"])
    /\ UNCHANGED <<rt, resume, execs>>

\* execute_node: the executor runs and the grounded answer becomes the
\* blocks of the run; or the executor stops; or grounding raises.
Execute(c) ==
    /\ At(c, "execute")
    /\ Collaborators(c)
    /\ execs' = [execs EXCEPT ![st[c].run] = @ + 1]
    /\ \/ /\ \E s \in {[st[c] EXCEPT !.blocks = st[c].run], [st[c] EXCEPT !.stop = TRUE]} :
                Save(c, [s EXCEPT !.next = AfterExecute(s)])
          /\ UNCHANGED <<rt, resume>>
       \/ Raise(c)

\* analysis_node: one structured model call over the grounded facts; the
\* blocks are replaced by the interpretation, or dropped when it fails.
Analysis(c) ==
    /\ At(c, "analysis")
    /\ \/ Save(c, [st[c] EXCEPT !.stop = TRUE, !.blocks = 0, !.next = "end"])
       \/ Save(c, [st[c] EXCEPT !.called = TRUE, !.blocks = st[c].run, !.next = "end"])
       \/ Save(c, [st[c] EXCEPT !.called = TRUE, !.stop = TRUE, !.blocks = 0,
                                !.next = "end"])
    /\ UNCHANGED <<rt, resume, execs>>

\* The plan of a deep run waits for the owner: the version always restarts.
Prompt(s) ==
    [s EXCEPT !.called = TRUE, !.needsHitl = TRUE, !.hitlVersion = 1,
              !.hitlStatus = "awaiting_action", !.applied = Blank.applied]

\* model_node: blocked on the fast route; stopped by the budget before the
\* call or by the gateway after it; answered, or suspended for approval.
Model(c) ==
    /\ At(c, "model")
    /\ \E s \in {[st[c] EXCEPT !.stop = TRUE]} \cup
                IF st[c].route = "fast" THEN {}
                ELSE {[st[c] EXCEPT !.called = TRUE],
                      [st[c] EXCEPT !.called = TRUE, !.stop = TRUE]} \cup
                     IF st[c].route = "deep" THEN {Prompt(st[c])} ELSE {} :
          Save(c, [s EXCEPT !.next = AfterModel(s)])
    /\ UNCHANGED <<rt, resume, execs>>

\* A node that asks the invocation's scope for a collaborator it has not:
\* a resumed invocation of a factory deployment never passes typed_runtime.
NoRuntime(c) ==
    /\ \E node \in {"context", "plan", "execute"} : At(c, node)
    /\ ~Collaborators(c)
    /\ Raise(c)
    /\ UNCHANGED execs

-----------------------------------------------------------------------------
(* The two suspensions.  interrupt() returns the payload of the resume, or *)
(* suspends the graph where it stands.                                     *)

Answered(c) == resume[c].kind # "none"

Consume(c) == resume' = [resume EXCEPT ![c] = NoPayload]

\* interrupt() with nothing to resume: the invocation returns its state.
Suspend(c) ==
    /\ At(c, "hitl") \/ At(c, "decision")
    /\ ~Answered(c)
    /\ pc' = [pc EXCEPT ![c] = "returned"]
    /\ UNCHANGED <<wiring, cp, st, grant, rt, resume, execs>>

StatusOf(action) == IF action = "approve" THEN "approved" ELSE "rejected"

\* What hitl_node makes of a payload: a typed decision or a stale version is
\* a failed action that ends the run; a known key repeats its status; else
\* the action is applied and the version advances.
HitlOutcome(s, p) ==
    IF p.kind = "typed" \/ p.version # s.hitlVersion
    THEN [s EXCEPT !.hitlStatus = "failed", !.needsHitl = FALSE]
    ELSE IF s.applied[p.key] # "none"
    THEN [s EXCEPT !.hitlStatus = s.applied[p.key], !.needsHitl = FALSE]
    ELSE [s EXCEPT !.hitlStatus = StatusOf(p.action),
                   !.hitlVersion = s.hitlVersion + 1, !.needsHitl = FALSE,
                   !.applied[p.key] = StatusOf(p.action)]

Hitl(c) ==
    /\ At(c, "hitl")
    /\ Answered(c)
    /\ Save(c, [HitlOutcome(st[c], resume[c]) EXCEPT !.next = "end"])
    /\ Consume(c)
    /\ UNCHANGED <<rt, execs>>

\* _typed_decision_from_payload: only the five payload keys are accepted,
\* and the version must be the pending one.
Readable(s, p) == p.kind = "typed" /\ p.exact /\ p.version = s.pending

DecisionStatus(action) ==
    CASE action = "resolve" -> "resolved_pending_revalidation"
      [] action = "choose" -> "choose_recorded_no_continuation"
      [] action = "reject" -> "rejected"

\* _record_typed_decision: a terminal decision closes the request.
Recorded(s, p) ==
    [s EXCEPT !.decisionStatus = DecisionStatus(p.action),
              !.pending = IF p.action = "reject" THEN 0 ELSE @,
              !.ledger[p.key] = Entry(p), !.needsHitl = FALSE]

\* decision_node records a decision under an unused key.
Decide(c) ==
    /\ At(c, "decision")
    /\ Readable(st[c], resume[c])
    /\ st[c].ledger[resume[c].key] = NoEntry
    /\ LET s == Recorded(st[c], resume[c])
       IN  Save(c, [s EXCEPT !.next = AfterDecision(s)])
    /\ Consume(c)
    /\ UNCHANGED <<rt, execs>>

\* Mutant: the refused payload is read again at once.
PromptAgainForever(c) ==
    /\ At(c, "decision")
    /\ Answered(c)
    /\ ~Readable(st[c], resume[c]) \/ st[c].ledger[resume[c].key] # NoEntry
    /\ UNCHANGED engineVars

\* decision_node prompts again after a payload it cannot read and after one
\* whose key is taken by an earlier request of the run.
PromptAgain(c) ==
    /\ At(c, "decision")
    /\ Answered(c)
    /\ ~Readable(st[c], resume[c]) \/ st[c].ledger[resume[c].key] # NoEntry
    /\ Consume(c)
    /\ UNCHANGED <<wiring, cp, pc, st, grant, rt, execs>>

\* _continuation_stopped.
Stopped(s) == [s EXCEPT !.pending = 0, !.decisionStatus = "continuation_stopped",
                        !.stop = TRUE, !.needsHitl = FALSE]

\* What replan_node may write with static collaborators: not eligible or not
\* replannable; allowed, which still executes nothing; another
\* clarification; denied.
Replans(s) ==
    {Stopped(s),
     [s EXCEPT !.pending = 0, !.needsHitl = FALSE,
               !.decisionStatus = "resolved_pending_current_authorization"],
     Clarify(s),
     [s EXCEPT !.pending = 0, !.decisionStatus = "revalidation_denied", !.stop = TRUE]}

\* With a factory a resumed invocation has no runtime to take the provider
\* from: replan_node stops before asking for it, or raises.
Replan(c) ==
    /\ At(c, "replan")
    /\ \/ /\ \E s \in IF wiring = "factory" THEN {Stopped(st[c])} ELSE Replans(st[c]) :
                Save(c, [s EXCEPT !.next = AfterReplan(s)])
          /\ UNCHANGED <<rt, resume>>
       \/ /\ wiring = "factory"
          /\ Raise(c)
    /\ UNCHANGED execs

\* The graph has no node left: ainvoke returns the state.
Finish(c) ==
    /\ At(c, "end")
    /\ pc' = [pc EXCEPT ![c] = "returned"]
    /\ UNCHANGED <<wiring, cp, st, grant, rt, resume, execs>>

Step(c) ==
    \/ Receive(c) \/ TypedRuntime(c) \/ Context(c) \/ PlanNode(c)
    \/ Validate(c) \/ Route(c) \/ ModeCapability(c) \/ Compile(c)
    \/ Execute(c) \/ Analysis(c) \/ Model(c) \/ NoRuntime(c)
    \/ Suspend(c) \/ Hitl(c) \/ Decide(c) \/ PromptAgain(c) \/ Replan(c)
    \/ Finish(c)
=============================================================================
