---------------------------- MODULE ModelGateway ----------------------------
(***************************************************************************)
(* infra/llm/gateway.py with the budget, the profiles and the input policy *)
(* it enforces: a call is checked, sent to the primary model and, when the *)
(* provider fails in a way worth retrying, once more to the fallback.  The *)
(* circuit breaker of a provider is shared by all the calls in flight.     *)
(*                                                                         *)
(* Nothing is awaited between the checks and the dispatch, so one action   *)
(* covers them.  httpx applies its timeout to every phase of an exchange   *)
(* on its own, which is why a dispatched call has two phases.              *)
(***************************************************************************)
EXTENDS Naturals

CONSTANTS Caller,       \* concurrent callers, one CallBudget each per call
          Deadline, TokenBudget, CostBudget, MaxAttempts,
          CircuitHold,  \* how long an open circuit refuses (30 s)
          MaxClock, MaxCalls

ASSUME BudgetAssumption ==
    /\ Deadline \in Nat /\ TokenBudget \in Nat /\ CostBudget \in Nat /\ MaxAttempts \in Nat
    /\ CircuitHold \in Nat /\ MaxClock \in Nat /\ MaxCalls \in Nat

VARIABLES clock,
          circuit,      \* _circuits: failures in a row, and when it opened
          asked,        \* the call of each caller and its budget
          gateway,      \* its profile, the providers with a credential and the
                        \* destinations its model input policy approves
          calls         \* how many calls were made

gatewayVars == <<clock, circuit, asked, gateway, calls>>

Provider == {"deepseek", "nvidia"}
NoTarget == [provider |-> "none", model |-> "none", tier |-> "small", classes |-> {}]
Flash == [provider |-> "deepseek", model |-> "flash", tier |-> "small",
          classes |-> {"public", "internal"}]
Pro == [Flash EXCEPT !.model = "pro", !.tier = "pro"]
Nim == [Flash EXCEPT !.provider = "nvidia", !.model = "nim"]

\* ModelProfile.__post_init__: a pro model only plans, and the fallback neither
\* upgrades the tier nor broadens the data the call may carry.
ValidProfile(p) ==
    /\ "pro" \in {p.primary.tier, p.fallback.tier} => p.stages = {"plan"}
    /\ p.fallback.tier = "pro" => p.primary.tier = "pro"
    /\ p.fallback.classes \subseteq p.primary.classes

\* build_model_gateway's three profiles, and narrower ones a deployment may
\* construct; a profile that fails its own validation cannot exist.
Profiles ==
    {p \in [stages : {{"answer"}, {"plan"}}, primary : {Flash, Pro},
            fallback : {NoTarget, Flash, Nim, [Nim EXCEPT !.classes = {"public"}],
                        [Nim EXCEPT !.classes = {"public", "internal", "confidential"}]}] :
        ValidProfile(p)}

Destination(t) == <<t.provider, t.model>>

\* _profile_targets, from which the bootstrap policy is derived.
Destinations == {Destination(t) : t \in {Flash, Pro, Nim}}

Request ==
    {r \in [stage : {"answer", "plan"}, reason : BOOLEAN, secret : BOOLEAN,
            class : {"public", "internal", "confidential"}] : r.reason => r.stage = "plan"}
AnyRequest == [stage |-> "plan", reason |-> FALSE, secret |-> FALSE, class |-> "public"]
Quiet == [at |-> "idle", request |-> AnyRequest, target |-> NoTarget, started |-> 0,
          sent |-> 0, since |-> 0, timeout |-> 0, phase |-> "none",
          attempts |-> 0, tokens |-> 0, cost |-> 0, outcome |-> "none"]
Closed == [failures |-> 0, openedAt |-> 0]

GatewayInit ==
    /\ clock = 1
    /\ circuit = [p \in Provider |-> Closed]
    /\ asked = [c \in Caller |-> Quiet]
    /\ gateway \in [profile : Profiles, configured : {Provider, {"nvidia"}},
                    approved : {Destinations, {Destination(Flash), <<"nvidia", "flash">>}}]
    /\ calls = 0

Tick ==
    /\ clock < MaxClock
    /\ \A c \in Caller :
        asked[c].at # "idle" => clock < asked[c].since + asked[c].timeout
    /\ clock' = clock + 1
    /\ UNCHANGED <<circuit, asked, gateway, calls>>

\* CallBudget: what is left of the deadline, and the part that is held back.
Reserve == IF Deadline \div 5 > 1 THEN Deadline \div 5 ELSE 1
Remaining(a) ==
    IF clock - a.started < Deadline THEN Deadline - (clock - a.started) ELSE 0
CanCharge(a, tokens, cost) ==
    /\ a.tokens + tokens <= TokenBudget
    /\ a.cost + cost <= CostBudget
EstimatedInput == 1
Price(t) == IF t.tier = "pro" THEN 2 ELSE 1

\* _enforce_target_policy
TargetPermitted(t, r) ==
    /\ r.class \in t.classes
    /\ t.tier = "pro" => r.stage = "plan" /\ r.reason

\* ModelInputPolicy.evaluate: an exact destination, and no deployment secret.
InputPermitted(t, r) == Destination(t) \in gateway.approved /\ ~r.secret

CircuitOpen(k) == k.openedAt # 0 /\ clock - k.openedAt < CircuitHold

\* Mutant: the circuit opens once and is not opened again by a later failure.
FailedOnce(k) ==
    [failures |-> k.failures + 1,
     openedAt |-> IF k.failures + 1 = 3 THEN clock ELSE k.openedAt]

Failed(k) ==
    [failures |-> k.failures + 1,
     openedAt |-> IF k.failures + 1 >= 3 THEN clock ELSE k.openedAt]

\* Mutant: the reserve is only looked at before the first attempt.
DispatchLate(t, a, circuits) ==
    CASE ~InputPermitted(t, a.request) -> "denied"
      [] CircuitOpen(circuits[t.provider]) -> "unavailable"
      [] a.tokens + EstimatedInput >= TokenBudget \/ a.attempts >= MaxAttempts -> "budget"
      [] t.provider \notin gateway.configured -> "missing"
      [] OTHER -> "sent"

\* _invoke_target up to the provider call, in the order of its checks.
Dispatch(t, a, circuits) ==
    CASE ~InputPermitted(t, a.request) -> "denied"
      [] CircuitOpen(circuits[t.provider]) -> "unavailable"
      [] Remaining(a) <= Reserve -> "budget"
      [] a.tokens + EstimatedInput >= TokenBudget \/ a.attempts >= MaxAttempts -> "budget"
      [] t.provider \notin gateway.configured -> "missing"
      [] OTHER -> "sent"

\* What is left of a call that is over: how it ended and what was charged.
Ended(a, outcome) ==
    [Quiet EXCEPT !.tokens = a.tokens, !.cost = a.cost, !.outcome = outcome]

\* The result of dispatching: the call is in flight, or it is over.  A provider
\* without a credential fails its circuit like one that does not answer.
Dispatched(c, a, t, role, circuits) ==
    LET d == Dispatch(t, a, circuits)
        began == IF d \in {"sent", "missing"} THEN a.attempts + 1 ELSE a.attempts
    IN /\ asked' = [asked EXCEPT ![c] =
            IF d = "sent"
            THEN [a EXCEPT !.at = role, !.target = t, !.attempts = began, !.phase = "connect",
                           !.sent = clock, !.since = clock, !.timeout = Remaining(a) - Reserve]
            ELSE Ended(a, d)]
       /\ circuit' = IF d = "missing"
                     THEN [circuits EXCEPT ![t.provider] = Failed(@)] ELSE circuits

\* The single fallback of invoke, with the target policy enforced anew.
FallBack(c, a, circuits) ==
    LET t == gateway.profile.fallback
    IN IF TargetPermitted(t, a.request)
       THEN Dispatched(c, a, t, "fallback", circuits)
       ELSE /\ asked' = [asked EXCEPT ![c] = Ended(a, "denied")]
            /\ circuit' = circuits

\* invoke and invoke_structured: policy and budget first, then the primary; an
\* open circuit sends the call straight on to the fallback.
Invoke(c, r) ==
    /\ asked[c].at = "idle" /\ calls < MaxCalls
    /\ calls' = calls + 1
    /\ LET a == [Quiet EXCEPT !.request = r, !.started = clock, !.at = "primary"]
           t == gateway.profile.primary
       IN IF r.stage \notin gateway.profile.stages \/ ~TargetPermitted(t, r)
          THEN /\ asked' = [asked EXCEPT ![c] = Ended(a, "denied")]
               /\ UNCHANGED circuit
          ELSE IF Dispatch(t, a, circuit) = "unavailable" /\ gateway.profile.fallback # NoTarget
          THEN FallBack(c, a, circuit)
          ELSE Dispatched(c, a, t, "primary", circuit)
    /\ UNCHANGED <<clock, gateway>>

Connected(c) ==
    /\ asked[c].at # "idle" /\ asked[c].phase = "connect"
    /\ asked' = [asked EXCEPT ![c].phase = "read", ![c].since = clock]
    /\ UNCHANGED <<clock, circuit, gateway, calls>>

\* A usable completion closes the circuit; the call is charged afterwards, and
\* one that cannot be charged is refused although the provider did the work.
Complete(c, tokens) ==
    LET a == asked[c]
        cost == tokens * Price(a.target)
    IN /\ a.at # "idle" /\ a.phase = "read"
       /\ circuit' = [circuit EXCEPT ![a.target.provider] = Closed]
       /\ \E outcome \in {"receipt", "invalid"} :
            asked' = [asked EXCEPT ![c] =
                IF CanCharge(a, tokens, cost)
                THEN Ended([a EXCEPT !.tokens = @ + tokens, !.cost = @ + cost], outcome)
                ELSE Ended(a, "budget")]
       /\ UNCHANGED <<clock, gateway, calls>>

\* ProviderUnavailable: a timeout, a transport error, a 429 or 5xx, or an
\* unusable body is worth the fallback; another status is not.
Unavailable(c, retryable) ==
    LET a == asked[c]
        failed == [circuit EXCEPT ![a.target.provider] = Failed(@)]
    IN /\ a.at # "idle"
       /\ IF a.at = "primary" /\ retryable /\ gateway.profile.fallback # NoTarget
          THEN FallBack(c, a, failed)
          ELSE /\ asked' = [asked EXCEPT ![c] = Ended(a, "unavailable")]
               /\ circuit' = failed
       /\ UNCHANGED <<clock, gateway, calls>>

GatewayNext ==
    \/ Tick
    \/ \E c \in Caller :
        \/ \E r \in Request : Invoke(c, r)
        \/ Connected(c)
        \/ \E tokens \in 1 .. TokenBudget + 1 : Complete(c, tokens)
        \/ \E retryable \in BOOLEAN : Unavailable(c, retryable)

ModelSpec == GatewayInit /\ [][GatewayNext]_gatewayVars

InFlight == {c \in Caller : asked[c].at # "idle"}

\* Whatever is in flight, first try or fallback, was sent to a destination the
\* policy approves, for a stage and a class of data the target itself allows,
\* without a secret, and for data the profile's primary would also have taken.
ModelDispatchPermitted ==
    \A c \in InFlight :
        LET a == asked[c]
        IN /\ InputPermitted(a.target, a.request)
           /\ TargetPermitted(a.target, a.request)
           /\ a.request.stage \in gateway.profile.stages
           /\ a.request.class \in gateway.profile.primary.classes

\* No attempt, the fallback included, is started inside the reserved part of
\* the deadline, no call is charged or retried beyond its budget, and what is
\* sent is permitted.
CallsWithinBudget ==
    /\ ModelDispatchPermitted
    /\ \A c \in Caller :
           LET a == asked[c]
           IN /\ a.attempts <= MaxAttempts /\ a.tokens <= TokenBudget /\ a.cost <= CostBudget
              /\ a.at # "idle" => a.sent + Reserve < a.started + Deadline

\* Three failures in a row shut a provider off for the holding time counted
\* from the latest of them, whichever of the concurrent calls saw them.
CircuitShields ==
    [][/\ \A p \in Provider :
            circuit'[p].failures > circuit[p].failures /\ circuit'[p].failures >= 3
                => circuit'[p].openedAt = clock
       /\ \A c \in Caller :
            asked'[c].attempts > asked[c].attempts /\ asked'[c].at # "idle"
                => ~CircuitOpen(circuit[asked'[c].target.provider])]_gatewayVars
=============================================================================
