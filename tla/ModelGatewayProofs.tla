------------------------- MODULE ModelGatewayProofs -------------------------
(***************************************************************************)
(* The budget and the circuit breaker of the model gateway, for every      *)
(* deadline, budget, holding time and number of concurrent callers.        *)
(***************************************************************************)
EXTENDS ModelGateway, TLAPS

Tiers == {"small", "pro"}
Models == {"none", "flash", "pro", "nim"}
Phases == {"none", "connect", "read"}
Outcomes == {"none", "denied", "unavailable", "budget", "missing", "receipt", "invalid"}
Classes == {"public", "internal", "confidential"}
Targets ==
    {t \in [provider : Provider \cup {"none"}, model : Models, tier : Tiers,
            classes : SUBSET Classes] : t.provider = "none" => t.classes = {}}
ProfileType == [stages : SUBSET {"answer", "plan"}, primary : Targets, fallback : Targets]
CircuitType == [failures : Nat, openedAt : Nat]
CallType ==
    [at : {"idle", "primary", "fallback"}, request : Request, target : Targets,
     started : Nat, sent : Nat, since : Nat, timeout : Nat, phase : Phases,
     attempts : Nat, tokens : Nat, cost : Nat, outcome : Outcomes]

\* What a call that is in flight carries from its checks to its end: the target
\* is a provider, the call was allowed to reach it and may be handed to the
\* profile's fallback, and the attempt was begun outside the reserve.
Permitted(a) ==
    /\ InputPermitted(a.target, a.request)
    /\ TargetPermitted(a.target, a.request)
    /\ a.request.stage \in gateway.profile.stages
    /\ a.request.class \in gateway.profile.primary.classes

CallOK(a) ==
    /\ a.attempts <= MaxAttempts /\ a.tokens <= TokenBudget /\ a.cost <= CostBudget
    /\ a.at # "idle" => /\ a.target.provider \in Provider
                        /\ a.started <= clock
                        /\ a.sent + Reserve < a.started + Deadline
                        /\ Permitted(a)

ModelInv ==
    /\ clock \in Nat /\ clock > 0 /\ calls \in Nat
    /\ gateway.profile \in ProfileType
    /\ circuit \in [Provider -> CircuitType]
    /\ \A p \in Provider : circuit[p].openedAt <= clock
    /\ asked \in [Caller -> CallType]
    /\ \A c \in Caller : CallOK(asked[c])

USE DEF Provider

\* The reserve is a positive number.
LEMMA ReserveType == Reserve \in Nat
BY BudgetAssumption DEF Reserve

\* The three targets and their variants have their type.
LEMMA TargetTypes ==
    /\ NoTarget \in Targets /\ Flash \in Targets /\ Pro \in Targets /\ Nim \in Targets
    /\ \A s \in SUBSET Classes : [Nim EXCEPT !.classes = s] \in Targets
BY DEF NoTarget, Flash, Pro, Nim, Targets, Tiers, Models, Classes

\* A target that takes a request is one of a provider.
LEMMA PermittedProvider ==
    ASSUME NEW t \in Targets, NEW r, TargetPermitted(t, r)
    PROVE  t.provider \in Provider
BY DEF Targets, TargetPermitted

\* A profile that validates has its type.
LEMMA ProfileTypes == Profiles \subseteq ProfileType
<1>1. /\ {NoTarget, Flash, Nim, [Nim EXCEPT !.classes = {"public"}],
          [Nim EXCEPT !.classes = {"public", "internal", "confidential"}]} \subseteq Targets
      /\ {Flash, Pro} \subseteq Targets
      /\ {{"answer"}, {"plan"}} \subseteq SUBSET {"answer", "plan"}
  <2>1. {"public"} \in SUBSET Classes /\ {"public", "internal", "confidential"} \in SUBSET Classes
    BY DEF Classes
  <2> QED BY <2>1, TargetTypes, Zenon
<1> QED BY <1>1 DEF Profiles, ProfileType

\* A call that has not begun satisfies the invariant.
LEMMA QuietOK == Quiet \in CallType /\ CallOK(Quiet) /\ Quiet.at = "idle"
<1>1. AnyRequest \in Request
  BY DEF AnyRequest, Request
<1> QED BY <1>1, TargetTypes, BudgetAssumption DEF Quiet, CallType, CallOK, Phases, Outcomes

\* So does a call that is over, with whatever invoke returned or raised.
LEMMA EndedOK ==
    ASSUME NEW a \in CallType, NEW outcome \in Outcomes,
           a.tokens <= TokenBudget, a.cost <= CostBudget
    PROVE  /\ Ended(a, outcome) \in CallType
           /\ CallOK(Ended(a, outcome))
           /\ Ended(a, outcome).at = "idle" /\ Ended(a, outcome).attempts = 0
<1>1. AnyRequest \in Request
  BY DEF AnyRequest, Request
<1>2. a.tokens \in Nat /\ a.cost \in Nat
  BY DEF CallType
<1>3. /\ Ended(a, outcome).at = "idle" /\ Ended(a, outcome).attempts = 0
      /\ Ended(a, outcome).tokens = a.tokens /\ Ended(a, outcome).cost = a.cost
  BY DEF Ended, Quiet
<1>4. Ended(a, outcome) \in CallType
  BY <1>1, <1>2, TargetTypes DEF Ended, Quiet, CallType, Phases
<1> QED BY <1>3, <1>4, BudgetAssumption DEF CallOK

\* The gateway starts within the invariant.
LEMMA ModelInitially == GatewayInit => ModelInv
<1> SUFFICES ASSUME GatewayInit PROVE ModelInv
  OBVIOUS
<1>1. gateway.profile \in ProfileType
  BY ProfileTypes DEF GatewayInit
<1>2. circuit \in [Provider -> CircuitType] /\ \A p \in Provider : circuit[p].openedAt <= clock
  BY DEF GatewayInit, Closed, CircuitType
<1>3. asked \in [Caller -> CallType] /\ \A c \in Caller : CallOK(asked[c])
  BY QuietOK DEF GatewayInit
<1> QED BY <1>1, <1>2, <1>3 DEF ModelInv, GatewayInit

\* A step that changes one call, and changes it well, preserves all of them.
LEMMA OneCall ==
    ASSUME ModelInv, NEW c \in Caller, NEW b \in CallType, CallOK(b),
           asked' = [asked EXCEPT ![c] = b], gateway' = gateway, clock' = clock
    PROVE  /\ asked' \in [Caller -> CallType]
           /\ \A d \in Caller : CallOK(asked[d])'
<1>1. asked' \in [Caller -> CallType]
  BY DEF ModelInv
<1>2. ASSUME NEW d \in Caller PROVE CallOK(asked[d])'
  <2>1. asked'[d] = b \/ asked'[d] = asked[d]
    BY DEF ModelInv
  <2>2. CallOK(asked[d])
    BY DEF ModelInv
  <2> QED BY <2>1, <2>2 DEF CallOK, Permitted, InputPermitted
<1> QED BY <1>1, <1>2

\* _invoke_target: whatever it answers, the call and the circuits are in order.
LEMMA DispatchedOK ==
    ASSUME ModelInv, NEW c \in Caller, NEW a \in CallType, NEW t \in Targets,
           NEW role \in {"primary", "fallback"},
           NEW circuits \in [Provider -> CircuitType],
           \A p \in Provider : circuits[p].openedAt <= clock,
           TargetPermitted(t, a.request),
           a.request.stage \in gateway.profile.stages,
           a.request.class \in gateway.profile.primary.classes,
           a.tokens <= TokenBudget, a.cost <= CostBudget, a.started <= clock,
           Dispatched(c, a, t, role, circuits), gateway' = gateway, clock' = clock
    PROVE  /\ asked' \in [Caller -> CallType]
           /\ \A d \in Caller : CallOK(asked[d])'
           /\ circuit' \in [Provider -> CircuitType]
           /\ \A p \in Provider : circuit'[p].openedAt <= clock
<1> DEFINE verdict == Dispatch(t, a, circuits)
           began == IF verdict \in {"sent", "missing"} THEN a.attempts + 1 ELSE a.attempts
           out == [a EXCEPT !.at = role, !.target = t, !.attempts = began,
                            !.phase = "connect", !.sent = clock, !.since = clock,
                            !.timeout = Remaining(a) - Reserve]
<1>t. clock \in Nat /\ a.started \in Nat /\ a.attempts \in Nat /\ t.provider \in Provider
  BY PermittedProvider DEF ModelInv, CallType
<1>1. verdict \in Outcomes \cup {"sent"}
  BY DEF Dispatch, Outcomes
<1>2. /\ circuit' \in [Provider -> CircuitType]
      /\ \A p \in Provider : circuit'[p].openedAt <= clock
  <2>1. circuit' = circuits \/ circuit' = [circuits EXCEPT ![t.provider] = Failed(@)]
    BY DEF Dispatched
  <2> QED BY <2>1, <1>t DEF Failed, CircuitType
<1>3. CASE verdict = "sent"
  <2>1. /\ asked' = [asked EXCEPT ![c] = out]
        /\ began = a.attempts + 1
    BY <1>3 DEF Dispatched
  <2>2. /\ InputPermitted(t, a.request)
        /\ Remaining(a) > Reserve
        /\ a.attempts < MaxAttempts
    BY <1>3, <1>t, ReserveType, BudgetAssumption DEF Dispatch, Remaining
  <2>3. /\ clock + Reserve < a.started + Deadline
        /\ Remaining(a) - Reserve \in Nat
    BY <2>2, <1>t, ReserveType, BudgetAssumption DEF Remaining
  <2>4. out \in CallType
    <3>1. /\ role \in {"idle", "primary", "fallback"} /\ "connect" \in Phases
          /\ began \in Nat
      BY <2>1, <1>t DEF Phases
    <3> HIDE DEF began
    <3> QED BY <3>1, <2>3, <1>t DEF CallType
  <2>5. /\ out.at = role /\ out.target = t /\ out.attempts = a.attempts + 1 /\ out.sent = clock
        /\ out.started = a.started /\ out.request = a.request
        /\ out.tokens = a.tokens /\ out.cost = a.cost
    BY <2>1 DEF CallType
  <2>6. CallOK(out)
    BY <2>2, <2>3, <2>5, <1>t, BudgetAssumption DEF CallOK, Permitted
  <2> HIDE DEF out
  <2> QED BY <1>2, <2>1, <2>4, <2>6, OneCall
<1>4. CASE verdict # "sent"
  <2>1. asked' = [asked EXCEPT ![c] = Ended(a, verdict)] /\ verdict \in Outcomes
    BY <1>1, <1>4 DEF Dispatched
  <2>2. Ended(a, verdict) \in CallType /\ CallOK(Ended(a, verdict))
    BY <2>1, EndedOK
  <2> QED BY <1>2, <2>1, <2>2, OneCall
<1> QED BY <1>3, <1>4

\* The fallback of invoke, for a call that its primary was allowed to take.
LEMMA FallBackOK ==
    ASSUME ModelInv, NEW c \in Caller, NEW a \in CallType,
           NEW circuits \in [Provider -> CircuitType],
           \A p \in Provider : circuits[p].openedAt <= clock,
           a.request.stage \in gateway.profile.stages,
           a.request.class \in gateway.profile.primary.classes,
           a.tokens <= TokenBudget, a.cost <= CostBudget, a.started <= clock,
           FallBack(c, a, circuits), gateway' = gateway, clock' = clock
    PROVE  /\ asked' \in [Caller -> CallType]
           /\ \A d \in Caller : CallOK(asked[d])'
           /\ circuit' \in [Provider -> CircuitType]
           /\ \A p \in Provider : circuit'[p].openedAt <= clock
<1>1. gateway.profile.fallback \in Targets
  BY DEF ModelInv, ProfileType
<1>2. CASE TargetPermitted(gateway.profile.fallback, a.request)
  <2>1. Dispatched(c, a, gateway.profile.fallback, "fallback", circuits)
    BY <1>2 DEF FallBack
  <2> QED BY <1>1, <1>2, <2>1, DispatchedOK
<1>3. CASE ~TargetPermitted(gateway.profile.fallback, a.request)
  <2>1. asked' = [asked EXCEPT ![c] = Ended(a, "denied")] /\ circuit' = circuits
    BY <1>3 DEF FallBack
  <2>2. Ended(a, "denied") \in CallType /\ CallOK(Ended(a, "denied"))
    BY EndedOK DEF Outcomes
  <2> QED BY <2>1, <2>2, OneCall
<1> QED BY <1>2, <1>3

\* Every step of the gateway preserves the invariant.
LEMMA ModelStep == ModelInv /\ [GatewayNext]_gatewayVars => ModelInv'
<1> SUFFICES ASSUME ModelInv, [GatewayNext]_gatewayVars PROVE ModelInv'
  OBVIOUS
<1>t. /\ clock \in Nat /\ clock > 0 /\ calls \in Nat /\ gateway.profile \in ProfileType
      /\ circuit \in [Provider -> CircuitType] /\ asked \in [Caller -> CallType]
      /\ \A p \in Provider : circuit[p].openedAt <= clock
      /\ \A c \in Caller : CallOK(asked[c])
  BY DEF ModelInv
<1>1. CASE Tick
  <2>1. /\ clock' = clock + 1
        /\ UNCHANGED <<circuit, asked, gateway, calls>>
    BY <1>1 DEF Tick
  <2>2. ASSUME NEW c \in Caller PROVE CallOK(asked[c])'
    <3>1. CallOK(asked[c]) /\ asked[c].started \in Nat
      BY <1>t DEF CallType
    <3> QED BY <2>1, <3>1, <1>t DEF CallOK, Permitted, InputPermitted
  <2>3. \A p \in Provider : circuit'[p].openedAt <= clock'
    BY <2>1, <1>t DEF CircuitType
  <2> QED BY <2>1, <2>2, <2>3, <1>t DEF ModelInv
<1>2. ASSUME NEW c \in Caller, NEW r \in Request, Invoke(c, r) PROVE ModelInv'
  <2> DEFINE a == [Quiet EXCEPT !.request = r, !.started = clock, !.at = "primary"]
             t == gateway.profile.primary
  <2>1. /\ calls' = calls + 1 /\ clock' = clock /\ gateway' = gateway
    BY <1>2 DEF Invoke
  <2>2. a \in CallType
    BY <1>t, TargetTypes DEF Quiet, CallType, Phases, Outcomes
  <2>3. a.request = r /\ a.started = clock /\ a.tokens = 0 /\ a.cost = 0
    BY DEF Quiet
  <2>4. t \in Targets
    BY <1>t DEF ProfileType
  <2>5. CASE r.stage \notin gateway.profile.stages \/ ~TargetPermitted(t, r)
    <3>1. asked' = [asked EXCEPT ![c] = Ended(a, "denied")] /\ circuit' = circuit
      BY <1>2, <2>5 DEF Invoke
    <3>2. Ended(a, "denied") \in CallType /\ CallOK(Ended(a, "denied"))
      <4> HIDE DEF a
      <4> QED BY <2>2, <2>3, EndedOK, BudgetAssumption DEF Outcomes
    <3> HIDE DEF a
    <3>3. asked' \in [Caller -> CallType] /\ \A d \in Caller : CallOK(asked[d])'
      BY <2>1, <3>1, <3>2, OneCall
    <3> QED BY <2>1, <3>1, <3>3, <1>t DEF ModelInv
  <2>6. CASE ~(r.stage \notin gateway.profile.stages \/ ~TargetPermitted(t, r))
    <3>1. /\ a.request.stage \in gateway.profile.stages
          /\ a.request.class \in gateway.profile.primary.classes
          /\ TargetPermitted(t, a.request)
          /\ a.tokens <= TokenBudget /\ a.cost <= CostBudget /\ a.started <= clock
      BY <2>3, <2>6, <1>t, BudgetAssumption DEF TargetPermitted
    <3>2. FallBack(c, a, circuit) \/ Dispatched(c, a, t, "primary", circuit)
      BY <1>2, <2>6 DEF Invoke
    <3> HIDE DEF a, t
    <3>3. /\ asked' \in [Caller -> CallType]
          /\ \A d \in Caller : CallOK(asked[d])'
          /\ circuit' \in [Provider -> CircuitType]
          /\ \A p \in Provider : circuit'[p].openedAt <= clock
      BY <1>t, <2>1, <2>2, <2>4, <3>1, <3>2, FallBackOK, DispatchedOK
    <3> QED BY <2>1, <3>3, <1>t DEF ModelInv
  <2> QED BY <2>5, <2>6
<1>3. ASSUME NEW c \in Caller, Connected(c) PROVE ModelInv'
  <2> DEFINE b == [asked[c] EXCEPT !.phase = "read", !.since = clock]
  <2>1. /\ asked' = [asked EXCEPT ![c] = b]
        /\ UNCHANGED <<clock, circuit, gateway, calls>>
    BY <1>3, <1>t DEF Connected
  <2>2. asked[c] \in CallType /\ CallOK(asked[c])
    BY <1>t
  <2>3. b \in CallType
    BY <2>2, <1>t DEF CallType, Phases
  <2>4. CallOK(b)
    BY <2>2 DEF CallOK, Permitted, CallType
  <2> HIDE DEF b
  <2>5. asked' \in [Caller -> CallType] /\ \A d \in Caller : CallOK(asked[d])'
    BY <2>1, <2>3, <2>4, OneCall
  <2> QED BY <2>1, <2>5, <1>t DEF ModelInv
<1>4. ASSUME NEW c \in Caller, NEW tokens \in 1 .. TokenBudget + 1, Complete(c, tokens)
      PROVE  ModelInv'
  <2> DEFINE a == asked[c]
             cost == tokens * Price(a.target)
             charged == [a EXCEPT !.tokens = @ + tokens, !.cost = @ + cost]
  <2>1. /\ a.at # "idle"
        /\ circuit' = [circuit EXCEPT ![a.target.provider] = Closed]
        /\ UNCHANGED <<clock, gateway, calls>>
    BY <1>4 DEF Complete
  <2>2. a \in CallType /\ CallOK(a)
    BY <1>t
  <2>3. tokens \in Nat /\ cost \in Nat
    BY BudgetAssumption DEF Price
  <2>4. /\ circuit' \in [Provider -> CircuitType]
        /\ \A p \in Provider : circuit'[p].openedAt <= clock
    <3>1. Closed \in CircuitType /\ Closed.openedAt <= clock
      BY <1>t DEF Closed, CircuitType
    <3> QED BY <2>1, <3>1, <1>t
  <2>5. \E b \in CallType : CallOK(b) /\ asked' = [asked EXCEPT ![c] = b]
    <3>1. PICK outcome \in {"receipt", "invalid"} :
            asked' = [asked EXCEPT ![c] = IF CanCharge(a, tokens, cost)
                                          THEN Ended(charged, outcome) ELSE Ended(a, "budget")]
      BY <1>4 DEF Complete
    <3>2. outcome \in Outcomes /\ "budget" \in Outcomes
      BY DEF Outcomes
    <3>3. CASE CanCharge(a, tokens, cost)
      <4> HIDE DEF cost
      <4>1. charged \in CallType
        <5>1. a.tokens + tokens \in Nat /\ a.cost + cost \in Nat
          BY <2>2, <2>3 DEF CallType
        <5> QED BY <2>2, <5>1 DEF CallType
      <4>2. charged.tokens <= TokenBudget /\ charged.cost <= CostBudget
        BY <2>2, <2>3, <3>3 DEF CanCharge, CallType
      <4> HIDE DEF charged
      <4>3. Ended(charged, outcome) \in CallType /\ CallOK(Ended(charged, outcome))
        BY <3>2, <4>1, <4>2, EndedOK
      <4> QED BY <3>1, <3>3, <4>3
    <3>4. CASE ~CanCharge(a, tokens, cost)
      <4>1. Ended(a, "budget") \in CallType /\ CallOK(Ended(a, "budget"))
        BY <2>2, <3>2, EndedOK DEF CallOK
      <4> QED BY <3>1, <3>4, <4>1
    <3> QED BY <3>3, <3>4
  <2>6. asked' \in [Caller -> CallType] /\ \A d \in Caller : CallOK(asked[d])'
    BY <2>1, <2>5, OneCall
  <2> QED BY <2>1, <2>4, <2>6, <1>t DEF ModelInv
<1>5. ASSUME NEW c \in Caller, NEW retryable \in BOOLEAN, Unavailable(c, retryable)
      PROVE  ModelInv'
  <2> DEFINE a == asked[c]
             failed == [circuit EXCEPT ![a.target.provider] = Failed(@)]
  <2>1. /\ a.at # "idle"
        /\ UNCHANGED <<clock, gateway, calls>>
        /\ \/ FallBack(c, a, failed)
           \/ asked' = [asked EXCEPT ![c] = Ended(a, "unavailable")] /\ circuit' = failed
    BY <1>5 DEF Unavailable
  <2>2. a \in CallType /\ CallOK(a)
    BY <1>t
  <2>3. /\ failed \in [Provider -> CircuitType]
        /\ \A p \in Provider : failed[p].openedAt <= clock
    <3>1. \A k \in CircuitType : Failed(k) \in CircuitType /\
                                 (k.openedAt <= clock => Failed(k).openedAt <= clock)
      BY <1>t DEF Failed, CircuitType
    <3> QED BY <3>1, <1>t
  <2>4. /\ a.request.stage \in gateway.profile.stages
        /\ a.request.class \in gateway.profile.primary.classes
        /\ a.tokens <= TokenBudget /\ a.cost <= CostBudget /\ a.started <= clock
    BY <2>1, <2>2 DEF CallOK, Permitted
  <2>5. Ended(a, "unavailable") \in CallType /\ CallOK(Ended(a, "unavailable"))
    BY <2>2, <2>4, EndedOK DEF Outcomes
  <2> HIDE DEF a, failed
  <2>6. /\ asked' \in [Caller -> CallType]
        /\ \A d \in Caller : CallOK(asked[d])'
        /\ circuit' \in [Provider -> CircuitType]
        /\ \A p \in Provider : circuit'[p].openedAt <= clock
    BY <2>1, <2>2, <2>3, <2>4, <2>5, OneCall, FallBackOK
  <2> QED BY <2>1, <2>6, <1>t DEF ModelInv
<1>6. CASE UNCHANGED gatewayVars
  BY <1>6, <1>t DEF gatewayVars, ModelInv, CallOK, Permitted, InputPermitted
<1> QED BY <1>1, <1>2, <1>3, <1>4, <1>5, <1>6 DEF GatewayNext

\* The invariant of the gateway.
LEMMA ModelInvariant == ModelSpec => []ModelInv
BY ModelInitially, ModelStep, PTL DEF ModelSpec

\* Attempts, tokens and cost of a call stay within its CallBudget, no attempt is
\* begun inside the reserve of its deadline, and whatever is in flight, a
\* fallback included, was permitted where it was sent.
THEOREM BudgetsKept == ModelSpec => []CallsWithinBudget
<1>1. ModelInv => CallsWithinBudget
  BY DEF ModelInv, CallOK, Permitted, CallsWithinBudget, ModelDispatchPermitted, InFlight
<1> QED BY <1>1, ModelInvariant, PTL

-----------------------------------------------------------------------------
(* The circuit breaker.                                                    *)

\* What a step may do to the circuits and to the attempts under way.
Shields ==
    /\ \A p \in Provider :
         circuit'[p].failures > circuit[p].failures /\ circuit'[p].failures >= 3
             => circuit'[p].openedAt = clock
    /\ \A c \in Caller :
         asked'[c].attempts > asked[c].attempts /\ asked'[c].at # "idle"
             => ~CircuitOpen(circuit[asked'[c].target.provider])

\* The circuits a step works with: as they were, or after one more failure.
OneFailure(circuits) ==
    /\ circuits \in [Provider -> CircuitType]
    /\ \A p \in Provider : circuits[p] = circuit[p] \/ circuits[p] = Failed(circuit[p])

\* A failure is counted, and a third one opens the circuit at this moment.
LEMMA FailedCounts ==
    ASSUME NEW k \in CircuitType, clock \in Nat
    PROVE  /\ Failed(k) \in CircuitType
           /\ Failed(k).failures >= 3 => Failed(k).openedAt = clock
BY DEF Failed, CircuitType

\* A circuit that does not refuse after another failure did not refuse before.
LEMMA OpenStaysOpen ==
    ASSUME ModelInv, NEW k \in CircuitType, k.openedAt <= clock, CircuitOpen(k)
    PROVE  CircuitOpen(Failed(k))
<1>1. Failed(k).openedAt = clock \/ Failed(k).openedAt = k.openedAt
  BY DEF Failed
<1>2. clock \in Nat /\ clock > 0 /\ k.openedAt \in Nat
  BY DEF ModelInv, CircuitType
<1> QED BY <1>1, <1>2, BudgetAssumption DEF CircuitOpen

\* The circuits keep their word when a call is over.
LEMMA EndedShields ==
    ASSUME ModelInv, NEW c \in Caller, NEW b \in CallType, b.at = "idle",
           asked' = [asked EXCEPT ![c] = b], OneFailure(circuit')
    PROVE  Shields
<1>1. ASSUME NEW p \in Provider
      PROVE  circuit'[p].failures > circuit[p].failures /\ circuit'[p].failures >= 3
                => circuit'[p].openedAt = clock
  <2>1. circuit[p] \in CircuitType
    BY DEF ModelInv
  <2>2. circuit'[p] = circuit[p] \/ circuit'[p] = Failed(circuit[p])
    BY DEF OneFailure
  <2>3. circuit[p].failures \in Nat
    BY <2>1 DEF CircuitType
  <2>4. Failed(circuit[p]).failures >= 3 => Failed(circuit[p]).openedAt = clock
    BY <2>1, FailedCounts DEF ModelInv
  <2> QED BY <2>2, <2>3, <2>4
<1>2. ASSUME NEW d \in Caller
      PROVE  asked'[d].attempts > asked[d].attempts /\ asked'[d].at # "idle"
                => ~CircuitOpen(circuit[asked'[d].target.provider])
  <2>1. asked \in [Caller -> CallType] /\ asked[d].attempts \in Nat
    BY DEF ModelInv, CallType
  <2>2. asked'[d] = b \/ asked'[d] = asked[d]
    BY <2>1
  <2> QED BY <2>1, <2>2
<1> QED BY <1>1, <1>2 DEF Shields

\* _invoke_target sends nothing to a provider whose circuit is open, although
\* it may look at the circuits after one more failure.
LEMMA DispatchedShields ==
    ASSUME ModelInv, NEW c \in Caller, NEW a \in CallType, NEW t \in Targets,
           TargetPermitted(t, a.request), NEW role \in {"primary", "fallback"},
           NEW circuits, OneFailure(circuits),
           a.tokens <= TokenBudget, a.cost <= CostBudget,
           Dispatched(c, a, t, role, circuits)
    PROVE  Shields
<1> DEFINE verdict == Dispatch(t, a, circuits)
<1>t. /\ t.provider \in Provider /\ asked \in [Caller -> CallType]
      /\ circuit \in [Provider -> CircuitType]
      /\ \A p \in Provider : circuit[p].openedAt <= clock
  BY PermittedProvider DEF ModelInv
<1>1. ASSUME NEW p \in Provider
      PROVE  circuit'[p].failures > circuit[p].failures /\ circuit'[p].failures >= 3
                => circuit'[p].openedAt = clock
  <2>1. circuit[p] \in CircuitType /\ circuits[p] \in CircuitType
    BY <1>t DEF OneFailure
  <2>2. circuits[p] = circuit[p] \/ circuits[p] = Failed(circuit[p])
    BY DEF OneFailure
  <2>3. circuit'[p] = circuits[p] \/ circuit'[p] = Failed(circuits[p])
    BY <1>t DEF Dispatched, OneFailure
  <2>4. circuit[p].failures \in Nat
    BY <2>1 DEF CircuitType
  <2>5. /\ Failed(circuit[p]).failures >= 3 => Failed(circuit[p]).openedAt = clock
        /\ Failed(circuits[p]).failures >= 3 => Failed(circuits[p]).openedAt = clock
    BY <2>1, FailedCounts DEF ModelInv
  <2> QED BY <2>2, <2>3, <2>4, <2>5
<1>2. ASSUME NEW d \in Caller, asked'[d].attempts > asked[d].attempts, asked'[d].at # "idle"
      PROVE  ~CircuitOpen(circuit[asked'[d].target.provider])
  <2>1. asked[d].attempts \in Nat
    BY <1>t DEF CallType
  <2>2. d = c
    BY <1>2, <1>t, <2>1 DEF Dispatched
  <2>3. verdict = "sent" /\ asked'[c].target = t
    <3>1. CASE verdict = "sent"
      BY <1>t, <3>1 DEF Dispatched, CallType
    <3>2. CASE verdict # "sent"
      <4>1. asked'[c] = Ended(a, verdict) /\ verdict \in Outcomes
        BY <1>t, <3>2 DEF Dispatched, Dispatch, Outcomes
      <4>2. Ended(a, verdict).at = "idle"
        BY <4>1, EndedOK
      <4> QED BY <1>2, <2>2, <4>1, <4>2
    <3> QED BY <3>1, <3>2
  <2>4. ~CircuitOpen(circuits[t.provider])
    BY <2>3 DEF Dispatch
  <2>5. circuits[t.provider] = circuit[t.provider] \/ circuits[t.provider] = Failed(circuit[t.provider])
    BY <1>t DEF OneFailure
  <2>6. ~CircuitOpen(circuit[t.provider])
    BY <1>t, <2>4, <2>5, OpenStaysOpen
  <2> QED BY <2>2, <2>3, <2>6
<1> QED BY <1>1, <1>2 DEF Shields

\* The fallback, in the same way.
LEMMA FallBackShields ==
    ASSUME ModelInv, NEW c \in Caller, NEW a \in CallType, NEW circuits, OneFailure(circuits),
           a.tokens <= TokenBudget, a.cost <= CostBudget, FallBack(c, a, circuits)
    PROVE  Shields
<1>1. gateway.profile.fallback \in Targets
  BY DEF ModelInv, ProfileType
<1>2. CASE TargetPermitted(gateway.profile.fallback, a.request)
  <2>1. Dispatched(c, a, gateway.profile.fallback, "fallback", circuits)
    BY <1>2 DEF FallBack
  <2> QED BY <1>1, <1>2, <2>1, DispatchedShields
<1>3. CASE ~TargetPermitted(gateway.profile.fallback, a.request)
  <2>1. asked' = [asked EXCEPT ![c] = Ended(a, "denied")] /\ circuit' = circuits
    BY <1>3 DEF FallBack
  <2>2. Ended(a, "denied") \in CallType /\ Ended(a, "denied").at = "idle"
    BY EndedOK DEF Outcomes
  <2> QED BY <2>1, <2>2, EndedShields
<1> QED BY <1>2, <1>3

\* No step of the gateway breaks the promise of the circuit breaker.
LEMMA ShieldStep == ModelInv /\ [GatewayNext]_gatewayVars => [Shields]_gatewayVars
<1> SUFFICES ASSUME ModelInv, GatewayNext PROVE Shields
  OBVIOUS
<1>t. /\ clock \in Nat /\ gateway.profile \in ProfileType
      /\ circuit \in [Provider -> CircuitType] /\ asked \in [Caller -> CallType]
      /\ \A c \in Caller : CallOK(asked[c]) /\ asked[c].attempts \in Nat
      /\ \A p \in Provider : circuit[p].failures \in Nat
  BY DEF ModelInv, CallType, CircuitType
<1>o. OneFailure(circuit)
  BY <1>t DEF OneFailure
<1>1. CASE Tick
  BY <1>1, <1>t DEF Tick, Shields
<1>2. ASSUME NEW c \in Caller, NEW r \in Request, Invoke(c, r) PROVE Shields
  <2> DEFINE a == [Quiet EXCEPT !.request = r, !.started = clock, !.at = "primary"]
             t == gateway.profile.primary
  <2>1. a \in CallType
    BY <1>t, TargetTypes DEF Quiet, CallType, Phases, Outcomes
  <2>2. a.request = r /\ a.tokens <= TokenBudget /\ a.cost <= CostBudget
    BY BudgetAssumption DEF Quiet
  <2>3. t \in Targets
    BY <1>t DEF ProfileType
  <2>4. \/ asked' = [asked EXCEPT ![c] = Ended(a, "denied")] /\ circuit' = circuit
        \/ FallBack(c, a, circuit)
        \/ TargetPermitted(t, r) /\ Dispatched(c, a, t, "primary", circuit)
    BY <1>2 DEF Invoke
  <2> HIDE DEF a, t
  <2>5. Ended(a, "denied") \in CallType /\ Ended(a, "denied").at = "idle"
    BY <2>1, <2>2, EndedOK DEF Outcomes
  <2> QED BY <1>o, <2>1, <2>2, <2>3, <2>4, <2>5, EndedShields, FallBackShields, DispatchedShields
<1>3. ASSUME NEW c \in Caller, Connected(c) PROVE Shields
  <2>1. circuit' = circuit
    BY <1>3 DEF Connected
  <2>2. ASSUME NEW d \in Caller PROVE asked'[d].attempts = asked[d].attempts
    BY <1>3, <1>t DEF Connected, CallType
  <2> QED BY <1>t, <2>1, <2>2 DEF Shields
<1>4. ASSUME NEW c \in Caller, NEW tokens \in 1 .. TokenBudget + 1, Complete(c, tokens)
      PROVE  Shields
  <2>1. ASSUME NEW p \in Provider
        PROVE  circuit'[p] = circuit[p] \/ circuit'[p].failures = 0
    BY <1>4, <1>t DEF Complete, Closed
  <2>2. ASSUME NEW d \in Caller
        PROVE  asked'[d] = asked[d] \/ asked'[d].at = "idle"
    BY <1>4, <1>t DEF Complete, Ended, Quiet
  <2> QED BY <1>t, <2>1, <2>2 DEF Shields
<1>5. ASSUME NEW c \in Caller, NEW retryable \in BOOLEAN, Unavailable(c, retryable)
      PROVE  Shields
  <2> DEFINE a == asked[c]
             failed == [circuit EXCEPT ![a.target.provider] = Failed(@)]
  <2>1. /\ a.at # "idle"
        /\ \/ FallBack(c, a, failed)
           \/ asked' = [asked EXCEPT ![c] = Ended(a, "unavailable")] /\ circuit' = failed
    BY <1>5 DEF Unavailable
  <2>2. a \in CallType /\ a.tokens <= TokenBudget /\ a.cost <= CostBudget
    BY <1>t DEF CallOK
  <2>3. OneFailure(failed)
    <3>1. \A k \in CircuitType : Failed(k) \in CircuitType
      BY <1>t, FailedCounts
    <3> QED BY <3>1, <1>t DEF OneFailure
  <2>4. Ended(a, "unavailable") \in CallType /\ Ended(a, "unavailable").at = "idle"
    BY <2>2, EndedOK DEF Outcomes
  <2> HIDE DEF a, failed
  <2> QED BY <2>1, <2>2, <2>3, <2>4, EndedShields, FallBackShields
<1> QED BY <1>1, <1>2, <1>3, <1>4, <1>5 DEF GatewayNext

\* Three failures in a row shut a provider off for the holding time counted from
\* the latest of them, whichever calls saw them, and no attempt begins meanwhile.
THEOREM CircuitsShield == ModelSpec => CircuitShields
BY ModelInvariant, ShieldStep, PTL DEF ModelSpec, CircuitShields, Shields
=============================================================================
