--------------------------- MODULE AuthGateProofs ---------------------------
(***************************************************************************)
(* A permission outlives its revocation by at most the time to live of the *)
(* cache and one request's timeout, whatever these are and however many    *)
(* requests overlap.                                                       *)
(***************************************************************************)
EXTENDS AuthGate, TLAPS

Places == {"idle", "sent", "answered"}

AuthTypeOK ==
    /\ now \in Nat /\ lastHeld \in Nat /\ admitted \in Nat
    /\ held \in BOOLEAN
    /\ cached \in [expire : Nat, permitted : BOOLEAN, present : BOOLEAN]
    /\ call \in [Call -> [at : Places, route : Route \cup {"none"}, sent : Nat,
                          answer : BOOLEAN]]

\* Where a permission that is being carried around comes from: it was held when
\* upstream answered, hence not before the request was sent, and the entry made
\* of the answer expires a TTL after an instant at most a timeout later.
Provenance ==
    /\ lastHeld <= now
    /\ held => lastHeld = now
    /\ \A c \in Call :
          /\ call[c].at # "idle" => /\ call[c].sent <= now
                                    /\ now <= call[c].sent + Timeout
          /\ call[c].at = "answered" /\ call[c].answer => call[c].sent <= lastHeld
    /\ cached.present /\ cached.permitted => cached.expire <= lastHeld + Timeout + Ttl

AuthInv == AuthTypeOK /\ Provenance /\ StalenessBounded

\* The invariant holds before the first request.
LEMMA AuthInitially == AuthInit => AuthInv
BY AuthAssumption
   DEF AuthInit, AuthInv, AuthTypeOK, Provenance, StalenessBounded, Places, NoEntry, Waiting

\* An admission that rests on a permission held at or after t - Timeout - Ttl.
LEMMA DecideBounded ==
    ASSUME AuthInv, NEW route, NEW permitted \in BOOLEAN, Decide(route, permitted),
           permitted => now <= lastHeld + Timeout + Ttl
    PROVE  admitted' \in Nat /\ admitted' <= Ttl + Timeout
BY AuthAssumption DEF AuthInv, AuthTypeOK, Provenance, StalenessBounded, Decide

\* Every step of the gate and of the world around it preserves the invariant.
LEMMA AuthStep == AuthInv /\ [AuthNext]_authVars => AuthInv'
<1> SUFFICES ASSUME AuthInv, [AuthNext]_authVars PROVE AuthInv'
  OBVIOUS
<1> USE AuthAssumption
<1>1. CASE Pass
  BY <1>1 DEF Pass, AuthInv, AuthTypeOK, Provenance, StalenessBounded
<1>2. CASE Regrant
  BY <1>2 DEF Regrant, AuthInv, AuthTypeOK, Provenance, StalenessBounded
<1>3. ASSUME NEW c \in Call, NEW route \in Route, Verify(c, route)
      PROVE  AuthInv'
  <2>1. /\ cached' = CacheGet
        /\ UNCHANGED <<now, held, lastHeld>>
        /\ call[c].at = "idle"
    BY <1>3 DEF Verify
  <2>2. /\ CacheGet \in [expire : Nat, permitted : BOOLEAN, present : BOOLEAN]
        /\ CacheGet.present => CacheGet = cached /\ now < cached.expire
    BY DEF CacheGet, NoEntry, AuthInv, AuthTypeOK
  <2>3. CASE CacheGet.present
    <3>1. Decide(route, CacheGet.permitted) /\ call' = call
      BY <1>3, <2>3 DEF Verify
    <3>2. CacheGet.permitted => now <= lastHeld + Timeout + Ttl
      BY <2>2, <2>3 DEF AuthInv, AuthTypeOK, Provenance
    <3>3. admitted' \in Nat /\ admitted' <= Ttl + Timeout
      BY <3>1, <3>2, <2>2, DecideBounded
    <3> QED BY <2>1, <2>2, <2>3, <3>1, <3>3
            DEF AuthInv, AuthTypeOK, Provenance, StalenessBounded
  <2>4. CASE ~CacheGet.present
    <3>1. /\ call' = [call EXCEPT ![c] =
                [at |-> "sent", route |-> route, sent |-> now, answer |-> FALSE]]
          /\ admitted' = admitted
      BY <1>3, <2>4 DEF Verify
    <3> QED BY <2>1, <2>2, <2>4, <3>1
            DEF AuthInv, AuthTypeOK, Provenance, StalenessBounded, Places
  <2> QED BY <2>3, <2>4
<1>4. ASSUME NEW c \in Call, Upstream(c)
      PROVE  AuthInv'
  BY <1>4 DEF Upstream, AuthInv, AuthTypeOK, Provenance, StalenessBounded, Places
<1>5. ASSUME NEW c \in Call, Receive(c)
      PROVE  AuthInv'
  <2>1. /\ call[c].at = "answered" /\ call[c].answer \in BOOLEAN /\ call[c].sent \in Nat
        /\ cached' = [expire |-> now + Ttl, permitted |-> call[c].answer, present |-> TRUE]
        /\ Decide(call[c].route, call[c].answer)
        /\ call' = [call EXCEPT ![c] = Waiting]
        /\ UNCHANGED <<now, held, lastHeld>>
    BY <1>5 DEF Receive, AuthInv, AuthTypeOK
  <2>2. call[c].answer => now <= lastHeld + Timeout
    BY <2>1 DEF AuthInv, AuthTypeOK, Provenance
  <2>3. admitted' \in Nat /\ admitted' <= Ttl + Timeout
    <3>1. call[c].answer => now <= lastHeld + Timeout + Ttl
      BY <2>2 DEF AuthInv, AuthTypeOK
    <3> QED BY <2>1, <3>1, DecideBounded
  <2> QED BY <2>1, <2>2, <2>3
          DEF AuthInv, AuthTypeOK, Provenance, StalenessBounded, Places, Waiting
<1>6. ASSUME NEW c \in Call, Refused(c)
      PROVE  AuthInv'
  BY <1>6 DEF Refused, AuthInv, AuthTypeOK, Provenance, StalenessBounded, Places, Waiting
<1>7. CASE UNCHANGED authVars
  BY <1>7 DEF authVars, AuthInv, AuthTypeOK, Provenance, StalenessBounded
<1> QED BY <1>1, <1>2, <1>3, <1>4, <1>5, <1>6, <1>7 DEF AuthNext

\* Nobody is admitted on a permission they lost longer ago than the TTL of
\* _cache and auth_verify_timeout_ms together.
THEOREM StalenessIsBounded == AuthSpec => []StalenessBounded
<1>1. AuthInv => StalenessBounded
  BY DEF AuthInv
<1> QED BY <1>1, AuthInitially, AuthStep, PTL DEF AuthSpec
=============================================================================
