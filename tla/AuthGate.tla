------------------------------ MODULE AuthGate ------------------------------
(***************************************************************************)
(* core/auth/provider.py and core/auth/dependencies.py: a bearer token is  *)
(* verified against the upstream profile endpoint, the answer is cached    *)
(* for a while, and the permission of the route is demanded.  One token is *)
(* followed while its owner's permission is granted and revoked upstream.  *)
(***************************************************************************)
EXTENDS Naturals

CONSTANTS Call,       \* requests that carry the token
          Ttl,        \* auth_cache_ttl_seconds
          Timeout,    \* auth_verify_timeout_ms, in the same unit
          MaxNow

ASSUME AuthAssumption == Ttl \in Nat /\ Timeout \in Nat /\ MaxNow \in Nat

VARIABLES now,        \* monotonic time
          held,       \* does the user hold the permission upstream?
          lastHeld,   \* history: the last instant at which they did
          cached,     \* _cache of the token: expiry and what was answered
          call,       \* requests
          admitted    \* history: how stale the last admission was

authVars == <<now, held, lastHeld, cached, call, admitted>>

NoEntry == [expire |-> 0, permitted |-> FALSE, present |-> FALSE]
Waiting == [at |-> "idle", route |-> "none", sent |-> 0, answer |-> FALSE]

\* _required_nl2sql_permission: None for a route outside the policy.
Route == {"queries", "stream", "unmapped"}
RequiredPermission(route) == IF route = "unmapped" THEN "none" ELSE "permission"

AuthInit ==
    /\ now = 0 /\ held = TRUE /\ lastHeld = 0
    /\ cached = NoEntry
    /\ call = [c \in Call |-> Waiting]
    /\ admitted = 0

\* A request waits for its answer no longer than the timeout.
Pass ==
    /\ now < MaxNow
    /\ \A c \in Call : call[c].at # "idle" => now < call[c].sent + Timeout
    /\ now' = now + 1
    /\ lastHeld' = IF held THEN now' ELSE lastHeld
    /\ UNCHANGED <<held, cached, call, admitted>>

Regrant ==
    /\ held' = ~held
    /\ lastHeld' = now
    /\ UNCHANGED <<now, cached, call, admitted>>

\* Mutant: an entry is used as long as it is there.
CacheGetForever == IF cached.present THEN cached ELSE NoEntry

\* _cache_get: an expired entry is dropped.
CacheGet == IF cached.present /\ now < cached.expire THEN cached ELSE NoEntry

\* require_nl2sql_permission: an unmapped route is refused, and so is a user
\* without the permission; anybody else is admitted.
Decide(route, permitted) ==
    admitted' = IF RequiredPermission(route) # "none" /\ permitted
                THEN now - lastHeld ELSE admitted

\* verify_token up to its request: a cached user is taken as it is.
Verify(c, route) ==
    /\ call[c].at = "idle"
    /\ cached' = CacheGet
    /\ IF CacheGet.present
       THEN Decide(route, CacheGet.permitted) /\ UNCHANGED call
       ELSE /\ call' = [call EXCEPT ![c] =
                  [at |-> "sent", route |-> route, sent |-> now, answer |-> FALSE]]
            /\ UNCHANGED admitted
    /\ UNCHANGED <<now, held, lastHeld>>

\* The upstream service answers with what holds when it does.
Upstream(c) ==
    /\ call[c].at = "sent"
    /\ call' = [call EXCEPT ![c].at = "answered", ![c].answer = held]
    /\ UNCHANGED <<now, held, lastHeld, cached, admitted>>

\* _map_response_to_user, _cache_set: the entry expires a TTL from now.
Receive(c) ==
    /\ call[c].at = "answered"
    /\ cached' = [expire |-> now + Ttl, permitted |-> call[c].answer, present |-> TRUE]
    /\ Decide(call[c].route, call[c].answer)
    /\ call' = [call EXCEPT ![c] = Waiting]
    /\ UNCHANGED <<now, held, lastHeld>>

\* A timeout, a transport error, an error status or a malformed body: the
\* request is refused and nothing is cached.
Refused(c) ==
    /\ call[c].at \in {"sent", "answered"}
    /\ call' = [call EXCEPT ![c] = Waiting]
    /\ UNCHANGED <<now, held, lastHeld, cached, admitted>>

AuthNext ==
    \/ Pass \/ Regrant
    \/ \E c \in Call :
          \/ \E route \in Route : Verify(c, route)
          \/ Upstream(c) \/ Receive(c) \/ Refused(c)

AuthSpec == AuthInit /\ [][AuthNext]_authVars

\* Nobody is admitted on a permission they lost longer ago than the cache's
\* time to live and one request's timeout together, even when a slow answer
\* overwrites a newer one in the cache.
StalenessBounded == admitted <= Ttl + Timeout
=============================================================================
