--------------------------- MODULE MCThreadRoutes ---------------------------
(* The instances of ThreadRoutes that TLC checks.                          *)
EXTENDS ThreadRoutes

CONSTANTS c1, c2

Ask(kind, whats) == {<<kind, what>> : what \in whats}

\* One client starts runs while the other answers prompts.
MCClient == {c1, c2}
MCRequests(c) ==
    IF c = c1 THEN Ask("query", RequestedModes)
    ELSE Ask("action", HitlActions) \cup Ask("embedded", DecisionActions)
            \cup Ask("decision", {"resolve"})

\* One client alone.
OneClient == {c1}
OneClientRequests(c) == Ask("query", RequestedModes) \cup Ask("decision", DecisionActions)
=============================================================================
