SPECIFICATION RoutesFairSpec
CONSTANTS
    c1 = c1
    c2 = c2
    Client <- MCClient
    Requests <- MCRequests
    Wirings = {"none", "static", "factory"}
    Keys = {k1}
    MaxRuns = 2
INVARIANTS
    ThreadInv
    RunExecutesOnce
    RunsAreSeparate
PROPERTY EveryRequestAnswered
\* The bounded thread ends idle once every run id is used.
CHECK_DEADLOCK FALSE
