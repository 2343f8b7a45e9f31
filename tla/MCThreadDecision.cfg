SPECIFICATION RoutesSpec
CONSTANTS
    c1 = c1
    c2 = c2
    Client <- OneClient
    Requests <- OneClientRequests
    Wirings = {"static", "factory"}
    Keys = {k1, k2}
    MaxRuns = 2
INVARIANT AcceptedDecisionIsRecorded
CHECK_DEADLOCK FALSE
