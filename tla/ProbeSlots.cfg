SPECIFICATION ProbeSpec
CONSTANTS
    Turn = {t1, t2}
    Table = {x1, x2, x3}
    Existing = {x1, x2, x3}
    Limit = 4
    QueueSize = 8
    MaxProbes = 3
INVARIANT MissingMeansMissing
CHECK_DEADLOCK FALSE
