SPECIFICATION MCExecutionSpec
CONSTANTS
    Step <- MCStep
    Plans <- MCPlans
    Limits <- MCLimits
    Fingerprint = {f1, f2}
    Taxonomy = {e1}
    MaxSameSql = 2
    MaxSameError = 2
    MaxRetries = 1
    MaxHops = 2
    Question = {"q1"}
    MaxRewrite = 2
    MaxRepair = 2
    CorrectAt = 7
    AmbiguousAt = 4
    MemorySize = 1
    MaxHits = 2
    MaxTurns = 3
    MaxCodeRepair = 2
    MaxFetch = 2
INVARIANTS
    ExecutionInv
    RecordValid
    ValidatedPlanFits
    AnswersBacked
    CalculationsBacked
PROPERTY ExecutionsEnd
CHECK_DEADLOCK FALSE
