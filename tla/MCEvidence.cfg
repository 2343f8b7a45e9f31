\* What an answer rests on.
SPECIFICATION MCEvidenceSpec
CONSTANTS
    Calculation = {"sum", "adhoc"}
    Closable = {"sum"}
    Title = {"t1", "t2"}
    r1 = r1
    r2 = r2
    Request <- MCRequest
    MaxVersion = 2
    Catalogs <- MCCatalogs
    RunArguments <- MCRunArguments
    Stored <- MCStored
    Snapshotters = {a, b}
    MaxRelations = 2
    MaxRuns = 2
    Drafts <- MCDrafts
    Edits <- MCEdits
    Bindings <- MCBindings
    BusinessDates = {0, 1, 2}
    Published <- MCPublished
    Governed = {"m1"}
    AdHoc <- MCAdHoc
    MaxDepth = 5
    MaxNodes = 16
    MaxDay = 2
    Plans <- MCPlans
    Values = {1, 2}
    Receipts <- MCReceipts
    Day <- MCDay
    MaxPoints = 2
    MaxFacts = 3
SYMMETRY MCEvidenceSymmetry
INVARIANTS
    PublicationSound
    DriftIsApproved
    SnapshotsHold
    ResultsAreDated
    AcceptedCalculationsEvaluate
    
PROPERTY VersionsImmutable
\* A snapshotter, a calculation and an answer end.
CHECK_DEADLOCK FALSE
