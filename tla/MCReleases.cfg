SPECIFICATION RuntimeSpec
CONSTANTS
    Nothing = Nothing
    p1 = p1
    p2 = p2
    Session <- MCSession
    Snapshot = {"s1"}
    Candidates <- MCCandidates
    MaxVersion = 2
    Request = {r1}
    Metrics <- MCMetrics
    Relations <- MCRelations
    Tables <- MCTables
    Views <- MCViews
    Grants <- MCGrants
    Questions <- MCQuestions
SYMMETRY MCSymmetry
INVARIANTS
    RequestCoherent
    SomebodyProceeds
PROPERTY ImplementsRegistry
