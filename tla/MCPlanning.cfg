\* The way from a question to its numbers.
SPECIFICATION MCPlanningSpec
CONSTANTS
    Calendar <- MCCalendar
    LastDay <- MCLastDay
    CarrierDay = 6
    Questions <- MCQuestions
    Replies <- MCReplies
    Contracts <- MCContracts
    Probes <- MCProbes
    MaxDays = 2
    Catalogs <- MCCatalogs
    Queries <- MCQueries
    Contexts <- MCContexts
    Specs <- MCSpecs
    Templates <- MCTemplates
    MaxFetches = 3
    MaxEdits = 2
    Plans <- MCPlans
    Auths <- MCAuths
    Deployments <- MCDeployments
    Facts <- MCFacts
    FirstOfMonth <- MCFirstOfMonth
    MaxRows = 3
    MaxNow = 4
    MaxRelease = 2
INVARIANTS
    PlannedPeriodIsNamed
    PlansAreSound
    AnswersExact
 
\* A question that is answered or refused is over.
CHECK_DEADLOCK FALSE
