SPECIFICATION GatewayFairSpec
CONSTANTS
    t1 = t1
    t2 = t2
    t3 = t3
    Task <- MCTask
    Limit = 1
    QueueSize = 1
    MaxRows = 2
    MaxCtes = 1
    MaxDepth = 1
    MaxPlanCost = 5
    MaxPlanRows = 5
    MaxResultBytes = 8
    Calls <- MCCalls
    Estimates <- MCEstimates
    Results <- MCResults
    Failures <- MCFailures
INVARIANTS
    GatewayInv
    
PROPERTY CallsEnd
