SPECIFICATION Spec
CONSTANTS
    d1 = d1
    l1 = l1
    w1 = w1
    w2 = w2
    Runs <- ThreeRuns
    Docs <- OneDocument
    DocumentOf <- SameDocument
    Loops <- OneLoop
    Workers <- OneWorker
    Unreadable = {}
    Decisions <- AnyDecision
    MaxAgentSteps = 10
    MaxCrashes = 0
INVARIANTS DocumentFollowsRun ApprovalMatchesOutcome TwoActiveTakeAThird
CHECK_DEADLOCK FALSE
