SPECIFICATION Spec
CONSTANTS
    d1 = d1
    l1 = l1
    w1 = w1
    w2 = w2
    Runs <- OneRun
    Docs <- OneDocument
    DocumentOf <- SameDocument
    Loops <- OneLoop
    Workers <- TwoWorkers
    Unreadable = {}
    Decisions <- AnyDecision
    MaxAgentSteps = 7
    MaxCrashes = 1
SYMMETRY WorkerSymmetry
INVARIANTS TypeOK HumanControl WaitingIsReviewable AnalysisRunsOnce NoWastedReview
CHECK_DEADLOCK FALSE
