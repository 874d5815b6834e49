SPECIFICATION FairSpec
CONSTANTS
    d1 = d1
    l1 = l1
    w1 = w1
    w2 = w2
    Runs <- TwoRuns
    Docs <- OneDocument
    DocumentOf <- SameDocument
    Loops <- OneLoop
    Workers <- OneWorker
    Unreadable = {2}
    Decisions <- AnyDecision
    MaxAgentSteps = 10
    MaxCrashes = 2
INVARIANTS RejectMarksRunAndDraft
PROPERTIES DecisionIsFinal RunConcludes ImplementsHumanApproval
CHECK_DEADLOCK FALSE
