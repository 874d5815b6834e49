SPECIFICATION Spec
CONSTANTS
    d1 = d1
    l1 = l1
    w1 = w1
    w2 = w2
    Runs <- OneRun
    Docs <- OneDocument
    DocumentOf <- SameDocument
    Loops <- OneLoop
    Workers <- TwoWorkers
    Unreadable = {}
    Decisions <- OnlyApprove
    MaxAgentSteps = 10
    MaxCrashes = 0
INVARIANTS RejectedByHuman
CHECK_DEADLOCK FALSE
