SPECIFICATION Spec
CONSTANTS
    d1 = d1
    l1 = l1
    w1 = w1
    w2 = w2
    Runs <- OneRun
    Docs <- OneDocument
    DocumentOf <- SameDocument
    Loops <- OneLoop
    Workers <- OneWorker
    Unreadable = {}
    Decisions <- AnyDecision
    MaxAgentSteps = 10
    MaxCrashes = 1
INVARIANTS RejectionIsCarriedOut
CHECK_DEADLOCK FALSE
