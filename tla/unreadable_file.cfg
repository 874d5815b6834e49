SPECIFICATION FairSpec
CONSTANTS
    d1 = d1
    l1 = l1
    w1 = w1
    w2 = w2
    Runs <- OneRun
    Docs <- OneDocument
    DocumentOf <- SameDocument
    Loops <- OneLoop
    Workers <- OneWorker
    Unreadable = {1}
    Decisions <- AnyDecision
    MaxAgentSteps = 10
    MaxCrashes = 0
PROPERTIES EveryRunConcludes
CHECK_DEADLOCK FALSE
