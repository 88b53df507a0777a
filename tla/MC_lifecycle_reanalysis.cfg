SPECIFICATION FairSpec
CONSTANTS
    h1 = h1
    h2 = h2
    c1 = c1
    c2 = c2
    Messages = {1, 2}
    Preloaded = {1}
    Handlers <- OneHandler
    Ops = {"profile"}
    Criteria <- TwoCriteria
    Levels <- TwoLevels
    MaxAttempts = 2
    MaxRequests = 2
    MaxFaults = 0
    MaxCrashes = 0
CHECK_DEADLOCK FALSE
INVARIANTS ReanalysisIsSafe LastEventIsCurrent
PROPERTY CatchesUpUnlessMissed
