SPECIFICATION Spec
CONSTANTS
    h1 = h1
    h2 = h2
    c1 = c1
    c2 = c2
    Messages = {1, 2}
    Preloaded = {1}
    Handlers <- OneHandler
    Ops = {"read", "level", "profile"}
    Criteria <- TwoCriteria
    Levels <- TwoLevels
    MaxAttempts = 2
    MaxRequests = 2
    MaxFaults = 1
    MaxCrashes = 1
CHECK_DEADLOCK FALSE
INVARIANTS TypeOK CardsConsistent
PROPERTIES OnlyKnownLeaks LogAgrees
