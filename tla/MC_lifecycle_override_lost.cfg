SPECIFICATION Spec
CONSTANTS
    h1 = h1
    h2 = h2
    c1 = c1
    c2 = c2
    Messages = {1}
    Preloaded = {1}
    Handlers <- TwoHandlers
    Ops = {"level", "profile"}
    Criteria <- TwoCriteria
    Levels <- OneLevel
    MaxAttempts = 1
    MaxRequests = 2
    MaxFaults = 0
    MaxCrashes = 0
CHECK_DEADLOCK FALSE
PROPERTIES OverrideSurvives
