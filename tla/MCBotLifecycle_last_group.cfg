CONSTANTS
    Worker = {w1}
    Stopper = {s1}
    MaxGroups = 2
    PollRounds = 1
    RetryCount = 1
    MaxStops = 2
    MaxCrashes = 0
    MaxFails = 0
    MaxCloses = 0
    MaxReturns = 0
CHECK_DEADLOCK FALSE
SPECIFICATION Spec
PROPERTY StopsTheLastGroup
