CONSTANTS
    Worker = {w1, w2}
    Stopper = {s1, s2}
    MaxGroups = 2
    PollRounds = 1
    RetryCount = 1
    MaxStops = 2
    MaxCrashes = 0
    MaxFails = 0
    MaxCloses = 1
    MaxReturns = 0
CHECK_DEADLOCK FALSE
SPECIFICATION Spec
SYMMETRY Symmetry
PROPERTY LifeSpec
