CONSTANTS
    Worker = {w1, w2}
    Stopper = {s1}
    MaxGroups = 1
    PollRounds = 2
    RetryCount = 1
    MaxStops = 1
    MaxCrashes = 1
    MaxFails = 1
    MaxCloses = 0
    MaxReturns = 1
CHECK_DEADLOCK FALSE
SPECIFICATION Spec
SYMMETRY Symmetry
INVARIANTS TypeOK ChainAlive OrphanCovered ChainBound
