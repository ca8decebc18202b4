CONSTANTS
    Worker = {w1}
    Stopper = {s1}
    MaxGroups = 1
    PollRounds = 1
    RetryCount = 1
    MaxStops = 1
    MaxCrashes = 1
    MaxFails = 1
    MaxCloses = 0
    MaxReturns = 0
CHECK_DEADLOCK FALSE
SPECIFICATION FairSpec
PROPERTIES ChainsEnd BootRecovers
