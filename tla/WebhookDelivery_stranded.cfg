CONSTANTS
    Keys = {k1, k2}
    Attempts = {1, 2}
    Concurrency = {1, 2}
    MaxPurges = 0
    MaxCrashes = 1
SPECIFICATION FairSpec
PROPERTY
    EveryEventSettles
CHECK_DEADLOCK FALSE
