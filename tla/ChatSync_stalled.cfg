SPECIFICATION FairSpec
CONSTANTS
    Limit = 2
    Window = 1
    MaxTime = 0
    MaxMessages = 1
    MaxRelayed = 2
    MaxRestarts = 0
PROPERTY WalksThroughAll
CHECK_DEADLOCK FALSE
