SPECIFICATION FairSpec
CONSTANTS
    Limit = 2
    Window = 1
    MaxTime = 2
    MaxMessages = 4
    MaxRelayed = 2
    MaxRestarts = 1
INVARIANTS TypeOK NoneSkipped
PROPERTY AllArrive
CHECK_DEADLOCK FALSE
