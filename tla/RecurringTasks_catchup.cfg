CONSTANTS
    Defs = {1}
    Passes = {p1, p2}
    NoPass = NoPass
    Periods = {1}
    Forces = {TRUE, FALSE}
    CatchUp = 1
    MaxTime = 2
    MaxEdits = 1
    MaxGone = 1
    MaxRestarts = 1
SPECIFICATION FairSpec
INVARIANTS
    TypeOK
    OneInstancePerSlot
    OnlyForcePilesUp
PROPERTY
    CatchesUp
CHECK_DEADLOCK FALSE
