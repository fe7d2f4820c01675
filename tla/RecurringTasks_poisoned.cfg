CONSTANTS
    Defs = {1, 2}
    Passes = {p1}
    NoPass = NoPass
    Periods = {1}
    Forces = {FALSE}
    CatchUp = 2
    MaxTime = 2
    MaxEdits = 0
    MaxGone = 0
    MaxRestarts = 0
SPECIFICATION FairSpec
PROPERTY
    CatchesUpDespiteOthers
CHECK_DEADLOCK FALSE
