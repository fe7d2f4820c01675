CONSTANTS
    Defs = {1}
    Passes = {p1}
    NoPass = NoPass
    Periods = {1}
    Forces = {FALSE}
    CatchUp = 2
    MaxTime = 2
    MaxEdits = 1
    MaxGone = 1
    MaxRestarts = 1
SPECIFICATION Spec
INVARIANT
    DeletedStaysDeleted
CHECK_DEADLOCK FALSE
