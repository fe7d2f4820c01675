CONSTANTS
    Defs = {1}
    Passes = {p1}
    NoPass = NoPass
    Periods = {1}
    Forces = {FALSE}
    CatchUp = 2
    MaxTime = 2
    MaxEdits = 0
    MaxGone = 0
    MaxRestarts = 0
SPECIFICATION Spec
PROPERTY
    SkipsOnlyBehindOpen
CHECK_DEADLOCK FALSE
