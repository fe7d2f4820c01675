SPECIFICATION Spec
CONSTANTS
    Tasks = {t1, t2}
    None = None
    MaxTime = 1
    MaxWire = 1
    MaxPulls = 1
    MaxOthers = 0
SYMMETRY Symmetry
INVARIANT NoCircles
CHECK_DEADLOCK FALSE
