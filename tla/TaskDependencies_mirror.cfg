SPECIFICATION Spec
CONSTANTS
    Tasks = {t1, t2}
    None = None
    MaxTime = 2
    MaxWire = 1
    MaxPulls = 1
    MaxOthers = 1
SYMMETRY Symmetry
INVARIANTS TypeOK CirclesComeFromPulls
PROPERTY PullsTakeOnlyNews
CHECK_DEADLOCK FALSE
