SPECIFICATION FairSweeperSpec
CONSTANTS
    SweptTasks = {t}
    Sweeps = {s}
    Yields = FALSE
    Sla = 1
    Cooldown = 1
    Critical = 2
    Day = 3
    MaxCount = 3
    MaxMoves = 3
    MaxTime = 5
    MaxSweeperRestarts = 1
INVARIANT SweeperTypeOK
PROPERTY EveryReviewIsPaged
CHECK_DEADLOCK FALSE
