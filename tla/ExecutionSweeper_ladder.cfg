SPECIFICATION FairSweeperSpec
CONSTANTS
    SweptTasks = {t}
    Sweeps = {s}
    Yields = TRUE
    Sla = 1
    Cooldown = 1
    Critical = 2
    Day = 3
    MaxCount = 3
    MaxMoves = 3
    MaxTime = 3
    MaxSweeperRestarts = 1
INVARIANT OncePerLevel
PROPERTIES CloseStands ApprovedIsSettled FirstReviewIsPaged
CHECK_DEADLOCK FALSE
