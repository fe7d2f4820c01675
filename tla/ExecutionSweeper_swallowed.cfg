SPECIFICATION FairSweeperSpec
CONSTANTS
    SweptTasks = {t}
    Sweeps = {s}
    Yields = FALSE
    Sla = 1
    Cooldown = 1
    Critical = 2
    Day = 3
    MaxCount = 3
    MaxMoves = 1
    MaxTime = 3
    MaxSweeperRestarts = 0
PROPERTY EscalatedIsSent
CHECK_DEADLOCK FALSE
