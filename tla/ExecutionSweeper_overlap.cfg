SPECIFICATION SweeperSpec
CONSTANTS
    SweptTasks = {t}
    Sweeps = {s, s2}
    Yields = TRUE
    Sla = 1
    Cooldown = 1
    Critical = 2
    Day = 3
    MaxCount = 3
    MaxMoves = 1
    MaxTime = 3
    MaxSweeperRestarts = 0
INVARIANT OncePerLevel
CHECK_DEADLOCK FALSE
