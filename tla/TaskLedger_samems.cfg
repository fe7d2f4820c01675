SPECIFICATION LedgerSpec
CONSTANTS
    Tasks = {a, b, test}
    Hidden = {test}
    RowLimit = 1
    Posts = {p1, p2}
    MaxChanges = 3
    LedgerTime = 2
    MaxFaults = 1
    SameMillisecond = TRUE
INVARIANTS LedgerTypeOK SyncedMeansReceived
CHECK_DEADLOCK FALSE
