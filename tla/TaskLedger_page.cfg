SPECIFICATION FairLedgerSpec
CONSTANTS
    Tasks = {a, b, test}
    Hidden = {test}
    RowLimit = 1
    Posts = {p1, p2}
    MaxChanges = 3
    LedgerTime = 2
    MaxFaults = 1
    SameMillisecond = FALSE
INVARIANTS LedgerTypeOK SyncedMeansReceived
PROPERTY ChangesArrive
CHECK_DEADLOCK FALSE
