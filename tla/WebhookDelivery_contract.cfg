CONSTANTS
    Keys = {k1, k2, k3}
    Attempts = {0, 2}
    Concurrency = {1, 2}
    MaxPurges = 1
    MaxCrashes = 1
SPECIFICATION FairSpec
INVARIANTS
    TypeOK
    ActiveCounted
    AttemptsBounded
PROPERTY
    ContractSpec
CHECK_DEADLOCK FALSE
