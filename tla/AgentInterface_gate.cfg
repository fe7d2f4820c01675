CONSTANT
    Runs = {r1, r2}
SPECIFICATION FairSpec
INVARIANTS
    TypeOK
    NoUnapprovedAction
    AwaitingIsDecidable
PROPERTIES
    KillSwitchStops
    EveryRunEnds
    GateSpec
CHECK_DEADLOCK FALSE
