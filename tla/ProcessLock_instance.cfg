SPECIFICATION FairSpec
CONSTANTS
    Pids = {p1, p2}
    NoPid = NoPid
INVARIANTS TypeOK OneInstance LockNamesServing
PROPERTY StartEnds
