CONSTANTS
    Agents = {a1, a2}
    Tasks = {t1}
    Requests = {q1}
    Nobody = Nobody
    Rejected = Rejected
    Keep = Keep
    Claimed = Claimed
    Truthy = Truthy
    Drafts <- BoardDrafts
    Bodies <- BoardBodies
    WipCap = 1
    TodoCap = 0
    MaxBounce = 2
SPECIFICATION Spec
SYMMETRY Symmetry
INVARIANTS
    TypeOK
    ApprovalFromReviewer
PROPERTIES
    NoSilentTakeover
    ClosedOnlyWithSignOff
    BounceCounted
CHECK_DEADLOCK FALSE
