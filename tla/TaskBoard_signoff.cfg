CONSTANTS
    Agents = {a1, a2}
    Tasks = {t1}
    Requests = {q1}
    Nobody = Nobody
    Rejected = Rejected
    Keep = Keep
    Claimed = Claimed
    Truthy = Truthy
    Drafts <- AllDrafts
    Bodies <- SignOffBodies
    WipCap = 1
    TodoCap = 1
    MaxBounce = 1
SPECIFICATION Spec
SYMMETRY Symmetry
INVARIANT
    ApprovalFromReviewer
PROPERTY
    ClosedOnlyWithSignOff
CHECK_DEADLOCK FALSE
