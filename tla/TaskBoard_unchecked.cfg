CONSTANTS
    Agents = {a1, a2}
    Tasks = {t1}
    Requests = {q1}
    Nobody = Nobody
    Rejected = Rejected
    Keep = Keep
    Claimed = Claimed
    Truthy = Truthy
    Drafts <- Todos
    Bodies <- SignOffBodies
    WipCap = 1
    TodoCap = 1
    MaxBounce = 1
SPECIFICATION Spec
SYMMETRY Symmetry
PROPERTY
    SignedOffByReviewer
CHECK_DEADLOCK FALSE
