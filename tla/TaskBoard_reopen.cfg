CONSTANTS
    Agents = {a1, a2}
    Tasks = {t1}
    Requests = {q1}
    Nobody = Nobody
    Rejected = Rejected
    Keep = Keep
    Claimed = Claimed
    Truthy = Truthy
    Drafts <- Todos
    Bodies <- AllBodies
    WipCap = 1
    TodoCap = 1
    MaxBounce = 3
SPECIFICATION Spec
SYMMETRY Symmetry
PROPERTY
    TerminalNeedsReopen
CHECK_DEADLOCK FALSE
