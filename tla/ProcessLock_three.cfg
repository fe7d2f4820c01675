SPECIFICATION Spec
CONSTANTS
    Pids = {p1, p2, p3}
    NoPid = NoPid
SYMMETRY Symmetry
INVARIANTS TypeOK OneInstance LockNamesServing
