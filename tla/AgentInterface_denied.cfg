CONSTANT
    Runs = {r1}
SPECIFICATION Spec
INVARIANT
    DeniedRunFails
CHECK_DEADLOCK FALSE
