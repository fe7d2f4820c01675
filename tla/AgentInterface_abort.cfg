CONSTANT
    Runs = {r1}
SPECIFICATION Spec
PROPERTY
    AbortIsFinal
CHECK_DEADLOCK FALSE
