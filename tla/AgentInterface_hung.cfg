CONSTANT
    Runs = {r1}
SPECIFICATION FairSpec
PROPERTY
    NoRunHangs
CHECK_DEADLOCK FALSE
