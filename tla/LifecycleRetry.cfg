SPECIFICATION Spec
CONSTANTS
    MaxDisconnects = 0
    MaxFailures = 1
INVARIANTS
    InitTriedAgain
CHECK_DEADLOCK FALSE
