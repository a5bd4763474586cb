SPECIFICATION WebFairSpec
CONSTANTS
    MaxDisconnects = 1
    MaxFailures = 0
    Parts = 2
    MaxUploads = 3
    MaxResets = 2
INVARIANTS
    RunsWholeImage
    NoHandleLeft
    PromisedUntilNext
PROPERTIES
    ReassociatesUnlessReceiving
CHECK_DEADLOCK FALSE
