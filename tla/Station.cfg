SPECIFICATION StationFairSpec
CONSTANTS
    MaxDisconnects = 2
    MaxFailures = 1
    Messages = {m1, m2}
    RxBufferSize = 3
    MaxArrivals = 2
INVARIANTS
    RunningMeansOpen
    HandlerSetBeforeStart
    ConnectedBitMeansIp
    ReceivesPerInit
    RunHasWork
PROPERTIES
    IsMailbox
    Settles
    DatagramsAreHandled
CHECK_DEADLOCK FALSE
