SPECIFICATION FairSpec
CONSTANTS
    Fds = {1, 2}
    Handles = {h1}
    Slots = 2
    MaxWork = 3
    MaxConnections = 2
    MaxEvents = 2
    MaxStarts = 2
INVARIANTS
    ListedUnlessFull
PROPERTIES
    SentInTurn
    Delivered
CHECK_DEADLOCK FALSE
