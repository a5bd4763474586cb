SPECIFICATION BellFairSpec
CONSTANTS
    Rand = {r1}
    SeqModulus = 1
    Numbers = {n1}
    Nonces = {}
    Contacts = {}
    Tags = {}
    MaxPending = 2
    QueueSize = 1
    MaxPresses = 3
INVARIANTS
    RingIsTimedUnlessOrphaned
PROPERTIES
    RingEnds
