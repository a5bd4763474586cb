SPECIFICATION BellSpec
CONSTANTS
    Rand = {r1}
    SeqModulus = 1
    Numbers = {n1}
    Nonces = {k1}
    Contacts = {}
    Tags = {}
    MaxPending = 2
    QueueSize = 2
    MaxPresses = 2
INVARIANTS
    RingIsTimed
