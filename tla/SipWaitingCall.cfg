SPECIFICATION NetworkSpec
CONSTANTS
    Rand = {r1}
    SeqModulus = 1
    Numbers = {n1}
    Nonces = {k1}
    Contacts = {}
    Tags = {}
    MaxPending = 1
    MaxFaults = 0
    MaxTotal = 2
INVARIANTS
    AllCallersAreHeard
