SPECIFICATION NetworkFairSpec
CONSTANTS
    Rand = {r1}
    SeqModulus = 1
    Numbers = {n1}
    Nonces = {k1}
    Contacts = {}
    Tags = {}
    MaxPending = 2
    MaxFaults = 2
    MaxTotal = 2
INVARIANTS
    
    NobodyLeftOnTheLine
    CallerIsHeard
PROPERTIES
    AckToOkAfterInvite
    CancelledCallEnds
    Registers
