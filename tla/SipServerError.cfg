SPECIFICATION FairSpec
CONSTANTS
    Rand = {r1}
    SeqModulus = 1
    Numbers = {n1}
    Nonces = {k1}
    Contacts = {}
    Tags = {}
    MaxPending = 2
PROPERTIES
    RestartsAfterServerError
