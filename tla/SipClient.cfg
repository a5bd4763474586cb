SPECIFICATION Spec
CONSTANTS
    Rand = {r1}
    SeqModulus = 2
    Numbers = {n1}
    Nonces = {}
    Contacts = {c1, c2}
    Tags = {t1}
    MaxPending = 2
SYMMETRY Symmetry
INVARIANTS
    TypeOK
    CancelMatchesInvite
    NoRegisterCredentialsInCall
    RegistrationRenewed
    ReplyAwaitedWithTimeout
PROPERTIES
    AckMatchesInvite
    ImplementsCallProgress
    AnswerAcknowledgedAtAnswerer
