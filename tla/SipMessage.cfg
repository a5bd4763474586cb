SPECIFICATION MessageFairSpec
CONSTANTS
    v1 = v1
    v2 = v2
    Values <- MCValues
    Texts <- MCTexts
    NoText = ""
    Absent = absent
    Self = v2
    Dialled = v2
    KnownContact = ""
    KnownTag = v1
    ListLength = 2
    ExpiresModulus = 32
    DurationModulus = 16
    TxSize = 20
INVARIANTS
    TakenAsSent
    RenewedInTime
    SentFromTheBeginning
    FindsItsWay
    AckNamesTheSender
PROPERTIES
    Ends
CHECK_DEADLOCK FALSE
