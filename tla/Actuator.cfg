SPECIFICATION FairSpec
CONSTANTS
    Duration = 3
    QueueSize = 2
    MaxTriggers = 4
INVARIANTS
    OnIsTimed
PROPERTIES
    SwitchesOff
    PulseIsFull
