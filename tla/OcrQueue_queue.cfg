SPECIFICATION Spec
CONSTANTS
    i1 = i1
    i2 = i2
    h1 = h1
    h2 = h2
    Nobody = Nobody
    Images = {i1}
    Holders = {h1}
    MaxTries = 2
INVARIANTS
    TypeOK
    Quiet
    NotCharged
    NoLostWake
    NoLostNotice
PROPERTIES
    SuspensionHolds
