SPECIFICATION FairSpec
CONSTANTS
    a = a
    b = b
    x = x
    p = p
    q = q
    c1 = c1
    c2 = c2
    Items = {a, b}
    Kind <- PlainKind
    Peers = {p}
    Conns = {c1}
    PeerOf <- AllToP
    PageSize = 2
    Total = 2
    QueueCap = 1
    CaptureCap = 1
    MaxSeq = 2
    MaxInFlight = 2
    MaxEpoch = 1
    Events = {"drop", "mirror"}
INVARIANTS
    NothingForgotten
    EchoHeld
    CursorSound
PROPERTIES
    CatchUpEnds
    OnlineDelivery
    AnswerEnds
CHECK_DEADLOCK FALSE
