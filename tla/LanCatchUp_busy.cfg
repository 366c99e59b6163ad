SPECIFICATION FairSpec
CONSTANTS
    a = a
    b = b
    x = x
    p = p
    q = q
    c1 = c1
    c2 = c2
    Items = {a, b}
    Kind <- PlainKind
    Peers = {p}
    Conns = {c1}
    PeerOf <- AllToP
    PageSize = 1
    Total = 2
    QueueCap = 2
    CaptureCap = 1
    MaxSeq = 2
    MaxInFlight = 2
    MaxEpoch = 1
    Events = {}
PROPERTIES
    CatchUpEnds
CHECK_DEADLOCK FALSE
