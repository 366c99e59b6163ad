SPECIFICATION Spec
CONSTANTS
    a = a
    b = b
    x = x
    p = p
    q = q
    c1 = c1
    c2 = c2
    Items = {a, b, x}
    Kind <- MixedKind
    Peers = {p}
    Conns = {c1}
    PeerOf <- AllToP
    PageSize = 1
    Total = 2
    QueueCap = 1
    CaptureCap = 1
    MaxSeq = 2
    MaxInFlight = 1
    MaxEpoch = 1
    Events = {"drop","read","store","number","delete","age"}
INVARIANTS
    WatermarkSound
CHECK_DEADLOCK FALSE
