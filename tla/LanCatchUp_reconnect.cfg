SPECIFICATION Spec
CONSTANTS
    a = a
    b = b
    x = x
    p = p
    q = q
    c1 = c1
    c2 = c2
    Items = {a, b}
    Kind <- PlainKind
    Peers = {p}
    Conns = {c1, c2}
    PeerOf <- AllToP
    PageSize = 1
    Total = 2
    QueueCap = 1
    CaptureCap = 1
    MaxSeq = 2
    MaxInFlight = 1
    MaxEpoch = 2
    Events = {"restart", "rebuild", "store"}
SYMMETRY Symmetric
INVARIANTS
    TypeOK
    WatermarkSound
    CursorSound
PROPERTIES
    WatermarkMonotone
    KeepsPromise
CHECK_DEADLOCK FALSE
