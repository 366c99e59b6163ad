SPECIFICATION Spec
CONSTANTS
    s1 = s1
    s2 = s2
    none = none
    Slots = {s1, s2}
    NoSlot = none
    OldPair <- BothPaired
    QueueCap = 1
    Events = {"remove", "drop", "stop"}
SYMMETRY Symmetric
INVARIANTS
    WellFormed
    OneSession
    UntrustedSessionEnds
CHECK_DEADLOCK FALSE
