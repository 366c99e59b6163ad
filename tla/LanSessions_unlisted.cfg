SPECIFICATION Spec
CONSTANTS
    s1 = s1
    s2 = s2
    none = none
    Slots = {s1, s2}
    NoSlot = none
    OldPair <- LowPaired
    QueueCap = 1
    Events = {"pair"}
INVARIANTS
    UntrustedSessionEnds
CHECK_DEADLOCK FALSE
