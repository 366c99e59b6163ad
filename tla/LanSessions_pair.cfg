SPECIFICATION FairSpec
CONSTANTS
    s1 = s1
    s2 = s2
    none = none
    Slots = {s1, s2}
    NoSlot = none
    OldPair <- LowPaired
    QueueCap = 1
    Events = {"pair", "connect", "restart"}
INVARIANTS
    OneSession
PROPERTIES
    Settles
CHECK_DEADLOCK FALSE
