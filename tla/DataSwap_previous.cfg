SPECIFICATION Spec
CONSTANTS
    d1 = d1
    d2 = d2
    Dirs = {d1, d2}
    Home = d1
    MaxRow = 2
    MaxMishaps = 2
    MaxEpoch = 4
    MaxOps = 2
    Ops <- Imports
PROPERTIES
    EveryFailureRestores
CHECK_DEADLOCK FALSE
