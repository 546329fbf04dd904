CONSTANTS
    Batch = 2
    Coop = 3
    MaxDatagrams = 3
    MaxResets = 1
SPECIFICATION FairSpec
INVARIANTS
    EachToItsReader
    NoLostWakeup
PROPERTIES
    EveryDatagramIsRead
    ErrorSurfaces
CHECK_DEADLOCK FALSE
