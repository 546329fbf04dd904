CONSTANTS
    Reconnects = 3
    RoundTrips = {2, 480}
    MaxOutages = 1
    MaxLosses = 1
SPECIFICATION FairSpec
INVARIANTS
    Comparable
    AcceptedWasServed
PROPERTIES
    TasksEnd
CHECK_DEADLOCK FALSE
