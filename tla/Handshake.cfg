SPECIFICATION FairSpec
CONSTANTS MaxEpoch = 3
INVARIANTS
    ConnectedSidesShareKeys
    BothCanConnect
PROPERTIES
    CaughtUpConnects
CHECK_DEADLOCK FALSE
