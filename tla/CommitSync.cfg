SPECIFICATION Spec
CONSTANTS
    Base = 1
    MaxEpoch = 4
    Budget = 3
    PerDatagram = 2
    StreamWindow = 2
    MayMute = TRUE
INVARIANTS
    NoUnappliedCommitDropped
    GroupNeverRefuses
    ReportsInOrder
PROPERTIES
    TruncationIsFatal
    CustodySpec
